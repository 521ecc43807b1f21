------------------------------ MODULE FileIndex ------------------------------
(***************************************************************************)
(* The browse and search index of one managed root: file_index.rs and      *)
(* browse.rs of the file engine, the watcher (watcher.rs,                  *)
(* watcher_lifecycle.rs, storage/watchers.rs) and the requests of the      *)
(* phone (file_browse_processor.rs).                                       *)
(*                                                                         *)
(* Four threads touch the index: the watcher's, one whose watcher was      *)
(* stopped while it worked, the background tick and a command of the       *)
(* desktop window.  A rebuild reads the folder twice, once for each table, *)
(* and then replaces both tables in one transaction; whatever another      *)
(* thread committed between the reads and the commit is overwritten.       *)
(***************************************************************************)
EXTENDS Integers, Sequences, FiniteSets, SequencesExt

CONSTANTS
    Paths,         \* relative paths of the folder
    Parent,        \* path -> its parent path or Root
    Rank,          \* path -> place in ORDER BY normalized_name, relative_path
    Root,          \* the managed root itself
    Queries,       \* searches: [scope, directory, names, extensions]
    Kinds,         \* path -> what the user may put there
    Directories,   \* directories the phone lists
    Hidden,        \* paths is_remotely_browsable_name keeps from the phone
    Limit,         \* page size of a request
    MaxEdits,      \* changes the user makes on disk
    MaxFaults,     \* overflows of the event queue, failing scans, restarts
    MaxBusy        \* threads at work at the same time

ASSUME BoundsAssumption ==
    /\ Limit \in Nat \ {0} /\ MaxEdits \in Nat /\ MaxFaults \in Nat
    /\ MaxBusy \in Nat \ {0}
    /\ Parent \in [Paths -> Paths \cup {Root}]
    /\ IsFiniteSet(Paths) /\ Rank \in [Paths -> Nat]
    /\ \A p, q \in Paths : Rank[p] = Rank[q] => p = q

Workers == {"watcher", "stopped", "background", "window"}
NoRow == [kind |-> "none", ver |-> 0]
NoPath == Root
NoQuery == [scope |-> "none", directory |-> Root, names |-> {}, extensions |-> {}]
Idle == [stage |-> "idle", then |-> "none", files |-> {}, entries |-> {}, change |-> [type |-> "none", path |-> NoPath, row |-> NoRow]]

VARIABLES
    disk,          \* path -> [kind, ver] as it is on disk
    edits,         \* changes made so far; the newest file carries this number
    faults,        \* faults so far
    binding,       \* room binding of the root: unbound, active or detached
    watching,      \* the watcher of the root is running
    events,        \* events the OS reported and the watcher has not read
    pending,       \* changes waiting for the quiet period
    files,         \* table file_index: path -> row
    entries,       \* table file_search_entries: path -> row
    generation,    \* file_index_meta.generation against the phone's cursor: cursor or newer
    initialized,   \* file_index_meta.initialized
    job,           \* what each thread is doing
    request        \* the phone's request and what it has been answered

disks == <<disk, edits, faults>>
watch == <<watching, events, pending>>
tables == <<files, entries, generation, initialized>>
vars == <<disk, edits, faults, binding, watching, events, pending, files, entries,
          generation, initialized, job, request>>

-----------------------------------------------------------------------------
(* What the scans read.                                                    *)

Under(p, q) == p = q \/ Parent[p] = q \/ (Parent[p] \in Paths /\ Parent[Parent[p]] = q)
IsDir(p) == p \in Paths => disk[p].kind = "dir"

\* analyze_root for reindex_root: the regular files and nothing through a link.
Analyzed == [p \in Paths |-> IF disk[p].kind = "file" THEN disk[p] ELSE NoRow]
\* collect_search_entries: directories too.
Collected == [p \in Paths |-> IF disk[p].kind \in {"file", "dir"} THEN disk[p] ELSE NoRow]

\* bump_generation: no cursor given out before has this generation.  The number itself
\* is only ever compared with a cursor's.
Bumped == "newer"

-----------------------------------------------------------------------------
(* Paging.                                                                 *)

\* indexed_entry_matches_extensions.
MatchesExtensions(q, p, row) == q.extensions = {} \/ (row.kind = "file" /\ p \in q.extensions)

\* The rows of the query's SELECT, and the number of a row in their order.
Rows(q) == {p \in Paths : /\ entries[p].kind # "none" /\ p \in q.names
                          /\ q.scope = "CurrentDirectory" => Parent[p] = q.directory}
RowNumber(q, p) == Cardinality({r \in Rows(q) : Rank[r] <= Rank[p]})

\* validate_indexed_search_hit: the row still is what the disk holds, and no link
\* lies on the way (a path below a link or below a file is not on disk).
ValidHit(p) == disk[p].kind = entries[p].kind
Hit(q, p) == ValidHit(p) /\ MatchesExtensions(q, p, entries[p])

\* The hits after the first offset rows, and how many of them make a page.
HitsAfter(q, offset) == {p \in Rows(q) : RowNumber(q, p) > offset /\ Hit(q, p)}
FirstHits(hits) == {p \in hits : Cardinality({r \in hits : Rank[r] < Rank[p]}) < Limit}

\* A cursor that counts the hits and not the rows.
PageOfHits(q, offset) ==
    LET hits == HitsAfter(q, offset)
    IN  [page |-> FirstHits(hits),
         next |-> IF hits = FirstHits(hits) THEN -1 ELSE offset + Limit]
\* search_index_page_with_extensions from a row offset: the entries of the page and
\* the offset of the first hit after it, or -1.
PageOf(q, offset) ==
    LET hits == HitsAfter(q, offset)
        page == FirstHits(hits)
        rest == hits \ page
    IN  [page |-> page,
         next |-> IF rest = {} THEN -1
                  ELSE RowNumber(q, CHOOSE p \in rest : \A r \in rest : Rank[p] <= Rank[r]) - 1]

\* browse_root: one directory level, directories first, then by name.  Rank stands for the
\* order of the names too: nothing depends on which order it is.
Listing(d) == {p \in Paths : Parent[p] = d /\ disk[p].kind \in {"file", "dir"} /\ p \notin Hidden}
ListNumber(d, p) ==
    Cardinality({r \in Listing(d) : \/ disk[r].kind = "dir" /\ disk[p].kind = "file"
                                    \/ disk[r].kind = disk[p].kind /\ Rank[r] <= Rank[p]})

\* What the phone may be shown of a page.
Shown(page) == page \ Hidden

-----------------------------------------------------------------------------
(* Threads.                                                                *)

Start(w, stage, then) == job' = [job EXCEPT ![w] = [Idle EXCEPT !.stage = stage, !.then = then]]
Done(w) == job' = [job EXCEPT ![w] = Idle]
IsIdle(w) == job[w].stage = "idle"
\* An idle thread may take up work.
Free(w) == IsIdle(w) /\ Cardinality({v \in Workers : ~IsIdle(v)}) < MaxBusy

\* What the phone asks, the row or entry its cursor continues from, the pages it was answered;
\* steady and quiet record what the folder did meanwhile.
Request(kind, q) == [kind |-> kind, query |-> q, offset |-> 0, answered |-> <<>>,
                     pages |-> 0, steady |-> {}, quiet |-> TRUE]

Init ==
    /\ disk = [p \in Paths |-> [kind |-> IF \E q \in Paths : Parent[q] = p THEN "dir" ELSE "file", ver |-> 0]]
    /\ edits = 0 /\ faults = 0
    /\ binding = "unbound" /\ watching = FALSE /\ events = <<>> /\ pending = <<>>
    /\ files = [p \in Paths |-> NoRow] /\ entries = [p \in Paths |-> NoRow]
    /\ generation = "newer" /\ initialized = FALSE
    /\ job = [w \in Workers |-> Idle]
    /\ request = Request("none", NoQuery)

\* The user changes the folder.  A path that is no directory any more takes what was
\* below it along.  The watch reports one event for the path, or that its queue overflowed.
Edit(p, kind) ==
    /\ edits < MaxEdits /\ IsDir(Parent[p])
    /\ disk[p].kind # "none" \/ kind # "none"
    /\ disk[p].kind = "dir" => kind # "dir"
    /\ edits' = edits + 1
    /\ disk' = [q \in Paths |-> IF q = p /\ kind # "none" THEN [kind |-> kind, ver |-> edits + 1]
                                ELSE IF Under(q, p) THEN NoRow ELSE disk[q]]
    /\ \/ ~watching /\ UNCHANGED <<events, faults>>
       \/ watching /\ events' = Append(events, [type |-> IF kind = "none" THEN "remove" ELSE "present", path |-> p])
          /\ UNCHANGED faults
       \/ watching /\ faults < MaxFaults /\ faults' = faults + 1
          /\ events' = Append(events, [type |-> "overflow", path |-> NoPath])
    /\ request' = [request EXCEPT !.quiet = FALSE,
                     !.steady = {q \in @ : disk'[q].kind = disk[q].kind}]
    /\ UNCHANGED <<binding, watching, pending, files, entries, generation, initialized, job>>

-----------------------------------------------------------------------------
(* The watcher's thread.                                                   *)

Change(type, path) == [type |-> type, path |-> path, row |-> NoRow]

\* classify_change, with the metadata of the moment the event is read.
ClassifyChange(e) ==
    CASE e.type = "overflow" -> Change("Reindex", NoPath)
      [] e.type = "remove" -> Change("RemovePath", e.path)
      [] e.type = "present" /\ disk[e.path].kind = "none" -> Change("RemovePath", e.path)
      [] e.type = "present" /\ disk[e.path].kind = "file" -> Change("UpsertFile", e.path)
      [] OTHER -> Change("Reindex", NoPath)

CoalesceChanges(changes) ==
    IF Len(changes) > 1 \/ \E i \in DOMAIN changes : changes[i].type = "Reindex"
    THEN Change("Reindex", NoPath) ELSE changes[1]

ReadEvent ==
    /\ watching /\ IsIdle("watcher") /\ events # <<>>
    /\ pending' = Append(pending, ClassifyChange(Head(events)))
    /\ events' = Tail(events)
    /\ UNCHANGED <<disks, binding, watching, tables, job, request>>

\* The quiet period is over: apply_index_change begins.
ApplyIndexChange ==
    /\ watching /\ Free("watcher") /\ pending # <<>>
    /\ LET change == CoalesceChanges(pending) IN
       job' = [job EXCEPT !["watcher"] =
                 [Idle EXCEPT !.stage = CASE change.type = "Reindex" -> "analyze"
                                          [] change.type = "UpsertFile" -> "stat"
                                          [] change.type = "RemovePath" -> "remove",
                              !.change = change]]
    /\ pending' = <<>>
    /\ UNCHANGED <<disks, binding, watching, events, tables, request>>

\* upsert_existing_file reads the metadata; a path that is no file any more is an error.
StatFile(w) ==
    /\ job[w].stage = "stat"
    /\ LET p == job[w].change.path IN
       IF disk[p].kind = "file"
       THEN job' = [job EXCEPT ![w].stage = "upsert", ![w].change.row = disk[p]]
       ELSE Done(w)
    /\ UNCHANGED <<disks, binding, watch, tables, request>>

\* upsert_file writes the row of both tables.
UpsertFile(w) ==
    /\ job[w].stage = "upsert"
    /\ LET c == job[w].change IN
       /\ files' = [files EXCEPT ![c.path] = c.row]
       /\ entries' = [entries EXCEPT ![c.path] = c.row]
    /\ generation' = Bumped /\ Done(w)
    /\ UNCHANGED <<disks, binding, watch, initialized, request>>

\* remove_path deletes the path and everything below it.
RemovePath(w) ==
    /\ job[w].stage = "remove"
    /\ LET gone == {q \in Paths : Under(q, job[w].change.path)} IN
       /\ files' = [p \in Paths |-> IF p \in gone THEN NoRow ELSE files[p]]
       /\ entries' = [p \in Paths |-> IF p \in gone THEN NoRow ELSE entries[p]]
    /\ generation' = Bumped /\ Done(w)
    /\ UNCHANGED <<disks, binding, watch, initialized, request>>

-----------------------------------------------------------------------------
(* reindex_root.                                                           *)

AnalyzeRoot(w) ==
    /\ job[w].stage = "analyze"
    /\ job' = [job EXCEPT ![w].stage = "collect", ![w].files = {Analyzed}]
    /\ UNCHANGED <<disks, binding, watch, tables, request>>

CollectSearchEntries(w) ==
    /\ job[w].stage = "collect"
    /\ job' = [job EXCEPT ![w].stage = "commit", ![w].entries = {Collected}]
    /\ UNCHANGED <<disks, binding, watch, tables, request>>

\* A scan fails: the root cannot be read.  A search then fails too.
ScanFails(w) ==
    /\ job[w].stage \in {"analyze", "collect"}
    /\ faults < MaxFaults /\ faults' = faults + 1
    /\ Done(w)
    /\ request' = IF job[w].then = "query" THEN Request("failed", NoQuery) ELSE request
    /\ UNCHANGED <<disk, edits, binding, watch, tables>>

\* Mutant: the rows of paths that are gone are not deleted first.
CommitReindexMerged(w) ==
    /\ job[w].stage = "commit"
    /\ \E a \in job[w].files, c \in job[w].entries :
          /\ files' = [p \in Paths |-> IF a[p] = NoRow THEN files[p] ELSE a[p]]
          /\ entries' = [p \in Paths |-> IF c[p] = NoRow THEN entries[p] ELSE c[p]]
    /\ initialized' = TRUE /\ generation' = Bumped
    /\ IF job[w].then = "none" THEN Done(w) ELSE Start(w, job[w].then, "none")
    /\ UNCHANGED <<disks, binding, watch, request>>
\* The transaction that replaces both tables; then whatever the rebuild was for.
CommitReindex(w) ==
    /\ job[w].stage = "commit"
    /\ \E a \in job[w].files, c \in job[w].entries : files' = a /\ entries' = c
    /\ initialized' = TRUE /\ generation' = Bumped
    /\ IF job[w].then = "none" THEN Done(w) ELSE Start(w, job[w].then, "none")
    /\ UNCHANGED <<disks, binding, watch, request>>

-----------------------------------------------------------------------------
(* Commands of the window: rebuild, start and stop watching, pair, unpair. *)

ReindexCommand ==
    /\ Free("window") /\ Start("window", "analyze", "none")
    /\ UNCHANGED <<disks, binding, watch, tables, request>>

\* start_root_watcher: a full rebuild first, and only then the watch.
StartRootWatcher ==
    /\ Free("window") /\ Start("window", "analyze", "watch")
    /\ UNCHANGED <<disks, binding, watch, tables, request>>

\* A second watcher replaces (and so stops) the first.
BeginWatch ==
    /\ job["window"].stage = "watch"
    /\ watching' = TRUE /\ events' = <<>> /\ pending' = <<>>
    /\ IsIdle("stopped") \/ IsIdle("watcher")
    /\ job' = [job EXCEPT !["window"] = Idle, !["watcher"] = Idle,
                 !["stopped"] = IF IsIdle("watcher") THEN @ ELSE job["watcher"]]
    /\ UNCHANGED <<disks, binding, tables, request>>

\* WatcherStore::stop: the thread finishes the change it is applying.
Stopped(thenWindow, who) ==
    /\ watching' = FALSE /\ events' = <<>> /\ pending' = <<>>
    /\ IsIdle("stopped") \/ IsIdle("watcher")
    /\ job' = [job EXCEPT ![who] = thenWindow, !["watcher"] = Idle,
                 !["stopped"] = IF IsIdle("watcher") THEN @ ELSE job["watcher"]]

StopWatching ==
    /\ IsIdle("window") /\ watching
    /\ Stopped(Idle, "window")
    /\ UNCHANGED <<disks, binding, tables, request>>

\* ensure_agent_room: preflight rebuild, the server's answer, then the binding and the watcher.
EnsureAgentRoom ==
    /\ Free("window") /\ Start("window", "analyze", "bind")
    /\ UNCHANGED <<disks, binding, watch, tables, request>>
ActivateAgentRoomBinding ==
    /\ job["window"].stage = "bind"
    /\ binding' = "active"
    /\ Start("window", "analyze", "watch")
    /\ UNCHANGED <<disks, watch, tables, request>>

\* apply_local_room_detached, by the window (disconnect) or by the background (a sync
\* event, possibly delivered again): binding first, then the watcher, then the index.
DetachRoom(w) ==
    /\ Free(w) /\ binding # "unbound"
    /\ binding' = "detached"
    /\ Start(w, "stop", "none")
    /\ UNCHANGED <<disks, watch, tables, request>>
StopDetachedWatcher(w) ==
    /\ job[w].stage = "stop"
    /\ Stopped([Idle EXCEPT !.stage = "clear"], w)
    /\ UNCHANGED <<disks, binding, tables, request>>
ClearIndex(w) ==
    /\ job[w].stage = "clear"
    /\ files' = [p \in Paths |-> NoRow] /\ entries' = [p \in Paths |-> NoRow]
    /\ initialized' = FALSE /\ generation' = Bumped
    /\ Done(w)
    /\ UNCHANGED <<disks, binding, watch, request>>

\* The desktop stops and starts again: threads, watches and events are gone.
Restart ==
    /\ faults < MaxFaults /\ faults' = faults + 1
    /\ job' = [w \in Workers |-> Idle]
    /\ watching' = FALSE /\ events' = <<>> /\ pending' = <<>>
    /\ request' = Request("none", NoQuery)
    /\ UNCHANGED <<disk, edits, binding, tables>>

-----------------------------------------------------------------------------
(* The background tick: scheduled rebuild and the phone's requests.        *)

\* reconcile_watched_root_indexes: roots that are watched and not detached.  Whether a
\* tick gets here at all (full tick, desktop paired, heartbeat answered, events replayed,
\* scan permit free) is left open: the action may always wait, and has no fairness.
ReconcileWatchedRootIndexes ==
    /\ Free("background") /\ watching /\ binding # "detached"
    /\ Start("background", "analyze", "none")
    /\ UNCHANGED <<disks, binding, watch, tables, request>>

\* A new request, or the next page of the one under way: parse_search_cursor and
\* parse_cursor refuse the cursor of another query.
Continues(kind, q) ==
    \/ request.kind \in {"none", "failed", "finished"}
    \/ request.kind = kind /\ request.query = q
Asked(kind, q) == IF request.kind = kind THEN request ELSE Request(kind, q)

\* No look at the flag.
SearchAnyIndex(q) ==
    /\ Free("background") /\ binding # "detached" /\ binding' = "active"
    /\ Continues("search", q) /\ request' = Asked("search", q)
    /\ Start("background", "query", "none")
    /\ UNCHANGED <<disks, watch, tables>>
\* ensure_active_room_binding lets the phone of a bound room in and adopts an unbound
\* root.  build_search_result_page_limited: an index that was cleared is rebuilt first.
SearchRequest(q) ==
    /\ Free("background") /\ binding # "detached" /\ binding' = "active"
    /\ Continues("search", q) /\ request' = Asked("search", q)
    /\ IF initialized THEN Start("background", "query", "none") ELSE Start("background", "analyze", "query")
    /\ UNCHANGED <<disks, watch, tables>>

\* search_index_page_with_extensions: the generation of the cursor must be the index's,
\* and the directory of the search must still be one.
SearchPage ==
    /\ job["background"].stage = "query"
    /\ LET q == request.query
           found == PageOf(q, request.offset)
           first == request.pages = 0
       IN  request' =
             IF \/ q.scope = "CurrentDirectory" /\ ~IsDir(q.directory)
                \/ ~first /\ generation # "cursor"
             THEN Request("failed", NoQuery)
             ELSE [request EXCEPT
                     !.kind = IF found.next < 0 THEN "finished" ELSE @,
                     !.offset = found.next, !.pages = @ + 1,
                     !.answered = Append(@, Shown(found.page)),
                     !.steady = IF first THEN {p \in Rows(q) : Hit(q, p)} ELSE @]
    /\ generation' = IF request'.kind = "search" THEN "cursor" ELSE "newer"
    /\ Done("background")
    /\ UNCHANGED <<disks, binding, watch, files, entries, initialized>>

\* build_result_page_limited: the directory as it is now, from an offset.
ListDirectory(d) ==
    /\ Free("background") /\ binding # "detached" /\ binding' = "active"
    /\ Continues("browse", [NoQuery EXCEPT !.directory = d])
    /\ LET asked == Asked("browse", [NoQuery EXCEPT !.directory = d])
           all == Listing(d)
           total == Cardinality(all)
           end == IF asked.offset + Limit < total THEN asked.offset + Limit ELSE total
           first == asked.pages = 0
       IN  request' =
             IF ~IsDir(d) \/ asked.offset > total
             THEN Request("failed", NoQuery)
             ELSE [asked EXCEPT
                     !.kind = IF end < total THEN @ ELSE "finished",
                     !.offset = end, !.pages = @ + 1,
                     !.answered = Append(@, {p \in all : ListNumber(d, p) \in (asked.offset + 1)..end}),
                     !.steady = IF first THEN all ELSE @,
                     !.quiet = first \/ @]
    /\ UNCHANGED <<disks, watch, tables, job>>

-----------------------------------------------------------------------------

WorkerStep(w) ==
    \/ StatFile(w) \/ UpsertFile(w) \/ RemovePath(w)
    \/ AnalyzeRoot(w) \/ CollectSearchEntries(w) \/ CommitReindex(w)
    \/ StopDetachedWatcher(w) \/ ClearIndex(w)

Next ==
    \/ \E p \in Paths : \E kind \in Kinds[p] : Edit(p, kind)
    \/ ReadEvent \/ ApplyIndexChange
    \/ \E w \in Workers : WorkerStep(w) \/ ScanFails(w)
    \/ ReindexCommand \/ StartRootWatcher \/ BeginWatch \/ StopWatching
    \/ EnsureAgentRoom \/ ActivateAgentRoomBinding
    \/ \E w \in {"window", "background"} : DetachRoom(w)
    \/ Restart
    \/ ReconcileWatchedRootIndexes
    \/ \E q \in Queries : SearchRequest(q)
    \/ SearchPage
    \/ \E d \in Directories : ListDirectory(d)

\* Threads that have begun go on.
Fairness ==
    /\ \A w \in Workers : WF_vars(WorkerStep(w))
    /\ WF_vars(SearchPage)

Spec == Init /\ [][Next]_vars /\ Fairness

-----------------------------------------------------------------------------
(* Properties.                                                             *)

RowOK(row) == row.kind \in {"none", "file", "dir", "link"} /\ row.ver \in 0..MaxEdits
Table(t) == DOMAIN t = Paths /\ \A p \in Paths : RowOK(t[p])

\* Type correctness; rows never describe links, and nothing on disk lies below a
\* path that is no directory.
TypeOK ==
    /\ Table(disk) /\ edits \in 0..MaxEdits /\ faults \in 0..MaxFaults
    /\ \A p \in Paths : disk[p].kind # "none" => IsDir(Parent[p])
    /\ binding \in {"unbound", "active", "detached"} /\ watching \in BOOLEAN /\ initialized \in BOOLEAN
    /\ Table(files) /\ Table(entries)
    /\ \A p \in Paths : files[p].kind \in {"none", "file"} /\ entries[p].kind # "link"
    /\ generation \in {"cursor", "newer"}
    /\ \A w \in Workers : \A t \in job[w].files \cup job[w].entries : Table(t)
    /\ request.answered \in Seq(SUBSET Paths)

\* search_index_page_with_extensions binds a cursor to a generation so that the pages of
\* one search fit together: whatever threads committed and the user changed in between,
\* a search that was answered to the end shows no entry twice, in the order of the index,
\* and every hit of its first page's index that stayed on disk (and may be shown) is in it.
\* A listing has this only while the folder does not change.
PagesAreExact ==
    request.kind = "finished" /\ (request.query.scope # "none" \/ request.quiet) =>
        /\ \A i, j \in DOMAIN request.answered : i < j =>
             \A a \in request.answered[i], b \in request.answered[j] :
               a # b /\ (request.query.scope # "none" => Rank[a] < Rank[b])
        /\ request.steady \ Hidden \subseteq UNION Range(request.answered)

\* commands/agent.rs: "A search can never observe an active reconnected binding backed by
\* the intentionally-cleared index left by the previous detach", even when the event of
\* the detach is delivered again while the room is being paired again.
ClearedIndexIsNeverSearched ==
    [][request'.pages > request.pages /\ request.query.scope # "none" /\ binding = "active"
         => initialized]_vars

\* The index is what is on disk.
Current == files = Analyzed /\ entries = Collected

\* watcher_lifecycle.rs: the scheduled pass repairs missed events.  Once the user stops
\* changing the folder, a root that stays watched ends up with an index that equals the
\* disk for good, however rebuilds overwrote each other and events were lost, provided
\* ticks keep getting to the scheduled pass: the desktop is paired, its heartbeats are
\* answered and its replays succeed again and again.  (On a desktop that is not, an edit
\* between the rebuild and the registration of the watch stays unnoticed.)
Converges ==
    /\ <>[](watching /\ binding # "detached")
    /\ []<><<ReconcileWatchedRootIndexes>>_vars
    => <>[]Current
=============================================================================
