--------------------------- MODULE FileIndexProofs ---------------------------
(***************************************************************************)
(* Proof that no search is answered from a cleared index and that the      *)
(* pages of one search fit together, for every folder, any queries and     *)
(* page size, and any number of threads, changes and faults.               *)
(***************************************************************************)
EXTENDS FileIndex, FiniteSetTheorems, WellFoundedInduction, TLAPS

Applying == {"idle", "stat", "upsert", "remove", "analyze", "collect", "commit"}
\* What a thread goes on with after a rebuild.
Thens(w) == {"none"} \cup (IF w = "window" THEN {"watch", "bind"} ELSE IF w = "background" THEN {"query"} ELSE {})
Stages(w) == Applying \cup Thens(w) \cup (IF w \in {"window", "background"} THEN {"stop", "clear"} ELSE {})

Job(x) == x = [f \in {"stage", "then", "files", "entries", "change"} |-> x[f]]
JobOK(w, x) == Job(x) /\ x.stage \in Stages(w) /\ x.then \in Thens(w)
JobInv == job = [w \in Workers |-> job[w]] /\ \A w \in Workers : JobOK(w, job[w])

\* A window that is detaching the root has unbound it first.  While a search is under way the index is built,
\* or the root is detached and no thread is about to bind it again.
SearchInv ==
    /\ job["window"].stage \in {"stop", "clear"} => binding = "detached"
    /\ job["background"].stage = "query" /\ (binding = "active" \/ job["window"].stage = "bind") => initialized

\* A request that is not a search under way, and has the query of one, is one that was answered.
AskedFor(x) == x = [f \in {"kind", "query", "offset", "answered", "pages", "steady", "quiet"} |-> x[f]]
RequestOK(x) ==
    /\ AskedFor(x) /\ x.pages \in Nat
    /\ x.query.scope # "none" => x.kind = "search" \/ (x.kind = "finished" /\ x.pages >= 1)
RequestInv == RequestOK(request)

\* What is queued is an event of the watch or a change classify_change makes of one.
EventRecord == [type : {"remove", "present", "overflow"}, path : Paths \cup {NoPath}]
ChangeRecord == [type : {"Reindex", "UpsertFile", "RemovePath"}, path : Paths \cup {NoPath}, row : {NoRow}]
QueueInv == events \in Seq(EventRecord) /\ pending \in Seq(ChangeRecord)

\* A background tick that is going to read a page has been asked for one.
Seeking(x) == x.stage = "query" \/ (x.stage \in {"analyze", "collect", "commit"} /\ x.then = "query")
SeekInv == Seeking(job["background"]) => request.kind = "search"

\* Pages in the order of the index; pages with nothing twice; pages that show what of s may be shown.
Rising(A) == \A i, j \in DOMAIN A : i < j => \A a \in A[i], b \in A[j] : Rank[a] < Rank[b]
Apart(A) == \A i, j \in DOMAIN A : i < j => \A a \in A[i], b \in A[j] : a # b
Shows(A, s) == s \ Hidden \subseteq UNION Range(A)

\* The first rows of a query and the first entries of a listing.
RowsTo(q, n) == {p \in Rows(q) : RowNumber(q, p) <= n}
ListTo(d, n) == {p \in Listing(d) : ListNumber(d, p) <= n}

\* The pages A of search q so far, up to row o: they are in the order of the index and among its first o rows; what
\* stayed on disk still is a hit, and what of it is among these rows has been shown.
Fitting(q, o, A, s) ==
    /\ o \in Nat /\ Rising(A)
    /\ UNION Range(A) \subseteq RowsTo(q, o)
    /\ \A p \in s : p \in Rows(q) /\ Hit(q, p)
    /\ \A p \in s : p \in RowsTo(q, o) /\ p \notin Hidden => p \in UNION Range(A)
\* The pages A of directory d so far are its first o entries.
Listed(d, o, A, s) ==
    /\ o \in Nat /\ Apart(A) /\ s = Listing(d)
    /\ UNION Range(A) = ListTo(d, o)

\* The pages fit as long as the cursor has the generation of the index: a commit in between ends the search.
SearchedOK(x) ==
    x.kind = "search" =>
      IF x.pages = 0 THEN x.answered = <<>> /\ x.offset = 0
      ELSE generation = "cursor" => Fitting(x.query, x.offset, x.answered, x.steady)
ListedOK(x) ==
    x.kind = "browse" =>
      /\ x.pages >= 1 /\ x.query.scope = "none"
      /\ x.quiet => Listed(x.query.directory, x.offset, x.answered, x.steady)
ExactOK(x) ==
    x.kind = "finished" /\ (x.query.scope # "none" \/ x.quiet) =>
      /\ Apart(x.answered) /\ (x.query.scope # "none" => Rising(x.answered))
      /\ Shows(x.answered, x.steady)
PageOK(x) == x.answered \in Seq(SUBSET Paths) /\ SearchedOK(x) /\ ListedOK(x) /\ ExactOK(x)
PageInv == PageOK(request)

Inv == JobInv /\ SearchInv /\ QueueInv /\ RequestInv /\ SeekInv /\ PageInv

-----------------------------------------------------------------------------
(* Jobs and requests.                                                      *)

WithFiles(x, s, v) == [x EXCEPT !.stage = s, !.files = v]
WithEntries(x, s, v) == [x EXCEPT !.stage = s, !.entries = v]
WithChange(x, s, v) == [x EXCEPT !.stage = s, !.change = v]
WithThen(x, s, v) == [x EXCEPT !.stage = s, !.then = v]

LEMMA SetsFiles ==
    ASSUME NEW x, Job(x), NEW s, NEW v
    PROVE  Job(WithFiles(x, s, v)) /\ WithFiles(x, s, v).stage = s /\ WithFiles(x, s, v).then = x.then
<1>1. Job(WithFiles(x, s, v))
  BY DEF Job, WithFiles
<1>2. WithFiles(x, s, v).stage = s
  BY DEF Job, WithFiles
<1>3. WithFiles(x, s, v).then = x.then
  BY DEF Job, WithFiles
<1> QED
  BY <1>1, <1>2, <1>3

LEMMA SetsEntries ==
    ASSUME NEW x, Job(x), NEW s, NEW v
    PROVE  Job(WithEntries(x, s, v)) /\ WithEntries(x, s, v).stage = s /\ WithEntries(x, s, v).then = x.then
<1>1. Job(WithEntries(x, s, v))
  BY DEF Job, WithEntries
<1>2. WithEntries(x, s, v).stage = s
  BY DEF Job, WithEntries
<1>3. WithEntries(x, s, v).then = x.then
  BY DEF Job, WithEntries
<1> QED
  BY <1>1, <1>2, <1>3

LEMMA SetsChange ==
    ASSUME NEW x, Job(x), NEW s, NEW v
    PROVE  Job(WithChange(x, s, v)) /\ WithChange(x, s, v).stage = s /\ WithChange(x, s, v).then = x.then
<1>1. Job(WithChange(x, s, v))
  BY DEF Job, WithChange
<1>2. WithChange(x, s, v).stage = s
  BY DEF Job, WithChange
<1>3. WithChange(x, s, v).then = x.then
  BY DEF Job, WithChange
<1> QED
  BY <1>1, <1>2, <1>3

LEMMA SetsThen ==
    ASSUME NEW x, Job(x), NEW s, NEW v
    PROVE  Job(WithThen(x, s, v)) /\ WithThen(x, s, v).stage = s /\ WithThen(x, s, v).then = v
<1>1. Job(WithThen(x, s, v))
  BY DEF Job, WithThen
<1>2. WithThen(x, s, v).stage = s
  BY DEF Job, WithThen
<1>3. WithThen(x, s, v).then = v
  BY DEF Job, WithThen
<1> QED
  BY <1>1, <1>2, <1>3

LEMMA IdleFacts == Job(Idle) /\ Idle.stage = "idle" /\ Idle.then = "none" /\ \A w : JobOK(w, Idle)
BY DEF Job, Idle, JobOK, Stages, Thens, Applying

LEMMA JobSet ==
    ASSUME JobInv, NEW w \in Workers, NEW x, JobOK(w, x), job' = [job EXCEPT ![w] = x]
    PROVE  JobInv' /\ job'[w] = x /\ \A u \in Workers \ {w} : job'[u] = job[u]
<1>1. job'[w] = x /\ (\A u \in Workers \ {w} : job'[u] = job[u]) /\ DOMAIN job' = Workers
      /\ job' = [u \in Workers |-> job'[u]]
  BY DEF JobInv
<1> QED
  BY <1>1 DEF JobInv

\* A step of one thread that leaves the binding and the flag alone, and begins no detachment and no search.
Plain(w, x) ==
    /\ w \in Workers /\ JobOK(w, x) /\ job' = [job EXCEPT ![w] = x]
    /\ x.stage \notin {"stop", "clear", "query", "bind"}
    /\ binding' = binding /\ initialized' = initialized

LEMMA PlainKeeps ==
    ASSUME JobInv, SearchInv, NEW w, NEW x, Plain(w, x)
    PROVE  (JobInv /\ SearchInv)'
<1>1. JobInv' /\ job'[w] = x /\ \A u \in Workers \ {w} : job'[u] = job[u]
  BY JobSet DEF Plain
<1>2. "window" \in Workers /\ "background" \in Workers
  BY DEF Workers
<1> QED
  BY <1>1, <1>2 DEF SearchInv, Plain

LEMMA Started ==
    ASSUME NEW w \in Workers, NEW s \in Stages(w), NEW n \in Thens(w), Start(w, s, n)
    PROVE  \E x : JobOK(w, x) /\ x.stage = s /\ job' = [job EXCEPT ![w] = x]
<1> DEFINE x == WithThen(Idle, s, n)
<1>1. job' = [job EXCEPT ![w] = x]
  BY DEF Start, WithThen
<1>2. Job(x) /\ x.stage = s /\ x.then = n
  BY IdleFacts, SetsThen
<1> HIDE DEF x
<1>3. JobOK(w, x)
  BY <1>2 DEF JobOK
<1> QED
  BY <1>1, <1>2, <1>3

LEMMA Asks ==
    ASSUME NEW k, NEW q, q.scope # "none" => k = "search"
    PROVE  RequestOK(Request(k, q)) /\ Request(k, q).pages = 0 /\ Request(k, q).query = q
BY DEF RequestOK, AskedFor, Request

LEMMA NoneAsked == NoQuery.scope = "none" /\ \A d : [NoQuery EXCEPT !.directory = d].scope = "none"
BY DEF NoQuery

-----------------------------------------------------------------------------
(* The steps.                                                              *)

\* Steps of one thread that change neither the binding nor the flag.
LEMMA PlainSteps ==
    ASSUME JobInv, NEW w \in Workers,
           StatFile(w) \/ UpsertFile(w) \/ RemovePath(w) \/ AnalyzeRoot(w) \/ CollectSearchEntries(w) \/ ScanFails(w)
    PROVE  \E x : Plain(w, x)
<1>0. UNCHANGED <<binding, initialized>> /\ JobOK(w, job[w]) /\ job[w] = [f \in DOMAIN job[w] |-> job[w][f]]
  BY DEF JobInv, JobOK, Job, StatFile, UpsertFile, RemovePath, AnalyzeRoot, CollectSearchEntries, ScanFails, tables
<1>1. CASE Done(w)
  BY <1>0, <1>1, IdleFacts DEF Done, Plain
<1>2. CASE AnalyzeRoot(w)
  <2> DEFINE x == WithFiles(job[w], "collect", {Analyzed})
  <2>1. job' = [job EXCEPT ![w] = x]
    BY <1>2 DEF AnalyzeRoot, WithFiles, JobInv
  <2>2. Job(x) /\ x.stage = "collect" /\ x.then = job[w].then
    BY <1>0, SetsFiles DEF JobOK
  <2> HIDE DEF x
  <2> QED
    BY <1>0, <2>1, <2>2 DEF Plain, JobOK, Stages, Applying
<1>3. CASE CollectSearchEntries(w)
  <2> DEFINE x == WithEntries(job[w], "commit", {Collected})
  <2>1. job' = [job EXCEPT ![w] = x]
    BY <1>3 DEF CollectSearchEntries, WithEntries, JobInv
  <2>2. Job(x) /\ x.stage = "commit" /\ x.then = job[w].then
    BY <1>0, SetsEntries DEF JobOK
  <2> HIDE DEF x
  <2> QED
    BY <1>0, <2>1, <2>2 DEF Plain, JobOK, Stages, Applying
<1>4. CASE StatFile(w) /\ ~Done(w)
  <2> DEFINE c == [job[w].change EXCEPT !.row = disk[job[w].change.path]]
             x == WithChange(job[w], "upsert", c)
  <2>1. job' = [job EXCEPT ![w].stage = "upsert", ![w].change.row = disk[job[w].change.path]]
    BY <1>4 DEF StatFile
  <2>2. job' = [job EXCEPT ![w] = x]
    BY <2>1 DEF WithChange, JobInv
  <2>3. Job(x) /\ x.stage = "upsert" /\ x.then = job[w].then
    BY <1>0, SetsChange DEF JobOK
  <2> HIDE DEF x
  <2> QED
    BY <1>0, <2>2, <2>3 DEF Plain, JobOK, Stages, Applying
<1> QED
  BY <1>1, <1>2, <1>3, <1>4 DEF StatFile, UpsertFile, RemovePath, ScanFails

LEMMA Coalesced ==
    ASSUME NEW s \in Seq(ChangeRecord), s # <<>>
    PROVE  CoalesceChanges(s) \in ChangeRecord
<1>1. Change("Reindex", NoPath) \in ChangeRecord
  BY DEF Change, ChangeRecord
<1>2. Len(s) <= 1 => s[1] \in ChangeRecord
  OBVIOUS
<1> QED
  BY <1>1, <1>2 DEF CoalesceChanges

LEMMA StartSteps ==
    ASSUME JobInv, QueueInv, ReindexCommand \/ StartRootWatcher \/ EnsureAgentRoom \/ ReconcileWatchedRootIndexes
                   \/ ApplyIndexChange \/ SearchPage
    PROVE  \E w, x : Plain(w, x)
<1>0. UNCHANGED <<binding, initialized>> /\ {"window", "background", "watcher"} \subseteq Workers
  BY DEF ReindexCommand, StartRootWatcher, EnsureAgentRoom, ReconcileWatchedRootIndexes, ApplyIndexChange, SearchPage,
         tables, Workers
<1>1. \A w : "analyze" \in Stages(w) /\ "none" \in Thens(w)
  BY DEF Stages, Thens, Applying
<1>2. "watch" \in Thens("window") /\ "bind" \in Thens("window")
  BY DEF Thens
<1>3. CASE \E n \in Thens("window") : Start("window", "analyze", n)
  BY <1>0, <1>1, <1>3, Started DEF Plain
<1>4. CASE Start("background", "analyze", "none")
  BY <1>0, <1>1, <1>4, Started DEF Plain
<1>5. CASE Done("background")
  BY <1>0, <1>5, IdleFacts DEF Done, Plain
<1>6. CASE ApplyIndexChange
  <2> DEFINE c == CoalesceChanges(pending)
             s == CASE c.type = "Reindex" -> "analyze" [] c.type = "UpsertFile" -> "stat" [] c.type = "RemovePath" -> "remove"
             x == WithChange(Idle, s, c)
  <2>1. c \in ChangeRecord
    BY <1>6, Coalesced DEF ApplyIndexChange, QueueInv
  <2>2. s \in {"analyze", "stat", "remove"}
    <3> HIDE DEF c
    <3> QED BY <2>1 DEF ChangeRecord
  <2>3. job' = [job EXCEPT !["watcher"] = x]
    BY <1>6 DEF ApplyIndexChange, WithChange
  <2> HIDE DEF c, s
  <2>4. Job(x) /\ x.stage = s /\ x.then = "none"
    BY IdleFacts, SetsChange
  <2> HIDE DEF x
  <2> QED
    BY <1>0, <2>2, <2>3, <2>4 DEF Plain, JobOK, Stages, Thens, Applying
<1> QED
  BY <1>1, <1>2, <1>3, <1>4, <1>5, <1>6
     DEF ReindexCommand, StartRootWatcher, EnsureAgentRoom, ReconcileWatchedRootIndexes, SearchPage

LEMMA Named == {"window", "background", "watcher", "stopped"} \subseteq Workers
BY DEF Workers

\* A watcher is stopped or replaced: what it is applying goes on as "stopped".
LEMMA StoppedFacts ==
    ASSUME JobInv, NEW who \in {"window", "background"}, NEW x, JobOK(who, x),
           job' = [job EXCEPT ![who] = x, !["watcher"] = Idle, !["stopped"] = IF IsIdle("watcher") THEN @ ELSE job["watcher"]]
    PROVE  /\ JobInv' /\ job'[who] = x
           /\ \A u \in {"window", "background"} \ {who} : job'[u] = job[u]
<1>1. DOMAIN job = Workers /\ job = [u \in Workers |-> job[u]] /\ \A u \in Workers : JobOK(u, job[u])
  BY DEF JobInv
<1>2. JobOK("stopped", job["watcher"]) /\ JobOK("watcher", Idle)
  BY <1>1, Named, IdleFacts DEF JobOK, Stages, Thens
<1>3. /\ job' = [u \in Workers |-> job'[u]] /\ job'[who] = x /\ job'["watcher"] = Idle
      /\ job'["stopped"] = (IF IsIdle("watcher") THEN job["stopped"] ELSE job["watcher"])
      /\ \A u \in {"window", "background"} \ {who} : job'[u] = job[u]
  BY <1>1 DEF Workers
<1>4. \A u \in Workers : JobOK(u, job'[u])
  BY <1>1, <1>2, <1>3 DEF Workers
<1> QED
  BY <1>3, <1>4 DEF JobInv

LEMMA CommitKeeps ==
    ASSUME JobInv, SearchInv, NEW w \in Workers, CommitReindex(w)
    PROVE  (JobInv /\ SearchInv)'
<1>1. job[w].then \in Thens(w) /\ Thens(w) \subseteq Stages(w) /\ "none" \in Thens(w)
      /\ {"stop", "clear"} \cap Thens(w) = {}
  BY DEF JobInv, JobOK, Stages, Thens
<1>2. \E x : JobOK(w, x) /\ x.stage \notin {"stop", "clear"} /\ job' = [job EXCEPT ![w] = x]
  <2>1. CASE Done(w)
    BY <2>1, IdleFacts DEF Done
  <2>2. CASE Start(w, job[w].then, "none")
    BY <1>1, <2>2, Started
  <2> QED
    BY <2>1, <2>2 DEF CommitReindex
<1>3. PICK x : JobOK(w, x) /\ x.stage \notin {"stop", "clear"} /\ job' = [job EXCEPT ![w] = x]
  BY <1>2
<1>4. JobInv' /\ job'[w] = x /\ \A u \in Workers \ {w} : job'[u] = job[u]
  BY <1>3, JobSet
<1>5. initialized' = TRUE /\ binding' = binding
  BY DEF CommitReindex
<1> QED
  BY <1>3, <1>4, <1>5, Named DEF SearchInv

LEMMA WatchKeeps ==
    ASSUME JobInv, SearchInv, BeginWatch \/ StopWatching
    PROVE  (JobInv /\ SearchInv)'
<1>1. job' = [job EXCEPT !["window"] = Idle, !["watcher"] = Idle,
                !["stopped"] = IF IsIdle("watcher") THEN @ ELSE job["watcher"]]
      /\ binding' = binding /\ initialized' = initialized
  BY DEF BeginWatch, StopWatching, Stopped, tables
<1>2. JobInv' /\ job'["window"] = Idle /\ job'["background"] = job["background"]
  BY <1>1, StoppedFacts, IdleFacts
<1> QED
  BY <1>1, <1>2, IdleFacts DEF SearchInv

LEMMA StopDetachedKeeps ==
    ASSUME JobInv, SearchInv, NEW w \in Workers, StopDetachedWatcher(w)
    PROVE  (JobInv /\ SearchInv)'
<1>1. w \in {"window", "background"} /\ job[w].stage = "stop"
  BY DEF StopDetachedWatcher, JobInv, JobOK, Stages, Thens, Applying, Workers
<1> DEFINE x == [Idle EXCEPT !.stage = "clear"]
<1>3. JobOK(w, x) /\ x.stage = "clear"
  <2>1. Job(x) /\ x.stage = "clear" /\ x.then = "none"
    BY DEF Idle, Job
  <2> HIDE DEF x
  <2> QED
    BY <1>1, <2>1 DEF JobOK, Stages, Thens
<1>4. job' = [job EXCEPT ![w] = x, !["watcher"] = Idle, !["stopped"] = IF IsIdle("watcher") THEN @ ELSE job["watcher"]]
      /\ binding' = binding /\ initialized' = initialized
  BY DEF StopDetachedWatcher, Stopped, tables
<1> HIDE DEF x
<1>5. JobInv' /\ job'[w] = x /\ \A u \in {"window", "background"} \ {w} : job'[u] = job[u]
  BY <1>1, <1>3, <1>4, StoppedFacts
<1> QED
  BY <1>1, <1>3, <1>4, <1>5 DEF SearchInv

LEMMA ClearKeeps ==
    ASSUME JobInv, SearchInv, NEW w \in Workers, ClearIndex(w)
    PROVE  (JobInv /\ SearchInv)'
<1>1. w \in {"window", "background"} /\ job[w].stage = "clear"
  BY DEF ClearIndex, JobInv, JobOK, Stages, Thens, Applying, Workers
<1>2. JobInv' /\ job'[w] = Idle /\ \A u \in Workers \ {w} : job'[u] = job[u]
  BY JobSet, IdleFacts DEF ClearIndex, Done
<1>3. binding' = binding
  BY DEF ClearIndex
<1> QED
  BY <1>1, <1>2, <1>3, IdleFacts, Named DEF SearchInv

LEMMA BindKeeps ==
    ASSUME JobInv, SearchInv, ActivateAgentRoomBinding
    PROVE  (JobInv /\ SearchInv)'
<1>1. job["window"].stage = "bind" /\ binding' = "active" /\ initialized' = initialized
      /\ Start("window", "analyze", "watch")
  BY DEF ActivateAgentRoomBinding, tables
<1>2. "analyze" \in Stages("window") /\ "watch" \in Thens("window")
  BY DEF Stages, Thens, Applying
<1>3. PICK x : JobOK("window", x) /\ x.stage = "analyze" /\ job' = [job EXCEPT !["window"] = x]
  BY <1>1, <1>2, Started, Named
<1>4. JobInv' /\ job'["window"] = x /\ \A u \in Workers \ {"window"} : job'[u] = job[u]
  BY <1>3, JobSet, Named
<1> QED
  BY <1>1, <1>3, <1>4, Named DEF SearchInv

LEMMA DetachKeeps ==
    ASSUME JobInv, SearchInv, NEW w \in {"window", "background"}, DetachRoom(w)
    PROVE  (JobInv /\ SearchInv)'
<1>1. binding' = "detached" /\ initialized' = initialized /\ Start(w, "stop", "none")
  BY DEF DetachRoom, tables
<1>2. "stop" \in Stages(w) /\ "none" \in Thens(w) /\ w \in Workers
  BY Named DEF Stages, Thens
<1>3. PICK x : JobOK(w, x) /\ x.stage = "stop" /\ job' = [job EXCEPT ![w] = x]
  BY <1>1, <1>2, Started
<1>4. JobInv' /\ job'[w] = x /\ \A u \in Workers \ {w} : job'[u] = job[u]
  BY <1>2, <1>3, JobSet
<1> QED
  BY <1>1, <1>3, <1>4, Named DEF SearchInv

LEMMA SearchKeeps ==
    ASSUME JobInv, SearchInv, NEW q, SearchRequest(q)
    PROVE  (JobInv /\ SearchInv)'
<1>1. binding # "detached" /\ binding' = "active" /\ initialized' = initialized
      /\ IF initialized THEN Start("background", "query", "none") ELSE Start("background", "analyze", "query")
  BY DEF SearchRequest, tables
<1>2. {"analyze", "query"} \subseteq Stages("background") /\ {"none", "query"} \subseteq Thens("background")
  BY DEF Stages, Thens, Applying
<1>3. \E x : /\ JobOK("background", x) /\ (x.stage = "query" => initialized)
             /\ x.stage \in {"query", "analyze"} /\ job' = [job EXCEPT !["background"] = x]
  BY <1>1, <1>2, Started, Named
<1>4. PICK x : /\ JobOK("background", x) /\ (x.stage = "query" => initialized)
               /\ x.stage \in {"query", "analyze"} /\ job' = [job EXCEPT !["background"] = x]
  BY <1>3
<1>5. JobInv' /\ job'["background"] = x /\ \A u \in Workers \ {"background"} : job'[u] = job[u]
  BY <1>4, JobSet, Named
<1> QED
  BY <1>1, <1>4, <1>5, Named DEF SearchInv

\* Every other step.
LEMMA RestKeeps ==
    ASSUME JobInv, SearchInv,
           (\E d : ListDirectory(d)) \/ Restart \/ (\E p, k : Edit(p, k)) \/ ReadEvent \/ UNCHANGED vars
    PROVE  (JobInv /\ SearchInv)'
<1>1. CASE Restart
  <2>1. job' = [w \in Workers |-> Idle]
    BY <1>1 DEF Restart
  <2>2. \A w \in Workers : job'[w] = Idle
    BY <2>1
  <2>3. job' = [w \in Workers |-> job'[w]]
    BY <2>1
  <2> QED
    BY <2>2, <2>3, IdleFacts, Named DEF JobInv, SearchInv
<1>2. CASE \E d : ListDirectory(d)
  <2>1. job' = job /\ IsIdle("background") /\ binding # "detached"
    BY <1>2 DEF ListDirectory, Free
  <2> QED
    BY <2>1 DEF JobInv, SearchInv, IsIdle
<1>3. CASE (\E p, k : Edit(p, k)) \/ ReadEvent \/ UNCHANGED vars
  <2>1. job' = job /\ binding' = binding /\ initialized' = initialized
    BY <1>3 DEF Edit, ReadEvent, vars, tables
  <2> QED
    BY <2>1 DEF JobInv, SearchInv
<1> QED
  BY <1>1, <1>2, <1>3

LEMMA JobsNext ==
    ASSUME JobInv, SearchInv, QueueInv, [Next]_vars
    PROVE  (JobInv /\ SearchInv)'
<1>1. CASE \E w \in Workers : WorkerStep(w) \/ ScanFails(w)
  <2>1. PICK w \in Workers : WorkerStep(w) \/ ScanFails(w)
    BY <1>1
  <2>2. CASE StatFile(w) \/ UpsertFile(w) \/ RemovePath(w) \/ AnalyzeRoot(w) \/ CollectSearchEntries(w) \/ ScanFails(w)
    BY <2>2, PlainSteps, PlainKeeps
  <2> QED
    BY <2>1, <2>2, CommitKeeps, StopDetachedKeeps, ClearKeeps DEF WorkerStep
<1>2. CASE ReindexCommand \/ StartRootWatcher \/ EnsureAgentRoom \/ ReconcileWatchedRootIndexes
           \/ ApplyIndexChange \/ SearchPage
  BY <1>2, StartSteps, PlainKeeps
<1>3. CASE \/ BeginWatch \/ StopWatching \/ ActivateAgentRoomBinding \/ Restart
           \/ \E w \in {"window", "background"} : DetachRoom(w)
           \/ \E q \in Queries : SearchRequest(q)
  BY <1>3, WatchKeeps, BindKeeps, RestKeeps, DetachKeeps, SearchKeeps
<1>4. CASE \/ \E p \in Paths : \E kind \in Kinds[p] : Edit(p, kind)
           \/ ReadEvent \/ UNCHANGED vars \/ \E d \in Directories : ListDirectory(d)
  BY <1>4, RestKeeps
<1> QED
  BY <1>1, <1>2, <1>3, <1>4 DEF Next

-----------------------------------------------------------------------------
(* The queues and the phone's request.                                     *)

LEMMA Classified ==
    ASSUME NEW e \in EventRecord
    PROVE  ClassifyChange(e) \in ChangeRecord
<1>1. \A k \in {"Reindex", "UpsertFile", "RemovePath"}, p \in Paths \cup {NoPath} : Change(k, p) \in ChangeRecord
  BY DEF Change, ChangeRecord
<1>2. e.path \in Paths \cup {NoPath}
  BY DEF EventRecord
<1> QED
  BY <1>1, <1>2 DEF ClassifyChange

LEMMA QueueNext ==
    ASSUME QueueInv, [Next]_vars
    PROVE  QueueInv'
<1>1. CASE UNCHANGED <<events, pending>>
  BY <1>1 DEF QueueInv
<1>2. CASE events' = <<>> /\ pending' = <<>>
  BY <1>2 DEF QueueInv
<1>3. CASE ReadEvent
  <2>1. Head(events) \in EventRecord /\ Tail(events) \in Seq(EventRecord)
    BY <1>3 DEF ReadEvent, QueueInv
  <2> QED
    BY <1>3, <2>1, Classified DEF ReadEvent, QueueInv
<1>4. CASE ApplyIndexChange
  BY <1>4 DEF ApplyIndexChange, QueueInv
<1>5. CASE \E p \in Paths : \E kind \in Kinds[p] : Edit(p, kind)
  <2>1. pending' = pending /\ (events' = events \/ \E e \in EventRecord : events' = Append(events, e))
    BY <1>5 DEF Edit, EventRecord
  <2> QED
    BY <2>1 DEF QueueInv
<1>6. \/ \E p \in Paths : \E kind \in Kinds[p] : Edit(p, kind)
      \/ ReadEvent \/ ApplyIndexChange \/ UNCHANGED <<events, pending>> \/ (events' = <<>> /\ pending' = <<>>)
  BY DEF Next, WorkerStep, StatFile, UpsertFile, RemovePath, AnalyzeRoot, CollectSearchEntries, CommitReindex,
         StopDetachedWatcher, ClearIndex, ScanFails, ReindexCommand, StartRootWatcher, BeginWatch, StopWatching,
         EnsureAgentRoom, ActivateAgentRoomBinding, DetachRoom, Restart, ReconcileWatchedRootIndexes,
         SearchRequest, SearchPage, ListDirectory, Stopped, watch, vars
<1> QED
  BY <1>1, <1>2, <1>3, <1>4, <1>5, <1>6

\* The folder changed under request x; it was answered with one more page.
Marked(x, s) == [x EXCEPT !.quiet = FALSE, !.steady = s]
Paged(x, k, o, a, s, q) == [x EXCEPT !.kind = k, !.offset = o, !.pages = @ + 1, !.answered = a, !.steady = s, !.quiet = q]

LEMMA MarkedFacts ==
    ASSUME NEW x, AskedFor(x), NEW s
    PROVE  /\ AskedFor(Marked(x, s)) /\ Marked(x, s).kind = x.kind /\ Marked(x, s).query = x.query
           /\ Marked(x, s).pages = x.pages
<1>1. AskedFor(Marked(x, s))
  BY DEF AskedFor, Marked
<1>2. Marked(x, s).kind = x.kind
  BY DEF AskedFor, Marked
<1>3. Marked(x, s).query = x.query
  BY DEF AskedFor, Marked
<1>4. Marked(x, s).pages = x.pages
  BY DEF AskedFor, Marked
<1> QED
  BY <1>1, <1>2, <1>3, <1>4

LEMMA PagedFacts ==
    ASSUME NEW x, AskedFor(x), NEW k, NEW o, NEW a, NEW s, NEW q
    PROVE  /\ AskedFor(Paged(x, k, o, a, s, q)) /\ Paged(x, k, o, a, s, q).kind = k
           /\ Paged(x, k, o, a, s, q).query = x.query /\ Paged(x, k, o, a, s, q).pages = x.pages + 1
<1>1. AskedFor(Paged(x, k, o, a, s, q))
  BY DEF AskedFor, Paged
<1>2. Paged(x, k, o, a, s, q).kind = k
  BY DEF AskedFor, Paged
<1>3. Paged(x, k, o, a, s, q).query = x.query
  BY DEF AskedFor, Paged
<1>4. Paged(x, k, o, a, s, q).pages = x.pages + 1
  BY DEF AskedFor, Paged
<1> QED
  BY <1>1, <1>2, <1>3, <1>4

\* Request x becomes y, either not by a page of a search or by one.
Silent(x, y) == RequestOK(y) /\ (x.query.scope # "none" => y.pages <= x.pages)

LEMMA Unasked == RequestOK(Request("failed", NoQuery)) /\ RequestOK(Request("none", NoQuery))
                 /\ Request("failed", NoQuery).pages = 0 /\ Request("none", NoQuery).pages = 0
BY Asks, NoneAsked

LEMMA EditAsks ==
    ASSUME RequestInv, NEW p, NEW kind, Edit(p, kind)
    PROVE  Silent(request, request')
<1> DEFINE s == {q \in request.steady : disk'[q].kind = disk[q].kind}
<1>1. request' = Marked(request, s)
  BY DEF Edit, Marked
<1> HIDE DEF s
<1>2. AskedFor(request')
  BY <1>1, MarkedFacts DEF RequestInv, RequestOK
<1>3. request'.kind = request.kind /\ request'.query = request.query /\ request'.pages = request.pages
  BY <1>1, MarkedFacts DEF RequestInv, RequestOK
<1> QED
  BY <1>2, <1>3 DEF RequestInv, RequestOK, Silent

LEMMA SearchAsks ==
    ASSUME RequestInv, NEW q, SearchRequest(q)
    PROVE  Silent(request, request')
<1>1. request' = Asked("search", q) /\ RequestOK(request) /\ request.pages \in Nat
  BY DEF SearchRequest, RequestInv, RequestOK
<1>2. RequestOK(Request("search", q)) /\ Request("search", q).pages = 0
  BY Asks
<1> QED
  BY <1>1, <1>2 DEF Asked, Silent

LEMMA ListAsks ==
    ASSUME RequestInv, NEW d, ListDirectory(d)
    PROVE  Silent(request, request')
<1> DEFINE qd == [NoQuery EXCEPT !.directory = d]
           asked == Asked("browse", qd)
<1>1. qd.scope = "none" /\ request.pages \in Nat /\ RequestOK(request)
  BY NoneAsked DEF RequestInv, RequestOK
<1>2. RequestOK(Request("browse", qd)) /\ Request("browse", qd).pages = 0 /\ Request("browse", qd).query = qd
  <2> HIDE DEF qd
  <2> QED BY <1>1, Asks
<1>3. AskedFor(asked) /\ asked.query.scope = "none" /\ asked.pages \in Nat
      /\ (request.query.scope # "none" => asked.pages = 0 /\ request.pages >= 1)
  <2> HIDE DEF qd
  <2>1. CASE request.kind = "browse"
    BY <1>1, <2>1 DEF Asked, RequestOK
  <2>2. CASE request.kind # "browse"
    <3>1. request.kind \in {"none", "failed", "finished"}
      BY <2>2 DEF ListDirectory, Continues, qd
    <3> QED
      BY <1>1, <1>2, <2>2, <3>1 DEF Asked, RequestOK
  <2> QED
    BY <2>1, <2>2
<1>4. \/ request' = Request("failed", NoQuery)
      \/ \E k, o, a, s, b : request' = Paged(asked, k, o, a, s, b)
  <2> DEFINE all == Listing(d)
             total == Cardinality(all)
             end == IF asked.offset + Limit < total THEN asked.offset + Limit ELSE total
             first == asked.pages = 0
             page == {p \in all : ListNumber(d, p) \in (asked.offset + 1)..end}
  <2> HIDE DEF asked, all, end, first, total, page
  <2>1. request' = IF ~IsDir(d) \/ asked.offset > total THEN Request("failed", NoQuery)
                   ELSE Paged(asked, IF end < total THEN asked.kind ELSE "finished", end,
                              Append(asked.answered, page),
                              IF first THEN all ELSE asked.steady, first \/ asked.quiet)
    BY DEF ListDirectory, Paged, asked, all, end, first, total, page
  <2> QED
    BY <2>1
<1> HIDE DEF asked
<1>5. CASE request' = Request("failed", NoQuery)
  BY <1>1, <1>5, Unasked DEF Silent
<1>6. ASSUME NEW k, NEW o, NEW a, NEW s, NEW b, request' = Paged(asked, k, o, a, s, b)
      PROVE  Silent(request, request')
  <2>1. AskedFor(request') /\ request'.query = asked.query /\ request'.pages = asked.pages + 1
    BY <1>3, <1>6, PagedFacts
  <2> QED
    BY <1>1, <1>3, <2>1 DEF Silent, RequestOK
<1> QED
  BY <1>4, <1>5, <1>6

LEMMA PageAsks ==
    ASSUME RequestInv, SearchPage
    PROVE  RequestInv'
<1>1. RequestOK(request) /\ AskedFor(request) /\ request.pages \in Nat
  BY DEF RequestInv, RequestOK
<1>2. \/ request' = Request("failed", NoQuery)
      \/ \E k \in {"finished", request.kind} : \E o, a, s : request' = Paged(request, k, o, a, s, request.quiet)
  <2> DEFINE q == request.query
             found == PageOf(q, request.offset)
             first == request.pages = 0
  <2> HIDE DEF q, found, first
  <2>1. request' = IF (q.scope = "CurrentDirectory" /\ ~IsDir(q.directory)) \/ (~first /\ generation # "cursor")
                   THEN Request("failed", NoQuery)
                   ELSE [request EXCEPT !.kind = IF found.next < 0 THEN "finished" ELSE @,
                           !.offset = found.next, !.pages = @ + 1, !.answered = Append(@, Shown(found.page)),
                           !.steady = IF first THEN {p \in Rows(q) : Hit(q, p)} ELSE @]
    BY DEF SearchPage, q, found, first
  <2> DEFINE k == IF found.next < 0 THEN "finished" ELSE request.kind
             a == Append(request.answered, Shown(found.page))
             s == IF first THEN {p \in Rows(q) : Hit(q, p)} ELSE request.steady
  <2>2. [request EXCEPT !.kind = k, !.offset = found.next, !.pages = @ + 1, !.answered = a, !.steady = s]
        = Paged(request, k, found.next, a, s, request.quiet)
    <3> HIDE DEF k, a, s
    <3> QED BY <1>1 DEF Paged, AskedFor
  <2>3. k \in {"finished", request.kind}
    OBVIOUS
  <2>4. \/ request' = Request("failed", NoQuery)
        \/ request' = [request EXCEPT !.kind = k, !.offset = found.next, !.pages = @ + 1, !.answered = a, !.steady = s]
    BY <2>1
  <2> QED
    BY <2>2, <2>3, <2>4
<1>3. CASE request' = Request("failed", NoQuery)
  BY <1>3, Unasked DEF RequestInv
<1>4. ASSUME NEW k \in {"finished", request.kind}, NEW o, NEW a, NEW s,
             request' = Paged(request, k, o, a, s, request.quiet)
      PROVE  RequestInv'
  <2>1. AskedFor(request') /\ request'.kind = k /\ request'.query = request.query /\ request'.pages = request.pages + 1
    BY <1>1, <1>4, PagedFacts
  <2> QED
    BY <1>1, <2>1 DEF RequestInv, RequestOK
<1> QED
  BY <1>2, <1>3, <1>4

LEMMA OtherAsks ==
    ASSUME RequestInv, [Next]_vars, ~SearchPage
    PROVE  Silent(request, request')
<1>1. request.pages \in Nat /\ RequestOK(request)
  BY DEF RequestInv, RequestOK
<1>2. CASE request' \in {Request("failed", NoQuery), Request("none", NoQuery), request}
  BY <1>1, <1>2, Unasked DEF Silent
<1>3. CASE \/ \E p \in Paths : \E kind \in Kinds[p] : Edit(p, kind)
           \/ \E q \in Queries : SearchRequest(q)
           \/ \E d \in Directories : ListDirectory(d)
  BY <1>3, EditAsks, SearchAsks, ListAsks
<1>4. \/ \E p \in Paths : \E kind \in Kinds[p] : Edit(p, kind)
      \/ \E q \in Queries : SearchRequest(q)
      \/ \E d \in Directories : ListDirectory(d)
      \/ request' \in {Request("failed", NoQuery), Request("none", NoQuery), request}
  BY DEF Next, WorkerStep, StatFile, UpsertFile, RemovePath, AnalyzeRoot, CollectSearchEntries, CommitReindex,
         StopDetachedWatcher, ClearIndex, ScanFails, ReindexCommand, StartRootWatcher, BeginWatch, StopWatching,
         EnsureAgentRoom, ActivateAgentRoomBinding, DetachRoom, Restart, ReconcileWatchedRootIndexes,
         ReadEvent, ApplyIndexChange, vars
<1> QED
  BY <1>2, <1>3, <1>4

-----------------------------------------------------------------------------
(* Rows, entries and their numbers.                                        *)

\* A set of numbers has a least one.
LEMMA LeastNatural ==
    ASSUME NEW T \in SUBSET Nat, T # {}
    PROVE  \E x \in T : \A y \in T : x <= y
<1> DEFINE R == OpToRel(<, Nat)
<1>1. IsWellFoundedOn(R, Nat)
  BY NatLessThanWellFounded
<1>2. \A a, b \in Nat : <<a, b>> \in R <=> a < b
  BY DEF OpToRel
<1> HIDE DEF R
<1>3. PICK x \in T : \A y \in T : ~ (<<y, x>> \in R)
  BY <1>1, WFMin
<1>4. ASSUME NEW y \in T PROVE x <= y
  <2>1. x \in Nat /\ y \in Nat
    BY <1>3
  <2>2. ~ (y < x)
    BY <1>2, <1>3, <2>1
  <2> QED
    BY <2>1, <2>2
<1> QED
  BY <1>3, <1>4

LEMMA Ranks == \A p \in Paths : Rank[p] \in Nat
BY BoundsAssumption

\* A set of paths has one that comes first.
LEMMA LowestRank ==
    ASSUME NEW S \in SUBSET Paths, S # {}
    PROVE  \E p \in S : \A r \in S : Rank[p] <= Rank[r]
<1> DEFINE T == {Rank[p] : p \in S}
<1>1. T \in SUBSET Nat /\ T # {}
  BY Ranks
<1>2. \A p \in S : Rank[p] \in T
  OBVIOUS
<1>3. \A t \in T : \E p \in S : t = Rank[p]
  OBVIOUS
<1> HIDE DEF T
<1>4. PICK x \in T : \A y \in T : x <= y
  BY <1>1, LeastNatural
<1> QED
  BY <1>2, <1>3, <1>4

\* The folder is finite: its subsets can be counted.
LEMMA Counts ==
    ASSUME NEW S \in SUBSET Paths
    PROVE  /\ IsFiniteSet(S) /\ Cardinality(S) \in Nat
           /\ \A T \in SUBSET S : Cardinality(T) \in Nat /\ Cardinality(T) <= Cardinality(S)
           /\ \A T \in SUBSET S : T # S => Cardinality(T) < Cardinality(S)
           /\ S # {} => Cardinality(S) >= 1
<1>1. IsFiniteSet(S)
  BY FS_Subset, BoundsAssumption
<1>2. Cardinality(S) \in Nat
  BY <1>1, FS_CardinalityType
<1>3. ASSUME NEW T \in SUBSET S
      PROVE  Cardinality(T) \in Nat /\ Cardinality(T) <= Cardinality(S) /\ (T # S => Cardinality(T) < Cardinality(S))
  <2>1. IsFiniteSet(T) /\ Cardinality(T) <= Cardinality(S) /\ (Cardinality(S) = Cardinality(T) => S = T)
    BY <1>1, FS_Subset
  <2>2. Cardinality(T) \in Nat
    BY <2>1, FS_CardinalityType
  <2> QED
    BY <1>2, <2>1, <2>2
<1>4. S # {} => Cardinality(S) # 0
  BY <1>1, FS_EmptySet
<1> QED
  BY <1>1, <1>2, <1>3, <1>4

\* Rows are numbered from 1 in the order of the index.
LEMMA RowNumbers ==
    ASSUME NEW q, NEW p \in Rows(q), NEW r \in Rows(q)
    PROVE  /\ RowNumber(q, p) \in Nat /\ RowNumber(q, p) >= 1 /\ RowNumber(q, r) \in Nat
           /\ Rank[p] <= Rank[r] => RowNumber(q, p) <= RowNumber(q, r)
           /\ Rank[p] < Rank[r] => RowNumber(q, p) < RowNumber(q, r)
<1> DEFINE P == {x \in Rows(q) : Rank[x] <= Rank[p]}
           R == {x \in Rows(q) : Rank[x] <= Rank[r]}
<1>1. Rows(q) \in SUBSET Paths /\ p \in Paths /\ r \in Paths
  BY DEF Rows
<1>2. P \in SUBSET Paths /\ R \in SUBSET Paths /\ p \in P /\ r \in R
  BY <1>1, Ranks
<1>3. Rank[p] <= Rank[r] => P \in SUBSET R
  BY <1>1, Ranks
<1>4. Rank[p] < Rank[r] => r \notin P
  BY <1>1, Ranks
<1>5. RowNumber(q, p) = Cardinality(P) /\ RowNumber(q, r) = Cardinality(R)
  BY DEF RowNumber
<1>6. Rank[p] < Rank[r] => Rank[p] <= Rank[r]
  BY <1>1, Ranks
<1> HIDE DEF P, R
<1>7. Cardinality(P) \in Nat /\ Cardinality(R) \in Nat /\ Cardinality(P) >= 1
  BY <1>2, Counts
<1>8. P \in SUBSET R => Cardinality(P) <= Cardinality(R) /\ (P # R => Cardinality(P) < Cardinality(R))
  BY <1>2, Counts
<1>9. Rank[p] < Rank[r] => P # R
  BY <1>2, <1>4
<1> QED
  BY <1>3, <1>5, <1>6, <1>7, <1>8, <1>9

\* Entries of a listing are numbered from 1 to their count.
LEMMA ListNumbers ==
    ASSUME NEW d, NEW p \in Listing(d)
    PROVE  /\ Listing(d) \in SUBSET Paths /\ Cardinality(Listing(d)) \in Nat
           /\ ListNumber(d, p) \in Nat /\ ListNumber(d, p) >= 1 /\ ListNumber(d, p) <= Cardinality(Listing(d))
<1> DEFINE P == {r \in Listing(d) : \/ disk[r].kind = "dir" /\ disk[p].kind = "file"
                                    \/ disk[r].kind = disk[p].kind /\ Rank[r] <= Rank[p]}
<1>1. Listing(d) \in SUBSET Paths
  BY DEF Listing
<1>2. P \in SUBSET Listing(d) /\ p \in P
  BY <1>1, Ranks
<1>3. ListNumber(d, p) = Cardinality(P)
  BY DEF ListNumber
<1> HIDE DEF P
<1>4. P \in SUBSET Paths /\ P # {}
  BY <1>1, <1>2
<1> QED
  BY <1>1, <1>2, <1>3, <1>4, Counts

\* What is on a page comes before the hits that are not.
LEMMA FirstHitsFacts ==
    ASSUME NEW H \in SUBSET Paths, NEW p \in FirstHits(H), NEW f \in H \ FirstHits(H)
    PROVE  Rank[p] < Rank[f]
<1> DEFINE P == {r \in H : Rank[r] < Rank[p]}
           F == {r \in H : Rank[r] < Rank[f]}
<1>1. p \in Paths /\ f \in Paths
  BY DEF FirstHits
<1>2. Cardinality(P) < Limit /\ ~(Cardinality(F) < Limit)
  BY DEF FirstHits
<1>3. P \in SUBSET Paths /\ F \in SUBSET Paths
  OBVIOUS
<1>4. Rank[f] <= Rank[p] => F \in SUBSET P
  BY <1>1, Ranks
<1>5. Limit \in Nat
  BY BoundsAssumption
<1> HIDE DEF P, F
<1>6. Cardinality(P) \in Nat /\ Cardinality(F) \in Nat /\ (F \in SUBSET P => Cardinality(F) <= Cardinality(P))
  BY <1>3, Counts
<1>7. ~(Rank[f] <= Rank[p])
  BY <1>2, <1>4, <1>5, <1>6
<1> QED
  BY <1>1, <1>7, Ranks

\* What a page of a search leaves for the next.
LEMMA PageFacts ==
    ASSUME NEW q, NEW offset \in Nat
    PROVE  LET found == PageOf(q, offset) IN
           /\ found.page \subseteq HitsAfter(q, offset)
           /\ found.next < 0 => found.page = HitsAfter(q, offset)
           /\ found.next = -1 \/ found.next \in Nat
           /\ found.next >= 0 => /\ found.next >= offset /\ found.page \subseteq RowsTo(q, found.next)
                                 /\ HitsAfter(q, offset) \cap RowsTo(q, found.next) \subseteq found.page
<1> DEFINE H == HitsAfter(q, offset)
           page == FirstHits(H)
           rest == H \ page
           f == CHOOSE p \in rest : \A r \in rest : Rank[p] <= Rank[r]
           found == PageOf(q, offset)
           Goal == /\ found.page \subseteq H /\ (found.next < 0 => found.page = H)
                   /\ found.next = -1 \/ found.next \in Nat
                   /\ found.next >= 0 => /\ found.next >= offset /\ found.page \subseteq RowsTo(q, found.next)
                                         /\ H \cap RowsTo(q, found.next) \subseteq found.page
<1> SUFFICES Goal
  OBVIOUS
<1>1. H \subseteq Rows(q) /\ H \in SUBSET Paths /\ (\A p \in H : RowNumber(q, p) > offset) /\ page \subseteq H
  BY DEF HitsAfter, Rows, FirstHits
<1>2. found.page = page /\ found.next = IF rest = {} THEN -1 ELSE RowNumber(q, f) - 1
  BY DEF PageOf
<1>3. rest # {} => f \in rest /\ \A r \in rest : Rank[f] <= Rank[r]
  <2> SUFFICES ASSUME rest # {} PROVE f \in rest /\ \A r \in rest : Rank[f] <= Rank[r]
    OBVIOUS
  <2>1. \E p \in rest : \A r \in rest : Rank[p] <= Rank[r]
    <3>1. rest \in SUBSET Paths
      BY <1>1
    <3> HIDE DEF rest
    <3> QED
      BY <3>1, LowestRank
  <2> HIDE DEF rest
  <2> QED
    BY <2>1
<1>4. \A p \in page, r \in rest : Rank[p] < Rank[r]
  BY <1>1, FirstHitsFacts
<1>5. rest = H \ page
  OBVIOUS
<1> HIDE DEF H, page, rest, f, found
<1>6. CASE rest = {}
  <2>1. found.page = H /\ found.next = -1
    BY <1>1, <1>2, <1>5, <1>6
  <2> QED
    BY <2>1
<1>7. CASE rest # {}
  <2>1. f \in rest /\ f \in H /\ f \in Rows(q) /\ f \notin page
    BY <1>1, <1>3, <1>5, <1>7
  <2>2. RowNumber(q, f) \in Nat /\ RowNumber(q, f) > offset
    BY <1>1, <2>1, RowNumbers
  <2>3. found.next = RowNumber(q, f) - 1 /\ found.next \in Nat /\ found.next >= offset
    BY <1>2, <1>7, <2>2
  <2>4. ASSUME NEW p \in page PROVE p \in RowsTo(q, found.next)
    <3>1. p \in Rows(q) /\ Rank[p] < Rank[f]
      BY <1>1, <1>4, <2>1
    <3>2. RowNumber(q, p) \in Nat /\ RowNumber(q, p) < RowNumber(q, f)
      BY <2>1, <3>1, RowNumbers
    <3> QED
      BY <2>2, <2>3, <3>1, <3>2 DEF RowsTo
  <2>5. ASSUME NEW p \in H, p \in RowsTo(q, found.next) PROVE p \in page
    <3> SUFFICES ASSUME p \in rest PROVE FALSE
      BY <1>5
    <3>1. p \in Rows(q) /\ Rank[f] <= Rank[p] /\ RowNumber(q, p) <= found.next
      BY <1>1, <1>3, <1>7, <2>5 DEF RowsTo
    <3>2. RowNumber(q, p) \in Nat /\ RowNumber(q, f) <= RowNumber(q, p)
      BY <2>1, <3>1, RowNumbers
    <3> QED
      BY <2>2, <2>3, <3>1, <3>2
  <2>6. ~(found.next < 0)
    BY <2>3
  <2> QED
    BY <1>1, <1>2, <2>3, <2>4, <2>5, <2>6
<1> QED
  BY <1>6, <1>7

-----------------------------------------------------------------------------
(* Sequences of pages.                                                     *)

LEMMA NoPages == Rising(<<>>) /\ Apart(<<>>) /\ UNION Range(<<>>) = {} /\ <<>> \in Seq(SUBSET Paths)
BY DEF Rising, Apart, Range

\* One page more.
LEMMA OnePageMore ==
    ASSUME NEW s \in Seq(SUBSET Paths), NEW P \in SUBSET Paths
    PROVE  /\ Append(s, P) \in Seq(SUBSET Paths)
           /\ UNION Range(Append(s, P)) = (UNION Range(s)) \cup P
           /\ Rising(s) /\ (\A a \in UNION Range(s), b \in P : Rank[a] < Rank[b]) => Rising(Append(s, P))
           /\ Apart(s) /\ (\A a \in UNION Range(s), b \in P : a # b) => Apart(Append(s, P))
<1> DEFINE t == Append(s, P)
<1>1. Len(t) = Len(s) + 1 /\ DOMAIN t = 1..(Len(s) + 1) /\ DOMAIN s = 1..Len(s) /\ Len(s) \in Nat
      /\ (\A i \in DOMAIN s : t[i] = s[i]) /\ t[Len(s) + 1] = P /\ t \in Seq(SUBSET Paths)
  OBVIOUS
<1> HIDE DEF t
<1>2. \A i \in DOMAIN s : s[i] \subseteq UNION Range(s)
  BY DEF Range
<1>3. UNION Range(t) = (UNION Range(s)) \cup P
  <2>1. ASSUME NEW x \in UNION Range(t) PROVE x \in (UNION Range(s)) \cup P
    <3>1. PICK i \in DOMAIN t : x \in t[i]
      BY DEF Range
    <3>2. i \in DOMAIN s \/ i = Len(s) + 1
      BY <1>1, <3>1
    <3>3. i \in DOMAIN s => x \in UNION Range(s)
      BY <1>1, <1>2, <3>1
    <3>4. i = Len(s) + 1 => x \in P
      BY <1>1, <3>1
    <3> QED
      BY <3>2, <3>3, <3>4
  <2>2. ASSUME NEW x \in (UNION Range(s)) \cup P PROVE x \in UNION Range(t)
    <3>1. CASE x \in P
      <4>1. Len(s) + 1 \in DOMAIN t
        BY <1>1
      <4>2. t[Len(s) + 1] \in Range(t)
        BY <4>1 DEF Range
      <4> QED
        BY <1>1, <3>1, <4>2
    <3>2. CASE x \in UNION Range(s)
      <4>1. PICK i \in DOMAIN s : x \in s[i]
        BY <3>2 DEF Range
      <4>2. i \in DOMAIN t
        BY <1>1
      <4>3. t[i] \in Range(t) /\ t[i] = s[i]
        BY <1>1, <4>2 DEF Range
      <4> QED
        BY <4>1, <4>3
    <3> QED
      BY <2>2, <3>1, <3>2
  <2> QED
    BY <2>1, <2>2
<1>4. ASSUME NEW i \in DOMAIN t, NEW j \in DOMAIN t, i < j
      PROVE  i \in DOMAIN s /\ t[i] = s[i] /\ ((j \in DOMAIN s /\ t[j] = s[j]) \/ t[j] = P)
  BY <1>1, <1>4
<1>5. ASSUME Rising(s), \A a \in UNION Range(s), b \in P : Rank[a] < Rank[b] PROVE Rising(t)
  BY <1>2, <1>4, <1>5 DEF Rising
<1>6. ASSUME Apart(s), \A a \in UNION Range(s), b \in P : a # b PROVE Apart(t)
  BY <1>2, <1>4, <1>6 DEF Apart
<1> QED
  BY <1>1, <1>3, <1>5, <1>6 DEF t

LEMMA RisingIsApart ==
    ASSUME NEW s \in Seq(SUBSET Paths), Rising(s)
    PROVE  Apart(s)
BY Ranks DEF Rising, Apart

\* Before the first page nothing has been shown.
LEMMA FirstFits ==
    ASSUME NEW q
    PROVE  Fitting(q, 0, <<>>, {p \in Rows(q) : Hit(q, p)})
<1>1. ASSUME NEW p \in RowsTo(q, 0) PROVE FALSE
  <2>1. p \in Rows(q) /\ RowNumber(q, p) <= 0
    BY DEF RowsTo
  <2> QED
    BY <2>1, RowNumbers
<1> QED
  BY <1>1, NoPages DEF Fitting

\* A page read from the cursor fits to those before; the last one completes them.
LEMMA FitsOn ==
    ASSUME NEW q, NEW o, NEW A \in Seq(SUBSET Paths), NEW s, Fitting(q, o, A, s), NEW B,
           B = Append(A, Shown(PageOf(q, o).page))
    PROVE  /\ B \in Seq(SUBSET Paths) /\ Rising(B)
           /\ PageOf(q, o).next < 0 => Shows(B, s)
           /\ ~(PageOf(q, o).next < 0) => Fitting(q, PageOf(q, o).next, B, s)
<1> DEFINE found == PageOf(q, o)
           H == HitsAfter(q, o)
           P == Shown(found.page)
<1>1. /\ found.page \subseteq H
      /\ found.next < 0 => found.page = H
      /\ found.next = -1 \/ found.next \in Nat
      /\ found.next >= 0 => /\ found.next >= o /\ found.page \subseteq RowsTo(q, found.next)
                            /\ H \cap RowsTo(q, found.next) \subseteq found.page
  BY PageFacts DEF Fitting
<1>2. P = found.page \ Hidden
  BY DEF Shown
<1>3. /\ o \in Nat /\ Rising(A) /\ UNION Range(A) \subseteq RowsTo(q, o)
      /\ \A p \in s : p \in Rows(q) /\ Hit(q, p)
      /\ \A p \in s : p \in RowsTo(q, o) /\ p \notin Hidden => p \in UNION Range(A)
  BY DEF Fitting
<1>4. H \subseteq Rows(q) /\ (\A p \in H : RowNumber(q, p) > o)
      /\ \A p \in Rows(q) : Hit(q, p) /\ RowNumber(q, p) > o => p \in H
  BY DEF HitsAfter
<1>5. Rows(q) \in SUBSET Paths /\ \A p \in Rows(q) : RowNumber(q, p) \in Nat
  BY RowNumbers DEF Rows
<1> HIDE DEF found, H, P
<1>6. P \in SUBSET Paths
  BY <1>1, <1>2, <1>4, <1>5
<1>7. ASSUME NEW a \in UNION Range(A), NEW b \in P PROVE Rank[a] < Rank[b]
  <2>1. a \in Rows(q) /\ RowNumber(q, a) <= o
    BY <1>3 DEF RowsTo
  <2>2. b \in Rows(q) /\ RowNumber(q, b) > o
    BY <1>1, <1>2, <1>4
  <2>3. Rank[b] <= Rank[a] => RowNumber(q, b) <= RowNumber(q, a)
    BY <2>1, <2>2, RowNumbers
  <2>4. Rank[a] \in Nat /\ Rank[b] \in Nat
    BY <1>5, <2>1, <2>2, Ranks
  <2> QED
    BY <1>3, <1>5, <2>1, <2>2, <2>3, <2>4
<1>8. B = Append(A, P)
  BY DEF P, found
<1>9. B \in Seq(SUBSET Paths) /\ UNION Range(B) = (UNION Range(A)) \cup P /\ Rising(B)
  BY <1>3, <1>6, <1>7, <1>8, OnePageMore
<1>10. ASSUME NEW p \in s PROVE p \in RowsTo(q, o) \/ p \in H
  BY <1>3, <1>4, <1>5 DEF RowsTo
<1>11. ASSUME found.next < 0 PROVE Shows(B, s)
  BY <1>1, <1>2, <1>3, <1>9, <1>10, <1>11 DEF Shows
<1>12. ASSUME ~(found.next < 0) PROVE Fitting(q, found.next, B, s)
  <2>1. found.next \in Nat /\ found.next >= o /\ found.page \subseteq RowsTo(q, found.next)
        /\ H \cap RowsTo(q, found.next) \subseteq found.page
    BY <1>1, <1>12
  <2>2. RowsTo(q, o) \subseteq RowsTo(q, found.next)
    BY <1>3, <1>5, <2>1 DEF RowsTo
  <2>3. UNION Range(B) \subseteq RowsTo(q, found.next)
    BY <1>2, <1>3, <1>9, <2>1, <2>2
  <2>4. ASSUME NEW p \in s, p \in RowsTo(q, found.next), p \notin Hidden PROVE p \in UNION Range(B)
    BY <1>2, <1>3, <1>9, <1>10, <2>1, <2>4
  <2> QED
    BY <1>3, <1>9, <2>1, <2>3, <2>4 DEF Fitting
<1> QED
  BY <1>9, <1>11, <1>12 DEF found

LEMMA FirstListed ==
    ASSUME NEW d
    PROVE  Listed(d, 0, <<>>, Listing(d))
<1>1. ASSUME NEW p \in ListTo(d, 0) PROVE FALSE
  <2>1. p \in Listing(d) /\ ListNumber(d, p) <= 0
    BY DEF ListTo
  <2> QED
    BY <2>1, ListNumbers
<1> QED
  BY <1>1, NoPages DEF Listed

\* The next entries of an unchanged directory.
LEMMA ListsOn ==
    ASSUME NEW d, NEW o, NEW A \in Seq(SUBSET Paths), NEW s, Listed(d, o, A, s), NEW end \in Nat, o <= end, NEW B,
           B = Append(A, {p \in Listing(d) : ListNumber(d, p) \in (o + 1)..end})
    PROVE  B \in Seq(SUBSET Paths) /\ Listed(d, end, B, s)
<1> DEFINE P == {p \in Listing(d) : ListNumber(d, p) \in (o + 1)..end}
<1>1. Listing(d) \in SUBSET Paths /\ \A p \in Listing(d) : ListNumber(d, p) \in Nat
  BY ListNumbers DEF Listing
<1>2. o \in Nat /\ Apart(A) /\ s = Listing(d) /\ UNION Range(A) = ListTo(d, o)
  BY DEF Listed
<1>3. P \in SUBSET Paths /\ (\A a \in ListTo(d, o), b \in P : a # b) /\ ListTo(d, end) = ListTo(d, o) \cup P
  <2>1. P \in SUBSET Paths
    BY <1>1
  <2>2. \A p \in Listing(d) : ListNumber(d, p) \in (o + 1)..end <=> ListNumber(d, p) > o /\ ListNumber(d, p) <= end
    BY <1>1, <1>2
  <2>3. \A a \in ListTo(d, o), b \in P : a # b
    BY <1>1, <1>2, <2>2 DEF ListTo
  <2>4. \A p \in Listing(d) : ListNumber(d, p) <= end <=> ListNumber(d, p) <= o \/ (ListNumber(d, p) > o /\ ListNumber(d, p) <= end)
    BY <1>1, <1>2
  <2>5. ListTo(d, end) = ListTo(d, o) \cup P
    BY <2>2, <2>4 DEF ListTo
  <2> QED
    BY <2>1, <2>3, <2>5
<1> HIDE DEF P
<1>4. B = Append(A, P)
  BY DEF P
<1>5. \A a \in UNION Range(A), b \in P : a # b
  BY <1>2, <1>3
<1>6. Append(A, P) \in Seq(SUBSET Paths) /\ UNION Range(Append(A, P)) = (UNION Range(A)) \cup P /\ Apart(Append(A, P))
  BY <1>2, <1>3, <1>5, OnePageMore
<1> QED
  BY <1>2, <1>3, <1>4, <1>6 DEF Listed

\* The last page of a listing.
LEMMA AllListed ==
    ASSUME NEW d, NEW o, NEW A, NEW s, Listed(d, o, A, s), o >= Cardinality(Listing(d))
    PROVE  Shows(A, s)
<1>1. ASSUME NEW p \in Listing(d) PROVE p \in ListTo(d, o)
  <2>1. ListNumber(d, p) \in Nat /\ Cardinality(Listing(d)) \in Nat /\ ListNumber(d, p) <= Cardinality(Listing(d))
    BY ListNumbers
  <2> QED
    BY <2>1 DEF ListTo, Listed
<1> QED
  BY <1>1 DEF Listed, Shows

-----------------------------------------------------------------------------
(* A request answered with one more page.                                  *)

LEMMA MarkedRest ==
    ASSUME NEW x, AskedFor(x), NEW s
    PROVE  /\ Marked(x, s).offset = x.offset /\ Marked(x, s).answered = x.answered
           /\ Marked(x, s).steady = s /\ ~Marked(x, s).quiet
<1>1. Marked(x, s).offset = x.offset
  BY DEF AskedFor, Marked
<1>2. Marked(x, s).answered = x.answered
  BY DEF AskedFor, Marked
<1>3. Marked(x, s).steady = s
  BY DEF AskedFor, Marked
<1>4. ~Marked(x, s).quiet
  BY DEF AskedFor, Marked
<1> QED
  BY <1>1, <1>2, <1>3, <1>4

LEMMA PagedRest ==
    ASSUME NEW x, AskedFor(x), NEW k, NEW o, NEW a, NEW s, NEW q
    PROVE  /\ Paged(x, k, o, a, s, q).offset = o /\ Paged(x, k, o, a, s, q).answered = a
           /\ Paged(x, k, o, a, s, q).steady = s /\ Paged(x, k, o, a, s, q).quiet = q
<1>1. Paged(x, k, o, a, s, q).offset = o
  BY DEF AskedFor, Paged
<1>2. Paged(x, k, o, a, s, q).answered = a
  BY DEF AskedFor, Paged
<1>3. Paged(x, k, o, a, s, q).steady = s
  BY DEF AskedFor, Paged
<1>4. Paged(x, k, o, a, s, q).quiet = q
  BY DEF AskedFor, Paged
<1> QED
  BY <1>1, <1>2, <1>3, <1>4

LEMMA Fresh ==
    ASSUME NEW k, NEW q
    PROVE  /\ Request(k, q).kind = k /\ Request(k, q).query = q /\ Request(k, q).offset = 0
           /\ Request(k, q).answered = <<>> /\ Request(k, q).pages = 0
BY DEF Request

LEMMA SameRows ==
    ASSUME entries' = entries, NEW q, NEW n
    PROVE  Rows(q)' = Rows(q) /\ RowsTo(q, n)' = RowsTo(q, n)
<1>1. Rows(q)' = Rows(q)
  BY DEF Rows
<1>2. \A p : RowNumber(q, p)' = RowNumber(q, p)
  BY <1>1 DEF RowNumber
<1> QED
  BY <1>1, <1>2 DEF RowsTo

LEMMA SameList ==
    ASSUME disk' = disk, NEW d, NEW n
    PROVE  Listing(d)' = Listing(d) /\ ListTo(d, n)' = ListTo(d, n)
<1>1. Listing(d)' = Listing(d)
  BY DEF Listing
<1>2. \A p : ListNumber(d, p)' = ListNumber(d, p)
  BY <1>1 DEF ListNumber
<1> QED
  BY <1>1, <1>2 DEF ListTo

\* A change on disk leaves a search under way fitting for what did not change.
LEMMA StillFits ==
    ASSUME NEW q, NEW o, NEW A, NEW s, NEW t, Fitting(q, o, A, s), entries' = entries,
           t \subseteq s, \A p \in t : disk'[p].kind = disk[p].kind
    PROVE  Fitting(q, o, A, t)'
<1>1. Rows(q)' = Rows(q) /\ RowsTo(q, o)' = RowsTo(q, o)
  BY SameRows
<1>2. \A p \in t : Hit(q, p) => Hit(q, p)'
  BY DEF Hit, ValidHit, MatchesExtensions
<1> QED
  BY <1>1, <1>2 DEF Fitting

LEMMA StillListed ==
    ASSUME NEW d, NEW o, NEW A, NEW s, Listed(d, o, A, s), disk' = disk
    PROVE  Listed(d, o, A, s)'
BY SameList DEF Listed

\* A step that leaves the request and the disk alone: it changes no row, or the generation too.
LEMMA StillKeeps ==
    ASSUME PageInv, request' = request, disk' = disk,
           (entries' = entries /\ generation' = generation) \/ generation' = "newer"
    PROVE  PageInv'
<1> PICK x : x = request
  OBVIOUS
<1>1. PageOK(x) /\ request' = x
  BY DEF PageInv
<1>2. SearchedOK(x)'
  <2>1. CASE generation' = "newer"
    BY <1>1, <2>1 DEF PageOK, SearchedOK
  <2>2. CASE entries' = entries /\ generation' = generation
    BY <1>1, <2>2, StillFits DEF PageOK, SearchedOK
  <2> QED
    BY <2>1, <2>2
<1>3. ListedOK(x)'
  BY <1>1, StillListed DEF PageOK, ListedOK
<1>4. PageOK(x)'
  BY <1>1, <1>2, <1>3 DEF PageOK, ExactOK
<1> QED
  BY <1>1, <1>4 DEF PageInv

LEMMA FreshKeeps ==
    ASSUME NEW k \in {"none", "failed", "search"}, NEW q, request' = Request(k, q)
    PROVE  PageInv'
<1> DEFINE x == Request(k, q)
<1>1. x.kind = k /\ x.answered = <<>> /\ x.pages = 0 /\ x.offset = 0
  BY Fresh
<1> HIDE DEF x
<1>2. PageOK(x)'
  BY <1>1, NoPages DEF PageOK, SearchedOK, ListedOK, ExactOK
<1> QED
  BY <1>2 DEF PageInv, x

LEMMA EditPages ==
    ASSUME RequestInv, PageInv, NEW p, NEW kind, Edit(p, kind)
    PROVE  PageInv'
<1> PICK x : x = request
  OBVIOUS
<1> PICK t : t = {q \in request.steady : disk'[q].kind = disk[q].kind}
  OBVIOUS
<1> DEFINE y == Marked(x, t)
<1>1. PageOK(x) /\ AskedFor(x) /\ t \subseteq x.steady /\ (\A q \in t : disk'[q].kind = disk[q].kind)
  BY DEF PageInv, RequestInv, RequestOK
<1>2. request' = y /\ entries' = entries /\ generation' = generation
  BY DEF Edit, Marked
<1>3. y.kind = x.kind /\ y.query = x.query /\ y.pages = x.pages
  BY <1>1, MarkedFacts
<1>4. y.offset = x.offset /\ y.answered = x.answered /\ y.steady = t /\ ~y.quiet
  BY <1>1, MarkedRest
<1> HIDE DEF y
<1>5. SearchedOK(y)'
  BY <1>1, <1>2, <1>3, <1>4, StillFits DEF PageOK, SearchedOK
<1>6. ListedOK(y)'
  BY <1>1, <1>3, <1>4 DEF PageOK, ListedOK
<1>7. ExactOK(y)'
  BY <1>1, <1>3, <1>4 DEF PageOK, ExactOK, Shows
<1>8. PageOK(y)'
  BY <1>1, <1>4, <1>5, <1>6, <1>7 DEF PageOK
<1> QED
  BY <1>2, <1>8 DEF PageInv

LEMMA SearchRequestPages ==
    ASSUME PageInv, NEW q, SearchRequest(q)
    PROVE  PageInv'
<1>1. request' = request \/ request' = Request("search", q)
  BY DEF SearchRequest, Asked
<1>2. disk' = disk /\ entries' = entries /\ generation' = generation
  BY DEF SearchRequest, disks, tables
<1> QED
  BY <1>1, <1>2, StillKeeps, FreshKeeps

\* A request was answered with one more page of a search.
LEMMA SearchedPage ==
    ASSUME NEW x, AskedFor(x), x.pages \in Nat, NEW k, NEW o, NEW a \in Seq(SUBSET Paths), NEW s, Rising(a),
           o < 0 => k = "finished" /\ Shows(a, s),
           ~(o < 0) => k = "search" /\ Fitting(x.query, o, a, s),
           disk' = disk, entries' = entries, request' = Paged(x, k, o, a, s, x.quiet)
    PROVE  PageInv'
<1> DEFINE y == Paged(x, k, o, a, s, x.quiet)
           q == x.query
<1>1. y.kind = k /\ y.query = q /\ y.pages = x.pages + 1
  BY PagedFacts
<1>2. y.offset = o /\ y.answered = a /\ y.steady = s
  BY PagedRest
<1>3. request' = y
  OBVIOUS
<1> HIDE DEF y
<1>4. SearchedOK(y)'
  <2>1. CASE o < 0
    BY <1>1, <2>1 DEF SearchedOK
  <2>2. CASE ~(o < 0)
    <3>1. Fitting(q, o, a, s)'
      BY <2>2, StillFits
    <3> HIDE DEF q
    <3> QED
      BY <1>1, <1>2, <3>1 DEF SearchedOK
  <2> QED
    BY <2>1, <2>2
<1>5. ListedOK(y)'
  <2>1. k # "browse"
    OBVIOUS
  <2> QED
    BY <1>1, <2>1 DEF ListedOK
<1>6. ExactOK(y)'
  <2>1. Apart(a)
    BY RisingIsApart
  <2>2. k = "finished" => Shows(a, s)
    OBVIOUS
  <2> QED
    BY <1>1, <1>2, <2>1, <2>2 DEF ExactOK
<1>7. PageOK(y)'
  BY <1>2, <1>4, <1>5, <1>6 DEF PageOK
<1> QED
  BY <1>3, <1>7 DEF PageInv

LEMMA SearchPagePages ==
    ASSUME RequestInv, PageInv, request.kind = "search", SearchPage
    PROVE  PageInv'
<1> PICK x : x = request
  OBVIOUS
<1> DEFINE q == x.query
           found == PageOf(q, x.offset)
           first == x.pages = 0
           k == IF found.next < 0 THEN "finished" ELSE x.kind
           a == Append(x.answered, Shown(found.page))
           s == IF first THEN {p \in Rows(q) : Hit(q, p)} ELSE x.steady
           failing == (q.scope = "CurrentDirectory" /\ ~IsDir(q.directory)) \/ (~first /\ generation # "cursor")
<1>1. PageOK(x) /\ AskedFor(x) /\ x.kind = "search" /\ x.pages \in Nat
  BY DEF PageInv, RequestInv, RequestOK
<1>2. request' = IF failing THEN Request("failed", NoQuery)
                 ELSE [x EXCEPT !.kind = k, !.offset = found.next, !.pages = @ + 1, !.answered = a, !.steady = s]
  BY DEF SearchPage
<1>3. disk' = disk /\ entries' = entries /\ generation' = (IF request'.kind = "search" THEN "cursor" ELSE "newer")
  BY DEF SearchPage, disks
<1>4. CASE failing
  BY <1>2, <1>4, FreshKeeps
<1>5. CASE ~failing
  <2>1. Fitting(q, x.offset, x.answered, s) /\ x.answered \in Seq(SUBSET Paths)
    <3>1. CASE first
      BY <1>1, <3>1, FirstFits DEF PageOK, SearchedOK
    <3>2. CASE ~first
      BY <1>1, <1>5, <3>2 DEF PageOK, SearchedOK
    <3> QED
      BY <3>1, <3>2
  <2>2. a \in Seq(SUBSET Paths) /\ Rising(a)
        /\ (found.next < 0 => Shows(a, s))
        /\ (~(found.next < 0) => Fitting(q, found.next, a, s))
    <3>1. a = Append(x.answered, Shown(PageOf(q, x.offset).page))
      OBVIOUS
    <3> HIDE DEF s, q, a, found
    <3>2. a \in Seq(SUBSET Paths) /\ Rising(a)
      BY <2>1, <3>1, FitsOn
    <3>3. PageOf(q, x.offset).next < 0 => Shows(a, s)
      BY <2>1, <3>1, FitsOn
    <3>4. ~(PageOf(q, x.offset).next < 0) => Fitting(q, PageOf(q, x.offset).next, a, s)
      BY <2>1, <3>1, FitsOn
    <3> QED
      BY <3>2, <3>3, <3>4 DEF found
  <2> DEFINE o == found.next
             y == Paged(x, k, o, a, s, x.quiet)
  <2>3. request' = y
    <3> HIDE DEF k, a, s, found
    <3>1. request' = [x EXCEPT !.kind = k, !.offset = found.next, !.pages = @ + 1, !.answered = a, !.steady = s]
      BY <1>2, <1>5
    <3> QED
      BY <1>1, <3>1 DEF Paged, AskedFor
  <2>4. k = (IF o < 0 THEN "finished" ELSE "search")
    BY <1>1
  <2>5. /\ o < 0 => k = "finished" /\ Shows(a, s)
        /\ ~(o < 0) => k = "search" /\ Fitting(x.query, o, a, s)
    BY <2>2, <2>4
  <2> HIDE DEF k, a, s, found, o, first, failing
  <2> QED
    BY <1>1, <1>3, <2>2, <2>3, <2>5, SearchedPage
<1> QED
  BY <1>4, <1>5

\* A request was answered with one more page of a listing.
LEMMA ListedPage ==
    ASSUME NEW x, AskedFor(x), x.pages \in Nat, NEW d, x.query.scope = "none", x.query.directory = d,
           NEW k \in {"browse", "finished"}, NEW o, NEW a \in Seq(SUBSET Paths), NEW s, NEW b,
           b => Listed(d, o, a, s) /\ (k = "finished" => Shows(a, s)),
           disk' = disk, request' = Paged(x, k, o, a, s, b)
    PROVE  PageInv'
<1> DEFINE y == Paged(x, k, o, a, s, b)
<1>1. y.kind = k /\ y.query = x.query /\ y.pages = x.pages + 1
  BY PagedFacts
<1>2. y.offset = o /\ y.answered = a /\ y.steady = s /\ y.quiet = b
  BY PagedRest
<1>3. request' = y
  OBVIOUS
<1> HIDE DEF y
<1>4. SearchedOK(y)'
  BY <1>1 DEF SearchedOK
<1>5. ListedOK(y)'
  <2>1. b => Listed(d, o, a, s)'
    BY StillListed
  <2> QED
    BY <1>1, <1>2, <2>1 DEF ListedOK
<1>6. ExactOK(y)'
  <2>1. b => Apart(a)
    BY DEF Listed
  <2> QED
    BY <1>1, <1>2, <2>1 DEF ExactOK
<1>7. PageOK(y)'
  BY <1>2, <1>4, <1>5, <1>6 DEF PageOK
<1> QED
  BY <1>3, <1>7 DEF PageInv

LEMMA ListPages ==
    ASSUME RequestInv, PageInv, NEW d, ListDirectory(d)
    PROVE  PageInv'
<1> DEFINE qd == [NoQuery EXCEPT !.directory = d]
<1> PICK x : x = Asked("browse", qd)
  OBVIOUS
<1> DEFINE all == Listing(d)
           total == Cardinality(all)
           end == IF x.offset + Limit < total THEN x.offset + Limit ELSE total
           first == x.pages = 0
           page == {p \in all : ListNumber(d, p) \in (x.offset + 1)..end}
           k == IF end < total THEN x.kind ELSE "finished"
           s == IF first THEN all ELSE x.steady
           b == first \/ x.quiet
           a == Append(x.answered, page)
           failing == ~IsDir(d) \/ x.offset > total
<1>1. qd.scope = "none" /\ qd.directory = d
  BY DEF NoQuery
<1>2. PageOK(request) /\ AskedFor(request) /\ request.pages \in Nat
  BY DEF PageInv, RequestInv, RequestOK
<1>3. Continues("browse", qd) /\ disk' = disk
  BY DEF ListDirectory, disks
<1>4. request' = IF failing THEN Request("failed", NoQuery)
                 ELSE Paged(x, k, end, a, s, b)
  <2> HIDE DEF qd
  <2> QED
    BY DEF ListDirectory, Paged, qd
<1> HIDE DEF qd
<1>5. /\ x.kind = "browse" /\ x.query = qd /\ AskedFor(x) /\ x.pages \in Nat /\ x.answered \in Seq(SUBSET Paths)
      /\ IF first THEN x.answered = <<>> /\ x.offset = 0
         ELSE x.quiet => Listed(d, x.offset, x.answered, x.steady)
  <2>1. CASE request.kind = "browse"
    <3>1. x = request /\ request.query = qd
      BY <1>3, <2>1 DEF Asked, Continues
    <3>2. x.pages >= 1 /\ ~first
      BY <1>2, <2>1, <3>1 DEF PageOK, ListedOK
    <3> QED
      BY <1>1, <1>2, <2>1, <3>1, <3>2 DEF PageOK, ListedOK
  <2>2. CASE request.kind # "browse"
    <3>1. x = Request("browse", qd)
      BY <2>2 DEF Asked
    <3>2. AskedFor(x)
      BY <3>1 DEF AskedFor, Request
    <3>3. x.kind = "browse" /\ x.query = qd /\ x.offset = 0 /\ x.answered = <<>> /\ x.pages = 0
      BY <3>1 DEF Request
    <3>4. x.pages \in Nat /\ first
      BY <3>3
    <3>5. x.answered \in Seq(SUBSET Paths)
      BY <3>3, NoPages
    <3> HIDE DEF first
    <3> QED
      BY <3>2, <3>3, <3>4, <3>5
  <2> QED
    BY <2>1, <2>2
<1>6. CASE failing
  BY <1>4, <1>6, FreshKeeps
<1>7. CASE ~failing
  <2>1. total \in Nat /\ Limit \in Nat
    <3>1. all \in SUBSET Paths
      BY DEF Listing
    <3> HIDE DEF all
    <3> QED
      BY <3>1, Counts, BoundsAssumption
  <2>2. ASSUME b PROVE Listed(d, x.offset, x.answered, s)
    <3>1. CASE first
      BY <1>5, <3>1, FirstListed
    <3>2. CASE ~first
      BY <1>5, <2>2, <3>2
    <3> QED
      BY <3>1, <3>2
  <2>3. ~(x.offset > total)
    BY <1>7
  <2> DEFINE y == Paged(x, k, end, a, s, b)
  <2>4. request' = y
    BY <1>4, <1>7
  <2>5. ASSUME b PROVE /\ Listed(d, end, a, s) /\ end \in Nat /\ end <= total
                       /\ k = "finished" => end = total
    <3>1. Listed(d, x.offset, x.answered, s) /\ x.offset \in Nat
      BY <2>2, <2>5 DEF Listed
    <3>2. end \in Nat /\ x.offset <= end /\ end <= total
      <4> HIDE DEF total
      <4> QED
        BY <2>1, <2>3, <3>1
    <3>3. k = "finished" => end = total
      <4> HIDE DEF end, total
      <4> QED
        BY <1>5, <2>1, <3>2
    <3>4. Listed(d, end, a, s)
      <4> HIDE DEF s, end
      <4> QED
        BY <1>5, <3>1, <3>2, ListsOn
    <3> QED
      BY <3>2, <3>3, <3>4
  <2>6. k \in {"browse", "finished"}
    BY <1>5
  <2>7. a \in Seq(SUBSET Paths)
    <3>1. page \in SUBSET Paths
      BY DEF Listing
    <3> HIDE DEF page
    <3> QED
      BY <1>5, <3>1
  <2>8. b => /\ Listed(d, end, a, s)
             /\ k = "finished" => Shows(a, s)
    <3> SUFFICES ASSUME b
                 PROVE  Listed(d, end, a, s) /\ (k = "finished" => Shows(a, s))
      OBVIOUS
    <3>1. Listed(d, end, a, s) /\ end \in Nat /\ (k = "finished" => end = total)
      BY <2>5
    <3>2. k = "finished" => end >= Cardinality(Listing(d))
      <4> HIDE DEF end, k
      <4> QED
        BY <2>1, <3>1
    <3> HIDE DEF k, a, s, end
    <3> QED
      BY <3>1, <3>2, AllListed
  <2>9. x.query.scope = "none" /\ x.query.directory = d
    BY <1>1, <1>5
  <2> HIDE DEF k, a, s, b, end, first, failing
  <2> QED
    BY <1>3, <1>5, <2>4, <2>6, <2>7, <2>8, <2>9, ListedPage DEF y
<1> QED
  BY <1>6, <1>7

-----------------------------------------------------------------------------
(* The background tick and the pages of its search.                        *)

LEMMA NotSeeking == ~Seeking(Idle) /\ \A x : x.stage \in {"idle", "upsert", "stop", "clear", "none"} => ~Seeking(x)
<1>1. \A x : x.stage \in {"idle", "upsert", "stop", "clear", "none"} => ~Seeking(x)
  BY DEF Seeking
<1> QED
  BY <1>1, IdleFacts

\* A thread other than the background tick takes a step.
LEMMA OthersSeek ==
    ASSUME JobInv, NEW w \in Workers \ {"background"}, WorkerStep(w) \/ ScanFails(w)
    PROVE  job'["background"] = job["background"] /\ request' = request
<1>1. job = [u \in Workers |-> job[u]] /\ job[w].then \in Thens(w) /\ "query" \notin Thens(w) /\ "background" \in Workers
  BY Named DEF JobInv, JobOK, Thens
<1>2. CASE ScanFails(w)
  BY <1>1, <1>2 DEF ScanFails, Done
<1>3. CASE StatFile(w) \/ UpsertFile(w) \/ RemovePath(w) \/ AnalyzeRoot(w) \/ CollectSearchEntries(w)
           \/ CommitReindex(w) \/ ClearIndex(w)
  <2>1. request' = request
    BY <1>3 DEF StatFile, UpsertFile, RemovePath, AnalyzeRoot, CollectSearchEntries, CommitReindex, ClearIndex
  <2>2. \E x : job' = [job EXCEPT ![w] = x]
    BY <1>1, <1>3 DEF StatFile, UpsertFile, RemovePath, AnalyzeRoot, CollectSearchEntries, CommitReindex, ClearIndex, Done, Start
  <2> QED
    BY <1>1, <2>1, <2>2
<1>4. CASE StopDetachedWatcher(w)
  BY <1>1, <1>4 DEF StopDetachedWatcher, Stopped
<1> QED
  BY <1>2, <1>3, <1>4 DEF WorkerStep

\* A step of the background tick on a thread of its own begins no search.
LEMMA BackgroundSeeks ==
    ASSUME JobInv, NEW w, w = "background", WorkerStep(w) \/ ScanFails(w), Seeking(job'[w])
    PROVE  Seeking(job[w]) /\ request' = request
<1> USE DEF Seeking
<1>1. job = [u \in Workers |-> job[u]] /\ Job(job[w]) /\ job[w].then \in {"none", "query"} /\ w \in Workers
  BY Named DEF JobInv, JobOK, Thens
<1>2. CASE Done(w)
  BY <1>1, <1>2, NotSeeking DEF Done
<1>3. CASE AnalyzeRoot(w)
  <2> DEFINE x == WithFiles(job[w], "collect", {Analyzed})
  <2>1. job'[w] = x /\ request' = request /\ job[w].stage = "analyze"
    BY <1>1, <1>3 DEF AnalyzeRoot, WithFiles
  <2>2. x.stage = "collect" /\ x.then = job[w].then
    BY <1>1, SetsFiles
  <2> HIDE DEF x
  <2> QED
    BY <2>1, <2>2
<1>4. CASE CollectSearchEntries(w)
  <2> DEFINE x == WithEntries(job[w], "commit", {Collected})
  <2>1. job'[w] = x /\ request' = request /\ job[w].stage = "collect"
    BY <1>1, <1>4 DEF CollectSearchEntries, WithEntries
  <2>2. x.stage = "commit" /\ x.then = job[w].then
    BY <1>1, SetsEntries
  <2> HIDE DEF x
  <2> QED
    BY <2>1, <2>2
<1>5. CASE StatFile(w) /\ ~Done(w)
  <2> DEFINE c == [job[w].change EXCEPT !.row = disk[job[w].change.path]]
             x == WithChange(job[w], "upsert", c)
  <2>1. job' = [job EXCEPT ![w].stage = "upsert", ![w].change.row = disk[job[w].change.path]]
    BY <1>5 DEF StatFile
  <2>2. job'[w] = x
    BY <1>1, <2>1 DEF WithChange
  <2>3. x.stage = "upsert"
    BY <1>1, SetsChange
  <2> HIDE DEF x
  <2> QED
    BY <2>2, <2>3, NotSeeking
<1>6. CASE CommitReindex(w) /\ ~Done(w)
  <2> DEFINE x == WithThen(Idle, job[w].then, "none")
  <2>1. job'[w] = x /\ request' = request /\ job[w].stage = "commit"
    BY <1>1, <1>6 DEF CommitReindex, Start, WithThen
  <2>2. x.stage = job[w].then /\ x.then = "none"
    BY IdleFacts, SetsThen
  <2> HIDE DEF x
  <2> QED
    BY <1>1, <2>1, <2>2
<1>7. CASE StopDetachedWatcher(w)
  <2> DEFINE x == [Idle EXCEPT !.stage = "clear"]
  <2>1. job'[w] = x
    BY <1>1, <1>7 DEF StopDetachedWatcher, Stopped, Workers
  <2>2. x.stage = "clear"
    BY DEF Idle
  <2> HIDE DEF x
  <2> QED
    BY <2>1, <2>2, NotSeeking
<1> QED
  BY <1>2, <1>3, <1>4, <1>5, <1>6, <1>7 DEF WorkerStep, StatFile, UpsertFile, RemovePath, CommitReindex, ClearIndex, ScanFails

LEMMA Begins ==
    ASSUME JobInv, NEW w \in Workers, NEW s, NEW n, Start(w, s, n)
    PROVE  job'[w].stage = s /\ job'[w].then = n /\ \A u \in Workers \ {w} : job'[u] = job[u]
<1> DEFINE x == WithThen(Idle, s, n)
<1>1. job' = [job EXCEPT ![w] = x]
  BY DEF Start, WithThen
<1>2. x.stage = s /\ x.then = n
  BY IdleFacts, SetsThen
<1> HIDE DEF x
<1> QED
  BY <1>1, <1>2 DEF JobInv

\* Only a request of the phone sets the background tick searching, and nothing drops it before it is answered.
LEMMA SeekNext ==
    ASSUME JobInv, RequestInv, SeekInv, [Next]_vars
    PROVE  SeekInv'
<1>0. {"window", "background", "watcher", "stopped"} \subseteq Workers /\ job = [u \in Workers |-> job[u]]
  BY Named DEF JobInv
<1>1. CASE job'["background"] = job["background"] /\ request'.kind = request.kind
  BY <1>1 DEF SeekInv
<1>2. CASE ~Seeking(job'["background"])
  BY <1>2 DEF SeekInv
<1>3. CASE \E w \in Workers : WorkerStep(w) \/ ScanFails(w)
  <2>1. PICK w \in Workers : WorkerStep(w) \/ ScanFails(w)
    BY <1>3
  <2>2. CASE w = "background"
    <3>1. CASE Seeking(job'["background"])
      BY <2>1, <2>2, <3>1, BackgroundSeeks DEF SeekInv
    <3> QED
      BY <1>2, <3>1
  <2>3. CASE w # "background"
    BY <1>1, <2>1, <2>3, OthersSeek
  <2> QED
    BY <2>2, <2>3
<1>4. CASE ReindexCommand \/ StartRootWatcher \/ EnsureAgentRoom \/ ActivateAgentRoomBinding \/ DetachRoom("window")
  <2>1. request' = request /\ \E s, n : Start("window", s, n)
    BY <1>4 DEF ReindexCommand, StartRootWatcher, EnsureAgentRoom, ActivateAgentRoomBinding, DetachRoom
  <2>2. job'["background"] = job["background"]
    BY <1>0, <2>1, Begins
  <2> QED
    BY <1>1, <2>1, <2>2
<1>5. CASE ReconcileWatchedRootIndexes \/ DetachRoom("background")
  <2>1. Start("background", "analyze", "none") \/ Start("background", "stop", "none")
    BY <1>5 DEF ReconcileWatchedRootIndexes, DetachRoom
  <2>2. job'["background"].stage \in {"analyze", "stop"} /\ job'["background"].then = "none"
    BY <1>0, <2>1, Begins
  <2> QED
    BY <1>2, <2>2 DEF Seeking
<1>6. CASE ApplyIndexChange \/ BeginWatch \/ StopWatching
  <2>1. request' = request
    BY <1>6 DEF ApplyIndexChange, BeginWatch, StopWatching
  <2>2. job'["background"] = job["background"]
    BY <1>0, <1>6 DEF ApplyIndexChange, BeginWatch, StopWatching, Stopped
  <2> QED
    BY <1>1, <2>1, <2>2
<1>7. CASE SearchPage \/ Restart
  <2>1. job'["background"] = Idle
    BY <1>0, <1>7 DEF SearchPage, Restart, Done
  <2> QED
    BY <1>2, <2>1, NotSeeking
<1>8. CASE \E d \in Directories : ListDirectory(d)
  <2>1. job' = job /\ job["background"].stage = "idle"
    BY <1>8 DEF ListDirectory, Free, IsIdle
  <2> QED
    BY <1>2, <2>1, NotSeeking
<1>9. CASE \E q \in Queries : SearchRequest(q)
  <2>1. PICK q : request' = Asked("search", q)
    BY <1>9 DEF SearchRequest
  <2>2. request'.kind = "search"
    BY <2>1 DEF Asked, Request
  <2> QED
    BY <2>2 DEF SeekInv
<1>10. CASE \E p \in Paths : \E kind \in Kinds[p] : Edit(p, kind)
  <2>1. job' = job /\ \E t : request' = Marked(request, t)
    BY <1>10 DEF Edit, Marked
  <2>2. request'.kind = request.kind
    BY <2>1, MarkedFacts DEF RequestInv, RequestOK
  <2> QED
    BY <1>1, <2>1, <2>2
<1>11. CASE ReadEvent \/ UNCHANGED vars
  BY <1>1, <1>11 DEF ReadEvent, vars
<1> QED
  BY <1>3, <1>4, <1>5, <1>6, <1>7, <1>8, <1>9, <1>10, <1>11 DEF Next

LEMMA PageNext ==
    ASSUME RequestInv, PageInv, SeekInv, [Next]_vars
    PROVE  PageInv'
<1>1. CASE \E p \in Paths : \E kind \in Kinds[p] : Edit(p, kind)
  BY <1>1, EditPages
<1>2. CASE \E q \in Queries : SearchRequest(q)
  BY <1>2, SearchRequestPages
<1>3. CASE SearchPage
  <2>1. request.kind = "search"
    BY <1>3 DEF SearchPage, SeekInv, Seeking
  <2> QED
    BY <1>3, <2>1, SearchPagePages
<1>4. CASE \E d \in Directories : ListDirectory(d)
  BY <1>4, ListPages
<1>5. CASE /\ request' = request /\ disk' = disk
           /\ (entries' = entries /\ generation' = generation) \/ generation' = "newer"
  BY <1>5, StillKeeps
<1>6. CASE request' \in {Request("failed", NoQuery), Request("none", NoQuery)}
  BY <1>6, FreshKeeps
<1>7. CASE \E w \in Workers : WorkerStep(w) \/ ScanFails(w)
  <2>1. PICK w \in Workers : WorkerStep(w) \/ ScanFails(w)
    BY <1>7
  <2>2. disk' = disk /\ ((entries' = entries /\ generation' = generation) \/ generation' = "newer")
    BY <2>1 DEF WorkerStep, StatFile, UpsertFile, RemovePath, AnalyzeRoot, CollectSearchEntries, CommitReindex,
                StopDetachedWatcher, ClearIndex, ScanFails, disks, tables, Bumped
  <2>3. request' \in {request, Request("failed", NoQuery)}
    BY <2>1 DEF WorkerStep, StatFile, UpsertFile, RemovePath, AnalyzeRoot, CollectSearchEntries, CommitReindex,
                StopDetachedWatcher, ClearIndex, ScanFails
  <2> QED
    BY <1>5, <1>6, <2>2, <2>3
<1>8. CASE \/ ReadEvent \/ ApplyIndexChange \/ ReindexCommand \/ StartRootWatcher \/ BeginWatch \/ StopWatching
           \/ EnsureAgentRoom \/ ActivateAgentRoomBinding \/ ReconcileWatchedRootIndexes \/ UNCHANGED vars
           \/ \E w \in {"window", "background"} : DetachRoom(w)
  <2>1. request' = request /\ disk' = disk /\ entries' = entries /\ generation' = generation
    BY <1>8 DEF ReadEvent, ApplyIndexChange, ReindexCommand, StartRootWatcher, BeginWatch, StopWatching, EnsureAgentRoom,
                ActivateAgentRoomBinding, ReconcileWatchedRootIndexes, DetachRoom, disks, tables, vars
  <2> QED
    BY <1>5, <2>1
<1>9. CASE Restart
  BY <1>6, <1>9 DEF Restart
<1> QED
  BY <1>1, <1>2, <1>3, <1>4, <1>7, <1>8, <1>9 DEF Next

LEMMA PageInit ==
    ASSUME Init
    PROVE  PageInv /\ SeekInv
<1> DEFINE x == Request("none", NoQuery)
<1>1. x.kind = "none" /\ x.answered = <<>>
  BY DEF Request
<1>2. request = x /\ job["background"] = Idle
  BY Named DEF Init
<1> HIDE DEF x
<1>3. PageOK(x)
  BY <1>1, NoPages DEF PageOK, SearchedOK, ListedOK, ExactOK
<1> QED
  BY <1>2, <1>3, NotSeeking DEF PageInv, SeekInv

-----------------------------------------------------------------------------
(* The theorems.                                                           *)

LEMMA InitInv == Init => Inv
<1> SUFFICES ASSUME Init PROVE Inv
  OBVIOUS
<1>1. JobInv
  BY IdleFacts DEF Init, JobInv
<1>2. SearchInv
  BY IdleFacts, Named DEF Init, SearchInv
<1>3. QueueInv /\ RequestInv
  BY Unasked DEF Init, QueueInv, RequestInv
<1>4. PageInv /\ SeekInv
  BY PageInit
<1> QED
  BY <1>1, <1>2, <1>3, <1>4 DEF Inv

LEMMA StepInv == Inv /\ [Next]_vars => Inv'
<1> SUFFICES ASSUME Inv, [Next]_vars PROVE Inv'
  OBVIOUS
<1>1. JobInv' /\ SearchInv' /\ QueueInv'
  BY JobsNext, QueueNext DEF Inv
<1>2. RequestInv'
  <2>1. CASE SearchPage
    BY <2>1, PageAsks DEF Inv
  <2>2. CASE ~SearchPage
    BY <2>2, OtherAsks DEF Inv, Silent, RequestInv
  <2> QED
    BY <2>1, <2>2
<1>3. SeekInv' /\ PageInv'
  BY SeekNext, PageNext DEF Inv
<1> QED
  BY <1>1, <1>2, <1>3 DEF Inv

\* For every folder, any queries and any number of threads, edits and faults: a page of a search that is
\* answered while the room is bound comes from an index that was built after it was last cleared
\* (commands/agent.rs, apply_local_room_detached; file_browse_processor.rs).
THEOREM IndexClearedIsNeverSearched == Spec => ClearedIndexIsNeverSearched
<1>1. Inv /\ [Next]_vars =>
        [request'.pages > request.pages /\ request.query.scope # "none" /\ binding = "active" => initialized]_vars
  <2> SUFFICES ASSUME Inv, [Next]_vars, request'.pages > request.pages, request.query.scope # "none",
                      binding = "active"
               PROVE  initialized
    OBVIOUS
  <2>1. CASE SearchPage
    BY <2>1 DEF SearchPage, Inv, SearchInv
  <2>2. CASE ~SearchPage
    <3>1. request'.pages <= request.pages /\ request.pages \in Nat /\ request'.pages \in Nat
      BY <2>2, OtherAsks DEF Inv, Silent, RequestInv, RequestOK
    <3> QED
      BY <3>1
  <2> QED
    BY <2>1, <2>2
<1> QED
  BY <1>1, InitInv, StepInv, PTL DEF Spec, ClearedIndexIsNeverSearched

\* For every folder, any queries, any page size and any number of threads, edits and faults: a search that was
\* answered to the end showed nothing twice, in the order of the index, and everything its first page's index held
\* that stayed on disk; so did a listing of a directory that did not change
\* (search_index_page_with_extensions, build_result_page_limited).
THEOREM IndexPagesAreExact == Spec => []PagesAreExact
<1>1. Inv => PagesAreExact
  BY DEF Inv, PageInv, PageOK, ExactOK, PagesAreExact, Apart, Rising, Shows
<1> QED
  BY <1>1, InitInv, StepInv, PTL DEF Spec
=============================================================================
