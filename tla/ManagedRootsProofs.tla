-------------------------- MODULE ManagedRootsProofs --------------------------
(***************************************************************************)
(* Proofs about ManagedRoots for every set of folders, any overlaps and    *)
(* any number of rooms, pairings, rules and faults, the window and the     *)
(* background working at the same time: no policy is inherited, the table  *)
(* of the roots mirrors memory and loads but for rows that were written    *)
(* late or not at all, and no root is detached from a room that is open    *)
(* but for rooms of a device paired in the midst of a revocation.          *)
(***************************************************************************)
EXTENDS ManagedRoots, FiniteSetTheorems, TLAPS

Steps == {"idle", "end", "room", "bind", "disconnect", "detach", "policy", "remove", "revoked", "forget", "events"}
Policy == {"absent", "off", "on"}
RowRecord == [status : {"absent", "unbound", "active", "detached"}, enabled : BOOLEAN, room : Nat]
WriteRecord == [table : {"roots", "policies"}, path : Paths, row : RowRecord, policy : Policy]
RoomRecord == [root : Paths, device : Nat, open : BOOLEAN]
EventRecord == [type : {"room.removed", "device.revoked", "rule.created"}, id : Nat]
OpRecord == [pc : Steps, path : Paths \cup {Idle.path}, room : Nat, remove : BOOLEAN,
             writes : Seq(WriteRecord), batch : Seq(EventRecord), upTo : Nat, device : Nat]

ServerType ==
    /\ credential \in Nat /\ cursor \in Nat /\ devices \subseteq 1..paired /\ paired \in Nat
    /\ rooms \in Seq(RoomRecord) /\ log \in Seq(EventRecord)
TypeInv ==
    /\ memory \in [Paths -> RowRecord] /\ database \in [Paths -> RowRecord]
    /\ policies \in [Paths -> Policy] /\ savedPolicies \in [Paths -> Policy]
    /\ ServerType /\ op \in [Threads -> OpRecord]

\* The folder of a command is known; only the window takes back a root or a policy, and then
\* that is all it writes; an idle thread has nothing to write.
Retracts(w) == w.table = "policies" \/ w.row.status = "absent"
JobOK(t, x) ==
    /\ x.pc \in {"room", "bind", "disconnect", "detach", "policy", "remove"} => x.path \in Paths
    /\ x.pc = "idle" => x.writes = <<>>
    /\ \A w \in Range(x.writes) : Retracts(w) => t = "window" /\ x.writes = <<w>>
JobInv == \A t \in Threads : JobOK(t, op[t])

\* A folder with a policy is registered, in memory and in the tables alike.
Known(p) == database[p].status # "absent"
PutsRoot(w, p) == w.table = "roots" /\ w.path = p
PolicyOK(p) ==
    LET job == op["window"] IN
    /\ policies[p] # "absent" => Present(p)
    /\ savedPolicies[p] # "absent" => Known(p)
    /\ Present(p) => Known(p) \/ \E w \in Range(job.writes) : PutsRoot(w, p) /\ w.row.status # "absent"
    /\ job.pc = "remove" /\ job.path = p =>
          /\ policies[p] = "absent"
          /\ \/ savedPolicies[p] = "absent" /\ Range(job.writes) = {}
             \/ Range(job.writes) = {PutPolicy(p, "absent")}
    /\ \A w \in Range(job.writes) :
          /\ PutsRoot(w, p) /\ w.row.status = "absent" =>
                policies[p] = "absent" /\ savedPolicies[p] = "absent" /\ ~Present(p)
          /\ w.table = "policies" /\ w.path = p /\ w.policy # "absent" => Known(p)
PolicyInv == inherited \subseteq unsaved /\ \A p \in Paths \ unsaved : PolicyOK(p)

\* A room is bound to no folder but its own.
Own(row, p) == row.status \in {"active", "detached"} => row.room \in DOMAIN rooms /\ rooms[row.room].root = p
OwnInv ==
    /\ \A p \in Paths : Own(memory[p], p) /\ Own(database[p], p)
    /\ \A t \in Threads : /\ \A w \in Range(op[t].writes) : w.table = "roots" => Own(w.row, w.path)
                          /\ op[t].pc = "bind" => op[t].room \in DOMAIN rooms /\ rooms[op[t].room].root = op[t].path
                          /\ op[t].pc = "disconnect" => op[t].room \in DOMAIN rooms

\* The server: an open room is one of an active device, and the log names rooms that are closed.
ClosedEvent(e) == e.type = "room.removed" => e.id \in DOMAIN rooms /\ ~rooms[e.id].open
ServerInv ==
    /\ \A r \in DOMAIN rooms : rooms[r].open => rooms[r].device \in devices
    /\ \A e \in Range(log) : ClosedEvent(e)

\* The desktop has one device, but for those paired in the midst of a revocation; what a detachment
\* is about to take is closed or of such a device, and so is what was detached.
ClosedRow(row) ==
    row.status = "detached" =>
        row.room \in DOMAIN rooms /\ (~rooms[row.room].open \/ rooms[row.room].device \in overtaken)
ShutInv ==
    /\ \A d \in devices : d \in overtaken \/ d = credential
    /\ \A t \in Threads :
          /\ op[t].pc \in {"revoked", "forget"} => devices \subseteq overtaken
          /\ op[t].pc = "detach" => op[t].room \in DOMAIN rooms /\ ~rooms[op[t].room].open
          /\ \A e \in Range(op[t].batch) : ClosedEvent(e)
          /\ \A w \in Range(op[t].writes) : ClosedRow(w.row)
    /\ \A p \in Paths : ClosedRow(memory[p]) /\ ClosedRow(database[p])

\* A row that is not in the table is being written, unless a write of it failed or was late.
Pending(p) == \E t \in Threads : \E w \in Range(op[t].writes) : PutsRoot(w, p) /\ w.row = memory[p]
MirrorInv == \A p \in Paths \ (unsaved \cup late) : database[p] = memory[p] \/ Pending(p)

\* The folders that memory or a row that was written in time has.
Held == {p \in Paths : Present(p) \/ (p \notin unsaved \cup late /\ Known(p))}
DisjointInv == \A p, q \in Held : p # q => <<p, q>> \notin Overlaps

-----------------------------------------------------------------------------
(* Sequences of writes.                                                    *)

LEMMA RangeFacts ==
    ASSUME NEW X, NEW s \in Seq(X), s # <<>>
    PROVE  /\ Head(s) \in X /\ Tail(s) \in Seq(X) /\ Range(s) = {Head(s)} \cup Range(Tail(s))
           /\ Head(s) \in Range(s) /\ \A x : s = <<x>> => Head(s) = x /\ Tail(s) = <<>>
<1>1. Len(s) \in Nat /\ Len(s) >= 1 /\ DOMAIN s = 1..Len(s) /\ Head(s) = s[1] /\ s[1] \in X
  OBVIOUS
<1>2. Tail(s) \in Seq(X) /\ DOMAIN Tail(s) = 1..(Len(s) - 1) /\ \A i \in 1..(Len(s) - 1) : Tail(s)[i] = s[i + 1]
  OBVIOUS
<1>3. ASSUME NEW y \in Range(s) PROVE y \in {Head(s)} \cup Range(Tail(s))
  <2>1. PICK i \in 1..Len(s) : y = s[i]
    BY <1>1 DEF Range
  <2>2. CASE i = 1
    BY <1>1, <2>1, <2>2
  <2>3. CASE i # 1
    <3>1. i - 1 \in 1..(Len(s) - 1) /\ Tail(s)[i - 1] = s[i]
      BY <1>1, <1>2, <2>3
    <3> QED
      BY <1>2, <2>1, <3>1 DEF Range
  <2> QED
    BY <2>2, <2>3
<1>4. ASSUME NEW y \in Range(Tail(s)) PROVE y \in Range(s)
  <2>1. PICK i \in 1..(Len(s) - 1) : y = s[i + 1]
    BY <1>2 DEF Range
  <2>2. i + 1 \in 1..Len(s)
    BY <1>1
  <2> QED
    BY <1>1, <2>1, <2>2 DEF Range
<1>5. Head(s) \in Range(s)
  BY <1>1 DEF Range
<1>6. \A x : s = <<x>> => Head(s) = x /\ Tail(s) = <<>>
  OBVIOUS
<1> QED
  BY <1>1, <1>2, <1>3, <1>4, <1>5, <1>6

LEMMA SmallRange == Range(<<>>) = {} /\ \A x : Range(<<x>>) = {x} /\ <<x>> # <<>>
BY DEF Range

LEMMA SeqOfSet ==
    ASSUME NEW S, IsFiniteSet(S)
    PROVE  SetToSeq(S) \in Seq(S) /\ Range(SetToSeq(S)) = S
<1> DEFINE c == Cardinality(S)
           s == SetToSeq(S)
<1>1. c \in Nat /\ ExistsBijection(1..c, S)
  BY FS_CardinalityType
<1>2. PICK g : g \in Bijection(1..c, S)
  BY <1>1 DEF ExistsBijection
<1>3. g \in [1..c -> S] /\ IsInjective(g)
  BY <1>2 DEF Bijection, Injection, IsInjective
<1>4. s \in [1..c -> S] /\ IsInjective(s)
  BY <1>3 DEF SetToSeq
<1> HIDE DEF s
<1>5. s \in Injection(1..c, S)
  BY <1>4 DEF Injection, IsInjective
<1>6. IsFiniteSet(1..c) /\ Cardinality(1..c) = Cardinality(S)
  BY <1>1, FS_Interval
<1>7. s \in Surjection(1..c, S)
  BY <1>5, <1>6, FS_Injection
<1> HIDE DEF c
<1>8. \A f \in [1..c -> S] : f \in Seq(S) /\ DOMAIN f = 1..c
  BY <1>1
<1>9. Range(s) = S
  BY <1>4, <1>7, <1>8 DEF Surjection, Range
<1> QED
  BY <1>4, <1>8, <1>9 DEF s

LEMMA SeqLarger ==
    ASSUME NEW S, NEW T, S \subseteq T, NEW s \in Seq(S)
    PROVE  s \in Seq(T)
OBVIOUS

\* The rows of several folders, one write after the other.
Rows(C, m) == {PutRoot(p, m[p]) : p \in C}
LEMMA RootWrites ==
    ASSUME NEW C \in SUBSET Paths, NEW m \in [Paths -> RowRecord]
    PROVE  /\ SetToSeq(Rows(C, m)) \in Seq(WriteRecord) /\ Range(SetToSeq(Rows(C, m))) = Rows(C, m)
           /\ \A w \in Rows(C, m) : w.table = "roots" /\ w.path \in C /\ w.row = m[w.path]
<1> DEFINE W == Rows(C, m)
           f == [p \in C |-> PutRoot(p, m[p])]
<1>1. IsFiniteSet(C)
  BY RootsAssumption, FS_Subset
<1>2. f \in Surjection(C, W)
  BY DEF Surjection, Rows
<1>3. IsFiniteSet(W)
  BY <1>1, <1>2, FS_Surjection
<1>4. \A p \in C : PutRoot(p, m[p]) \in WriteRecord
  BY DEF PutRoot, WriteRecord, Policy
<1>5. W \subseteq WriteRecord
  BY <1>4 DEF Rows
<1>6. \A w \in W : w.table = "roots" /\ w.path \in C /\ w.row = m[w.path]
  BY DEF PutRoot, Rows
<1> HIDE DEF W
<1>7. SetToSeq(W) \in Seq(W) /\ Range(SetToSeq(W)) = W
  BY <1>3, SeqOfSet
<1>8. SetToSeq(W) \in Seq(WriteRecord)
  BY <1>5, <1>7, SeqLarger
<1> QED
  BY <1>6, <1>7, <1>8 DEF W

LEMMA OneWrite ==
    ASSUME NEW p \in Paths, NEW row \in RowRecord, NEW policy \in Policy
    PROVE  /\ <<PutRoot(p, row)>> \in Seq(WriteRecord) /\ <<PutPolicy(p, policy)>> \in Seq(WriteRecord)
           /\ PutRoot(p, row).table = "roots" /\ PutRoot(p, row).path = p /\ PutRoot(p, row).row = row
           /\ PutPolicy(p, policy).table = "policies" /\ PutPolicy(p, policy).path = p
           /\ PutPolicy(p, policy).policy = policy
<1>1. PutRoot(p, row) \in WriteRecord
  BY DEF PutRoot, WriteRecord, Policy
<1>2. PutPolicy(p, policy) \in WriteRecord
  BY DEF PutPolicy, WriteRecord, RowRecord, NoRow
<1>3. /\ PutRoot(p, row).table = "roots" /\ PutRoot(p, row).path = p /\ PutRoot(p, row).row = row
      /\ PutPolicy(p, policy).table = "policies" /\ PutPolicy(p, policy).path = p
      /\ PutPolicy(p, policy).policy = policy
  BY DEF PutRoot, PutPolicy
<1>4. \A w \in WriteRecord : <<w>> \in Seq(WriteRecord)
  OBVIOUS
<1> QED
  BY <1>1, <1>2, <1>3, <1>4

-----------------------------------------------------------------------------
(* What a thread does next.                                                *)

LEMMA IdleFacts ==
    /\ Idle \in OpRecord /\ \A t : JobOK(t, Idle)
    /\ Idle.pc = "idle" /\ Idle.writes = <<>> /\ Idle.batch = <<>> /\ Range(Idle.writes) = {}
<1>1. <<>> \in Seq(WriteRecord) /\ <<>> \in Seq(EventRecord)
  OBVIOUS
<1>2. Idle \in OpRecord
  BY <1>1 DEF Idle, OpRecord, Steps
<1>3. Idle.pc = "idle" /\ Idle.writes = <<>> /\ Idle.batch = <<>>
  BY DEF Idle
<1>4. Range(Idle.writes) = {}
  BY <1>3, SmallRange
<1> QED
  BY <1>2, <1>3, <1>4 DEF JobOK

Started(pc, p, r, remove) == [Idle EXCEPT !.pc = pc, !.path = p, !.room = r, !.remove = remove]
LEMMA StartFacts ==
    ASSUME NEW pc \in Steps \ {"idle"}, NEW p \in Paths \cup {Idle.path}, NEW r \in Nat, NEW remove \in BOOLEAN,
           pc \in {"room", "bind", "disconnect", "detach", "policy", "remove"} => p \in Paths
    PROVE  /\ Started(pc, p, r, remove) \in OpRecord /\ \A t : JobOK(t, Started(pc, p, r, remove))
           /\ Started(pc, p, r, remove).writes = <<>> /\ Started(pc, p, r, remove).batch = <<>>
           /\ Started(pc, p, r, remove).pc = pc /\ Started(pc, p, r, remove).path = p
           /\ Started(pc, p, r, remove).room = r
<1> DEFINE x == Started(pc, p, r, remove)
<1>1. Idle \in OpRecord /\ Idle.writes = <<>> /\ Idle.batch = <<>>
  BY IdleFacts
<1>2. x \in OpRecord
  BY <1>1 DEF OpRecord, Started
<1>3. x.writes = <<>> /\ x.batch = <<>> /\ x.pc = pc /\ x.path = p /\ x.room = r
  BY <1>1 DEF OpRecord, Started
<1> HIDE DEF x
<1>4. \A t : JobOK(t, x)
  BY <1>3, SmallRange DEF JobOK
<1> QED
  BY <1>2, <1>3, <1>4 DEF x

LEMMA AfterFacts ==
    ASSUME NEW job \in OpRecord, NEW pc \in Steps \ {"idle"}, NEW writes \in Seq(WriteRecord)
    PROVE  LET x == After(job, pc, writes) IN
           /\ x \in OpRecord /\ x.writes = writes
           /\ IF pc = "end" /\ writes = <<>> THEN x = Idle
              ELSE x.pc = pc /\ x.path = job.path /\ x.room = job.room /\ x.batch = job.batch
<1>1. CASE pc = "end" /\ writes = <<>>
  BY <1>1, IdleFacts DEF After
<1>2. CASE ~(pc = "end" /\ writes = <<>>)
  <2> DEFINE x == [job EXCEPT !.pc = pc, !.writes = writes]
  <2>1. After(job, pc, writes) = x
    BY <1>2 DEF After
  <2>2. x \in OpRecord
    BY DEF OpRecord
  <2>3. x.writes = writes /\ x.pc = pc /\ x.path = job.path /\ x.room = job.room /\ x.batch = job.batch
    BY DEF OpRecord
  <2> HIDE DEF x
  <2> QED
    BY <1>2, <2>1, <2>2, <2>3
<1> QED
  BY <1>1, <1>2

LEMMA OpSet ==
    ASSUME TypeInv, JobInv, NEW t \in Threads, NEW x \in OpRecord, JobOK(t, x), op' = [op EXCEPT ![t] = x]
    PROVE  /\ op' \in [Threads -> OpRecord] /\ JobInv'
           /\ op'[t] = x /\ \A u \in Threads \ {t} : op'[u] = op[u]
<1>1. op \in [Threads -> OpRecord]
  BY DEF TypeInv
<1>2. op' \in [Threads -> OpRecord] /\ op'[t] = x /\ \A u \in Threads \ {t} : op'[u] = op[u]
  BY <1>1
<1> QED
  BY <1>2 DEF JobInv

\* A step of thread t that changes the rows of C in memory, keeps those folders registered, and
\* leaves the rows to be written; C is empty for most steps.
From(t, p) ==
    memory'[p].status \in {"active", "detached"} =>
        \/ memory[p].status \in {"active", "detached"} /\ memory'[p].room = memory[p].room
        \/ op[t].pc = "bind" /\ op[t].path = p /\ memory'[p].room = op[t].room
Quiet(t, x, C) ==
    /\ t \in Threads /\ x \in OpRecord /\ JobOK(t, x) /\ C \subseteq Paths
    /\ IsIdle(t) \/ op[t].pc # "idle"
    /\ op[t].writes = <<>> /\ op' = [op EXCEPT ![t] = x] /\ x.pc # "remove"
    /\ Range(x.writes) = Rows(C, memory')
    /\ memory' \in [Paths -> RowRecord]
    /\ \A p \in Paths \ C : memory'[p] = memory[p]
    /\ \A p \in C : Present(p) /\ memory'[p].status # "absent" /\ From(t, p)
    /\ UNCHANGED <<database, savedPolicies, policies, unsaved, inherited, late, overtaken>>

LEMMA FreeFacts ==
    ASSUME JobInv, NEW t \in Threads, IsIdle(t)
    PROVE  op[t].writes = <<>> /\ op[t].pc = "idle"
BY DEF JobInv, JobOK, IsIdle

\* The steps that change no row.
LEMMA QuietJob ==
    ASSUME TypeInv, NEW t \in Threads, NEW x \in OpRecord, JobOK(t, x), x.writes = <<>>, x.pc # "remove",
           IsIdle(t) \/ op[t].pc # "idle", op[t].writes = <<>>, op' = [op EXCEPT ![t] = x],
           UNCHANGED <<memory, database, savedPolicies, policies, unsaved, inherited, late, overtaken>>
    PROVE  Quiet(t, x, {})
<1>1. Range(x.writes) = {}
  BY SmallRange
<1>2. Rows({}, memory') = {}
  BY DEF Rows
<1> QED
  BY <1>1, <1>2 DEF Quiet, TypeInv

\* Rows that are present need no thread of their own.
LEMMA RowsJob ==
    ASSUME NEW t, NEW x \in OpRecord, NEW C \in SUBSET Paths, NEW m \in [Paths -> RowRecord],
           x.pc \in {"room", "bind", "disconnect", "detach", "policy", "remove"} => x.path \in Paths,
           x.pc = "idle" => x.writes = <<>>,
           Range(x.writes) = Rows(C, m), \A p \in C : m[p].status # "absent"
    PROVE  JobOK(t, x)
<1>1. \A w \in Range(x.writes) : w.table = "roots" /\ w.path \in C /\ w.row = m[w.path]
  BY RootWrites
<1>2. \A w \in Range(x.writes) : ~Retracts(w)
  BY <1>1 DEF Retracts
<1> QED
  BY <1>2 DEF JobOK

-----------------------------------------------------------------------------
(* The steps one by one.                                                   *)

\* Thread t begins at pc.
Begins(t, pc, p, r) ==
    /\ pc \in {"room", "bind", "disconnect", "policy", "revoked"} /\ r \in Nat
    /\ p \in Paths \/ (pc = "revoked" /\ p = Idle.path)
    /\ \E remove \in BOOLEAN : Start(t, pc, p, r, remove)

LEMMA Starts ==
    ASSUME TypeInv, JobInv, NEW t \in Threads, IsIdle(t),
           NEW pc, NEW p, NEW r, Begins(t, pc, p, r),
           UNCHANGED <<memory, database, savedPolicies, policies, unsaved, inherited, late, overtaken>>
    PROVE  \E x : /\ Quiet(t, x, {}) /\ x.writes = <<>> /\ x.batch = <<>> /\ x.pc = pc /\ x.path = p /\ x.room = r
<1>0. PICK remove \in BOOLEAN : Start(t, pc, p, r, remove)
  BY DEF Begins
<1> DEFINE x == Started(pc, p, r, remove)
<1>1. op' = [op EXCEPT ![t] = x]
  BY <1>0 DEF Start, Started
<1>2. /\ x \in OpRecord /\ JobOK(t, x) /\ x.writes = <<>> /\ x.batch = <<>>
      /\ x.pc = pc /\ x.path = p /\ x.room = r
  <2>1. pc \in Steps \ {"idle"} /\ r \in Nat /\ (pc \in {"room", "bind", "disconnect", "detach", "policy", "remove"} => p \in Paths)
        /\ p \in Paths \cup {Idle.path}
    BY DEF Steps, Begins
  <2> QED
    BY <2>1, StartFacts
<1> HIDE DEF x
<1>3. pc # "remove" /\ op[t].writes = <<>>
  BY FreeFacts DEF Begins
<1>4. Quiet(t, x, {})
  BY <1>1, <1>2, <1>3, QuietJob
<1> QED
  BY <1>2, <1>4

LEMMA Stops ==
    ASSUME TypeInv, JobInv, NEW t \in Threads, NEW pc \in Steps \ {"idle"}, At(t, pc), Done(t),
           UNCHANGED <<memory, database, savedPolicies, policies, unsaved, inherited, late, overtaken>>
    PROVE  Quiet(t, Idle, {})
<1>1. op' = [op EXCEPT ![t] = Idle] /\ op[t].writes = <<>> /\ op[t].pc # "idle"
  BY DEF Done, At
<1> QED
  BY <1>1, IdleFacts, QuietJob

LEMMA UpdateStateQuiet ==
    ASSUME TypeInv, JobInv, NEW p \in Paths, NEW enabled \in BOOLEAN, UpdateState(p, enabled)
    PROVE  \E x : Quiet("window", x, {p}) /\ x.pc = "end" /\ x.batch = <<>> /\ memory'[p].status = memory[p].status
                  /\ memory'[p].room = memory[p].room
<1> DEFINE m == [memory EXCEPT ![p].enabled = enabled]
           W == <<PutRoot(p, m[p])>>
           x == After(Idle, "end", W)
<1>1. "window" \in Threads /\ IsIdle("window") /\ Present(p) /\ memory' = m
  BY DEF UpdateState, Threads
<1>2. op' = [op EXCEPT !["window"] = x]
  BY <1>1 DEF UpdateState, Begin
<1>3. memory \in [Paths -> RowRecord] /\ memory[p] \in RowRecord
  BY DEF TypeInv
<1>4. m[p].status = memory[p].status /\ m[p].room = memory[p].room /\ m \in [Paths -> RowRecord]
      /\ \A q \in Paths \ {p} : m[q] = memory[q]
  BY <1>3 DEF RowRecord
<1> HIDE DEF m
<1>5. W \in Seq(WriteRecord) /\ W # <<>> /\ Range(W) = Rows({p}, m)
  BY <1>4, OneWrite, SmallRange DEF Policy, Rows
<1> HIDE DEF W
<1>6. x \in OpRecord /\ x.writes = W /\ x.pc = "end" /\ x.batch = <<>>
  BY <1>5, IdleFacts, AfterFacts DEF Steps
<1> HIDE DEF x
<1>7. m[p].status # "absent"
  BY <1>1, <1>4 DEF Present
<1>8. JobOK("window", x)
  BY <1>4, <1>5, <1>6, <1>7, RowsJob
<1>9. From("window", p)
  BY <1>1, <1>4 DEF From
<1>10. UNCHANGED <<database, savedPolicies, policies, unsaved, inherited, late, overtaken>>
  BY DEF UpdateState, disk, ghosts
<1>11. Quiet("window", x, {p})
  BY <1>1, <1>2, <1>4, <1>5, <1>6, <1>7, <1>8, <1>9, <1>10, FreeFacts DEF Quiet
<1> QED
  BY <1>1, <1>4, <1>6, <1>11

LEMMA UpdateHealthQuiet ==
    ASSUME TypeInv, JobInv, NEW t \in Threads, NEW p \in Paths, UpdateHealth(t, p)
    PROVE  \E x : Quiet(t, x, {p}) /\ x.pc = "end" /\ x.batch = <<>> /\ UNCHANGED memory
<1> DEFINE W == <<PutRoot(p, memory[p])>>
           x == After(Idle, "end", W)
<1>1. IsIdle(t) /\ Present(p) /\ op' = [op EXCEPT ![t] = x]
      /\ UNCHANGED <<memory, database, savedPolicies, policies, unsaved, inherited, late, overtaken>>
  BY DEF UpdateHealth, Begin, local, disk, ghosts
<1>2. memory \in [Paths -> RowRecord] /\ memory[p] \in RowRecord
  BY DEF TypeInv
<1>3. W \in Seq(WriteRecord) /\ W # <<>> /\ Range(W) = Rows({p}, memory)
  BY <1>2, OneWrite, SmallRange DEF Policy, Rows
<1> HIDE DEF W
<1>4. x \in OpRecord /\ x.writes = W /\ x.pc = "end" /\ x.batch = <<>>
  BY <1>3, IdleFacts, AfterFacts DEF Steps
<1> HIDE DEF x
<1>5. memory[p].status # "absent"
  BY <1>1 DEF Present
<1>6. JobOK(t, x)
  BY <1>2, <1>3, <1>4, <1>5, RowsJob
<1>7. From(t, p)
  BY <1>1 DEF From
<1>8. Quiet(t, x, {p})
  BY <1>1, <1>2, <1>3, <1>4, <1>5, <1>6, <1>7, FreeFacts DEF Quiet
<1> QED
  BY <1>1, <1>4, <1>8

LEMMA BindRoomQuiet ==
    ASSUME TypeInv, JobInv, NEW t \in Threads, BindRoom(t)
    PROVE  \/ Quiet(t, Idle, {})
           \/ \E x : Quiet(t, x, {op[t].path}) /\ x.pc = "end" /\ x.batch = op[t].batch
                     /\ memory'[op[t].path].status = "active"
<1> DEFINE p == op[t].path
           r == op[t].room
           m == [memory EXCEPT ![p].status = "active", ![p].room = r]
           W == <<PutRoot(p, m[p])>>
           x == After(op[t], "end", W)
<1>1. At(t, "bind") /\ op[t].pc = "bind" /\ op[t].writes = <<>>
      /\ UNCHANGED <<database, savedPolicies, policies, unsaved, inherited, late, overtaken>>
  BY DEF BindRoom, At, disk, ghosts
<1>2. op[t] \in OpRecord /\ p \in Paths /\ r \in Nat
  BY <1>1 DEF TypeInv, JobInv, JobOK, OpRecord
<1>3. CASE Done(t) /\ UNCHANGED memory
  BY <1>1, <1>3, Stops DEF Steps
<1>4. CASE Present(p) /\ memory' = m /\ Goto(t, "end", <<PutRoot(p, memory'[p])>>)
  <2>1. op' = [op EXCEPT ![t] = x]
    BY <1>2, <1>4 DEF Goto, TypeInv
  <2>2. memory \in [Paths -> RowRecord] /\ memory[p] \in RowRecord
    BY <1>2 DEF TypeInv
  <2>3. m[p].status = "active" /\ m[p].room = r /\ m \in [Paths -> RowRecord]
        /\ \A q \in Paths \ {p} : m[q] = memory[q]
    BY <1>2, <2>2 DEF RowRecord
  <2>4. memory' = m
    BY <1>4
  <2> HIDE DEF m
  <2>5. W \in Seq(WriteRecord) /\ W # <<>> /\ Range(W) = Rows({p}, m)
    BY <1>2, <2>3, OneWrite, SmallRange DEF Policy, Rows
  <2> HIDE DEF W
  <2>6. x \in OpRecord /\ x.writes = W /\ x.pc = "end" /\ x.batch = op[t].batch
    BY <1>2, <2>5, AfterFacts DEF Steps
  <2> HIDE DEF x
  <2>7. JobOK(t, x)
    BY <1>2, <2>3, <2>5, <2>6, RowsJob
  <2>8. From(t, p)
    BY <1>1, <2>3, <2>4 DEF From
  <2>9. Quiet(t, x, {p})
    BY <1>1, <1>2, <1>4, <2>1, <2>3, <2>4, <2>5, <2>6, <2>7, <2>8 DEF Quiet
  <2> QED
    BY <2>3, <2>4, <2>6, <2>9
<1> QED
  BY <1>3, <1>4 DEF BindRoom

\* A detachment of the folders C: their rows are written one after the other.
LEMMA DetachQuiet ==
    ASSUME TypeInv, JobInv, NEW t \in Threads, NEW C \in SUBSET Paths, \A p \in C : memory[p].status = "active",
           memory' = [p \in Paths |-> IF p \in C THEN [memory[p] EXCEPT !.status = "detached"] ELSE memory[p]],
           NEW x \in OpRecord, x.pc = "idle" => x.writes = <<>>,
           x.pc \in {"room", "bind", "disconnect", "detach", "policy", "remove"} => x.path \in Paths,
           x.pc # "remove", op[t].pc # "idle", op[t].writes = <<>>, op' = [op EXCEPT ![t] = x],
           x.writes = SetToSeq(Rows(C, memory')),
           UNCHANGED <<database, savedPolicies, policies, unsaved, inherited, late, overtaken>>
    PROVE  Quiet(t, x, C) /\ \A p \in C : memory'[p].room = memory[p].room /\ memory'[p].status = "detached"
<1> DEFINE m == [p \in Paths |-> IF p \in C THEN [memory[p] EXCEPT !.status = "detached"] ELSE memory[p]]
<1>1. memory \in [Paths -> RowRecord]
  BY DEF TypeInv
<1>2. \A p \in Paths : /\ [memory[p] EXCEPT !.status = "detached"] \in RowRecord
                       /\ [memory[p] EXCEPT !.status = "detached"].status = "detached"
                       /\ [memory[p] EXCEPT !.status = "detached"].room = memory[p].room
  BY <1>1 DEF RowRecord
<1>3. /\ m \in [Paths -> RowRecord] /\ \A p \in Paths \ C : m[p] = memory[p]
      /\ \A p \in C : m[p].status = "detached" /\ m[p].room = memory[p].room
  BY <1>1, <1>2
<1>4. memory' = m
  OBVIOUS
<1> HIDE DEF m
<1>5. x.writes = SetToSeq(Rows(C, m))
  BY <1>4
<1>6. Range(x.writes) = Rows(C, m)
  <2>1. Range(SetToSeq(Rows(C, m))) = Rows(C, m)
    BY <1>3, RootWrites
  <2> QED
    BY <1>5, <2>1
<1>7. JobOK(t, x)
  BY <1>3, <1>6, RowsJob
<1>8. \A p \in C : Present(p) /\ m[p].status # "absent" /\ From(t, p)
  BY <1>3, <1>4 DEF Present, From
<1>9. Range(x.writes) = Rows(C, memory')
  BY <1>4, <1>6
<1> QED
  BY <1>3, <1>4, <1>7, <1>8, <1>9 DEF Quiet

LEMMA DetachRoomQuiet ==
    ASSUME TypeInv, JobInv, DetachRoom
    PROVE  \E x, C : /\ Quiet("window", x, C) /\ x.pc \in {"idle", "policy", "end"}
                     /\ x.batch \in {<<>>, op["window"].batch}
                     /\ \A p \in C : /\ memory'[p].room = memory[p].room
                                     /\ memory[p].room = op["window"].room
<1> DEFINE t == "window"
           r == op[t].room
           C == DetachedBy(r)
           W == SetToSeq(Rows(C, memory'))
           pc == IF op[t].remove THEN "policy" ELSE "end"
           x == After(op[t], pc, W)
<1>1. t \in Threads /\ At(t, "detach") /\ op[t].pc = "detach" /\ op[t].writes = <<>> /\ op[t] \in OpRecord
      /\ UNCHANGED <<database, savedPolicies, policies, unsaved, inherited, late, overtaken>> /\ op[t].path \in Paths
  BY DEF DetachRoom, At, disk, ghosts, Threads, TypeInv, JobInv, JobOK
<1>2. memory' = [p \in Paths |-> IF p \in C THEN [memory[p] EXCEPT !.status = "detached"] ELSE memory[p]]
  BY DEF DetachRoom
<1>3. C \subseteq Paths /\ \A p \in C : memory[p].status = "active" /\ memory[p].room = r
  BY DEF DetachedBy, FindByRoom
<1>4. CASE FindByRoom(r) = {}
  <2>1. C = {}
    BY <1>4 DEF DetachedBy
  <2>2. memory' = memory
    BY <1>2, <2>1 DEF TypeInv
  <2>3. Done(t)
    BY <1>4 DEF DetachRoom
  <2>4. Quiet(t, Idle, {})
    BY <1>1, <2>2, <2>3, Stops DEF Steps
  <2> QED
    BY <2>4, IdleFacts
<1>5. CASE FindByRoom(r) # {}
  <2>1. op' = [op EXCEPT ![t] = x]
    BY <1>1, <1>5 DEF Rows, DetachRoom, Goto, TypeInv
  <2>2. memory' \in [Paths -> RowRecord]
    BY <1>2 DEF TypeInv, RowRecord
  <2>3. W \in Seq(WriteRecord)
    BY <1>3, <2>2, RootWrites
  <2> HIDE DEF C
  <2>4. pc \in Steps \ {"idle"} /\ pc \in {"policy", "end"}
    BY DEF Steps
  <2> HIDE DEF W, pc
  <2>5. /\ x \in OpRecord /\ x.writes = W
        /\ IF pc = "end" /\ W = <<>> THEN x = Idle ELSE x.pc = pc /\ x.path = op[t].path /\ x.batch = op[t].batch
    BY <1>1, <2>3, <2>4, AfterFacts
  <2> HIDE DEF x
  <2>6. x.pc \in {"idle", "policy", "end"} /\ (x.pc = "idle" => x.writes = <<>>)
        /\ (x.pc = "policy" => x.path \in Paths) /\ x.batch \in {<<>>, op[t].batch}
    BY <1>1, <2>4, <2>5, IdleFacts
  <2>7. x.writes = SetToSeq(Rows(C, memory'))
    BY <2>5 DEF W
  <2>8. Quiet(t, x, C) /\ \A p \in C : memory'[p].room = memory[p].room
    BY <1>1, <1>2, <1>3, <2>1, <2>5, <2>6, <2>7, DetachQuiet
  <2> QED
    BY <1>3, <2>6, <2>8
<1> QED
  BY <1>4, <1>5

LEMMA DetachAllRoomsQuiet ==
    ASSUME TypeInv, JobInv, NEW t \in Threads, DetachAllRooms(t)
    PROVE  \E x, C : /\ Quiet(t, x, C) /\ x.pc = "forget" /\ x.batch = op[t].batch
                     /\ \A p \in C : memory'[p].room = memory[p].room
<1> DEFINE C == {p \in Paths : memory[p].status = "active"}
           W == SetToSeq(Rows(C, memory'))
           x == After(op[t], "forget", W)
<1>1. op[t].pc = "revoked" /\ op[t].writes = <<>> /\ op[t] \in OpRecord
      /\ UNCHANGED <<database, savedPolicies, policies, unsaved, inherited, late, overtaken>>
  BY DEF DetachAllRooms, At, disk, ghosts, TypeInv
<1>2. memory' = [p \in Paths |-> IF p \in C THEN [memory[p] EXCEPT !.status = "detached"] ELSE memory[p]]
  BY DEF DetachAllRooms
<1>3. op' = [op EXCEPT ![t] = x]
  BY <1>1 DEF Rows, DetachAllRooms, Goto, TypeInv
<1>4. memory' \in [Paths -> RowRecord]
  BY <1>2 DEF TypeInv, RowRecord
<1>5. C \subseteq Paths /\ \A p \in C : memory[p].status = "active"
  OBVIOUS
<1> HIDE DEF C
<1>6. W \in Seq(WriteRecord)
  BY <1>4, <1>5, RootWrites
<1>7. x \in OpRecord /\ x.writes = W /\ x.pc = "forget" /\ x.batch = op[t].batch
  BY <1>1, <1>6, AfterFacts DEF Steps
<1> HIDE DEF x
<1>8. Quiet(t, x, C) /\ \A p \in C : memory'[p].room = memory[p].room
  BY <1>1, <1>2, <1>3, <1>5, <1>7, DetachQuiet
<1> QED
  BY <1>7, <1>8

LEMMA ReplayEventQuiet ==
    ASSUME TypeInv, JobInv, ReplayEvent
    PROVE  \E x, C : LET e == Head(op["background"].batch) IN
             /\ Quiet("background", x, C) /\ x.pc = "events" /\ x.batch = Tail(op["background"].batch)
             /\ op["background"].batch # <<>>
             /\ \A p \in C : /\ memory'[p].room = memory[p].room /\ memory[p].room = e.id
                             /\ e.type = "room.removed"
<1> DEFINE t == "background"
           e == Head(op[t].batch)
           C == IF e.type = "room.removed" THEN DetachedBy(e.id) ELSE {}
           W == SetToSeq(Rows(C, memory'))
           x == [op[t] EXCEPT !.batch = Tail(op[t].batch), !.writes = W]
<1>1. t \in Threads /\ op[t].pc = "events" /\ op[t].writes = <<>> /\ op[t] \in OpRecord /\ op[t].batch # <<>>
      /\ UNCHANGED <<database, savedPolicies, policies, unsaved, inherited, late, overtaken>>
  BY DEF ReplayEvent, At, disk, Threads, TypeInv
<1>2. memory' = [p \in Paths |-> IF p \in C THEN [memory[p] EXCEPT !.status = "detached"] ELSE memory[p]]
  BY DEF ReplayEvent, NextEvent
<1>3. op' = [op EXCEPT ![t] = x]
  BY <1>1 DEF Rows, ReplayEvent, NextEvent, TypeInv
<1>4. memory' \in [Paths -> RowRecord]
  BY <1>2 DEF TypeInv, RowRecord
<1>5. C \subseteq Paths /\ \A p \in C : memory[p].status = "active" /\ memory[p].room = e.id /\ e.type = "room.removed"
  BY DEF DetachedBy, FindByRoom
<1> HIDE DEF C
<1>6. W \in Seq(WriteRecord)
  BY <1>4, <1>5, RootWrites
<1>7. Tail(op[t].batch) \in Seq(EventRecord)
  BY <1>1 DEF OpRecord
<1> HIDE DEF W
<1>8. x \in OpRecord
  BY <1>1, <1>6, <1>7 DEF OpRecord
<1>9. x.writes = W /\ x.pc = "events" /\ x.batch = Tail(op[t].batch)
  BY <1>1 DEF OpRecord
<1> HIDE DEF x
<1>10. Quiet(t, x, C) /\ \A p \in C : memory'[p].room = memory[p].room
  BY <1>1, <1>2, <1>3, <1>5, <1>8, <1>9, DetachQuiet DEF W
<1> QED
  BY <1>1, <1>5, <1>9, <1>10

-----------------------------------------------------------------------------
(* The server.                                                             *)

LEMMA RangeMore ==
    ASSUME NEW X, NEW s \in Seq(X), NEW u \in Seq(X), NEW x \in X, NEW a \in Nat
    PROVE  /\ s \o u \in Seq(X) /\ Range(s \o u) \subseteq Range(s) \cup Range(u)
           /\ Append(s, x) \in Seq(X) /\ Range(Append(s, x)) \subseteq Range(s) \cup {x}
           /\ SubSeq(s, a + 1, Len(s)) \in Seq(X) /\ Range(SubSeq(s, a + 1, Len(s))) \subseteq Range(s)
<1>1. s \o u \in Seq(X) /\ Append(s, x) \in Seq(X) /\ SubSeq(s, a + 1, Len(s)) \in Seq(X)
  OBVIOUS
<1>2. ASSUME NEW i \in 1..Len(s \o u) PROVE (s \o u)[i] \in Range(s) \cup Range(u)
  <2>1. Len(s) \in Nat /\ Len(u) \in Nat /\ DOMAIN s = 1..Len(s) /\ DOMAIN u = 1..Len(u)
        /\ Len(s \o u) = Len(s) + Len(u)
    OBVIOUS
  <2>2. CASE i <= Len(s)
    <3>1. i \in 1..Len(s) /\ (s \o u)[i] = s[i]
      BY <2>1, <2>2
    <3> QED
      BY <2>1, <3>1 DEF Range
  <2>3. CASE i > Len(s)
    <3>1. i - Len(s) \in 1..Len(u) /\ (s \o u)[i] = u[i - Len(s)]
      BY <2>1, <2>3
    <3> QED
      BY <2>1, <3>1 DEF Range
  <2> QED
    BY <2>1, <2>2, <2>3
<1>3. Range(s \o u) \subseteq Range(s) \cup Range(u)
  <2>1. DOMAIN (s \o u) = 1..Len(s \o u)
    BY <1>1
  <2> QED
    BY <1>2, <2>1 DEF Range
<1>4. Range(Append(s, x)) \subseteq Range(s) \cup {x}
  <2>1. Len(s) \in Nat /\ DOMAIN s = 1..Len(s) /\ DOMAIN Append(s, x) = 1..(Len(s) + 1)
    OBVIOUS
  <2>2. \A i \in 1..(Len(s) + 1) : Append(s, x)[i] = IF i = Len(s) + 1 THEN x ELSE s[i]
    OBVIOUS
  <2>3. \A i \in 1..(Len(s) + 1) : i = Len(s) + 1 \/ i \in 1..Len(s)
    BY <2>1
  <2> QED
    BY <2>1, <2>2, <2>3 DEF Range
<1>5. Range(SubSeq(s, a + 1, Len(s))) \subseteq Range(s)
  <2> DEFINE v == SubSeq(s, a + 1, Len(s))
  <2>1. Len(s) \in Nat /\ DOMAIN s = 1..Len(s)
    OBVIOUS
  <2>2. \A i \in DOMAIN v : a + i \in 1..Len(s) /\ v[i] = s[a + i]
    BY <2>1
  <2> HIDE DEF v
  <2>3. Range(v) \subseteq Range(s)
    BY <2>1, <2>2 DEF Range
  <2> QED
    BY <2>3 DEF v
<1> QED
  BY <1>1, <1>3, <1>4, <1>5

\* Rooms are only added and closed.
Lasting ==
    /\ DOMAIN rooms \subseteq DOMAIN rooms'
    /\ \A r \in DOMAIN rooms : /\ rooms'[r].root = rooms[r].root /\ rooms'[r].device = rooms[r].device
                               /\ (rooms'[r].open => rooms[r].open)

LEMMA Lasts ==
    ASSUME Lasting
    PROVE  /\ \A row, p : Own(row, p) => Own(row, p)'
           /\ \A e : ClosedEvent(e) => ClosedEvent(e)'
BY DEF Lasting, Own, ClosedEvent

LEMMA Closes ==
    ASSUME ServerType, NEW closed, Close(closed)
    PROVE  /\ rooms' \in Seq(RoomRecord) /\ DOMAIN rooms' = DOMAIN rooms /\ Lasting
           /\ \A r \in closed \cap DOMAIN rooms : ~rooms'[r].open
           /\ \A r \in DOMAIN rooms : r \notin closed => rooms'[r] = rooms[r]
<1>1. rooms \in Seq(RoomRecord) /\ Len(rooms) \in Nat /\ DOMAIN rooms = 1..Len(rooms)
      /\ \A r \in 1..Len(rooms) : rooms[r] \in RoomRecord
  BY DEF ServerType
<1>2. \A r \in DOMAIN rooms : LET x == [rooms[r] EXCEPT !.open = FALSE] IN
          x \in RoomRecord /\ x.root = rooms[r].root /\ x.device = rooms[r].device /\ x.open = FALSE
  BY <1>1 DEF RoomRecord
<1>3. rooms' = [r \in DOMAIN rooms |-> IF r \in closed THEN [rooms[r] EXCEPT !.open = FALSE] ELSE rooms[r]]
  BY DEF Close
<1>4. rooms' \in [1..Len(rooms) -> RoomRecord]
  BY <1>1, <1>2, <1>3
<1>5. \A s \in [1..Len(rooms) -> RoomRecord] : s \in Seq(RoomRecord) /\ DOMAIN s = 1..Len(rooms)
  BY <1>1
<1>6. \A r \in DOMAIN rooms : /\ rooms'[r].root = rooms[r].root /\ rooms'[r].device = rooms[r].device
                              /\ (rooms'[r].open => rooms[r].open)
                              /\ (r \in closed => ~rooms'[r].open)
                              /\ (r \notin closed => rooms'[r] = rooms[r])
  BY <1>2, <1>3
<1> QED
  BY <1>1, <1>4, <1>5, <1>6 DEF Lasting

LEMMA RemovedFacts ==
    ASSUME NEW r \in Nat
    PROVE  Removed(r) \in EventRecord /\ Removed(r).type = "room.removed" /\ Removed(r).id = r
BY DEF Removed, EventRecord

\* One room is closed and logged.
LEMMA ClosesRoom ==
    ASSUME ServerType, ServerInv, NEW r \in DOMAIN rooms, Close({r}), log' = Append(log, Removed(r)),
           UNCHANGED <<devices, paired, credential, cursor>>
    PROVE  ServerType' /\ Lasting /\ ServerInv' /\ ~rooms'[r].open /\ r \in DOMAIN rooms'
<1>1. /\ rooms' \in Seq(RoomRecord) /\ DOMAIN rooms' = DOMAIN rooms /\ Lasting /\ ~rooms'[r].open
  BY Closes
<1>2. r \in Nat
  BY DEF ServerType
<1>3. Removed(r) \in EventRecord /\ Removed(r).type = "room.removed" /\ Removed(r).id = r
  BY <1>2, RemovedFacts
<1>4. log \in Seq(EventRecord)
  BY DEF ServerType
<1>5. log' \in Seq(EventRecord) /\ Range(log') \subseteq Range(log) \cup {Removed(r)}
  BY <1>2, <1>3, <1>4, RangeMore
<1>6. ServerType'
  BY <1>1, <1>5 DEF ServerType
<1>7. \A e \in Range(log') : ClosedEvent(e)'
  <2>1. ClosedEvent(Removed(r))'
    BY <1>1, <1>3 DEF ClosedEvent
  <2>2. \A e \in Range(log) : ClosedEvent(e)'
    BY <1>1, Lasts DEF ServerInv
  <2> QED
    BY <1>5, <2>1, <2>2
<1>8. \A q \in DOMAIN rooms' : rooms'[q].open => rooms'[q].device \in devices'
  BY <1>1 DEF ServerInv, Lasting
<1> QED
  BY <1>1, <1>6, <1>7, <1>8 DEF ServerInv

LEMMA RevokeFacts ==
    ASSUME ServerType, ServerInv, NEW d, RevokeDevice(d), UNCHANGED <<credential, cursor>>
    PROVE  ServerType' /\ Lasting /\ ServerInv' /\ devices' = devices \ {d}
<1> DEFINE closed == {r \in DOMAIN rooms : rooms[r].open /\ rooms[r].device = d}
           S == {Removed(r) : r \in closed}
           z == [type |-> "device.revoked", id |-> d]
<1>1. d \in devices /\ devices' = devices \ {d} /\ Close(closed) /\ log' = log \o SetToSeq(S) \o <<z>>
      /\ UNCHANGED paired
  BY DEF RevokeDevice
<1>2. /\ rooms' \in Seq(RoomRecord) /\ DOMAIN rooms' = DOMAIN rooms /\ Lasting
      /\ \A r \in closed \cap DOMAIN rooms : ~rooms'[r].open
  BY <1>1, Closes
<1>3. closed \subseteq 1..Len(rooms) /\ Len(rooms) \in Nat /\ closed \subseteq DOMAIN rooms
  BY DEF ServerType
<1>4. \A r \in DOMAIN rooms' : rooms'[r].open => rooms'[r].device \in devices'
  BY <1>1, <1>2 DEF ServerInv, Lasting
<1> HIDE DEF closed
<1>5. IsFiniteSet(closed)
  BY <1>3, FS_Interval, FS_Subset
<1>6. IsFiniteSet(S)
  <2> DEFINE f == [r \in closed |-> Removed(r)]
  <2>1. f \in Surjection(closed, S)
    BY DEF Surjection
  <2> QED
    BY <1>5, <2>1, FS_Surjection
<1>7. \A e \in S : e \in EventRecord /\ ClosedEvent(e)'
  <2>1. ASSUME NEW r \in closed PROVE Removed(r) \in EventRecord /\ ClosedEvent(Removed(r))'
    <3>1. Removed(r) \in EventRecord /\ Removed(r).type = "room.removed" /\ Removed(r).id = r
      BY <1>3, RemovedFacts
    <3>2. r \in DOMAIN rooms' /\ ~rooms'[r].open
      BY <1>2, <1>3
    <3> QED
      BY <3>1, <3>2 DEF ClosedEvent
  <2> QED
    BY <2>1
<1>8. z \in EventRecord /\ z.type # "room.removed"
  BY <1>1 DEF EventRecord, ServerType
<1> HIDE DEF S, z
<1>9. SetToSeq(S) \in Seq(EventRecord) /\ Range(SetToSeq(S)) = S
  BY <1>6, <1>7, SeqOfSet, SeqLarger
<1>10. log \in Seq(EventRecord) /\ <<z>> \in Seq(EventRecord) /\ Range(<<z>>) = {z}
  BY <1>8, SmallRange DEF ServerType
<1>11. log \o SetToSeq(S) \in Seq(EventRecord) /\ Range(log \o SetToSeq(S)) \subseteq Range(log) \cup S
  BY <1>8, <1>9, <1>10, RangeMore
<1>12. log' \in Seq(EventRecord) /\ Range(log') \subseteq Range(log) \cup S \cup {z}
  <2> DEFINE u == log \o SetToSeq(S)
             v == <<z>>
  <2>1. u \in Seq(EventRecord) /\ Range(u) \subseteq Range(log) \cup S /\ log' = u \o v
        /\ v \in Seq(EventRecord) /\ Range(v) = {z}
    BY <1>1, <1>10, <1>11
  <2> HIDE DEF u, v
  <2>2. u \o v \in Seq(EventRecord) /\ Range(u \o v) \subseteq Range(u) \cup Range(v)
    BY <1>8, <2>1, RangeMore
  <2> QED
    BY <2>1, <2>2
<1>13. \A e \in Range(log') : ClosedEvent(e)'
  <2>1. ClosedEvent(z)'
    BY <1>8 DEF ClosedEvent
  <2>2. \A e \in Range(log) : ClosedEvent(e)'
    BY <1>2, Lasts DEF ServerInv
  <2> QED
    BY <1>7, <1>12, <2>1, <2>2
<1>14. ServerType'
  BY <1>1, <1>2, <1>12 DEF ServerType
<1> QED
  BY <1>1, <1>2, <1>4, <1>13, <1>14 DEF ServerInv

LEMMA ServerKeeps ==
    ASSUME ServerType, ServerInv, UNCHANGED server, credential' \in Nat, cursor' \in Nat
    PROVE  ServerType' /\ Lasting /\ ServerInv'
BY DEF ServerType, ServerInv, Lasting, ClosedEvent, server

\* A room is found or created.
LEMMA EnsureRoomFacts ==
    ASSUME TypeInv, JobInv, ServerInv, NEW t \in Threads, EnsureRoomForRoot(t)
    PROVE  /\ ServerType' /\ Lasting /\ ServerInv' /\ UNCHANGED <<devices, credential>>
           /\ \/ Done(t)
              \/ \E r \in DOMAIN rooms' : /\ rooms'[r].root = op[t].path
                                          /\ op' = [op EXCEPT ![t].pc = "bind", ![t].room = r]
<1> DEFINE p == op[t].path
           x == [root |-> p, device |-> credential, open |-> TRUE]
<1>1. credential \in devices /\ p \in Paths /\ UNCHANGED <<devices, paired, log, credential, cursor>>
  BY DEF EnsureRoomForRoot, At, JobInv, JobOK, local
<1>2. rooms \in Seq(RoomRecord) /\ Len(rooms) \in Nat /\ DOMAIN rooms = 1..Len(rooms) /\ credential \in Nat
  BY DEF TypeInv, ServerType
<1>3. PICK r \in Rooms :
         /\ \/ r \in OpenRoomsOf(p) /\ UNCHANGED rooms
            \/ OpenRoomsOf(p) = {} /\ r = Len(rooms) + 1 /\ rooms' = Append(rooms, x)
         /\ \/ op' = [op EXCEPT ![t].pc = "bind", ![t].room = r]
            \/ Done(t)
  BY DEF EnsureRoomForRoot
<1>4. CASE r \in OpenRoomsOf(p) /\ UNCHANGED rooms
  <2>1. r \in DOMAIN rooms' /\ rooms'[r].root = p
    BY <1>4 DEF OpenRoomsOf
  <2>2. UNCHANGED server
    BY <1>1, <1>4 DEF server
  <2>3. ServerType' /\ Lasting /\ ServerInv'
    BY <1>1, <2>2, ServerKeeps DEF TypeInv, ServerType
  <2> QED
    BY <1>1, <1>3, <2>1, <2>3
<1>5. CASE r = Len(rooms) + 1 /\ rooms' = Append(rooms, x)
  <2>1. x \in RoomRecord /\ x.root = p /\ x.device = credential
    BY <1>1, <1>2 DEF RoomRecord
  <2> HIDE DEF x
  <2>2. rooms' \in Seq(RoomRecord) /\ DOMAIN rooms' = 1..(Len(rooms) + 1)
        /\ \A i \in 1..(Len(rooms) + 1) : rooms'[i] = IF i = Len(rooms) + 1 THEN x ELSE rooms[i]
    BY <1>2, <1>5, <2>1
  <2>3. DOMAIN rooms \subseteq DOMAIN rooms' /\ \A i \in DOMAIN rooms : rooms'[i] = rooms[i]
    BY <1>2, <2>2
  <2>4. Lasting
    BY <2>3 DEF Lasting
  <2>5. \A i \in DOMAIN rooms' : rooms'[i].open => rooms'[i].device \in devices'
    <3>1. \A i \in DOMAIN rooms' : i \in DOMAIN rooms \/ rooms'[i] = x
      BY <1>2, <2>2
    <3> QED
      BY <1>1, <2>1, <2>3, <3>1 DEF ServerInv
  <2>6. \A e \in Range(log') : ClosedEvent(e)'
    BY <1>1, <2>4, Lasts DEF ServerInv
  <2>7. ServerInv'
    BY <2>5, <2>6 DEF ServerInv
  <2>8. r \in DOMAIN rooms' /\ rooms'[r].root = p
    BY <1>2, <1>5, <2>1, <2>2
  <2>9. ServerType'
    BY <1>1, <2>2 DEF ServerType, TypeInv
  <2> QED
    BY <1>1, <1>3, <2>4, <2>7, <2>8, <2>9
<1> QED
  BY <1>3, <1>4, <1>5

-----------------------------------------------------------------------------
(* What kinds of steps there are.                                          *)

Roomy(x) ==
    /\ x.pc = "bind" => x.room \in DOMAIN rooms' /\ rooms'[x.room].root = x.path
    /\ x.pc = "disconnect" => x.room \in DOMAIN rooms'
ShutRow(row) ==
    row.status = "detached" =>
        row.room \in DOMAIN rooms' /\ (~rooms'[row.room].open \/ rooms'[row.room].device \in overtaken')
Settled(x) ==
    /\ x.pc \in {"revoked", "forget"} => devices' \subseteq overtaken'
    /\ x.pc = "detach" => x.room \in DOMAIN rooms' /\ ~rooms'[x.room].open
    /\ \A e \in Range(x.batch) : ClosedEvent(e)'
Devices == devices' \subseteq devices /\ \A d \in devices' : d \in overtaken' \/ d = credential'
Calm(x, C) == Devices /\ Settled(x) /\ \A p \in C : ShutRow(memory'[p])
ServerOK == ServerType' /\ Lasting /\ ServerInv'
QuietStep == \E t, x, C : Quiet(t, x, C) /\ Roomy(x) /\ (ShutInv => Calm(x, C))
RestStep ==
    /\ UNCHANGED <<memory, database, policies, savedPolicies, op, unsaved, inherited, late>> /\ overtaken \subseteq overtaken'
    /\ ShutInv => /\ \A d \in devices' : d \in overtaken' \/ d = credential'
                  /\ \A t \in Threads : op[t].pc \in {"revoked", "forget"} => devices' \subseteq overtaken'

BaseInv == TypeInv /\ JobInv /\ OwnInv /\ ServerInv

\* A step without rows or events needs no more than the devices.
LEMMA CalmJob ==
    ASSUME NEW x, x.batch = <<>>, x.pc \notin {"revoked", "forget", "detach", "bind", "disconnect"},
           NEW t, Quiet(t, x, {}),
           ShutInv => Devices
    PROVE  QuietStep
<1>1. Range(x.batch) = {}
  BY SmallRange
<1>2. Roomy(x) /\ (ShutInv => Calm(x, {}))
  BY <1>1 DEF Calm, Settled, Devices, Roomy
<1> QED
  BY <1>2 DEF QuietStep

\* Nothing of the server changes.
LEMMA Away ==
    ASSUME BaseInv, UNCHANGED <<server, credential, cursor, overtaken>>
    PROVE  /\ ServerOK /\ UNCHANGED <<rooms, devices>>
           /\ (ShutInv => Devices)
           /\ \A row, p : Own(row, p) => Own(row, p)'
           /\ \A e : ClosedEvent(e) => ClosedEvent(e)'
<1>1. ServerOK
  BY ServerKeeps DEF BaseInv, TypeInv, ServerType, ServerOK
<1>2. (ShutInv => Devices) /\ UNCHANGED <<rooms, devices>>
  BY DEF server, ShutInv, Devices
<1> QED
  BY <1>1, <1>2, Lasts DEF ServerOK

LEMMA EnsureAgentRoomStep ==
    ASSUME BaseInv, NEW t \in Threads, NEW p \in Paths, EnsureAgentRoom(t, p)
    PROVE  QuietStep /\ ServerOK
<1>1. UNCHANGED <<memory, database, savedPolicies, policies, unsaved, inherited, late, overtaken, server, credential, cursor, overtaken>>
      /\ IsIdle(t) /\ Begins(t, "room", p, 0)
  BY DEF EnsureAgentRoom, Begins, local, disk, ghosts
<1>2. PICK x : Quiet(t, x, {}) /\ x.batch = <<>> /\ x.pc = "room"
  BY <1>1, Starts DEF BaseInv
<1> QED
  BY <1>1, <1>2, CalmJob, Away

LEMMA RefusedAtStep ==
    ASSUME BaseInv, NEW t \in Threads, NEW pc \in {"room", "disconnect"}, RefusedAt(t, pc)
    PROVE  QuietStep /\ ServerOK
<1>1. UNCHANGED <<memory, database, savedPolicies, policies, unsaved, inherited, late, overtaken, server>> /\ Done(t)
      /\ At(t, pc) /\ credential' = 0 /\ cursor' = 0 /\ credential \notin devices
  BY DEF RefusedAt, disk, ghosts
<1>2. Quiet(t, Idle, {})
  BY <1>1, Stops DEF BaseInv, Steps
<1>3. ShutInv => Devices
  BY <1>1 DEF Devices, ShutInv, server
<1>4. ServerOK
  BY <1>1, ServerKeeps DEF BaseInv, TypeInv, ServerOK
<1> QED
  BY <1>2, <1>3, <1>4, IdleFacts, CalmJob

LEMMA EnsureRoomForRootStep ==
    ASSUME BaseInv, NEW t \in Threads, EnsureRoomForRoot(t)
    PROVE  QuietStep /\ ServerOK
<1>1. UNCHANGED <<memory, database, savedPolicies, policies, unsaved, inherited, late, overtaken>> /\ At(t, "room")
  BY DEF EnsureRoomForRoot, local, disk, ghosts
<1>2. /\ ServerType' /\ Lasting /\ ServerInv' /\ UNCHANGED <<devices, credential>>
      /\ \/ Done(t)
         \/ \E r \in DOMAIN rooms' : /\ rooms'[r].root = op[t].path
                                     /\ op' = [op EXCEPT ![t].pc = "bind", ![t].room = r]
  BY EnsureRoomFacts DEF BaseInv
<1>3. ShutInv => Devices
  BY <1>1, <1>2 DEF Devices, ShutInv
<1>4. CASE Done(t)
  <2>1. Quiet(t, Idle, {})
    BY <1>1, <1>4, Stops DEF BaseInv, Steps
  <2> QED
    BY <1>2, <1>3, <2>1, IdleFacts, CalmJob DEF ServerOK
<1>5. ASSUME NEW r \in DOMAIN rooms', rooms'[r].root = op[t].path, op' = [op EXCEPT ![t].pc = "bind", ![t].room = r]
      PROVE  QuietStep
  <2> DEFINE x == [op[t] EXCEPT !.pc = "bind", !.room = r]
  <2>1. op[t] \in OpRecord /\ op[t].pc = "room" /\ op[t].writes = <<>> /\ op[t].path \in Paths
    BY <1>1 DEF BaseInv, TypeInv, JobInv, JobOK, At
  <2>2. r \in Nat
    BY <1>2 DEF ServerType
  <2>3. op' = [op EXCEPT ![t] = x]
    BY <1>5, <2>1 DEF BaseInv, TypeInv
  <2>4. x \in OpRecord
    BY <2>1, <2>2 DEF OpRecord, Steps
  <2>5. x.pc = "bind" /\ x.room = r /\ x.path = op[t].path /\ x.writes = <<>> /\ x.batch = op[t].batch
    BY <2>1 DEF OpRecord
  <2> HIDE DEF x
  <2>6. JobOK(t, x)
    BY <2>1, <2>5, SmallRange DEF JobOK
  <2>7. Quiet(t, x, {})
    BY <1>1, <2>1, <2>3, <2>4, <2>5, <2>6, QuietJob DEF BaseInv
  <2>8. Roomy(x)
    BY <1>5, <2>5 DEF Roomy
  <2>9. ShutInv => Calm(x, {})
    BY <1>2, <1>3, <2>5, Lasts DEF Calm, Settled, Devices, ShutInv
  <2> QED
    BY <2>7, <2>8, <2>9 DEF QuietStep
<1> QED
  BY <1>2, <1>4, <1>5 DEF ServerOK

LEMMA EnsureRoomFailsStep ==
    ASSUME BaseInv, NEW t \in Threads, EnsureRoomFails(t)
    PROVE  QuietStep /\ ServerOK
<1>1. UNCHANGED <<memory, database, savedPolicies, policies, unsaved, inherited, late, overtaken, server, credential, cursor, overtaken>>
      /\ Done(t) /\ At(t, "room")
  BY DEF EnsureRoomFails, local, disk, ghosts
<1>2. Quiet(t, Idle, {})
  BY <1>1, Stops DEF BaseInv, Steps
<1> QED
  BY <1>1, <1>2, IdleFacts, CalmJob, Away

LEMMA EnsureActiveStep ==
    ASSUME BaseInv, NEW r \in Rooms, EnsureActiveRoomBinding(r)
    PROVE  QuietStep /\ ServerOK
<1>1. UNCHANGED <<memory, database, savedPolicies, policies, unsaved, inherited, late, overtaken, server, credential, cursor, overtaken>>
      /\ IsIdle("background") /\ r \in DOMAIN rooms
      /\ Start("background", "bind", rooms[r].root, r, FALSE)
  BY DEF EnsureActiveRoomBinding, local, disk, ghosts
<1>2. rooms[r].root \in Paths /\ r \in Nat /\ "background" \in Threads
  <2>1. rooms \in Seq(RoomRecord)
    BY DEF BaseInv, TypeInv, ServerType
  <2>2. rooms[r] \in RoomRecord /\ r \in Nat
    BY <1>1, <2>1
  <2> QED
    BY <2>2 DEF RoomRecord, Threads
<1>3. Begins("background", "bind", rooms[r].root, r)
  BY <1>1, <1>2 DEF Begins
<1>4. PICK x : Quiet("background", x, {}) /\ x.batch = <<>> /\ x.pc = "bind" /\ x.path = rooms[r].root /\ x.room = r
  BY <1>1, <1>2, <1>3, Starts DEF BaseInv
<1>5. ServerOK /\ UNCHANGED <<rooms, devices>>
      /\ (ShutInv => Devices)
  BY <1>1, Away
<1>6. Roomy(x) /\ (ShutInv => Calm(x, {}))
  BY <1>1, <1>4, <1>5, SmallRange DEF Roomy, Calm, Settled, Devices
<1> QED
  BY <1>4, <1>5, <1>6 DEF QuietStep

LEMMA DisconnectStep ==
    ASSUME BaseInv, NEW p \in Paths, DisconnectAgentRoom(p) \/ UnregisterManagedRoot(p)
    PROVE  QuietStep /\ ServerOK
<1>1. UNCHANGED <<memory, database, savedPolicies, policies, unsaved, inherited, late, overtaken, server, credential, cursor, overtaken>>
      /\ IsIdle("window") /\ "window" \in Threads
  BY DEF DisconnectAgentRoom, UnregisterManagedRoot, local, disk, ghosts, Threads
<1>2. ServerOK /\ UNCHANGED <<rooms, devices>>
      /\ (ShutInv => Devices)
  BY <1>1, Away
<1>3. ASSUME memory[p].status = "active",
             \E remove \in BOOLEAN : Start("window", "disconnect", p, memory[p].room, remove)
      PROVE  QuietStep
  <2>1. memory[p].room \in Nat /\ memory[p].room \in DOMAIN rooms
    BY <1>3 DEF BaseInv, TypeInv, RowRecord, OwnInv, Own
  <2>2. PICK x : Quiet("window", x, {}) /\ x.batch = <<>> /\ x.pc = "disconnect" /\ x.room = memory[p].room
    <3>1. Begins("window", "disconnect", p, memory[p].room)
      BY <1>3, <2>1 DEF Begins
    <3> QED
      BY <1>1, <3>1, Starts DEF BaseInv
  <2>3. Roomy(x) /\ (ShutInv => Calm(x, {}))
    BY <1>2, <2>1, <2>2, SmallRange DEF Roomy, Calm, Settled, Devices
  <2> QED
    BY <2>2, <2>3 DEF QuietStep
<1>4. ASSUME \E remove \in BOOLEAN : Start("window", "policy", p, 0, remove) PROVE QuietStep
  <2>1. PICK x : Quiet("window", x, {}) /\ x.batch = <<>> /\ x.pc = "policy"
    <3>1. Begins("window", "policy", p, 0)
      BY <1>4 DEF Begins
    <3> QED
      BY <1>1, <3>1, Starts DEF BaseInv
  <2> QED
    BY <1>2, <2>1, CalmJob
<1> QED
  BY <1>2, <1>3, <1>4 DEF DisconnectAgentRoom, UnregisterManagedRoot

LEMMA DisconnectRoomStep ==
    ASSUME BaseInv, DisconnectRoom
    PROVE  QuietStep /\ ServerOK
<1> DEFINE t == "window"
           r == op[t].room
<1>1. UNCHANGED <<memory, database, savedPolicies, policies, unsaved, inherited, late, overtaken, credential, cursor, devices, paired>>
      /\ At(t, "disconnect") /\ t \in Threads
  BY DEF DisconnectRoom, local, disk, ghosts, Threads
<1>2. r \in DOMAIN rooms /\ op[t] \in OpRecord /\ op[t].pc = "disconnect" /\ op[t].writes = <<>> /\ op[t].path \in Paths
  BY <1>1 DEF BaseInv, OwnInv, At, TypeInv, JobInv, JobOK
<1>3. ShutInv => Devices
  BY <1>1 DEF Devices, ShutInv
<1>4. ASSUME Done(t) PROVE QuietStep
  <2>1. Quiet(t, Idle, {})
    BY <1>1, <1>4, Stops DEF BaseInv, Steps
  <2> QED
    BY <1>3, <2>1, IdleFacts, CalmJob
<1>5. CASE UNCHANGED <<rooms, log>> /\ Done(t)
  <2>1. UNCHANGED server
    BY <1>1, <1>5 DEF server
  <2> QED
    BY <1>1, <1>4, <1>5, <2>1, Away
<1>6. CASE Close({r}) /\ log' = Append(log, Removed(r)) /\ (Done(t) \/ op' = [op EXCEPT ![t].pc = "detach"])
  <2>1. ServerType' /\ Lasting /\ ServerInv' /\ ~rooms'[r].open /\ r \in DOMAIN rooms'
    BY <1>1, <1>2, <1>6, ClosesRoom DEF BaseInv, TypeInv
  <2>2. CASE op' = [op EXCEPT ![t].pc = "detach"]
    <3> DEFINE x == [op[t] EXCEPT !.pc = "detach"]
    <3>1. op' = [op EXCEPT ![t] = x]
      BY <1>1, <2>2 DEF BaseInv, TypeInv
    <3>2. x \in OpRecord
      BY <1>2 DEF OpRecord, Steps
    <3>3. x.pc = "detach" /\ x.room = r /\ x.path = op[t].path /\ x.writes = <<>> /\ x.batch = op[t].batch
      BY <1>2 DEF OpRecord
    <3> HIDE DEF x
    <3>4. JobOK(t, x)
      BY <1>2, <3>3, SmallRange DEF JobOK
    <3>5. Quiet(t, x, {})
      BY <1>1, <1>2, <3>1, <3>2, <3>3, <3>4, QuietJob DEF BaseInv
    <3>6. Roomy(x)
      BY <3>3 DEF Roomy
    <3>7. ShutInv => Calm(x, {})
      BY <1>1, <1>3, <2>1, <3>3, Lasts DEF Calm, Settled, Devices, ShutInv
    <3> QED
      BY <2>1, <3>5, <3>6, <3>7 DEF QuietStep, ServerOK
  <2> QED
    BY <1>4, <1>6, <2>1, <2>2 DEF ServerOK
<1> QED
  BY <1>5, <1>6 DEF DisconnectRoom

LEMMA UpdateStateStep ==
    ASSUME BaseInv, NEW p \in Paths, NEW enabled \in BOOLEAN, UpdateState(p, enabled)
    PROVE  QuietStep /\ ServerOK
<1>1. PICK x : Quiet("window", x, {p}) /\ x.pc = "end" /\ x.batch = <<>> /\ memory'[p].status = memory[p].status
               /\ memory'[p].room = memory[p].room
  BY UpdateStateQuiet DEF BaseInv
<1>2. UNCHANGED <<server, credential, cursor, overtaken>>
  BY DEF UpdateState, ghosts
<1>3. ShutInv => ShutRow(memory'[p])
  BY <1>1, <1>2 DEF ShutRow, ShutInv, ClosedRow, server
<1>4. Roomy(x) /\ (ShutInv => Calm(x, {p}))
  BY <1>1, <1>2, <1>3, Away, SmallRange DEF Roomy, Calm, Settled, Devices
<1> QED
  BY <1>1, <1>2, <1>4, Away DEF QuietStep

LEMMA UpdateHealthStep ==
    ASSUME BaseInv, NEW t \in Threads, NEW p \in Paths, UpdateHealth(t, p)
    PROVE  QuietStep /\ ServerOK
<1>1. PICK x : Quiet(t, x, {p}) /\ x.pc = "end" /\ x.batch = <<>> /\ UNCHANGED memory
  BY UpdateHealthQuiet DEF BaseInv
<1>2. UNCHANGED <<server, credential, cursor, overtaken>>
  BY DEF UpdateHealth, local, ghosts
<1>3. ShutInv => ShutRow(memory'[p])
  BY <1>1, <1>2 DEF ShutRow, ShutInv, ClosedRow, server
<1>4. Roomy(x) /\ (ShutInv => Calm(x, {p}))
  BY <1>1, <1>2, <1>3, Away, SmallRange DEF Roomy, Calm, Settled
<1> QED
  BY <1>1, <1>2, <1>4, Away DEF QuietStep

LEMMA BindRoomStep ==
    ASSUME BaseInv, NEW t \in Threads, BindRoom(t)
    PROVE  QuietStep /\ ServerOK
<1>1. UNCHANGED <<server, credential, cursor, overtaken>>
  BY DEF BindRoom
<1>2. ServerOK /\ UNCHANGED <<rooms, devices>>
      /\ (ShutInv => Devices)
      /\ \A e : ClosedEvent(e) => ClosedEvent(e)'
  BY <1>1, Away
<1>3. CASE Quiet(t, Idle, {})
  BY <1>2, <1>3, IdleFacts, CalmJob
<1>4. ASSUME NEW x, Quiet(t, x, {op[t].path}), x.pc = "end", x.batch = op[t].batch,
             memory'[op[t].path].status = "active"
      PROVE  QuietStep
  <2>1. ShutRow(memory'[op[t].path])
    BY <1>4 DEF ShutRow
  <2>2. Roomy(x) /\ (ShutInv => Calm(x, {op[t].path}))
    BY <1>2, <1>4, <2>1 DEF Roomy, Calm, Settled, Devices, ShutInv
  <2> QED
    BY <1>4, <2>2 DEF QuietStep
<1> QED
  BY <1>2, <1>3, <1>4, BindRoomQuiet DEF BaseInv

LEMMA DetachRoomStep ==
    ASSUME BaseInv, DetachRoom
    PROVE  QuietStep /\ ServerOK
<1>1. UNCHANGED <<server, credential, cursor, overtaken>>
  BY DEF DetachRoom, ghosts
<1>2. ServerOK /\ UNCHANGED <<rooms, devices>>
      /\ (ShutInv => Devices)
      /\ \A e : ClosedEvent(e) => ClosedEvent(e)'
  BY <1>1, Away
<1>3. PICK x, C : /\ Quiet("window", x, C) /\ x.pc \in {"idle", "policy", "end"}
                  /\ x.batch \in {<<>>, op["window"].batch}
                  /\ \A p \in C : /\ memory'[p].room = memory[p].room
                                  /\ memory[p].room = op["window"].room
  BY DetachRoomQuiet DEF BaseInv
<1>4. ShutInv => \A p \in C : ShutRow(memory'[p])
  BY <1>2, <1>3 DEF ShutRow, ShutInv, ClosedRow, Threads, DetachRoom, At
<1>5. ShutInv => \A e \in Range(x.batch) : ClosedEvent(e)'
  BY <1>2, <1>3, SmallRange DEF ShutInv, Threads
<1>6. Roomy(x) /\ (ShutInv => Calm(x, C))
  BY <1>2, <1>3, <1>4, <1>5 DEF Roomy, Calm, Settled, Devices
<1> QED
  BY <1>2, <1>3, <1>6 DEF QuietStep

LEMMA DetachAllRoomsStep ==
    ASSUME BaseInv, NEW t \in Threads, DetachAllRooms(t)
    PROVE  QuietStep /\ ServerOK
<1>1. UNCHANGED <<server, credential, cursor, overtaken>> /\ op[t].pc = "revoked"
  BY DEF DetachAllRooms, At, ghosts
<1>2. ServerOK /\ UNCHANGED <<rooms, devices>>
      /\ (ShutInv => Devices)
      /\ \A e : ClosedEvent(e) => ClosedEvent(e)'
  BY <1>1, Away
<1>3. PICK x, C : /\ Quiet(t, x, C) /\ x.pc = "forget" /\ x.batch = op[t].batch
                  /\ \A p \in C : memory'[p].room = memory[p].room
  BY DetachAllRoomsQuiet DEF BaseInv
<1>4. ShutInv => devices \subseteq overtaken /\ \A r \in DOMAIN rooms : ~rooms[r].open \/ rooms[r].device \in overtaken
  BY <1>1 DEF ShutInv, BaseInv, ServerInv
<1>5. ShutInv => \A p \in C : ShutRow(memory'[p])
  <2> SUFFICES ASSUME ShutInv, NEW p \in C PROVE ShutRow(memory'[p])
    OBVIOUS
  <2>1. p \in Paths /\ From(t, p)
    BY <1>3 DEF Quiet
  <2>2. memory'[p].status = "detached" => memory[p].room \in DOMAIN rooms
    BY <1>1, <2>1 DEF From, BaseInv, OwnInv, Own
  <2> QED
    BY <1>1, <1>2, <1>3, <1>4, <2>2 DEF ShutRow
<1>6. ShutInv => \A e \in Range(x.batch) : ClosedEvent(e)'
  BY <1>2, <1>3 DEF ShutInv
<1>7. Roomy(x) /\ (ShutInv => Calm(x, C))
  BY <1>1, <1>2, <1>3, <1>4, <1>5, <1>6 DEF Roomy, Calm, Settled, Devices
<1> QED
  BY <1>2, <1>3, <1>7 DEF QuietStep

LEMMA ReplayEventStep ==
    ASSUME BaseInv, ReplayEvent
    PROVE  QuietStep /\ ServerOK
<1> DEFINE t == "background"
           b == op[t].batch
           e == Head(b)
<1>1. UNCHANGED <<server, credential, cursor, overtaken>> /\ t \in Threads
  BY DEF ReplayEvent, Threads
<1>2. ServerOK /\ UNCHANGED <<rooms, devices>>
      /\ (ShutInv => Devices)
      /\ \A f : ClosedEvent(f) => ClosedEvent(f)'
  BY <1>1, Away
<1>3. PICK x, C : /\ Quiet(t, x, C) /\ x.pc = "events" /\ x.batch = Tail(b) /\ b # <<>>
                  /\ \A p \in C : /\ memory'[p].room = memory[p].room /\ memory[p].room = e.id
                                  /\ e.type = "room.removed"
  BY ReplayEventQuiet DEF BaseInv
<1>4. b \in Seq(EventRecord)
  BY <1>1 DEF BaseInv, TypeInv, OpRecord
<1>5. e \in Range(b) /\ Range(Tail(b)) \subseteq Range(b)
  BY <1>3, <1>4, RangeFacts
<1>6. ShutInv => \A f \in Range(b) : ClosedEvent(f)
  BY <1>1 DEF ShutInv
<1> HIDE DEF e
<1>7. ShutInv => \A p \in C : ShutRow(memory'[p])
  BY <1>2, <1>3, <1>5, <1>6 DEF ShutRow, ClosedEvent
<1>8. ShutInv => \A f \in Range(x.batch) : ClosedEvent(f)'
  BY <1>2, <1>3, <1>5, <1>6
<1>9. Roomy(x) /\ (ShutInv => Calm(x, C))
  BY <1>2, <1>3, <1>7, <1>8 DEF Roomy, Calm, Settled, Devices
<1> QED
  BY <1>2, <1>3, <1>9 DEF QuietStep

LEMMA ReplayRuleStep ==
    ASSUME BaseInv, ReplayRule
    PROVE  QuietStep /\ ServerOK
<1> DEFINE t == "background"
           b == op[t].batch
<1>1. UNCHANGED <<memory, database, savedPolicies, policies, unsaved, inherited, late, overtaken, server>>
      /\ At(t, "events") /\ b # <<>> /\ t \in Threads
      /\ credential' \in {0, credential} /\ cursor' \in {0, cursor}
      /\ (credential \in devices => UNCHANGED credential)
  BY DEF ReplayRule, disk, ghosts, Threads
<1>2. ShutInv => Devices
  BY <1>1 DEF Devices, ShutInv, Devices, server
<1>3. ServerOK
  <2>1. credential' \in Nat /\ cursor' \in Nat
    BY <1>1 DEF BaseInv, TypeInv, ServerType
  <2> QED
    BY <1>1, <2>1, ServerKeeps DEF BaseInv, TypeInv, ServerOK
<1>4. CASE Done(t)
  <2>1. Quiet(t, Idle, {})
    BY <1>1, <1>4, Stops DEF BaseInv, Steps
  <2> QED
    BY <1>2, <1>3, <2>1, IdleFacts, CalmJob
<1>5. CASE op' = [op EXCEPT ![t].batch = Tail(b)]
  <2> DEFINE x == [op[t] EXCEPT !.batch = Tail(b)]
  <2>1. op[t] \in OpRecord /\ op[t].pc = "events" /\ op[t].writes = <<>> /\ b \in Seq(EventRecord)
    BY <1>1 DEF BaseInv, TypeInv, At, OpRecord
  <2>2. op' = [op EXCEPT ![t] = x]
    BY <1>1, <1>5 DEF BaseInv, TypeInv
  <2>3. Tail(b) \in Seq(EventRecord) /\ Range(Tail(b)) \subseteq Range(b)
    BY <1>1, <2>1, RangeFacts
  <2>4. x \in OpRecord
    BY <2>1, <2>3 DEF OpRecord
  <2>5. x.pc = "events" /\ x.writes = <<>> /\ x.batch = Tail(b)
    BY <2>1 DEF OpRecord
  <2> HIDE DEF x
  <2>6. JobOK(t, x)
    BY <2>5, SmallRange DEF JobOK
  <2>7. Quiet(t, x, {})
    BY <1>1, <2>1, <2>2, <2>4, <2>5, <2>6, QuietJob DEF BaseInv
  <2>8. ShutInv => \A f \in Range(x.batch) : ClosedEvent(f)'
    BY <1>1, <1>3, <2>3, <2>5, Lasts DEF ShutInv, ServerOK
  <2>9. Roomy(x) /\ (ShutInv => Calm(x, {}))
    BY <1>2, <2>5, <2>8 DEF Roomy, Calm, Settled
  <2> QED
    BY <1>3, <2>7, <2>9 DEF QuietStep
<1> QED
  BY <1>4, <1>5 DEF ReplayRule

LEMMA HeartbeatStep ==
    ASSUME BaseInv, Heartbeat
    PROVE  QuietStep /\ ServerOK
<1>1. UNCHANGED <<memory, database, savedPolicies, policies, unsaved, inherited, late, overtaken, server>> /\ IsIdle("background")
      /\ credential \notin devices /\ credential' = 0 /\ cursor' = 0 /\ "background" \in Threads
      /\ Start("background", "revoked", Idle.path, 0, FALSE)
  BY DEF Heartbeat, disk, ghosts, Threads
<1>2. Begins("background", "revoked", Idle.path, 0)
  BY <1>1 DEF Begins
<1>3. PICK x : Quiet("background", x, {}) /\ x.batch = <<>> /\ x.pc = "revoked"
  BY <1>1, <1>2, Starts DEF BaseInv
<1>4. ServerOK
  BY <1>1, ServerKeeps DEF BaseInv, TypeInv, ServerOK
<1>5. ShutInv => devices' \subseteq overtaken' /\ devices' \subseteq devices
  BY <1>1 DEF ShutInv, server
<1>6. Roomy(x) /\ (ShutInv => Calm(x, {}))
  BY <1>3, <1>5, SmallRange DEF Roomy, Calm, Settled, Devices
<1> QED
  BY <1>3, <1>4, <1>6 DEF QuietStep

LEMMA RevokeAgentDeviceStep ==
    ASSUME BaseInv, RevokeAgentDevice
    PROVE  (QuietStep \/ RestStep) /\ ServerOK
<1>1. UNCHANGED <<memory, database, savedPolicies, policies, unsaved, inherited, late, overtaken, credential, cursor>>
      /\ IsIdle("window") /\ "window" \in Threads
  BY DEF RevokeAgentDevice, local, disk, ghosts, Threads
<1>2. ServerOK /\ devices' = devices \ {credential}
  <2>1. CASE credential \in devices
    BY <1>1, <2>1, RevokeFacts DEF RevokeAgentDevice, BaseInv, TypeInv, ServerOK
  <2>2. CASE credential \notin devices
    <3>1. UNCHANGED server /\ devices' = devices \ {credential}
      BY <2>2 DEF RevokeAgentDevice, server
    <3> QED
      BY <1>1, <3>1, Away
  <2> QED
    BY <2>1, <2>2
<1>3. ShutInv => devices' \subseteq overtaken' /\ devices' \subseteq devices
  BY <1>1, <1>2 DEF ShutInv
<1>4. CASE UNCHANGED op
  BY <1>1, <1>3, <1>4, <1>2 DEF RestStep
<1>5. CASE Start("window", "revoked", Idle.path, 0, FALSE)
  <2>1. Begins("window", "revoked", Idle.path, 0)
    BY <1>5 DEF Begins
  <2>2. PICK x : Quiet("window", x, {}) /\ x.batch = <<>> /\ x.pc = "revoked"
    BY <1>1, <2>1, Starts DEF BaseInv
  <2>3. Roomy(x) /\ (ShutInv => Calm(x, {}))
    BY <1>3, <2>2, SmallRange DEF Roomy, Calm, Settled, Devices
  <2> QED
    BY <1>2, <2>2, <2>3 DEF QuietStep
<1> QED
  BY <1>4, <1>5 DEF RevokeAgentDevice

LEMMA ForgetDeviceStep ==
    ASSUME BaseInv, NEW t \in Threads, ForgetDevice(t)
    PROVE  QuietStep /\ ServerOK
<1>1. UNCHANGED <<memory, database, savedPolicies, policies, unsaved, inherited, late, overtaken, server>> /\ Done(t)
      /\ At(t, "forget") /\ credential' = 0 /\ cursor' = 0
  BY DEF ForgetDevice, disk, ghosts
<1>2. Quiet(t, Idle, {})
  BY <1>1, Stops DEF BaseInv, Steps
<1>3. ShutInv => Devices
  BY <1>1 DEF Devices, ShutInv, server, At
<1>4. ServerOK
  BY <1>1, ServerKeeps DEF BaseInv, TypeInv, ServerOK
<1> QED
  BY <1>2, <1>3, <1>4, IdleFacts, CalmJob

LEMMA ReplayEventsStep ==
    ASSUME BaseInv, ReplayEvents
    PROVE  QuietStep /\ ServerOK
<1> DEFINE t == "background"
           b == SubSeq(log, cursor + 1, Len(log))
           x == [Idle EXCEPT !.pc = "events", !.upTo = Len(log), !.device = credential, !.batch = b]
<1>1. UNCHANGED <<memory, database, savedPolicies, policies, unsaved, inherited, late, overtaken, server, credential, cursor, overtaken>>
      /\ IsIdle(t) /\ t \in Threads /\ op' = [op EXCEPT ![t] = x]
  BY DEF ReplayEvents, local, disk, ghosts, Threads
<1>2. log \in Seq(EventRecord) /\ cursor \in Nat /\ credential \in Nat /\ Len(log) \in Nat
  BY DEF BaseInv, TypeInv, ServerType
<1>3. b \in Seq(EventRecord) /\ Range(b) \subseteq Range(log)
  <2>1. [type |-> "room.removed", id |-> 0] \in EventRecord
    BY DEF EventRecord
  <2> QED
    BY <1>2, <2>1, RangeMore
<1> HIDE DEF b
<1>4. x \in OpRecord
  BY <1>2, <1>3, IdleFacts DEF OpRecord, Steps
<1>5. x.pc = "events" /\ x.writes = <<>> /\ x.batch = b
  BY IdleFacts DEF OpRecord
<1> HIDE DEF x
<1>6. JobOK(t, x)
  BY <1>5, SmallRange DEF JobOK
<1>7. Quiet(t, x, {})
  BY <1>1, <1>4, <1>5, <1>6, FreeFacts, QuietJob DEF BaseInv
<1>8. ServerOK /\ UNCHANGED <<rooms, devices>>
      /\ (ShutInv => Devices)
      /\ \A f : ClosedEvent(f) => ClosedEvent(f)'
  BY <1>1, Away
<1>9. \A f \in Range(x.batch) : ClosedEvent(f)'
  BY <1>3, <1>5, <1>8 DEF BaseInv, ServerInv
<1>10. Roomy(x) /\ (ShutInv => Calm(x, {}))
  BY <1>5, <1>8, <1>9 DEF Roomy, Calm, Settled, Devices
<1> QED
  BY <1>7, <1>8, <1>10 DEF QuietStep

LEMMA AdvanceCursorStep ==
    ASSUME BaseInv, AdvanceCursor
    PROVE  QuietStep /\ ServerOK
<1> DEFINE t == "background"
<1>1. UNCHANGED <<memory, database, savedPolicies, policies, unsaved, inherited, late, overtaken, server, credential>>
      /\ Done(t) /\ At(t, "events") /\ t \in Threads
  BY DEF AdvanceCursor, disk, ghosts, Threads
<1>2. cursor' \in Nat /\ credential' \in Nat
  BY <1>1 DEF AdvanceCursor, BaseInv, TypeInv, ServerType, OpRecord
<1>3. Quiet(t, Idle, {})
  BY <1>1, Stops DEF BaseInv, Steps
<1>4. ShutInv => Devices
  BY <1>1 DEF Devices, ShutInv, server
<1>5. ServerOK
  BY <1>1, <1>2, ServerKeeps DEF BaseInv, TypeInv, ServerOK
<1> QED
  BY <1>3, <1>4, <1>5, IdleFacts, CalmJob

\* Only a pairing adds a device.
LEMMA Apart ==
    ASSUME BaseInv, PhoneRevokesDevice \/ ReplayRefused \/ \E r \in Rooms : PhoneRemovesRoom(r) \/ PhoneCreatesRule(r)
    PROVE  UNCHANGED overtaken
BY DEF PhoneRevokesDevice, ReplayRefused, PhoneRemovesRoom, PhoneCreatesRule, ghosts

LEMMA RestSteps ==
    ASSUME BaseInv, PollPairing \/ PhoneRevokesDevice \/ ReplayRefused \/ \E r \in Rooms : PhoneRemovesRoom(r) \/ PhoneCreatesRule(r)
    PROVE  RestStep /\ ServerOK
<1>1. UNCHANGED <<memory, database, policies, savedPolicies, op, unsaved, inherited, late>> /\ overtaken \subseteq overtaken'
      /\ (PollPairing \/ UNCHANGED overtaken)
  BY DEF PollPairing, PhoneRevokesDevice, ReplayRefused, PhoneRemovesRoom, PhoneCreatesRule, local, disk, ghosts
<1>2. CASE PollPairing
  <2>1. /\ IsIdle("window") /\ "window" \in Threads /\ credential = 0 /\ paired' = paired + 1
        /\ devices' = devices \cup {paired'} /\ credential' = paired' /\ cursor' = 0 /\ UNCHANGED <<rooms, log>>
    BY <1>2 DEF PollPairing, Threads
  <2>2. devices \subseteq 1..paired /\ paired \in Nat
    BY DEF BaseInv, TypeInv, ServerType
  <2>3. ServerType'
    <3>1. devices' \subseteq 1..paired' /\ paired' \in Nat
      BY <2>1, <2>2
    <3> QED
      BY <2>1, <3>1 DEF ServerType, BaseInv, TypeInv
  <2>4. Lasting
    BY <2>1 DEF Lasting
  <2>5. ServerInv'
    BY <2>1 DEF ServerInv, ClosedEvent, BaseInv
  <2>6. ShutInv => \A d \in devices : d \in overtaken
    BY <2>1, <2>2 DEF ShutInv
  <2>7. ASSUME NEW t \in Threads, op[t].pc \in {"revoked", "forget"} PROVE credential' \in overtaken'
    BY <1>2, <2>1, <2>7 DEF PollPairing, IsIdle, Threads
  <2>8. ShutInv => /\ \A d \in devices' : d \in overtaken' \/ d = credential'
                  /\ \A t \in Threads : op[t].pc \in {"revoked", "forget"} => devices' \subseteq overtaken'
    BY <1>1, <2>1, <2>6, <2>7
  <2> QED
    BY <1>1, <2>1, <2>3, <2>4, <2>5, <2>8 DEF RestStep, ServerOK
<1>3. CASE PhoneRevokesDevice
  <2>1. PICK d \in devices : RevokeDevice(d)
    BY <1>3 DEF PhoneRevokesDevice
  <2>2. UNCHANGED <<credential, cursor>>
    BY <1>3 DEF PhoneRevokesDevice, local
  <2>3. ServerOK /\ devices' = devices \ {d}
    BY <2>1, <2>2, RevokeFacts DEF ServerOK, BaseInv, TypeInv
  <2> QED
    BY <1>1, <1>3, <2>2, <2>3, Apart DEF RestStep, ShutInv
<1>4. CASE ReplayRefused
  <2>1. UNCHANGED server /\ credential' = 0 /\ cursor' = 0 /\ credential \notin devices
    BY <1>4 DEF ReplayRefused
  <2>2. ServerOK
    BY <2>1, ServerKeeps DEF ServerOK, BaseInv, TypeInv
  <2> QED
    BY <1>1, <1>4, <2>1, <2>2, Apart DEF RestStep, ShutInv, server
<1>5. ASSUME NEW r \in Rooms, PhoneRemovesRoom(r) PROVE RestStep /\ ServerOK
  <2>1. UNCHANGED <<devices, paired, credential, cursor>> /\ r \in DOMAIN rooms /\ Close({r})
        /\ log' = Append(log, Removed(r))
    BY <1>5 DEF PhoneRemovesRoom, local
  <2>2. ServerOK
    BY <2>1, ClosesRoom DEF ServerOK, BaseInv, TypeInv
  <2> QED
    BY <1>1, <1>5, <2>1, <2>2, Apart DEF RestStep, ShutInv
<1>6. ASSUME NEW r \in Rooms, PhoneCreatesRule(r) PROVE RestStep /\ ServerOK
  <2> DEFINE e == [type |-> "rule.created", id |-> r]
  <2>1. UNCHANGED <<devices, paired, credential, cursor, rooms>> /\ r \in DOMAIN rooms /\ log' = Append(log, e)
    BY <1>6 DEF PhoneCreatesRule, local
  <2>2. log \in Seq(EventRecord) /\ e \in EventRecord /\ e.type # "room.removed"
    BY DEF BaseInv, TypeInv, ServerType, EventRecord, Rooms
  <2> HIDE DEF e
  <2>3. log' \in Seq(EventRecord) /\ Range(log') \subseteq Range(log) \cup {e}
    <3>1. 0 \in Nat
      OBVIOUS
    <3> QED
      BY <2>1, <2>2, <3>1, RangeMore
  <2>4. ServerType' /\ Lasting
    BY <2>1, <2>3 DEF ServerType, BaseInv, TypeInv, Lasting
  <2>5. ServerInv'
    BY <2>1, <2>2, <2>3 DEF ServerInv, ClosedEvent, BaseInv
  <2> QED
    BY <1>1, <1>6, <2>1, <2>4, <2>5, Apart DEF RestStep, ShutInv, ServerOK
<1> QED
  BY <1>2, <1>3, <1>4, <1>5, <1>6

\* Steps that register or remove a root, change a policy, or write.
Marked ==
    \/ \E t \in Threads : Persist(t) \/ PersistFails(t)
    \/ \E p \in Paths : RegisterManagedRoot(p) \/ \E valid \in BOOLEAN : PatchPolicy(p, "on", valid)
    \/ RemovePolicy \/ RemoveRoot \/ Restart

LEMMA MarkedServer ==
    ASSUME BaseInv, Marked
    PROVE  ServerOK /\ UNCHANGED <<rooms, devices, credential>>
           /\ (ShutInv => Devices)
<1>1. UNCHANGED <<server, credential, cursor, overtaken>>
  BY DEF Marked, Persist, PersistFails, RegisterManagedRoot, PatchPolicy, RemovePolicy, RemoveRoot, Restart, local, ghosts
<1> QED
  BY <1>1, Away

LEMMA Kinds ==
    ASSUME BaseInv, Next
    PROVE  (Marked \/ QuietStep \/ RestStep) /\ ServerOK
<1>1. ASSUME NEW t \in Threads, Continue(t) PROVE (Marked \/ QuietStep \/ RestStep) /\ ServerOK
  <2>1. CASE Persist(t) \/ (t = "window" /\ (RemovePolicy \/ RemoveRoot))
    BY <2>1, MarkedServer DEF Marked
  <2>2. CASE EnsureRoomForRoot(t) \/ EnsureRoomFails(t) \/ BindRoom(t) \/ DetachAllRooms(t) \/ ForgetDevice(t)
    BY <2>2, EnsureRoomForRootStep, EnsureRoomFailsStep, BindRoomStep, DetachAllRoomsStep, ForgetDeviceStep
  <2>3. CASE \E pc \in {"room", "disconnect"} : RefusedAt(t, pc)
    BY <2>3, RefusedAtStep
  <2>4. CASE DisconnectRoom \/ DetachRoom \/ ReplayEvent \/ ReplayRule \/ AdvanceCursor
    BY <2>4, DisconnectRoomStep, DetachRoomStep, ReplayEventStep, ReplayRuleStep, AdvanceCursorStep
  <2> QED
    BY <1>1, <2>1, <2>2, <2>3, <2>4 DEF Continue
<1>2. CASE (\E t \in Threads : PersistFails(t)) \/ (\E p \in Paths : RegisterManagedRoot(p)) \/ Restart
           \/ \E p \in Automated, valid \in BOOLEAN : PatchPolicy(p, "on", valid)
  BY <1>2, MarkedServer, RootsAssumption DEF Marked
<1>3. CASE \E p \in Paths : DisconnectAgentRoom(p) \/ UnregisterManagedRoot(p) \/ \E t \in Threads : EnsureAgentRoom(t, p)
  BY <1>3, DisconnectStep, EnsureAgentRoomStep
<1>4. CASE \/ \E p \in Toggled, enabled \in BOOLEAN : UpdateState(p, enabled)
           \/ \E p \in Linked, t \in Threads : UpdateHealth(t, p)
  BY <1>4, UpdateStateStep, UpdateHealthStep, RootsAssumption
<1>5. CASE \E r \in Rooms : EnsureActiveRoomBinding(r)
  BY <1>5, EnsureActiveStep
<1>6. CASE PollPairing \/ PhoneRevokesDevice \/ ReplayRefused \/ \E r \in Rooms : PhoneRemovesRoom(r) \/ PhoneCreatesRule(r)
  BY <1>6, RestSteps
<1>7. CASE RevokeAgentDevice \/ Heartbeat \/ ReplayEvents
  BY <1>7, RevokeAgentDeviceStep, HeartbeatStep, ReplayEventsStep
<1> QED
  BY <1>1, <1>2, <1>3, <1>4, <1>5, <1>6, <1>7 DEF Next

-----------------------------------------------------------------------------
(* The steps that register, remove, change a policy or write.              *)

\* What a thread has after a step that leaves its place or stops it.
Goes(t, x) == x = Idle \/ (x.pc = op[t].pc /\ x.path = op[t].path /\ x.room = op[t].room /\ x.batch = op[t].batch)

\* The row is late when memory has another one.
Later(w) == late \subseteq late' /\ (w.table = "roots" /\ w.row # memory[w.path] => w.path \in late')

LEMMA PersistFacts ==
    ASSUME BaseInv, NEW t \in Threads, Persist(t)
    PROVE  \E w \in WriteRecord, x \in OpRecord :
             /\ w \in Range(op[t].writes) /\ JobOK(t, x) /\ op' = [op EXCEPT ![t] = x]
             /\ Range(op[t].writes) = {w} \cup Range(x.writes) /\ Goes(t, x) /\ op[t].pc # "idle"
             /\ (Retracts(w) => t = "window" /\ op[t].writes = <<w>> /\ Range(x.writes) = {})
             /\ \/ w.table = "roots" /\ database' = [database EXCEPT ![w.path] = w.row] /\ savedPolicies' = savedPolicies
                \/ w.table = "policies" /\ savedPolicies' = [savedPolicies EXCEPT ![w.path] = w.policy] /\ database' = database
             /\ UNCHANGED <<memory, policies, unsaved, inherited, overtaken>> /\ Later(w)
<1> DEFINE s == op[t].writes
           w == Head(s)
           u == Tail(s)
           x == After(op[t], op[t].pc, u)
<1>1. s # <<>> /\ op[t] \in OpRecord /\ s \in Seq(WriteRecord) /\ op[t].pc \in Steps /\ JobOK(t, op[t])
  BY DEF BaseInv, TypeInv, JobInv, OpRecord, Persist
<1>2. /\ w \in WriteRecord /\ u \in Seq(WriteRecord) /\ Range(s) = {w} \cup Range(u) /\ w \in Range(s)
      /\ \A y : s = <<y>> => w = y /\ u = <<>>
  BY <1>1, RangeFacts
<1>3. op' = [op EXCEPT ![t] = x]
  BY DEF Persist, Goto, BaseInv, TypeInv
<1>4. op[t].pc \in Steps \ {"idle"}
  BY <1>1 DEF JobOK
<1>5. /\ \/ w.table = "roots" /\ database' = [database EXCEPT ![w.path] = w.row] /\ savedPolicies' = savedPolicies
         \/ w.table = "policies" /\ savedPolicies' = [savedPolicies EXCEPT ![w.path] = w.policy] /\ database' = database
      /\ UNCHANGED <<memory, policies, unsaved, inherited, overtaken>> /\ Later(w)
  BY DEF Persist, local, Later
<1> HIDE DEF w, u
<1>6. /\ x \in OpRecord /\ x.writes = u
      /\ IF op[t].pc = "end" /\ u = <<>> THEN x = Idle
         ELSE x.pc = op[t].pc /\ x.path = op[t].path /\ x.room = op[t].room /\ x.batch = op[t].batch
  BY <1>1, <1>2, <1>4, AfterFacts
<1> HIDE DEF x
<1>7. Goes(t, x)
  BY <1>6 DEF Goes
<1>8. \A v \in Range(s) : Retracts(v) => t = "window" /\ s = <<v>>
  BY <1>1 DEF JobOK
<1>9. Retracts(w) => t = "window" /\ s = <<w>> /\ Range(u) = {}
  BY <1>2, <1>8, SmallRange
<1>10. \A v \in Range(u) : ~Retracts(v)
  BY <1>2, <1>8, SmallRange
<1>11. JobOK(t, x)
  BY <1>1, <1>4, <1>6, <1>7, <1>10, IdleFacts DEF Goes, JobOK
<1> QED
  BY <1>2, <1>3, <1>4, <1>5, <1>6, <1>7, <1>9, <1>11

LEMMA PersistFailsFacts ==
    ASSUME BaseInv, NEW t \in Threads, PersistFails(t)
    PROVE  \E x \in OpRecord :
             /\ JobOK(t, x) /\ op' = [op EXCEPT ![t] = x] /\ Goes(t, x) /\ Range(x.writes) = {} /\ op[t].pc # "idle"
             /\ x.pc \in {"idle", "forget"}
             /\ unsaved \subseteq unsaved'
             /\ \A w \in Range(op[t].writes) : w.table = "roots" => w.path \in unsaved'
             /\ UNCHANGED <<memory, database, policies, savedPolicies, inherited, late, overtaken>>
<1>1. op[t].writes # <<>> /\ op[t] \in OpRecord /\ op \in [Threads -> OpRecord] /\ JobOK(t, op[t])
  BY DEF BaseInv, TypeInv, JobInv, PersistFails
<1>2. op[t].pc # "idle"
  BY <1>1 DEF JobOK
<1>3. /\ unsaved \subseteq unsaved' /\ \A w \in Range(op[t].writes) : w.table = "roots" => w.path \in unsaved'
      /\ UNCHANGED <<memory, database, policies, savedPolicies, inherited, late, overtaken>>
  BY DEF PersistFails, local, disk
<1>4. CASE op[t].pc = "forget"
  <2> DEFINE x == [op[t] EXCEPT !.writes = <<>>]
  <2>1. op' = [op EXCEPT ![t] = x]
    BY <1>1, <1>4 DEF PersistFails
  <2>2. <<>> \in Seq(WriteRecord)
    OBVIOUS
  <2>3. x \in OpRecord
    BY <1>1, <2>2 DEF OpRecord
  <2>4. x.writes = <<>> /\ x.pc = op[t].pc /\ x.path = op[t].path /\ x.room = op[t].room /\ x.batch = op[t].batch
    BY <1>1 DEF OpRecord
  <2> HIDE DEF x
  <2>5. JobOK(t, x) /\ Range(x.writes) = {}
    BY <1>4, <2>4, SmallRange DEF JobOK
  <2> QED
    BY <1>2, <1>3, <1>4, <2>1, <2>3, <2>4, <2>5 DEF Goes
<1>5. CASE op[t].pc # "forget"
  BY <1>2, <1>3, <1>5, IdleFacts DEF PersistFails, Done, Goes
<1> QED
  BY <1>4, <1>5

\* A thread that goes on at pc after one write.
LEMMA OneWriteJob ==
    ASSUME NEW t, NEW job \in OpRecord, NEW pc \in {"end", "remove"}, NEW w \in WriteRecord,
           pc = "remove" => job.path \in Paths, Retracts(w) => t = "window"
    PROVE  \E x \in OpRecord : /\ x = After(job, pc, <<w>>) /\ JobOK(t, x) /\ Range(x.writes) = {w} /\ x.writes = <<w>>
                               /\ x.pc = pc /\ x.path = job.path /\ x.batch = job.batch
<1> DEFINE W == <<w>>
           x == After(job, pc, W)
<1>1. W \in Seq(WriteRecord) /\ W # <<>> /\ Range(W) = {w}
  BY SmallRange
<1>2. pc \in Steps \ {"idle"}
  BY DEF Steps
<1>3. W = <<w>>
  OBVIOUS
<1> HIDE DEF W
<1>4. x \in OpRecord /\ x.writes = W /\ x.pc = pc /\ x.path = job.path /\ x.batch = job.batch
  BY <1>1, <1>2, AfterFacts
<1> HIDE DEF x
<1>5. JobOK(t, x)
  BY <1>1, <1>3, <1>4 DEF JobOK
<1>6. x = After(job, pc, <<w>>)
  BY <1>3 DEF x
<1> QED
  BY <1>1, <1>3, <1>4, <1>5, <1>6

LEMMA EndJob ==
    ASSUME NEW w \in WriteRecord, NEW job \in OpRecord
    PROVE  \E x \in OpRecord : /\ x = After(job, "end", <<w>>) /\ JobOK("window", x) /\ Range(x.writes) = {w}
                               /\ x.pc = "end" /\ x.batch = job.batch
<1>1. "end" \in {"end", "remove"} /\ "end" # "remove"
  OBVIOUS
<1> QED
  BY <1>1, OneWriteJob

Fresh == Row("unbound", TRUE, 0)
LEMMA FreshFacts ==
    /\ Fresh \in RowRecord /\ NoRow \in RowRecord
    /\ Fresh.status = "unbound" /\ NoRow.status = "absent"
BY DEF Fresh, Row, NoRow, RowRecord

LEMMA RegisterFacts ==
    ASSUME BaseInv, NEW p \in Paths, RegisterManagedRoot(p)
    PROVE  /\ IsIdle("window") /\ EnsureNotOverlapping(p) /\ memory' = [memory EXCEPT ![p] = Fresh]
           /\ inherited' \subseteq inherited \cup {p}
           /\ ((~Present(p) /\ policies[p] # "absent") \/ inherited' = inherited)
           /\ UNCHANGED <<policies, database, savedPolicies, unsaved, late, overtaken>>
           /\ \E x \in OpRecord, w \in WriteRecord : /\ op' = [op EXCEPT !["window"] = x] /\ JobOK("window", x)
                               /\ Range(x.writes) = {w} /\ x.pc = "end" /\ x.batch = <<>>
                               /\ w.table = "roots" /\ w.path = p /\ w.row = Fresh
<1> DEFINE w == PutRoot(p, Fresh)
<1>1. IsIdle("window") /\ EnsureNotOverlapping(p) /\ memory' = [memory EXCEPT ![p] = Fresh]
  BY DEF RegisterManagedRoot, Fresh
<1>2. /\ inherited' \subseteq inherited \cup {p}
      /\ ((~Present(p) /\ policies[p] # "absent") \/ inherited' = inherited)
      /\ UNCHANGED <<policies, database, savedPolicies, unsaved, late, overtaken>>
  BY DEF RegisterManagedRoot, disk
<1>3. memory'[p] = Fresh
  BY <1>1 DEF BaseInv, TypeInv
<1>4. op' = [op EXCEPT !["window"] = After(Idle, "end", <<w>>)]
  BY <1>3 DEF RegisterManagedRoot, Begin
<1>5. w \in WriteRecord /\ w.table = "roots" /\ w.path = p /\ w.row = Fresh
  BY FreshFacts DEF WriteRecord, PutRoot, Policy
<1> HIDE DEF w
<1>6. "end" \in {"end", "remove"} /\ Idle \in OpRecord /\ Idle.batch = <<>>
  BY IdleFacts
<1>7. PICK x \in OpRecord : /\ x = After(Idle, "end", <<w>>) /\ JobOK("window", x) /\ Range(x.writes) = {w}
                            /\ x.pc = "end" /\ x.batch = Idle.batch
  BY <1>5, <1>6, EndJob
<1> QED
  BY <1>1, <1>2, <1>4, <1>5, <1>6, <1>7

LEMMA PatchFacts ==
    ASSUME BaseInv, NEW p \in Paths, \E valid \in BOOLEAN : PatchPolicy(p, "on", valid)
    PROVE  /\ IsIdle("window") /\ Present(p) /\ policies' = [policies EXCEPT ![p] = "on"]
           /\ UNCHANGED <<memory, database, savedPolicies, unsaved, inherited, late, overtaken>>
           /\ \/ UNCHANGED op
              \/ \E x \in OpRecord, w \in WriteRecord :
                               /\ op' = [op EXCEPT !["window"] = x] /\ JobOK("window", x)
                               /\ Range(x.writes) = {w} /\ x.pc = "end" /\ x.batch = <<>>
                               /\ w.table = "policies" /\ w.path = p /\ w.row.status # "detached"
<1> DEFINE w == PutPolicy(p, "on")
<1>1. /\ IsIdle("window") /\ Present(p) /\ policies' = [policies EXCEPT ![p] = "on"]
      /\ UNCHANGED <<memory, database, savedPolicies, unsaved, inherited, late, overtaken>>
  BY DEF PatchPolicy, disk, ghosts
<1>2. UNCHANGED op \/ op' = [op EXCEPT !["window"] = After(Idle, "end", <<w>>)]
  BY DEF PatchPolicy, Begin
<1>3. w \in WriteRecord /\ w.table = "policies" /\ w.path = p /\ w.row.status # "detached"
  BY FreshFacts DEF WriteRecord, PutPolicy, Policy
<1> HIDE DEF w
<1>4. "end" \in {"end", "remove"} /\ Idle \in OpRecord /\ Idle.batch = <<>>
  BY IdleFacts
<1>5. PICK x \in OpRecord : /\ x = After(Idle, "end", <<w>>) /\ JobOK("window", x) /\ Range(x.writes) = {w}
                            /\ x.pc = "end" /\ x.batch = Idle.batch
  BY <1>3, <1>4, EndJob
<1> QED
  BY <1>1, <1>2, <1>3, <1>4, <1>5

LEMMA RemovePolicyFacts ==
    ASSUME BaseInv, RemovePolicy
    PROVE  \E p \in Paths, x \in OpRecord :
             /\ op["window"].pc = "policy" /\ op["window"].writes = <<>> /\ op["window"].path = p
             /\ policies' = [policies EXCEPT ![p] = "absent"]
             /\ UNCHANGED <<memory, database, savedPolicies, unsaved, inherited, late, overtaken>>
             /\ op' = [op EXCEPT !["window"] = x] /\ JobOK("window", x) /\ x.writes = <<PutPolicy(p, "absent")>>
             /\ Range(x.writes) = {PutPolicy(p, "absent")}
             /\ x.pc = "remove" /\ x.path = p /\ x.batch = op["window"].batch
<1> DEFINE p == op["window"].path
           w == PutPolicy(p, "absent")
<1>1. /\ op["window"].pc = "policy" /\ op["window"].writes = <<>> /\ policies' = [policies EXCEPT ![p] = "absent"]
      /\ UNCHANGED <<memory, database, savedPolicies, unsaved, inherited, late, overtaken>>
  BY DEF RemovePolicy, disk, ghosts, At
<1>2. op["window"] \in OpRecord /\ p \in Paths /\ op \in [Threads -> OpRecord] /\ "window" \in Threads
  BY <1>1 DEF BaseInv, TypeInv, JobInv, JobOK, Threads
<1>3. op' = [op EXCEPT !["window"] = After(op["window"], "remove", <<w>>)]
  BY <1>2 DEF RemovePolicy, Goto
<1>4. w \in WriteRecord
  BY <1>2, FreshFacts DEF WriteRecord, PutPolicy, Policy
<1>5. "remove" \in {"end", "remove"} /\ w = PutPolicy(p, "absent")
  OBVIOUS
<1> HIDE DEF w
<1>6. PICK x \in OpRecord : /\ x = After(op["window"], "remove", <<w>>) /\ JobOK("window", x) /\ Range(x.writes) = {w}
                            /\ x.writes = <<w>> /\ x.pc = "remove" /\ x.path = p /\ x.batch = op["window"].batch
  BY <1>2, <1>4, <1>5, OneWriteJob
<1> QED
  BY <1>1, <1>2, <1>3, <1>5, <1>6

LEMMA RemoveRootFacts ==
    ASSUME BaseInv, RemoveRoot
    PROVE  \E p \in Paths, x \in OpRecord, w \in WriteRecord :
             /\ op["window"].pc = "remove" /\ op["window"].writes = <<>> /\ op["window"].path = p
             /\ memory' = [memory EXCEPT ![p] = NoRow]
             /\ UNCHANGED <<policies, database, savedPolicies, unsaved, inherited, late, overtaken>>
             /\ op' = [op EXCEPT !["window"] = x] /\ JobOK("window", x) /\ Range(x.writes) = {w}
             /\ x.pc = "end" /\ x.batch = op["window"].batch
             /\ w.table = "roots" /\ w.path = p /\ w.row = NoRow
<1> DEFINE p == op["window"].path
           w == PutRoot(p, NoRow)
<1>1. /\ op["window"].pc = "remove" /\ op["window"].writes = <<>> /\ memory' = [memory EXCEPT ![p] = NoRow]
      /\ UNCHANGED <<policies, database, savedPolicies, unsaved, inherited, late, overtaken>>
  BY DEF RemoveRoot, disk, ghosts, At
<1>2. op["window"] \in OpRecord /\ p \in Paths /\ op \in [Threads -> OpRecord] /\ "window" \in Threads
  BY <1>1 DEF BaseInv, TypeInv, JobInv, JobOK, Threads
<1>3. op' = [op EXCEPT !["window"] = After(op["window"], "end", <<w>>)]
  BY <1>2 DEF RemoveRoot, Goto
<1>4. w \in WriteRecord /\ w.table = "roots" /\ w.path = p /\ w.row = NoRow
  BY <1>2, FreshFacts DEF WriteRecord, PutRoot, Policy
<1>5. "end" \in {"end", "remove"}
  OBVIOUS
<1> HIDE DEF w
<1>6. PICK x \in OpRecord : /\ x = After(op["window"], "end", <<w>>) /\ JobOK("window", x) /\ Range(x.writes) = {w}
                            /\ x.pc = "end" /\ x.batch = op["window"].batch
  BY <1>2, <1>4, <1>5, OneWriteJob
<1> QED
  BY <1>1, <1>2, <1>3, <1>4, <1>6

-----------------------------------------------------------------------------
(* Types, jobs, owners of rooms and the server are kept by every step.     *)

Owned(row, p) ==
    row.status \in {"active", "detached"} => row.room \in DOMAIN rooms' /\ rooms'[row.room].root = p
TypedTables ==
    /\ memory' \in [Paths -> RowRecord] /\ database' \in [Paths -> RowRecord]
    /\ policies' \in [Paths -> Policy] /\ savedPolicies' \in [Paths -> Policy]
OwnedTables == \A p \in Paths : Owned(memory'[p], p) /\ Owned(database'[p], p)

LEMMA StaysOwned ==
    ASSUME BaseInv, ServerOK
    PROVE  /\ \A row, p : Own(row, p) => Owned(row, p)
           /\ \A p \in Paths : Owned(memory[p], p) /\ Owned(database[p], p)
           /\ \A t \in Threads : /\ \A w \in Range(op[t].writes) : w.table = "roots" => Owned(w.row, w.path)
                                 /\ Roomy(op[t])
<1>1. \A row, p : Own(row, p) => Owned(row, p)
  BY DEF Own, Owned, Lasting, ServerOK
<1>2. \A t \in Threads : Roomy(op[t])
  BY DEF BaseInv, OwnInv, Lasting, ServerOK, Roomy
<1> QED
  BY <1>1, <1>2 DEF BaseInv, OwnInv

LEMMA BaseKept ==
    ASSUME BaseInv, ServerOK, TypedTables, OwnedTables, NEW t \in Threads, NEW x \in OpRecord, JobOK(t, x),
           op' = [op EXCEPT ![t] = x], Roomy(x), \A w \in Range(x.writes) : w.table = "roots" => Owned(w.row, w.path)
    PROVE  BaseInv'
<1>1. op' \in [Threads -> OpRecord] /\ JobInv' /\ op'[t] = x /\ \A u \in Threads \ {t} : op'[u] = op[u]
  BY OpSet DEF BaseInv
<1>2. TypeInv'
  BY <1>1 DEF TypeInv, TypedTables, ServerOK
<1>3. \A u \in Threads : Roomy(op'[u]) /\ \A w \in Range(op'[u].writes) : w.table = "roots" => Owned(w.row, w.path)
  BY <1>1, StaysOwned
<1>4. OwnInv'
  BY <1>3 DEF OwnInv, Own, Owned, OwnedTables, Roomy
<1> QED
  BY <1>1, <1>2, <1>4 DEF BaseInv, ServerOK

\* Nothing of a thread changes.
LEMMA BaseRests ==
    ASSUME BaseInv, ServerOK, TypedTables, OwnedTables, UNCHANGED op
    PROVE  BaseInv'
<1>1. op' \in [Threads -> OpRecord] /\ JobInv'
  BY DEF BaseInv, TypeInv, JobInv, JobOK
<1>2. TypeInv'
  BY <1>1 DEF TypeInv, TypedTables, ServerOK
<1>3. \A u \in Threads : Roomy(op'[u]) /\ \A w \in Range(op'[u].writes) : w.table = "roots" => Owned(w.row, w.path)
  BY StaysOwned
<1>4. OwnInv'
  BY <1>3 DEF OwnInv, Own, Owned, OwnedTables, Roomy
<1> QED
  BY <1>1, <1>2, <1>4 DEF BaseInv, ServerOK

LEMMA QuietBase ==
    ASSUME BaseInv, ServerOK, NEW t, NEW x, NEW C, Quiet(t, x, C), Roomy(x)
    PROVE  BaseInv'
<1>1. t \in Threads /\ x \in OpRecord /\ JobOK(t, x) /\ C \in SUBSET Paths /\ op' = [op EXCEPT ![t] = x]
      /\ Range(x.writes) = Rows(C, memory') /\ memory' \in [Paths -> RowRecord]
      /\ UNCHANGED <<database, savedPolicies, policies>>
  BY DEF Quiet
<1>2. TypedTables
  BY <1>1 DEF TypedTables, BaseInv, TypeInv
<1>3. \A p \in C : Owned(memory'[p], p)
  <2> SUFFICES ASSUME NEW p \in C PROVE Owned(memory'[p], p)
    OBVIOUS
  <2>1. From(t, p) /\ p \in Paths
    BY <1>1 DEF Quiet
  <2>2. Own(memory[p], p) /\ (op[t].pc = "bind" => op[t].room \in DOMAIN rooms /\ rooms[op[t].room].root = op[t].path)
    BY <1>1, <2>1 DEF BaseInv, OwnInv
  <2> QED
    BY <2>1, <2>2 DEF From, Own, Owned, Lasting, ServerOK
<1>4. \A p \in Paths \ C : memory'[p] = memory[p]
  BY DEF Quiet
<1>5. OwnedTables
  BY <1>1, <1>3, <1>4, StaysOwned DEF OwnedTables
<1>6. \A w \in Range(x.writes) : w.path \in C /\ w.row = memory'[w.path]
  BY <1>1, RootWrites
<1> QED
  BY <1>1, <1>2, <1>3, <1>5, <1>6, BaseKept

LEMMA MarkedBase ==
    ASSUME BaseInv, ServerOK, Marked, UNCHANGED rooms
    PROVE  BaseInv'
<1>0. /\ memory \in [Paths -> RowRecord] /\ database \in [Paths -> RowRecord]
      /\ policies \in [Paths -> Policy] /\ savedPolicies \in [Paths -> Policy]
      /\ "window" \in Threads /\ Fresh \in RowRecord /\ NoRow \in RowRecord
      /\ Fresh.status = "unbound" /\ NoRow.status = "absent" /\ {"on", "absent"} \subseteq Policy
  BY FreshFacts DEF BaseInv, TypeInv, Threads, Policy
<1>1. ASSUME NEW t \in Threads, Persist(t) PROVE BaseInv'
  <2>1. PICK w \in WriteRecord, x \in OpRecord :
             /\ w \in Range(op[t].writes) /\ JobOK(t, x) /\ op' = [op EXCEPT ![t] = x]
             /\ Range(op[t].writes) = {w} \cup Range(x.writes) /\ Goes(t, x)
             /\ \/ w.table = "roots" /\ database' = [database EXCEPT ![w.path] = w.row] /\ savedPolicies' = savedPolicies
                \/ w.table = "policies" /\ savedPolicies' = [savedPolicies EXCEPT ![w.path] = w.policy] /\ database' = database
             /\ UNCHANGED <<memory, policies, unsaved, inherited, overtaken>> /\ Later(w)
    BY <1>1, PersistFacts
  <2>2. w.path \in Paths /\ w.row \in RowRecord /\ w.policy \in Policy
    BY DEF WriteRecord
  <2>3. TypedTables
    BY <1>0, <2>1, <2>2 DEF TypedTables
  <2>4. OwnedTables
    BY <1>0, <2>1, <2>2, StaysOwned DEF OwnedTables
  <2>5. Roomy(x) /\ \A v \in Range(x.writes) : v.table = "roots" => Owned(v.row, v.path)
    BY <2>1, StaysOwned, IdleFacts DEF Goes, Roomy
  <2> QED
    BY <2>1, <2>3, <2>4, <2>5, BaseKept
<1>2. ASSUME NEW t \in Threads, PersistFails(t) PROVE BaseInv'
  <2>1. PICK x \in OpRecord :
             /\ JobOK(t, x) /\ op' = [op EXCEPT ![t] = x] /\ Goes(t, x) /\ Range(x.writes) = {}
             /\ UNCHANGED <<memory, database, policies, savedPolicies, inherited, late, overtaken>>
    BY <1>2, PersistFailsFacts
  <2>2. TypedTables /\ OwnedTables
    BY <1>0, <2>1, StaysOwned DEF TypedTables, OwnedTables
  <2>3. Roomy(x)
    BY <2>1, StaysOwned, IdleFacts DEF Goes, Roomy
  <2> QED
    BY <2>1, <2>2, <2>3, BaseKept
<1>3. ASSUME NEW p \in Paths, RegisterManagedRoot(p) PROVE BaseInv'
  <2>1. PICK x \in OpRecord, w \in WriteRecord :
             /\ op' = [op EXCEPT !["window"] = x] /\ JobOK("window", x) /\ Range(x.writes) = {w} /\ x.pc = "end"
             /\ w.table = "roots" /\ w.path = p /\ w.row = Fresh
    BY <1>3, RegisterFacts
  <2>2. memory' = [memory EXCEPT ![p] = Fresh] /\ UNCHANGED <<policies, database, savedPolicies>>
    BY <1>3, RegisterFacts
  <2>3. TypedTables
    BY <1>0, <2>2 DEF TypedTables
  <2>4. Owned(Fresh, p)
    BY <1>0 DEF Owned
  <2>5. OwnedTables
    BY <1>0, <2>2, <2>4, StaysOwned DEF OwnedTables
  <2>6. Roomy(x)
    BY <2>1 DEF Roomy
  <2> QED
    BY <1>0, <2>1, <2>3, <2>4, <2>5, <2>6, BaseKept
<1>4. ASSUME NEW p \in Paths, \E valid \in BOOLEAN : PatchPolicy(p, "on", valid) PROVE BaseInv'
  <2>1. policies' = [policies EXCEPT ![p] = "on"] /\ UNCHANGED <<memory, database, savedPolicies>>
    BY <1>4, PatchFacts
  <2>2. TypedTables /\ OwnedTables
    BY <1>0, <2>1, StaysOwned DEF TypedTables, OwnedTables
  <2>3. CASE UNCHANGED op
    BY <2>2, <2>3, BaseRests
  <2>4. CASE \E x \in OpRecord, w \in WriteRecord :
             /\ op' = [op EXCEPT !["window"] = x] /\ JobOK("window", x) /\ Range(x.writes) = {w} /\ x.pc = "end"
             /\ w.table = "policies"
    <3>1. PICK x \in OpRecord, w \in WriteRecord :
             /\ op' = [op EXCEPT !["window"] = x] /\ JobOK("window", x) /\ Range(x.writes) = {w} /\ x.pc = "end"
             /\ w.table = "policies"
      BY <2>4
    <3>2. Roomy(x) /\ \A v \in Range(x.writes) : v.table # "roots"
      BY <3>1 DEF Roomy
    <3> QED
      BY <1>0, <2>2, <3>1, <3>2, BaseKept
  <2> QED
    BY <1>4, <2>3, <2>4, PatchFacts
<1>5. ASSUME RemovePolicy PROVE BaseInv'
  <2>1. PICK p \in Paths, x \in OpRecord :
             /\ policies' = [policies EXCEPT ![p] = "absent"] /\ UNCHANGED <<memory, database, savedPolicies>>
             /\ op' = [op EXCEPT !["window"] = x] /\ JobOK("window", x)
             /\ Range(x.writes) = {PutPolicy(p, "absent")} /\ x.pc = "remove"
    BY <1>5, RemovePolicyFacts
  <2>2. TypedTables /\ OwnedTables
    BY <1>0, <2>1, StaysOwned DEF TypedTables, OwnedTables
  <2>3. Roomy(x) /\ \A v \in Range(x.writes) : v.table # "roots"
    BY <2>1 DEF Roomy, PutPolicy
  <2> QED
    BY <1>0, <2>1, <2>2, <2>3, BaseKept
<1>6. ASSUME RemoveRoot PROVE BaseInv'
  <2>1. PICK p \in Paths, x \in OpRecord, w \in WriteRecord :
             /\ memory' = [memory EXCEPT ![p] = NoRow] /\ UNCHANGED <<policies, database, savedPolicies>>
             /\ op' = [op EXCEPT !["window"] = x] /\ JobOK("window", x) /\ Range(x.writes) = {w} /\ x.pc = "end"
             /\ w.table = "roots" /\ w.path = p /\ w.row = NoRow
    BY <1>6, RemoveRootFacts
  <2>2. TypedTables
    BY <1>0, <2>1 DEF TypedTables
  <2>3. Owned(NoRow, p)
    BY <1>0 DEF Owned
  <2>4. OwnedTables
    BY <1>0, <2>1, <2>3, StaysOwned DEF OwnedTables
  <2>5. Roomy(x)
    BY <2>1 DEF Roomy
  <2> QED
    BY <1>0, <2>1, <2>2, <2>3, <2>4, <2>5, BaseKept
<1>7. ASSUME Restart PROVE BaseInv'
  <2>1. memory' = database /\ policies' = savedPolicies /\ op' = [t \in Threads |-> Idle]
        /\ UNCHANGED <<database, savedPolicies>>
    BY <1>7 DEF Restart, disk
  <2>2. TypedTables /\ OwnedTables
    BY <1>0, <2>1, StaysOwned DEF TypedTables, OwnedTables
  <2>3. op' \in [Threads -> OpRecord] /\ \A t \in Threads : op'[t] = Idle
    BY <2>1, IdleFacts
  <2>4. JobInv'
    BY <2>3, IdleFacts DEF JobInv
  <2>5. OwnInv'
    BY <2>2, <2>3, IdleFacts DEF OwnInv, OwnedTables, Own, Owned
  <2> QED
    BY <2>2, <2>3, <2>4, <2>5 DEF BaseInv, TypeInv, TypedTables, ServerOK
<1> QED
  BY <1>1, <1>2, <1>3, <1>4, <1>5, <1>6, <1>7 DEF Marked

LEMMA BaseInit ==
    ASSUME Init
    PROVE  BaseInv
<1>1. /\ memory = [p \in Paths |-> NoRow] /\ database = memory
      /\ policies = [p \in Paths |-> "absent"] /\ savedPolicies = policies
      /\ credential = 0 /\ cursor = 0 /\ devices = {} /\ paired = 0 /\ rooms = <<>> /\ log = <<>>
      /\ op = [t \in Threads |-> Idle]
  BY DEF Init
<1>2. TypeInv
  BY <1>1, IdleFacts, FreshFacts DEF TypeInv, ServerType, Policy
<1>3. JobInv
  BY <1>1, IdleFacts DEF JobInv
<1>4. OwnInv
  BY <1>1, IdleFacts, FreshFacts DEF OwnInv, Own
<1>5. ServerInv
  BY <1>1, SmallRange DEF ServerInv
<1> QED
  BY <1>2, <1>3, <1>4, <1>5 DEF BaseInv

LEMMA BaseNext ==
    ASSUME BaseInv, Next
    PROVE  BaseInv'
<1>1. CASE Marked
  BY <1>1, Kinds, MarkedServer, MarkedBase
<1>2. CASE QuietStep
  BY <1>2, Kinds, QuietBase DEF QuietStep
<1>3. CASE RestStep
  <2>1. TypedTables /\ OwnedTables /\ UNCHANGED op
    BY <1>3, Kinds, StaysOwned DEF RestStep, TypedTables, OwnedTables, BaseInv, TypeInv
  <2> QED
    BY <2>1, Kinds, BaseRests
<1> QED
  BY <1>1, <1>2, <1>3, Kinds

-----------------------------------------------------------------------------
(* No policy is inherited.                                                 *)

\* What the window has to write and the tables hold is all that counts.
LEMMA QuietPolicy ==
    ASSUME BaseInv, PolicyInv, NEW t, NEW x, NEW C, Quiet(t, x, C)
    PROVE  PolicyInv'
<1>1. t \in Threads /\ x \in OpRecord /\ C \in SUBSET Paths /\ op' = [op EXCEPT ![t] = x] /\ op[t].writes = <<>>
      /\ x.pc # "remove" /\ Range(x.writes) = Rows(C, memory') /\ memory' \in [Paths -> RowRecord]
      /\ UNCHANGED <<database, savedPolicies, policies, unsaved, inherited, late, overtaken>> /\ op \in [Threads -> OpRecord]
  BY DEF Quiet, BaseInv, TypeInv
<1>2. \A p \in Paths : Present(p)' <=> Present(p)
  BY DEF Quiet, Present
<1>3. \A p \in Paths : Known(p)' <=> Known(p)
  BY <1>1 DEF Known
<1>4. \A w \in Range(x.writes) : w.table = "roots" /\ w.row.status # "absent"
  BY <1>1, RootWrites DEF Quiet
<1>5. "window" \in Threads
  BY DEF Threads
<1>6. CASE t = "window"
  <2>1. op'["window"] = x /\ Range(op["window"].writes) = {}
    BY <1>1, <1>5, <1>6, SmallRange
  <2> SUFFICES ASSUME NEW p \in Paths \ unsaved PROVE PolicyOK(p)'
    BY <1>1 DEF PolicyInv
  <2>2. PolicyOK(p)
    BY DEF PolicyInv
  <2> QED
    BY <1>1, <1>2, <1>3, <1>4, <2>1, <2>2 DEF PolicyOK
<1>7. CASE t # "window"
  <2>1. op'["window"] = op["window"]
    BY <1>1, <1>5, <1>7
  <2> SUFFICES ASSUME NEW p \in Paths \ unsaved PROVE PolicyOK(p)'
    BY <1>1 DEF PolicyInv
  <2>2. PolicyOK(p)
    BY DEF PolicyInv
  <2> QED
    BY <1>1, <1>2, <1>3, <2>1, <2>2 DEF PolicyOK
<1> QED
  BY <1>6, <1>7

LEMMA PersistPolicy ==
    ASSUME BaseInv, PolicyInv, NEW t \in Threads, Persist(t)
    PROVE  PolicyInv'
<1>1. PICK w \in WriteRecord, x \in OpRecord :
             /\ w \in Range(op[t].writes) /\ JobOK(t, x) /\ op' = [op EXCEPT ![t] = x]
             /\ Range(op[t].writes) = {w} \cup Range(x.writes) /\ Goes(t, x) /\ op[t].pc # "idle"
             /\ (Retracts(w) => t = "window" /\ op[t].writes = <<w>> /\ Range(x.writes) = {})
             /\ \/ w.table = "roots" /\ database' = [database EXCEPT ![w.path] = w.row] /\ savedPolicies' = savedPolicies
                \/ w.table = "policies" /\ savedPolicies' = [savedPolicies EXCEPT ![w.path] = w.policy] /\ database' = database
             /\ UNCHANGED <<memory, policies, unsaved, inherited, overtaken>> /\ Later(w)
  BY PersistFacts
<1>2. op \in [Threads -> OpRecord] /\ "window" \in Threads /\ database \in [Paths -> RowRecord]
      /\ savedPolicies \in [Paths -> Policy] /\ w.path \in Paths
  BY DEF BaseInv, TypeInv, Threads, WriteRecord
<1>3. op'[t] = x /\ \A u \in Threads \ {t} : op'[u] = op[u]
  BY <1>1, <1>2
<1> SUFFICES ASSUME NEW p \in Paths \ unsaved PROVE PolicyOK(p)'
  BY <1>1 DEF PolicyInv
<1>4. PolicyOK(p)
  BY DEF PolicyInv
<1>5. Present(p)' <=> Present(p)
  BY <1>1 DEF Present
<1>6. CASE t # "window"
  <2>1. op'["window"] = op["window"] /\ w.table = "roots" /\ w.row.status # "absent"
    BY <1>1, <1>2, <1>3, <1>6 DEF Retracts, WriteRecord
  <2>2. Known(p) => Known(p)'
    BY <1>1, <1>2, <2>1 DEF Known
  <2>3. savedPolicies' = savedPolicies
    BY <1>1, <2>1
  <2> QED
    BY <1>1, <1>4, <1>5, <2>1, <2>2, <2>3 DEF PolicyOK
<1>7. CASE t = "window" /\ w.table = "roots" /\ w.path # p
  <2>1. op'["window"] = x /\ savedPolicies' = savedPolicies /\ (Known(p) <=> Known(p)')
    BY <1>1, <1>2, <1>3, <1>7 DEF Known
  <2>2. x.pc = "remove" => op["window"].pc = "remove" /\ op["window"].path = x.path
    BY <1>1, <1>7, IdleFacts DEF Goes
  <2>3. w # PutPolicy(p, "absent")
    BY <1>7 DEF PutPolicy
  <2>4. \A v : v \in Range(x.writes) => v \in Range(op["window"].writes)
    BY <1>1, <1>7
  <2>5. \A v \in Range(op["window"].writes) : PutsRoot(v, p) => v \in Range(x.writes)
    BY <1>1, <1>7 DEF PutsRoot
  <2> QED
    BY <1>1, <1>4, <1>5, <1>7, <2>1, <2>2, <2>3, <2>4, <2>5 DEF PolicyOK
<1>8. CASE t = "window" /\ w.table = "roots" /\ w.path = p
  <2>1. op'["window"] = x /\ savedPolicies' = savedPolicies /\ (Known(p)' <=> w.row.status # "absent")
    BY <1>1, <1>2, <1>3, <1>8 DEF Known
  <2>2. x.pc = "remove" => op["window"].pc = "remove" /\ op["window"].path = x.path
    BY <1>1, <1>8, IdleFacts DEF Goes
  <2>3. w # PutPolicy(p, "absent") /\ PutsRoot(w, p)
    BY <1>8 DEF PutPolicy, PutsRoot
  <2>4. \A v : v \in Range(x.writes) => v \in Range(op["window"].writes)
    BY <1>1, <1>8
  <2>5. w.row.status = "absent" =>
            Range(x.writes) = {} /\ policies[p] = "absent" /\ savedPolicies[p] = "absent" /\ ~Present(p)
    BY <1>1, <1>4, <1>8, <2>3 DEF PolicyOK, Retracts
  <2> QED
    BY <1>1, <1>4, <1>5, <1>8, <2>1, <2>2, <2>3, <2>4, <2>5 DEF PolicyOK
<1>9. CASE t = "window" /\ w.table = "policies"
  <2>1. op'["window"] = x /\ (Known(p)' <=> Known(p)) /\ Range(x.writes) = {} /\ Range(op["window"].writes) = {w}
    BY <1>1, <1>2, <1>3, <1>9, SmallRange DEF Known, Retracts
  <2>2. x.pc = "remove" => op["window"].pc = "remove" /\ op["window"].path = x.path
    BY <1>1, <1>9, IdleFacts DEF Goes
  <2>3. ~PutsRoot(w, p)
    BY <1>9 DEF PutsRoot
  <2>4. savedPolicies'[p] = IF w.path = p THEN w.policy ELSE savedPolicies[p]
    BY <1>1, <1>2, <1>9
  <2>5. PutPolicy(p, "absent").policy = "absent" /\ PutPolicy(p, "absent").path = p
    BY DEF PutPolicy
  <2>6. savedPolicies'[p] # "absent" => Known(p)
    BY <1>4, <1>9, <2>1, <2>4 DEF PolicyOK
  <2>7. x.pc = "remove" /\ x.path = p => savedPolicies'[p] = "absent" /\ policies[p] = "absent"
    BY <1>4, <2>1, <2>2, <2>4, <2>5 DEF PolicyOK
  <2> QED
    BY <1>1, <1>4, <1>5, <2>1, <2>3, <2>6, <2>7 DEF PolicyOK
<1> QED
  BY <1>1, <1>6, <1>7, <1>8, <1>9

LEMMA PersistFailsPolicy ==
    ASSUME BaseInv, PolicyInv, NEW t \in Threads, PersistFails(t)
    PROVE  PolicyInv'
<1>1. PICK x \in OpRecord :
             /\ op' = [op EXCEPT ![t] = x] /\ Range(x.writes) = {} /\ x.pc \in {"idle", "forget"}
             /\ unsaved \subseteq unsaved'
             /\ \A w \in Range(op[t].writes) : w.table = "roots" => w.path \in unsaved'
             /\ UNCHANGED <<memory, database, policies, savedPolicies, inherited, late, overtaken>>
  BY PersistFailsFacts
<1>2. op \in [Threads -> OpRecord] /\ "window" \in Threads
  BY DEF BaseInv, TypeInv, Threads
<1>3. op'[t] = x /\ \A u \in Threads \ {t} : op'[u] = op[u]
  BY <1>1, <1>2
<1> SUFFICES ASSUME NEW p \in Paths \ unsaved' PROVE PolicyOK(p)'
  BY <1>1 DEF PolicyInv
<1>4. PolicyOK(p)
  BY <1>1 DEF PolicyInv
<1>5. (Present(p)' <=> Present(p)) /\ (Known(p)' <=> Known(p))
  BY <1>1 DEF Present, Known
<1>6. CASE t = "window"
  <2>1. op'["window"] = x
    BY <1>3, <1>6
  <2>2. \A w \in Range(op["window"].writes) : ~PutsRoot(w, p)
    BY <1>1, <1>6 DEF PutsRoot
  <2> QED
    BY <1>1, <1>4, <1>5, <2>1, <2>2 DEF PolicyOK
<1>7. CASE t # "window"
  <2>1. op'["window"] = op["window"]
    BY <1>2, <1>3, <1>7
  <2> QED
    BY <1>1, <1>4, <1>5, <2>1 DEF PolicyOK
<1> QED
  BY <1>6, <1>7

LEMMA RegisterPolicy ==
    ASSUME BaseInv, PolicyInv, NEW q \in Paths, RegisterManagedRoot(q)
    PROVE  PolicyInv'
<1>1. PICK x \in OpRecord, w \in WriteRecord :
             /\ op' = [op EXCEPT !["window"] = x] /\ Range(x.writes) = {w} /\ x.pc = "end"
             /\ w.table = "roots" /\ w.path = q /\ w.row = Fresh
  BY RegisterFacts
<1>2. /\ IsIdle("window") /\ memory' = [memory EXCEPT ![q] = Fresh]
      /\ inherited' \subseteq inherited \cup {q}
      /\ ((~Present(q) /\ policies[q] # "absent") \/ inherited' = inherited)
      /\ UNCHANGED <<policies, database, savedPolicies, unsaved>>
  BY RegisterFacts
<1>3. op \in [Threads -> OpRecord] /\ "window" \in Threads /\ memory \in [Paths -> RowRecord]
  BY DEF BaseInv, TypeInv, Threads
<1>4. op'["window"] = x /\ Range(op["window"].writes) = {}
  BY <1>1, <1>2, <1>3, FreeFacts, SmallRange DEF BaseInv
<1>5. inherited' \subseteq unsaved'
  BY <1>2 DEF PolicyInv, PolicyOK
<1> SUFFICES ASSUME NEW p \in Paths \ unsaved PROVE PolicyOK(p)'
  BY <1>2, <1>5 DEF PolicyInv
<1>6. PolicyOK(p)
  BY DEF PolicyInv
<1>7. w.row.status # "absent" /\ (Known(p)' <=> Known(p))
      /\ (p # q => (Present(p)' <=> Present(p))) /\ (p = q => Present(p)' /\ PutsRoot(w, p))
  BY <1>1, <1>2, <1>3, FreshFacts DEF Present, Known, PutsRoot
<1> QED
  BY <1>1, <1>2, <1>4, <1>6, <1>7 DEF PolicyOK

LEMMA PatchPolicyPolicy ==
    ASSUME BaseInv, PolicyInv, NEW q \in Paths, \E valid \in BOOLEAN : PatchPolicy(q, "on", valid)
    PROVE  PolicyInv'
<1>1. /\ IsIdle("window") /\ Present(q) /\ policies' = [policies EXCEPT ![q] = "on"]
      /\ UNCHANGED <<memory, database, savedPolicies, unsaved, inherited, late, overtaken>>
  BY PatchFacts
<1>2. op \in [Threads -> OpRecord] /\ "window" \in Threads /\ policies \in [Paths -> Policy]
  BY DEF BaseInv, TypeInv, Threads
<1>3. Range(op["window"].writes) = {} /\ op["window"].pc = "idle"
  BY <1>1, <1>2, FreeFacts, SmallRange DEF BaseInv
<1>4. /\ op'["window"].pc \in {"idle", "end"}
      /\ \A w \in Range(op'["window"].writes) : w.table = "policies" /\ w.path = q
  <2>1. CASE UNCHANGED op
    BY <1>3, <2>1
  <2>2. CASE \E x \in OpRecord, w \in WriteRecord :
             /\ op' = [op EXCEPT !["window"] = x] /\ Range(x.writes) = {w} /\ x.pc = "end"
             /\ w.table = "policies" /\ w.path = q
    <3>1. PICK x \in OpRecord, w \in WriteRecord :
             /\ op' = [op EXCEPT !["window"] = x] /\ Range(x.writes) = {w} /\ x.pc = "end"
             /\ w.table = "policies" /\ w.path = q
      BY <2>2
    <3>2. op'["window"] = x
      BY <1>2, <3>1
    <3> QED
      BY <3>1, <3>2
  <2> QED
    BY <2>1, <2>2, PatchFacts
<1> SUFFICES ASSUME NEW p \in Paths \ unsaved PROVE PolicyOK(p)'
  BY <1>1 DEF PolicyInv
<1>5. PolicyOK(p)
  BY DEF PolicyInv
<1>6. (Present(p)' <=> Present(p)) /\ (Known(p)' <=> Known(p)) /\ (p # q => policies'[p] = policies[p])
  BY <1>1, <1>2 DEF Present, Known
<1>7. \A w \in Range(op'["window"].writes) : ~PutsRoot(w, p)
  BY <1>4 DEF PutsRoot
<1>8. Present(p) => Known(p)
  BY <1>3, <1>5 DEF PolicyOK
<1> QED
  BY <1>1, <1>4, <1>5, <1>6, <1>7, <1>8 DEF PolicyOK

LEMMA RemovePolicyPolicy ==
    ASSUME BaseInv, PolicyInv, RemovePolicy
    PROVE  PolicyInv'
<1>1. PICK q \in Paths, x \in OpRecord :
             /\ op["window"].pc = "policy" /\ op["window"].writes = <<>>
             /\ policies' = [policies EXCEPT ![q] = "absent"]
             /\ UNCHANGED <<memory, database, savedPolicies, unsaved, inherited, late, overtaken>>
             /\ op' = [op EXCEPT !["window"] = x] /\ Range(x.writes) = {PutPolicy(q, "absent")}
             /\ x.pc = "remove" /\ x.path = q
  BY RemovePolicyFacts
<1>2. op \in [Threads -> OpRecord] /\ "window" \in Threads /\ policies \in [Paths -> Policy]
  BY DEF BaseInv, TypeInv, Threads
<1>3. op'["window"] = x /\ Range(op["window"].writes) = {}
  BY <1>1, <1>2, SmallRange
<1> SUFFICES ASSUME NEW p \in Paths \ unsaved PROVE PolicyOK(p)'
  BY <1>1 DEF PolicyInv
<1>4. PolicyOK(p)
  BY DEF PolicyInv
<1>5. (Present(p)' <=> Present(p)) /\ (Known(p)' <=> Known(p)) /\ policies'[p] = (IF p = q THEN "absent" ELSE policies[p])
  BY <1>1, <1>2 DEF Present, Known
<1>6. \A w \in Range(x.writes) : ~PutsRoot(w, p) /\ w.policy = "absent"
  BY <1>1 DEF PutsRoot, PutPolicy
<1> QED
  BY <1>1, <1>3, <1>4, <1>5, <1>6 DEF PolicyOK

LEMMA RemoveRootPolicy ==
    ASSUME BaseInv, PolicyInv, RemoveRoot
    PROVE  PolicyInv'
<1>1. PICK q \in Paths, x \in OpRecord, w \in WriteRecord :
             /\ op["window"].pc = "remove" /\ op["window"].writes = <<>> /\ op["window"].path = q
             /\ memory' = [memory EXCEPT ![q] = NoRow]
             /\ UNCHANGED <<policies, database, savedPolicies, unsaved, inherited, late, overtaken>>
             /\ op' = [op EXCEPT !["window"] = x] /\ Range(x.writes) = {w} /\ x.pc = "end"
             /\ w.table = "roots" /\ w.path = q /\ w.row = NoRow
  BY RemoveRootFacts
<1>2. op \in [Threads -> OpRecord] /\ "window" \in Threads /\ memory \in [Paths -> RowRecord]
  BY DEF BaseInv, TypeInv, Threads
<1>3. op'["window"] = x /\ Range(op["window"].writes) = {}
  BY <1>1, <1>2, SmallRange
<1> SUFFICES ASSUME NEW p \in Paths \ unsaved PROVE PolicyOK(p)'
  BY <1>1 DEF PolicyInv
<1>4. PolicyOK(p)
  BY DEF PolicyInv
<1>5. (p # q => (Present(p)' <=> Present(p))) /\ (Known(p)' <=> Known(p)) /\ (p = q => ~Present(p)')
      /\ (p # q => ~PutsRoot(w, p))
  BY <1>1, <1>2, FreshFacts DEF Present, Known, PutsRoot
<1>6. p = q => policies[p] = "absent" /\ savedPolicies[p] = "absent"
  BY <1>1, <1>3, <1>4 DEF PolicyOK
<1> QED
  BY <1>1, <1>3, <1>4, <1>5, <1>6 DEF PolicyOK

LEMMA RestartPolicy ==
    ASSUME BaseInv, PolicyInv, Restart
    PROVE  PolicyInv'
<1>1. memory' = database /\ policies' = savedPolicies /\ op' = [t \in Threads |-> Idle]
      /\ UNCHANGED <<database, savedPolicies, unsaved, inherited, late, overtaken>>
  BY DEF Restart, disk, ghosts
<1>2. op'["window"] = Idle
  BY <1>1 DEF Threads
<1> SUFFICES ASSUME NEW p \in Paths \ unsaved PROVE PolicyOK(p)'
  BY <1>1 DEF PolicyInv
<1>3. PolicyOK(p)
  BY DEF PolicyInv
<1>4. (Present(p)' <=> Known(p)) /\ (Known(p)' <=> Known(p))
  BY <1>1 DEF Present, Known
<1> QED
  BY <1>1, <1>2, <1>3, <1>4, IdleFacts DEF PolicyOK

LEMMA PolicyInit ==
    ASSUME Init
    PROVE  PolicyInv
<1>1. /\ memory = [p \in Paths |-> NoRow] /\ policies = [p \in Paths |-> "absent"] /\ savedPolicies = policies
      /\ op["window"] = Idle /\ unsaved = {} /\ inherited = {}
  BY DEF Init, Threads
<1> QED
  BY <1>1, IdleFacts, FreshFacts DEF PolicyInv, PolicyOK, Present

LEMMA PolicyNext ==
    ASSUME BaseInv, PolicyInv, Next
    PROVE  PolicyInv'
<1>1. CASE Marked
  BY <1>1, PersistPolicy, PersistFailsPolicy, RegisterPolicy, PatchPolicyPolicy, RemovePolicyPolicy,
     RemoveRootPolicy, RestartPolicy DEF Marked
<1>2. CASE QuietStep
  BY <1>2, QuietPolicy DEF QuietStep
<1>3. CASE RestStep
  BY <1>3 DEF RestStep, PolicyInv, PolicyOK, Present, Known
<1> QED
  BY <1>1, <1>2, <1>3, Kinds

\* AutoApprovalStore::remove's promise that no folder inherits the policy of an earlier one, for every number
\* of folders, of operations at the same time, of crashes and of failing writes.
THEOREM RootsPolicyIsNotInherited == Spec => []PolicyIsNotInherited
<1>1. Init => BaseInv /\ PolicyInv
  BY BaseInit, PolicyInit
<1>2. BaseInv /\ PolicyInv /\ [Next]_vars => (BaseInv /\ PolicyInv)'
  <2>1. ASSUME BaseInv, PolicyInv, UNCHANGED vars PROVE (BaseInv /\ PolicyInv)'
    <3>1. RestStep /\ UNCHANGED <<server, credential, cursor, overtaken>>
      BY <2>1 DEF vars, RestStep, server, ShutInv
    <3>2. ServerOK
      BY <2>1, <3>1, Away
    <3>3. TypedTables /\ OwnedTables /\ UNCHANGED op
      BY <2>1, <3>1, <3>2, StaysOwned DEF RestStep, TypedTables, OwnedTables, BaseInv, TypeInv
    <3>4. BaseInv'
      BY <2>1, <3>2, <3>3, BaseRests
    <3> QED
      BY <2>1, <3>1, <3>4 DEF RestStep, PolicyInv, PolicyOK, Present, Known
  <2> QED
    BY <2>1, BaseNext, PolicyNext
<1>3. BaseInv /\ PolicyInv => PolicyIsNotInherited
  BY DEF PolicyInv, PolicyIsNotInherited
<1> QED
  BY <1>1, <1>2, <1>3, PTL DEF Spec

-----------------------------------------------------------------------------
(* Two threads.                                                            *)

ShutTables == \A p \in Paths : ShutRow(memory'[p]) /\ ShutRow(database'[p])
ShutWrites(x) == \A w \in Range(x.writes) : ShutRow(w.row)
Grows == overtaken \subseteq overtaken'

LEMMA StaysShut ==
    ASSUME ShutInv, ServerOK, Grows
    PROVE  /\ \A row : ClosedRow(row) => ShutRow(row)
           /\ \A p \in Paths : ShutRow(memory[p]) /\ ShutRow(database[p])
           /\ \A t \in Threads : ShutWrites(op[t])
           /\ \A t \in Threads : (op[t].pc \in {"revoked", "forget"} => devices' \subseteq overtaken') => Settled(op[t])
           /\ \A t \in Threads : devices' \subseteq devices => Settled(op[t])
<1>1. \A row : ClosedRow(row) => ShutRow(row)
  BY DEF ClosedRow, ShutRow, Lasting, ServerOK, Grows
<1>2. \A p \in Paths : ShutRow(memory[p]) /\ ShutRow(database[p])
  BY <1>1 DEF ShutInv
<1>3. \A t \in Threads : ShutWrites(op[t])
  BY <1>1 DEF ShutInv, ShutWrites
<1>4. ASSUME NEW t \in Threads, op[t].pc \in {"revoked", "forget"} => devices' \subseteq overtaken' PROVE Settled(op[t])
  <2>1. \A e \in Range(op[t].batch) : ClosedEvent(e)'
    BY Lasts DEF ShutInv, ServerOK
  <2>2. op[t].pc = "detach" => op[t].room \in DOMAIN rooms' /\ ~rooms'[op[t].room].open
    BY DEF ShutInv, ServerOK, Lasting
  <2> QED
    BY <1>4, <2>1, <2>2 DEF Settled
<1>5. ASSUME NEW t \in Threads, devices' \subseteq devices, op[t].pc \in {"revoked", "forget"}
      PROVE  devices' \subseteq overtaken'
  BY <1>5 DEF ShutInv, Grows
<1> QED
  BY <1>1, <1>2, <1>3, <1>4, <1>5

\* What holds of every thread and of the tables after a step holds of the step.
LEMMA ShutAll ==
    ASSUME ShutTables, \A u \in Threads : Settled(op'[u]) /\ ShutWrites(op'[u]),
           \A d \in devices' : d \in overtaken' \/ d = credential'
    PROVE  ShutInv'
<1>1. \A p \in Paths : ClosedRow(memory[p])' /\ ClosedRow(database[p])'
  BY DEF ShutTables, ShutRow, ClosedRow
<1>2. \A u \in Threads : \A w \in Range(op'[u].writes) : ClosedRow(w.row)'
  BY DEF ShutWrites, ShutRow, ClosedRow
<1> QED
  BY <1>1, <1>2 DEF ShutInv, Settled

\* The step is one of thread t.
LEMMA ShutKept ==
    ASSUME BaseInv, ShutInv, ServerOK, Grows, Devices, ShutTables,
           NEW t \in Threads, NEW x \in OpRecord, op' = [op EXCEPT ![t] = x], Settled(x), ShutWrites(x)
    PROVE  ShutInv'
<1>1. op'[t] = x /\ \A u \in Threads \ {t} : op'[u] = op[u]
  BY DEF BaseInv, TypeInv
<1>2. \A u \in Threads : Settled(op'[u]) /\ ShutWrites(op'[u])
  BY <1>1, StaysShut DEF Devices
<1> QED
  BY <1>2, ShutAll DEF Devices

LEMMA ShutRests ==
    ASSUME BaseInv, ShutInv, ServerOK, Grows, ShutTables, UNCHANGED op,
           \A d \in devices' : d \in overtaken' \/ d = credential',
           \A t \in Threads : op[t].pc \in {"revoked", "forget"} => devices' \subseteq overtaken'
    PROVE  ShutInv'
<1>1. \A u \in Threads : Settled(op'[u]) /\ ShutWrites(op'[u])
  BY StaysShut
<1> QED
  BY <1>1, ShutAll

BothInv == BaseInv /\ ShutInv /\ MirrorInv /\ DisjointInv

\* The row of p is in the table or thread t is about to write it, or nothing of it has changed and
\* thread t still has what it had to write of it.
Mirrored(x, p) == database'[p] = memory'[p] \/ \E w \in Range(x.writes) : PutsRoot(w, p) /\ w.row = memory'[p]
Untouched(t, x, p) ==
    /\ p \notin unsaved \cup late /\ memory'[p] = memory[p] /\ database'[p] = database[p]
    /\ \A w \in Range(op[t].writes) : PutsRoot(w, p) => w \in Range(x.writes)
LEMMA MirrorKept ==
    ASSUME BaseInv, MirrorInv, NEW t \in Threads, NEW x \in OpRecord, op' = [op EXCEPT ![t] = x],
           \A p \in Paths \ (unsaved' \cup late') : Mirrored(x, p) \/ Untouched(t, x, p)
    PROVE  MirrorInv'
<1>1. op'[t] = x /\ \A u \in Threads \ {t} : op'[u] = op[u]
  BY DEF BaseInv, TypeInv
<1> SUFFICES ASSUME NEW p \in Paths \ (unsaved' \cup late')
             PROVE  \/ database'[p] = memory'[p]
                    \/ \E u \in Threads : \E w \in Range(op'[u].writes) : PutsRoot(w, p) /\ w.row = memory'[p]
  BY DEF MirrorInv, Pending, PutsRoot
<1>2. CASE Mirrored(x, p)
  BY <1>1, <1>2 DEF Mirrored
<1>3. CASE Untouched(t, x, p)
  <2>1. CASE database[p] = memory[p]
    BY <1>3, <2>1 DEF Untouched
  <2>2. ASSUME NEW u \in Threads, NEW w \in Range(op[u].writes), PutsRoot(w, p), w.row = memory[p]
        PROVE  w \in Range(op'[u].writes) /\ w.row = memory'[p]
    BY <1>1, <1>3, <2>2 DEF Untouched
  <2> QED
    BY <1>3, <2>1, <2>2 DEF Untouched, MirrorInv, Pending
<1> QED
  BY <1>2, <1>3

HeldLess == \A p \in Paths : Present(p)' \/ (p \notin unsaved' \cup late' /\ Known(p)') => p \in Held
LEMMA DisjointKept ==
    ASSUME DisjointInv, HeldLess
    PROVE  DisjointInv'
BY DEF DisjointInv, HeldLess, Held

LEMMA QuietBoth ==
    ASSUME BothInv, ServerOK, NEW t, NEW x, NEW C, Quiet(t, x, C), Calm(x, C)
    PROVE  (ShutInv /\ MirrorInv /\ DisjointInv)'
<1>1. t \in Threads /\ x \in OpRecord /\ C \in SUBSET Paths /\ op' = [op EXCEPT ![t] = x] /\ op[t].writes = <<>>
      /\ Range(x.writes) = Rows(C, memory') /\ memory' \in [Paths -> RowRecord]
      /\ UNCHANGED <<database, savedPolicies, policies, unsaved, inherited, late, overtaken>>
      /\ \A p \in Paths \ C : memory'[p] = memory[p]
  BY DEF Quiet
<1>2. Grows /\ Range(op[t].writes) = {}
  BY <1>1, SmallRange DEF Grows
<1>3. ShutTables
  BY <1>1, <1>2, StaysShut DEF ShutTables, Calm, BothInv
<1>4. \A w \in Range(x.writes) : w.path \in C /\ w.row = memory'[w.path]
  BY <1>1, RootWrites
<1>5. ShutWrites(x)
  BY <1>4 DEF ShutWrites, Calm
<1>6. ShutInv'
  BY <1>1, <1>2, <1>3, <1>5, ShutKept DEF Calm, BothInv
<1>7. ASSUME NEW p \in Paths \ (unsaved' \cup late') PROVE Mirrored(x, p) \/ Untouched(t, x, p)
  <2>1. CASE p \in C
    <3>1. PutRoot(p, memory'[p]) \in Range(x.writes)
      BY <1>1, <2>1 DEF Rows
    <3> QED
      BY <3>1 DEF Mirrored, PutsRoot, PutRoot
  <2>2. CASE p \notin C
    BY <1>1, <1>2, <1>7, <2>2 DEF Untouched
  <2> QED
    BY <2>1, <2>2
<1>8. MirrorInv'
  BY <1>1, <1>7, MirrorKept DEF BothInv
<1>9. HeldLess
  BY <1>1 DEF HeldLess, Held, Present, Known, Quiet
<1> QED
  BY <1>6, <1>8, <1>9, DisjointKept DEF BothInv

LEMMA RestBoth ==
    ASSUME BothInv, ServerOK, RestStep
    PROVE  (ShutInv /\ MirrorInv /\ DisjointInv)'
<1>1. /\ UNCHANGED <<memory, database, policies, savedPolicies, op, unsaved, inherited, late>> /\ Grows
      /\ \A d \in devices' : d \in overtaken' \/ d = credential'
      /\ \A t \in Threads : op[t].pc \in {"revoked", "forget"} => devices' \subseteq overtaken'
  BY DEF RestStep, BothInv, Grows
<1>2. ShutTables
  BY <1>1, StaysShut DEF ShutTables, BothInv
<1>3. ShutInv'
  BY <1>1, <1>2, ShutRests DEF BothInv
<1>4. MirrorInv'
  BY <1>1 DEF MirrorInv, Pending, PutsRoot, BothInv
<1>5. DisjointInv'
  BY <1>1 DEF DisjointInv, Held, Present, Known, BothInv
<1> QED
  BY <1>3, <1>4, <1>5

LEMMA PersistBoth ==
    ASSUME BothInv, ServerOK, UNCHANGED rooms, Devices, NEW t \in Threads, Persist(t)
    PROVE  (ShutInv /\ MirrorInv /\ DisjointInv)'
<1>1. PICK w \in WriteRecord, x \in OpRecord :
             /\ w \in Range(op[t].writes) /\ JobOK(t, x) /\ op' = [op EXCEPT ![t] = x]
             /\ Range(op[t].writes) = {w} \cup Range(x.writes) /\ Goes(t, x)
             /\ \/ w.table = "roots" /\ database' = [database EXCEPT ![w.path] = w.row] /\ savedPolicies' = savedPolicies
                \/ w.table = "policies" /\ savedPolicies' = [savedPolicies EXCEPT ![w.path] = w.policy] /\ database' = database
             /\ UNCHANGED <<memory, policies, unsaved, inherited, overtaken>> /\ Later(w)
  BY PersistFacts DEF BothInv
<1>2. database \in [Paths -> RowRecord] /\ w.path \in Paths
  BY DEF BothInv, BaseInv, TypeInv, WriteRecord
<1>3. \A p \in Paths : \/ database'[p] = database[p] /\ ~PutsRoot(w, p)
                       \/ database'[p] = w.row /\ PutsRoot(w, p)
  BY <1>1, <1>2 DEF PutsRoot
<1>4. Grows /\ late \subseteq late' /\ \A p \in Paths : PutsRoot(w, p) /\ w.row # memory[p] => p \in late'
  BY <1>1 DEF Grows, Later, PutsRoot
<1>5. ShutWrites(op[t]) /\ ShutWrites(x) /\ ShutRow(w.row)
  <2>1. ShutWrites(op[t])
    BY <1>4, StaysShut DEF BothInv
  <2> QED
    BY <1>1, <2>1 DEF ShutWrites
<1>6. ShutTables
  BY <1>1, <1>3, <1>4, <1>5, StaysShut DEF ShutTables, BothInv
<1>7. Settled(x)
  <2>1. Settled(Idle)
    BY IdleFacts, SmallRange DEF Settled
  <2>2. Settled(op[t])
    BY <1>4, StaysShut DEF BothInv, Devices
  <2> QED
    BY <1>1, <2>1, <2>2 DEF Goes, Settled
<1>8. ShutInv'
  BY <1>1, <1>4, <1>5, <1>6, <1>7, ShutKept DEF BothInv
<1>9. ASSUME NEW p \in Paths \ (unsaved' \cup late') PROVE Mirrored(x, p) \/ Untouched(t, x, p)
  <2>1. CASE PutsRoot(w, p)
    BY <1>1, <1>3, <1>4, <1>9, <2>1 DEF Mirrored
  <2>2. CASE ~PutsRoot(w, p)
    BY <1>1, <1>3, <1>4, <1>9, <2>2 DEF Untouched
  <2> QED
    BY <2>1, <2>2
<1>10. MirrorInv'
  BY <1>1, <1>9, MirrorKept DEF BothInv
<1>11. HeldLess
  BY <1>1, <1>3, <1>4 DEF HeldLess, Held, Present, Known
<1> QED
  BY <1>8, <1>10, <1>11, DisjointKept DEF BothInv

LEMMA PersistFailsBoth ==
    ASSUME BothInv, ServerOK, UNCHANGED rooms, Devices, NEW t \in Threads, PersistFails(t)
    PROVE  (ShutInv /\ MirrorInv /\ DisjointInv)'
<1>1. PICK x \in OpRecord :
             /\ op' = [op EXCEPT ![t] = x] /\ Goes(t, x) /\ Range(x.writes) = {}
             /\ unsaved \subseteq unsaved'
             /\ \A w \in Range(op[t].writes) : w.table = "roots" => w.path \in unsaved'
             /\ UNCHANGED <<memory, database, policies, savedPolicies, inherited, late, overtaken>>
  BY PersistFailsFacts DEF BothInv
<1>2. Grows
  BY <1>1 DEF Grows
<1>3. ShutTables /\ ShutWrites(x)
  BY <1>1, <1>2, StaysShut DEF ShutTables, ShutWrites, BothInv
<1>4. Settled(x)
  <2>1. Settled(Idle)
    BY IdleFacts, SmallRange DEF Settled
  <2>2. Settled(op[t])
    BY <1>2, StaysShut DEF BothInv, Devices
  <2> QED
    BY <1>1, <2>1, <2>2 DEF Goes, Settled
<1>5. ShutInv'
  BY <1>1, <1>2, <1>3, <1>4, ShutKept DEF BothInv
<1>6. \A p \in Paths \ (unsaved' \cup late') : Untouched(t, x, p)
  BY <1>1 DEF Untouched, PutsRoot
<1>7. MirrorInv'
  BY <1>1, <1>6, MirrorKept DEF BothInv
<1>8. HeldLess
  BY <1>1 DEF HeldLess, Held, Present, Known
<1> QED
  BY <1>5, <1>7, <1>8, DisjointKept DEF BothInv

\* A root that memory lacks and the table has is being removed by the window, which is idle here.
LEMMA RegisterBoth ==
    ASSUME BothInv, ServerOK, UNCHANGED rooms, Devices, NEW q \in Paths, RegisterManagedRoot(q)
    PROVE  (ShutInv /\ MirrorInv /\ DisjointInv)'
<1> DEFINE t == "window"
<1>1. PICK x \in OpRecord, w \in WriteRecord :
             /\ op' = [op EXCEPT ![t] = x] /\ Range(x.writes) = {w} /\ x.pc = "end" /\ x.batch = <<>>
             /\ w.table = "roots" /\ w.path = q /\ w.row = Fresh
  BY RegisterFacts DEF BothInv
<1>2. IsIdle(t) /\ EnsureNotOverlapping(q) /\ memory' = [memory EXCEPT ![q] = Fresh]
      /\ UNCHANGED <<policies, database, savedPolicies, unsaved, late, overtaken>>
  BY RegisterFacts DEF BothInv
<1>3. t \in Threads /\ memory \in [Paths -> RowRecord] /\ memory'[q] = Fresh /\ \A p \in Paths \ {q} : memory'[p] = memory[p]
  BY <1>2 DEF BothInv, BaseInv, TypeInv, Threads
<1>4. Grows /\ op[t].writes = <<>> /\ Range(op[t].writes) = {}
  BY <1>2, <1>3, FreeFacts, SmallRange DEF BothInv, BaseInv, Grows
<1>5. ShutRow(Fresh)
  BY FreshFacts DEF ShutRow
<1>6. ShutTables /\ ShutWrites(x)
  BY <1>1, <1>2, <1>3, <1>4, <1>5, StaysShut DEF ShutTables, ShutWrites, BothInv
<1>7. Settled(x)
  BY <1>1, SmallRange DEF Settled
<1>8. ShutInv'
  BY <1>1, <1>3, <1>4, <1>6, <1>7, ShutKept DEF BothInv
<1>9. \A p \in Paths \ (unsaved' \cup late') : Mirrored(x, p) \/ Untouched(t, x, p)
  BY <1>1, <1>2, <1>3, <1>4 DEF Mirrored, Untouched, PutsRoot
<1>10. MirrorInv'
  BY <1>1, <1>3, <1>9, MirrorKept DEF BothInv
<1>11. \A p \in Held : Present(p)
  <2> SUFFICES ASSUME NEW p \in Paths \ (unsaved \cup late), Known(p), ~Present(p) PROVE FALSE
    BY DEF Held
  <2>1. memory[p].status = "absent" /\ database[p] # memory[p]
    BY DEF Known, Present
  <2>2. PICK u \in Threads : \E v \in Range(op[u].writes) : PutsRoot(v, p) /\ v.row = memory[p]
    BY <2>1 DEF BothInv, MirrorInv, Pending
  <2>3. PICK v \in Range(op[u].writes) : PutsRoot(v, p) /\ v.row = memory[p]
    BY <2>2
  <2>4. Retracts(v)
    BY <2>1, <2>3 DEF Retracts
  <2>5. JobOK(u, op[u])
    BY DEF BothInv, BaseInv, JobInv
  <2>6. u = t
    BY <2>3, <2>4, <2>5 DEF JobOK
  <2> QED
    BY <1>4, <2>3, <2>6
<1>12. \A p \in Held' : p = q \/ p \in Held
  BY <1>2, <1>3 DEF Held, Present, Known
<1>13. \A p \in Paths \ {q} : Present(p) => <<p, q>> \notin Overlaps /\ <<q, p>> \notin Overlaps
  <2>1. Registered(memory) = {p \in Paths : Present(p)}
    BY <1>3 DEF Registered, Present
  <2>2. \A p \in Registered(memory) \ {q} : <<q, p>> \notin Overlaps
    BY <1>2 DEF EnsureNotOverlapping
  <2> QED
    BY <2>1, <2>2, RootsAssumption
<1>14. Held \subseteq Paths
  BY DEF Held
<1>15. DisjointInv
  BY DEF BothInv
<1>16. DisjointInv'
  BY <1>11, <1>12, <1>13, <1>14, <1>15 DEF DisjointInv
<1> QED
  BY <1>8, <1>10, <1>16

LEMMA PatchBoth ==
    ASSUME BothInv, ServerOK, UNCHANGED rooms, Devices, NEW q \in Paths, \E valid \in BOOLEAN : PatchPolicy(q, "on", valid)
    PROVE  (ShutInv /\ MirrorInv /\ DisjointInv)'
<1> DEFINE t == "window"
<1>1. IsIdle(t) /\ UNCHANGED <<memory, database, savedPolicies, unsaved, inherited, late, overtaken>> /\ t \in Threads
  BY PatchFacts DEF BothInv, Threads
<1>2. Grows
  BY <1>1 DEF Grows
<1>3. ShutTables
  BY <1>1, <1>2, StaysShut DEF ShutTables, BothInv
<1>4. DisjointInv'
  BY <1>1 DEF DisjointInv, Held, Present, Known, BothInv
<1>5. CASE UNCHANGED op
  <2>1. ShutInv'
    BY <1>2, <1>3, <1>5, ShutRests DEF BothInv, Devices, ShutInv, Grows
  <2>2. MirrorInv'
    BY <1>1, <1>5 DEF MirrorInv, Pending, PutsRoot, BothInv
  <2> QED
    BY <1>4, <2>1, <2>2
<1>6. ASSUME NEW x \in OpRecord, NEW w \in WriteRecord, op' = [op EXCEPT ![t] = x], Range(x.writes) = {w},
             x.pc = "end", x.batch = <<>>, w.table = "policies", w.row.status # "detached"
      PROVE  (ShutInv /\ MirrorInv)'
  <2>1. op[t].writes = <<>> /\ Range(op[t].writes) = {}
    BY <1>1, FreeFacts, SmallRange DEF BothInv, BaseInv
  <2>2. Settled(x) /\ ShutWrites(x)
    BY <1>6, SmallRange DEF Settled, ShutWrites, ShutRow
  <2>3. ShutInv'
    BY <1>1, <1>2, <1>3, <1>6, <2>2, ShutKept DEF BothInv
  <2>4. \A p \in Paths \ (unsaved' \cup late') : Untouched(t, x, p)
    BY <1>1, <2>1 DEF Untouched
  <2>5. MirrorInv'
    BY <1>1, <1>6, <2>4, MirrorKept DEF BothInv
  <2> QED
    BY <2>3, <2>5
<1> QED
  BY <1>4, <1>5, <1>6, PatchFacts DEF BothInv

LEMMA RemovePolicyBoth ==
    ASSUME BothInv, ServerOK, UNCHANGED rooms, Devices, RemovePolicy
    PROVE  (ShutInv /\ MirrorInv /\ DisjointInv)'
<1> DEFINE t == "window"
<1>1. PICK q \in Paths, x \in OpRecord :
             /\ op[t].pc = "policy" /\ op[t].writes = <<>>
             /\ UNCHANGED <<memory, database, savedPolicies, unsaved, inherited, late, overtaken>>
             /\ op' = [op EXCEPT ![t] = x] /\ Range(x.writes) = {PutPolicy(q, "absent")}
             /\ x.pc = "remove" /\ x.batch = op[t].batch
  BY RemovePolicyFacts DEF BothInv
<1>2. t \in Threads /\ Range(op[t].writes) = {} /\ Grows
  BY <1>1, SmallRange DEF Threads, Grows
<1>3. ShutTables
  BY <1>1, <1>2, StaysShut DEF ShutTables, BothInv
<1>4. PutPolicy(q, "absent").row = NoRow
  BY DEF PutPolicy
<1>5. ShutWrites(x)
  BY <1>1, <1>4, FreshFacts DEF ShutWrites, ShutRow
<1>6. Settled(op[t])
  BY <1>2, StaysShut DEF BothInv, Devices
<1>7. Settled(x)
  BY <1>1, <1>6 DEF Settled
<1>8. ShutInv'
  BY <1>1, <1>2, <1>3, <1>5, <1>7, ShutKept DEF BothInv
<1>9. \A p \in Paths \ (unsaved' \cup late') : Untouched(t, x, p)
  BY <1>1, <1>2 DEF Untouched
<1>10. MirrorInv'
  BY <1>1, <1>2, <1>9, MirrorKept DEF BothInv
<1>11. DisjointInv'
  BY <1>1 DEF DisjointInv, Held, Present, Known, BothInv
<1> QED
  BY <1>8, <1>10, <1>11

LEMMA RemoveRootBoth ==
    ASSUME BothInv, ServerOK, UNCHANGED rooms, Devices, RemoveRoot
    PROVE  (ShutInv /\ MirrorInv /\ DisjointInv)'
<1> DEFINE t == "window"
<1>1. PICK q \in Paths, x \in OpRecord, w \in WriteRecord :
             /\ op[t].pc = "remove" /\ op[t].writes = <<>>
             /\ memory' = [memory EXCEPT ![q] = NoRow]
             /\ UNCHANGED <<policies, database, savedPolicies, unsaved, inherited, late, overtaken>>
             /\ op' = [op EXCEPT ![t] = x] /\ Range(x.writes) = {w} /\ x.pc = "end" /\ x.batch = op[t].batch
             /\ w.table = "roots" /\ w.path = q /\ w.row = NoRow
  BY RemoveRootFacts DEF BothInv
<1>2. t \in Threads /\ Range(op[t].writes) = {} /\ Grows
  BY <1>1, SmallRange DEF Threads, Grows
<1>3. memory \in [Paths -> RowRecord] /\ memory'[q] = NoRow /\ \A p \in Paths \ {q} : memory'[p] = memory[p]
  BY <1>1 DEF BothInv, BaseInv, TypeInv
<1>4. ShutRow(NoRow)
  BY FreshFacts DEF ShutRow
<1>5. ShutTables /\ ShutWrites(x)
  BY <1>1, <1>2, <1>3, <1>4, StaysShut DEF ShutTables, ShutWrites, BothInv
<1>6. Settled(op[t])
  BY <1>2, StaysShut DEF BothInv, Devices
<1>7. Settled(x)
  BY <1>1, <1>6 DEF Settled
<1>8. ShutInv'
  BY <1>1, <1>2, <1>5, <1>7, ShutKept DEF BothInv
<1>9. \A p \in Paths \ (unsaved' \cup late') : Mirrored(x, p) \/ Untouched(t, x, p)
  BY <1>1, <1>2, <1>3 DEF Mirrored, Untouched, PutsRoot
<1>10. MirrorInv'
  BY <1>1, <1>2, <1>9, MirrorKept DEF BothInv
<1>11. HeldLess
  BY <1>1, <1>3, FreshFacts DEF HeldLess, Held, Present, Known
<1> QED
  BY <1>8, <1>10, <1>11, DisjointKept DEF BothInv

\* A restart is refused when the table has overlapping roots.
LEMMA RestartBoth ==
    ASSUME BothInv, ServerOK, UNCHANGED rooms, Devices, Restart
    PROVE  (ShutInv /\ MirrorInv /\ DisjointInv)'
<1>1. memory' = database /\ op' = [t \in Threads |-> Idle] /\ Disjoint(database)
      /\ UNCHANGED <<database, unsaved, late, overtaken>>
  BY DEF Restart, disk, ghosts
<1>2. database \in [Paths -> RowRecord] /\ Grows /\ \A t \in Threads : op'[t] = Idle
  BY <1>1 DEF BothInv, BaseInv, TypeInv, Grows
<1>3. ShutTables
  BY <1>1, <1>2, StaysShut DEF ShutTables, BothInv
<1>4. Settled(Idle) /\ ShutWrites(Idle)
  BY IdleFacts, SmallRange DEF Settled, ShutWrites
<1>5. ShutInv'
  BY <1>2, <1>3, <1>4, ShutAll DEF Devices
<1>6. MirrorInv'
  BY <1>1 DEF MirrorInv
<1>7. \A p \in Held' : p \in Registered(database)
  BY <1>1, <1>2 DEF Held, Present, Known, Registered
<1>8. DisjointInv'
  BY <1>1, <1>7 DEF DisjointInv, Disjoint
<1> QED
  BY <1>5, <1>6, <1>8

LEMMA BothInit ==
    ASSUME Init
    PROVE  BothInv
<1>1. /\ memory = [p \in Paths |-> NoRow] /\ database = memory /\ devices = {}
      /\ \A t \in Threads : op[t] = Idle
  BY DEF Init
<1>2. ShutInv
  BY <1>1, IdleFacts, FreshFacts, SmallRange DEF ShutInv, ClosedRow
<1>3. MirrorInv
  BY <1>1 DEF MirrorInv
<1>4. DisjointInv
  BY <1>1, FreshFacts DEF DisjointInv, Held, Present, Known
<1> QED
  BY <1>2, <1>3, <1>4, BaseInit DEF BothInv

LEMMA BothNext ==
    ASSUME BothInv, Next
    PROVE  BothInv'
<1>1. BaseInv' /\ (Marked \/ QuietStep \/ RestStep) /\ ServerOK
  BY BaseNext, Kinds DEF BothInv
<1>2. CASE Marked
  <2>1. UNCHANGED <<rooms, devices, credential>> /\ Devices
    BY <1>2, MarkedServer DEF BothInv
  <2>2. (ShutInv /\ MirrorInv /\ DisjointInv)'
    BY <1>1, <1>2, <2>1, PersistBoth, PersistFailsBoth, RegisterBoth, PatchBoth, RemovePolicyBoth, RemoveRootBoth,
       RestartBoth DEF Marked
  <2> QED
    BY <1>1, <2>2 DEF BothInv
<1>3. CASE QuietStep
  <2>1. PICK t, x, C : Quiet(t, x, C) /\ Calm(x, C)
    BY <1>3 DEF QuietStep, BothInv
  <2> QED
    BY <1>1, <2>1, QuietBoth DEF BothInv
<1>4. CASE RestStep
  BY <1>1, <1>4, RestBoth DEF BothInv
<1> QED
  BY <1>1, <1>2, <1>3, <1>4

LEMMA BothStutters ==
    ASSUME BothInv, UNCHANGED vars
    PROVE  BothInv'
<1>1. UNCHANGED <<memory, database, policies, savedPolicies, op, unsaved, inherited, late, overtaken>>
      /\ UNCHANGED <<server, credential, cursor, overtaken>> /\ UNCHANGED <<devices, credential>>
  BY DEF vars, server
<1>2. ServerOK
  BY <1>1, Away DEF BothInv
<1>3. TypedTables /\ OwnedTables
  BY <1>1, <1>2, StaysOwned DEF TypedTables, OwnedTables, BothInv, BaseInv, TypeInv
<1>4. BaseInv'
  BY <1>1, <1>2, <1>3, BaseRests DEF BothInv
<1>5. RestStep
  BY <1>1 DEF RestStep, ShutInv
<1> QED
  BY <1>2, <1>4, <1>5, RestBoth DEF BothInv

LEMMA RootsInvariant == Spec => []BothInv
<1>1. Init => BothInv
  BY BothInit
<1>2. BothInv /\ [Next]_vars => BothInv'
  BY BothNext, BothStutters
<1> QED
  BY <1>1, <1>2, PTL DEF Spec

\* managed_roots.rs, "the database mirrors it": at rest, for every root none of whose writes failed or came after
\* the other thread had changed the row again.
THEOREM RootsDatabaseMirrors == Spec => []DatabaseMirrors
<1>1. BothInv => DatabaseMirrors
  <2> SUFFICES ASSUME BothInv, \A t \in Threads : IsIdle(t), NEW p \in Paths \ (unsaved \cup late)
               PROVE  database[p] = memory[p]
    BY DEF DatabaseMirrors
  <2>1. \A t \in Threads : op[t].writes = <<>>
    BY DEF BothInv, BaseInv, JobInv, JobOK, IsIdle
  <2>2. \A t \in Threads : Range(op[t].writes) = {}
    BY <2>1, SmallRange
  <2> QED
    BY <2>2 DEF BothInv, MirrorInv, Pending
<1> QED
  BY <1>1, RootsInvariant, PTL

\* load_from_db finds no overlapping roots among the rows that were written in time, after a crash at any point of
\* the two threads, and no two roots are bound to one room.
THEOREM RootsStoreLoads == Spec => []StoreLoads
<1>1. BothInv => StoreLoads
  <2> SUFFICES ASSUME BothInv PROVE StoreLoads
    OBVIOUS
  <2> DEFINE written == [p \in Paths \ (unsaved \cup late) |-> database[p]]
  <2>1. Registered(written) \subseteq Held
    BY DEF Registered, Held, Known
  <2>2. Disjoint(written)
    BY <2>1 DEF Disjoint, BothInv, DisjointInv
  <2>3. ASSUME NEW p \in Paths, NEW q \in Paths, database[p].status = "active", database[q] = database[p] PROVE p = q
    BY <2>3 DEF BothInv, BaseInv, OwnInv, Own
  <2> QED
    BY <2>2, <2>3 DEF StoreLoads
<1> QED
  BY <1>1, RootsInvariant, PTL

\* The tombstone of a detached root names a room that the server has closed or whose device was paired in the midst
\* of a revocation, whatever events are replayed by one thread while the other binds, detaches or removes, and
\* whatever is lost, fails or crashes.
THEOREM RootsDetachedMeansClosed == Spec => []DetachedMeansClosed
<1>1. BothInv => DetachedMeansClosed
  BY DEF BothInv, ShutInv, ClosedRow, DetachedMeansClosed
<1> QED
  BY <1>1, RootsInvariant, PTL

=============================================================================
