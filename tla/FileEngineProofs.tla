---------------------------- MODULE FileEngineProofs ----------------------------
(***************************************************************************)
(* Proofs about FileEngine for every folder, every set of proposals and    *)
(* every bound.                                                            *)
(***************************************************************************)
EXTENDS FileEngine, TLAPS

InBatch == {"backed", "planned", "checked", "changed"}

\* What the program counter says about the locals of the running call.
CallShape ==
    /\ step = "idle" <=> call = "none"
    /\ call = "none" => pos = 1
    /\ step \in InBatch => /\ call \in {"execute", "trash", "rename"}
                           /\ pos \in 1..Len(batch) /\ cur \in OpId /\ cur < nextId
    /\ call \in {"execute", "trash", "rename"} => pos >= 1
    /\ step = "backed" => Item.action = "readme_write"
    /\ call = "execute" /\ step = "next" => nextId + (Len(batch) - pos) <= MaxOp
    /\ call = "execute" /\ step \in InBatch => nextId + (Len(batch) - pos) <= MaxOp + 1
    /\ step \in {"undo_planned", "restored"} => call = "undo" /\ pos \in 1..Len(journal)
    /\ call = "undo" => pos \in 0..Len(journal)
    /\ step = "dumped" <=> call = "recover"
    /\ prior <= Len(journal)

TypeInv == TypeOK /\ CallShape

-----------------------------------------------------------------------------
(* Facts about the helpers.                                                *)

LEMMA LogFacts ==
    ASSUME journal \in Seq(Row),
           NEW id \in OpId, NEW st \in JournalStatus, NEW ac \in Action,
           NEW from \in Loc, NEW to \in Loc,
           Log(id, st, ac, from, to)
    PROVE  /\ journal' \in Seq(Row)
           /\ Len(journal') = Len(journal) + 1
           /\ \A i \in 1..Len(journal) : journal'[i] = journal[i]
           /\ journal'[Len(journal) + 1] =
                [id |-> id, status |-> st, action |-> ac, from |-> from, to |-> to]
<1> DEFINE r == [id |-> id, status |-> st, action |-> ac, from |-> from, to |-> to]
<1>1. r \in Row
  BY DEF Row
<1>2. journal' = Append(journal, r)
  BY DEF Log
<1> HIDE DEF r
<1>3. /\ journal' \in Seq(Row)
      /\ Len(journal') = Len(journal) + 1
      /\ \A i \in 1..Len(journal) : journal'[i] = journal[i]
      /\ journal'[Len(journal) + 1] = r
  BY <1>1, <1>2
<1> QED
  BY <1>3 DEF r

LEMMA LogType ==
    ASSUME TypeOK,
           NEW id \in OpId, NEW st \in JournalStatus, NEW ac \in Action,
           NEW from \in Loc, NEW to \in Loc,
           Log(id, st, ac, from, to)
    PROVE  journal' \in Seq(Row) /\ Len(journal') >= Len(journal)
<1>1. journal \in Seq(Row)
  BY DEF TypeOK
<1>2. journal' \in Seq(Row) /\ Len(journal') = Len(journal) + 1
  BY <1>1, LogFacts
<1> QED
  BY <1>1, <1>2

LEMMA ItemFacts ==
    ASSUME TypeOK, pos \in 1..Len(batch)
    PROVE  /\ Item \in Check
           /\ Item.action \in Action /\ Item.from \in Path /\ Item.to \in Dest
           /\ Item.from \in Loc /\ Item.to \in Loc
<1>1. Item \in Check
  BY DEF TypeOK, Item
<1> QED
  BY <1>1 DEF Check, Loc, Dest

LEMMA URowFacts ==
    ASSUME TypeOK, pos \in 1..Len(journal)
    PROVE  /\ URow \in Row
           /\ URow.id \in OpId /\ URow.action \in Action
           /\ URow.from \in Loc /\ URow.to \in Loc
<1>1. URow \in Row
  BY DEF TypeOK, URow
<1> QED
  BY <1>1 DEF Row

LEMMA SlotFacts ==
    ASSUME NEW id \in OpId
    PROVE  TrashSlot(id) \in Loc /\ Backup(id) \in Loc /\ Marker(id) \in Loc /\ Adrift(id) \in Loc
BY DEF TrashSlot, Backup, Marker, Adrift, Loc, Dest, Internal

LEMMA DiskFacts ==
    ASSUME disk \in [Loc -> Node]
    PROVE  /\ \A l \in Loc, n \in Node : [disk EXCEPT ![l] = n] \in [Loc -> Node]
           /\ \A l \in Loc : WithParent(l) \in [Loc -> Node]
           /\ \A l, m \in Loc : Renamed(disk, l, m) \in [Loc -> Node]
           /\ \A n \in {"absent", "dir", "trash", "empty", "generated"} : n \in Node
           /\ TrashDir \in Loc
           /\ \A l \in Loc : TrashRenamed(l) \in [Loc -> Node]
<1>1. \A x \in {Adrift(id) : id \in OpId} : x[2] \in OpId
  BY DEF Adrift
<1>2. \A x \in {Adrift(id) : id \in OpId} : disk[TrashSlot(x[2])] \in Node
  BY <1>1, SlotFacts
<1>3. TrashDir \in Loc /\ "absent" \in Node
  BY DEF Loc, Dest, Node
<1>4. ASSUME NEW l \in Loc PROVE TrashRenamed(l) \in [Loc -> Node]
  BY <1>2, <1>3 DEF TrashRenamed
<1>5. \A n \in {"absent", "dir", "trash", "empty", "generated"} : n \in Node
  BY DEF Node
<1> QED
  BY <1>3, <1>4, <1>5 DEF WithParent, Renamed

\* Renaming the trash directory takes the files of its slots along.
LEMMA TrashFacts ==
    ASSUME disk \in [Loc -> Node], NEW p \in Path
    PROVE  /\ TrashRenamed(p) \in [Loc -> Node]
           /\ TrashRenamed(p)[p] = disk[TrashDir]
           /\ TrashRenamed(p)[TrashDir] = "absent"
           /\ \A id \in OpId :
                 /\ TrashRenamed(p)[TrashSlot(id)] = "absent"
                 /\ TrashRenamed(p)[Adrift(id)] = IF disk[TrashSlot(id)] # "absent"
                                                 THEN disk[TrashSlot(id)] ELSE disk[Adrift(id)]
                 /\ TrashRenamed(p)[Backup(id)] = disk[Backup(id)]
                 /\ TrashRenamed(p)[Marker(id)] = disk[Marker(id)]
           /\ \A q \in Path \ {p} : TrashRenamed(p)[q] = disk[q]
<1>0. /\ p \in Loc /\ TrashDir \in Loc /\ Path \subseteq Loc /\ Path \cap Internal = {} /\ TrashDir \notin Path
      /\ "absent" \in Node /\ TrashDir \notin Internal
  BY PathAssumption DEF Loc, Dest, Node, TrashDir, Internal, OpId
<1> DEFINE slots == {TrashSlot(id) : id \in OpId}
           adrifts == {Adrift(id) : id \in OpId}
<1>1. \A id \in OpId : {TrashSlot(id), Backup(id), Marker(id), Adrift(id)} \subseteq Internal \cap Loc
  BY DEF TrashSlot, Backup, Marker, Adrift, Internal, Loc, Dest
<1>2. \A id \in OpId : Adrift(id)[2] = id /\ Adrift(id) \in adrifts /\ TrashSlot(id) \in slots
  BY DEF Adrift
<1>3. \A id \in OpId : Adrift(id) \notin slots /\ Adrift(id) # TrashDir
  BY DEF Adrift, TrashSlot, TrashDir
<1>4. \A id \in OpId : /\ Backup(id) \notin slots \cup adrifts \cup {TrashDir}
                       /\ Marker(id) \notin slots \cup adrifts \cup {TrashDir}
  BY DEF Adrift, TrashSlot, TrashDir, Backup, Marker
<1>5. \A q \in Path : q \notin slots \cup adrifts \cup {TrashDir}
  BY <1>0, <1>1
<1>6. \A x \in Loc : TrashRenamed(p)[x] =
         IF x = p THEN disk[TrashDir]
         ELSE IF x \in {TrashDir} \cup slots THEN "absent"
         ELSE IF x \in adrifts /\ disk[TrashSlot(x[2])] # "absent" THEN disk[TrashSlot(x[2])]
         ELSE disk[x]
  <2>1. ASSUME NEW x \in Loc, x = p
        PROVE  TrashRenamed(p)[x] = disk[TrashDir]
    BY <1>3, <1>5, <2>1 DEF TrashRenamed, Exists
  <2>2. ASSUME NEW x \in Loc, x # p, x \in {TrashDir} \cup slots
        PROVE  TrashRenamed(p)[x] = "absent"
    BY <1>3, <2>2 DEF TrashRenamed, Exists
  <2>3. ASSUME NEW x \in Loc, x # p, x \notin {TrashDir} \cup slots
        PROVE  TrashRenamed(p)[x] = IF x \in adrifts /\ disk[TrashSlot(x[2])] # "absent"
                                    THEN disk[TrashSlot(x[2])] ELSE disk[x]
    BY <2>3 DEF TrashRenamed, Exists
  <2> QED
    BY <2>1, <2>2, <2>3
<1> HIDE DEF slots
<1>7. \A x \in adrifts : \E id \in OpId : x[2] = id
  BY <1>2
<1>8. \A x \in adrifts : TrashSlot(x[2]) \in Loc
  BY <1>1, <1>7
<1> HIDE DEF adrifts
<1>9. TrashRenamed(p) = [x \in Loc |-> TrashRenamed(p)[x]]
  BY DEF TrashRenamed
<1>10. \A x \in Loc : TrashRenamed(p)[x] \in Node
  BY <1>0, <1>6, <1>8
<1>11. TrashRenamed(p) \in [Loc -> Node]
  BY <1>9, <1>10
<1>12. ASSUME NEW id \in OpId
       PROVE  /\ TrashRenamed(p)[TrashSlot(id)] = "absent"
              /\ TrashRenamed(p)[Adrift(id)] = IF disk[TrashSlot(id)] # "absent"
                                              THEN disk[TrashSlot(id)] ELSE disk[Adrift(id)]
              /\ TrashRenamed(p)[Backup(id)] = disk[Backup(id)]
              /\ TrashRenamed(p)[Marker(id)] = disk[Marker(id)]
  BY <1>0, <1>1, <1>2, <1>3, <1>4, <1>6
<1> QED
  BY <1>0, <1>5, <1>6, <1>11, <1>12

LEMMA ReturnType ==
    ASSUME TypeInv, Return, journal' \in Seq(Row),
           UNCHANGED <<disk, quarantine, nextId, home, moved, misread>>,
           UNCHANGED <<userActs, garbled>>, crashes' \in 0..MaxCrash
    PROVE  TypeInv'
<1>1. batch' \in Seq(Check) /\ Len(batch') = 0 /\ Len(journal') \in Nat
  BY DEF Return
<1>2. /\ disk' \in [Loc -> Node] /\ quarantine' \subseteq Row /\ nextId' \in 1..(MaxOp + 1)
      /\ home' \in [Data -> SUBSET Path] /\ moved' \in [OpId -> Node \cup {"none"}]
      /\ misread' \subseteq {"reconcile", "undo"}
      /\ userActs' \in 0..MaxUser /\ garbled' \in 0..MaxGarbled
  BY DEF TypeInv, TypeOK
<1>3. /\ call' \in Calls /\ step' \in Steps /\ pos' \in Nat /\ prior' \in Nat
      /\ cur' \in 0..MaxOp /\ todo' \subseteq OpId
      /\ scope' \in {"none", "all", "one"} /\ skipped' \subseteq OpId
  BY BoundAssumption DEF Return, Calls, Steps
<1>4. TypeOK'
  BY <1>1, <1>2, <1>3 DEF TypeOK
<1>5. CallShape'
  BY <1>1 DEF CallShape, Return, InBatch
<1> QED
  BY <1>4, <1>5 DEF TypeInv

LEMMA NextItemType ==
    ASSUME TypeInv, NextItem, step \in InBatch \/ AtItem,
           journal' \in Seq(Row), Len(journal') >= Len(journal),
           disk' \in [Loc -> Node],
           moved' \in [OpId -> Node \cup {"none"}],
           misread' \subseteq {"reconcile", "undo"},
           UNCHANGED <<quarantine, nextId, home>>, UNCHANGED bounds
    PROVE  TypeInv'
<1>1. TypeOK'
  BY BoundAssumption DEF TypeInv, TypeOK, NextItem, Steps, bounds
<1>2. /\ call \in {"execute", "trash", "rename"} /\ pos \in 1..Len(batch)
      /\ call = "execute" => nextId + (Len(batch) - pos) <= MaxOp + 1
  BY BoundAssumption DEF TypeInv, TypeOK, CallShape, AtItem, InBatch
<1>a. /\ nextId \in Nat /\ MaxOp \in Nat /\ Len(batch) \in Nat /\ prior \in Nat
      /\ prior <= Len(journal) /\ Len(journal) \in Nat /\ Len(journal') \in Nat
  BY BoundAssumption DEF TypeInv, TypeOK, CallShape
<1>b. /\ call = "execute" => nextId + (Len(batch) - (pos + 1)) <= MaxOp
      /\ pos + 1 >= 1 /\ prior <= Len(journal')
  BY <1>2, <1>a
<1>3. /\ step' = "next" /\ pos' = pos + 1 /\ call' = call /\ batch' = batch /\ prior' = prior
      /\ nextId' = nextId
  BY DEF NextItem
<1>4. CallShape'
  BY <1>2, <1>3, <1>b DEF CallShape, InBatch
<1> QED
  BY <1>1, <1>4 DEF TypeInv

LEMMA ToStepType ==
    ASSUME TypeInv, NEW s \in InBatch, ToStep(s),
           \/ AtItem /\ nextId' = nextId + 1 /\ cur' = nextId
           \/ step \in InBatch /\ UNCHANGED <<nextId, cur>>,
           s = "backed" => Item.action = "readme_write",
           journal' \in Seq(Row), Len(journal') >= Len(journal),
           disk' \in [Loc -> Node],
           moved' \in [OpId -> Node \cup {"none"}],
           UNCHANGED <<quarantine, home, misread>>, UNCHANGED bounds
    PROVE  TypeInv'
<1>1. /\ nextId' \in 1..(MaxOp + 1) /\ cur' \in 0..MaxOp /\ cur' \in OpId /\ cur' < nextId'
      /\ call = "execute" => nextId' + (Len(batch) - pos) <= MaxOp + 1
      /\ pos \in 1..Len(batch)
      /\ call \in {"execute", "trash", "rename"}
  <2>0. /\ MaxOp \in Nat /\ nextId \in 1..(MaxOp + 1) /\ cur \in 0..MaxOp
        /\ Len(batch) \in Nat /\ pos \in Nat
    BY BoundAssumption DEF TypeInv, TypeOK
  <2>a. CASE AtItem /\ nextId' = nextId + 1 /\ cur' = nextId
    <3>1. call = "execute" /\ step = "next" /\ pos \in 1..Len(batch)
          /\ nextId + (Len(batch) - pos) <= MaxOp
      BY <2>0, <2>a DEF AtItem, TypeInv, CallShape
    <3> QED
      BY <2>0, <2>a, <3>1 DEF OpId
  <2>b. CASE step \in InBatch /\ UNCHANGED <<nextId, cur>>
    <3>1. /\ call \in {"execute", "trash", "rename"} /\ pos \in 1..Len(batch)
          /\ cur \in OpId /\ cur < nextId
          /\ call = "execute" => nextId + (Len(batch) - pos) <= MaxOp + 1
      BY <2>b DEF TypeInv, CallShape
    <3> QED
      BY <2>0, <2>b, <3>1
  <2> QED
    BY <2>a, <2>b
<1>2. TypeOK'
  BY <1>1 DEF TypeInv, TypeOK, ToStep, Steps, InBatch, bounds
<1>3. /\ step' = s /\ pos' = pos /\ call' = call /\ batch' = batch /\ prior' = prior
      /\ Item' = Item
  BY DEF ToStep, Item
<1>4. prior <= Len(journal') /\ pos >= 1
  BY <1>1 DEF TypeInv, TypeOK, CallShape
<1>5. CallShape'
  BY <1>1, <1>3, <1>4 DEF CallShape, InBatch
<1> QED
  BY <1>2, <1>5 DEF TypeInv

\* Every way a step inside an item goes on.
LEMMA BatchStepType ==
    ASSUME TypeInv, step \in InBatch, NEW s \in InBatch \ {"backed"},
           NextItem \/ (Return /\ UNCHANGED <<disk, moved>>) \/ (ToStep(s) /\ UNCHANGED cur),
           journal' \in Seq(Row), Len(journal') >= Len(journal),
           disk' \in [Loc -> Node],
           moved' \in [OpId -> Node \cup {"none"}],
           UNCHANGED <<quarantine, nextId, home, misread>>, UNCHANGED bounds
    PROVE  TypeInv'
<1>0. crashes \in 0..MaxCrash /\ misread \subseteq {"reconcile", "undo"}
  BY DEF TypeInv, TypeOK
<1>1. CASE NextItem
  BY <1>0, <1>1, NextItemType
<1>2. CASE Return /\ UNCHANGED <<disk, moved>>
  BY <1>0, <1>2, ReturnType DEF bounds
<1>3. CASE ToStep(s) /\ UNCHANGED cur
  BY <1>3, ToStepType
<1> QED
  BY <1>1, <1>2, <1>3

LEMMA UndoStepType ==
    ASSUME TypeInv, NEW s \in {"undo_planned", "restored"}, ToStep(s),
           call = "undo", pos \in 1..Len(journal),
           journal' \in Seq(Row), Len(journal') >= Len(journal),
           disk' \in [Loc -> Node],
           misread' \subseteq {"reconcile", "undo"},
           UNCHANGED <<quarantine, nextId, cur, home, moved>>, UNCHANGED bounds
    PROVE  TypeInv'
<1>1. TypeOK'
  BY DEF TypeInv, TypeOK, ToStep, Steps, bounds
<1>2. CallShape'
  BY DEF TypeInv, TypeOK, CallShape, ToStep, InBatch
<1> QED
  BY <1>1, <1>2 DEF TypeInv

LEMMA NextRowType ==
    ASSUME TypeInv, NEW refused \in SUBSET OpId, NextRow(refused),
           call = "undo", pos \in 1..Len(journal),
           journal' \in Seq(Row), Len(journal') >= Len(journal),
           UNCHANGED <<disk, quarantine, nextId, home, moved, misread>>, UNCHANGED bounds
    PROVE  TypeInv'
<1>1. pos' \in 0..Len(journal)
  BY DEF TypeInv, TypeOK, NextRow
<1>2. TypeOK'
  BY <1>1 DEF TypeInv, TypeOK, NextRow, Steps, bounds
<1>3. CallShape'
  BY <1>1 DEF TypeInv, TypeOK, CallShape, NextRow, InBatch
<1> QED
  BY <1>2, <1>3 DEF TypeInv

-----------------------------------------------------------------------------
(* Every action keeps TypeInv.                                             *)

LEMMA PrecheckType ==
    ASSUME TypeOK, NEW pr \in Proposals, NEW p \in ProposalsFor(pr)
    PROVE  /\ PrecheckProposal(p) \in Check
           /\ PrecheckProposal(p).action = pr.action
           /\ PrecheckProposal(p).to = pr.to
           /\ PrecheckProposal(p).from = pr.from
<1>1. pr \in [action : Action, from : Path, to : Dest]
  BY ProposalAssumption
<1>2. disk[pr.from] \in Node
  BY <1>1 DEF TypeOK, Loc, Dest
<1>3. p \in [action : Action, from : Path, to : Dest, expect : Node \cup {"stale"},
             status : {"ready", "destination_exists"}]
      /\ p.action = pr.action /\ p.to = pr.to /\ p.from = pr.from
  BY <1>1, <1>2 DEF ProposalsFor, SourceNow
<1>4. PrecheckStatus(p) \in CheckStatus
  BY <1>3 DEF PrecheckStatus, CheckStatus
<1> QED
  BY <1>3, <1>4 DEF PrecheckProposal, Check

LEMMA StartExecuteType == TypeInv /\ StartExecute => TypeInv'
<1> SUFFICES ASSUME TypeInv, StartExecute PROVE TypeInv'
  OBVIOUS
<1>1. PICK n \in 1..MaxBatch :
         /\ nextId + n <= MaxOp + 1
         /\ \E prs \in [1..n -> Proposals] :
            \E b \in [1..n -> UNION {ProposalsFor(prs[i]) : i \in 1..n}] :
               /\ \A i \in 1..n : b[i] \in ProposalsFor(prs[i])
               /\ batch' = [i \in 1..n |-> PrecheckProposal(b[i])]
  BY DEF StartExecute
<1>2. PICK prs, b :
         /\ prs \in [1..n -> Proposals]
         /\ \A i \in 1..n : b[i] \in ProposalsFor(prs[i])
         /\ batch' = [i \in 1..n |-> PrecheckProposal(b[i])]
  BY <1>1
<1>3. \A i \in 1..n : PrecheckProposal(b[i]) \in Check
  BY <1>2, PrecheckType DEF TypeInv
<1>4. n \in Nat
  BY BoundAssumption
<1>5. batch' \in Seq(Check) /\ Len(batch') = n
  BY <1>2, <1>3, <1>4
<1>6. /\ call' = "execute" /\ step' = "next" /\ pos' = 1 /\ prior' = Len(journal)
      /\ UNCHANGED <<disk, journal, quarantine, nextId, cur, todo, scope, skipped>>
      /\ UNCHANGED bounds /\ UNCHANGED history
  BY DEF StartExecute
<1>7. TypeOK'
  BY <1>5, <1>6 DEF TypeInv, TypeOK, Steps, Calls, bounds, history
<1>8. nextId' + (Len(batch') - pos') <= MaxOp /\ Len(journal') \in Nat
  <2>1. nextId + n <= MaxOp + 1
    BY <1>1
  <2>2. nextId \in Nat /\ MaxOp \in Nat /\ Len(journal) \in Nat
    BY BoundAssumption DEF TypeInv, TypeOK
  <2>3. nextId + (n - 1) <= MaxOp
    BY <1>4, <2>1, <2>2
  <2> QED
    BY <1>5, <1>6, <2>2, <2>3
<1>9. CallShape'
  BY <1>6, <1>8 DEF CallShape, InBatch
<1> QED
  BY <1>7, <1>9 DEF TypeInv

LEMMA ExecuteType == TypeInv /\ Execute => TypeInv'
<1> SUFFICES ASSUME TypeInv, Execute PROVE TypeInv'
  OBVIOUS
<1> USE DEF TypeInv
<1>0. /\ disk \in [Loc -> Node] /\ journal \in Seq(Row) /\ Len(journal) \in Nat
      /\ moved \in [OpId -> Node \cup {"none"}] /\ misread \subseteq {"reconcile", "undo"}
      /\ nextId \in Nat /\ crashes \in 0..MaxCrash /\ cur \in 0..MaxOp
  BY BoundAssumption DEF TypeOK
<1>i. AtItem => /\ pos \in 1..Len(batch) /\ nextId \in OpId
                /\ Item.action \in Action /\ Item.from \in Path /\ Item.to \in Dest
                /\ Item.from \in Loc /\ Item.to \in Loc
  <2>1. AtItem => pos \in 1..Len(batch) /\ nextId \in OpId
    BY BoundAssumption DEF TypeOK, CallShape, AtItem, OpId
  <2> QED
    BY <2>1, ItemFacts
<1>b. step \in InBatch => /\ pos \in 1..Len(batch) /\ cur \in OpId
                          /\ Item.action \in Action /\ Item.from \in Path /\ Item.to \in Dest
                          /\ Item.from \in Loc /\ Item.to \in Loc
                          /\ Target \in Loc /\ Source \in Loc
  BY ItemFacts, SlotFacts DEF CallShape, Target, Source
<1>m. \A n \in Node : cur \in OpId =>
                 [moved EXCEPT ![cur] = n] \in [OpId -> Node \cup {"none"}]
  BY <1>0
<1>r. Readme \in Loc
  BY PathAssumption DEF Loc, Dest
<1>1. CASE StartExecute
  BY <1>1, StartExecuteType
<1>2. CASE RecoverPlannedMove
  <2>1. PICK i \in PendingPlanned(Item.from, Item.to) :
           Log(journal[i].id, "executed", Item.action, Item.from, Item.to)
    BY <1>2 DEF RecoverPlannedMove
  <2>2. i \in 1..Len(journal)
    BY <1>0 DEF PendingPlanned, CallShape, TypeOK
  <2>3. journal[i].id \in OpId
    <3>1. journal[i] \in Row
      BY <1>0, <2>2
    <3> QED
      BY <3>1 DEF Row
  <2>4. AtItem /\ NextItem /\ UNCHANGED <<disk, quarantine, nextId, home, moved>> /\ UNCHANGED bounds
    BY <1>2 DEF RecoverPlannedMove
  <2>5. misread' \subseteq {"reconcile", "undo"}
    BY <1>0, <1>2 DEF RecoverPlannedMove
  <2>6. "executed" \in JournalStatus
    BY DEF JournalStatus
  <2>7. journal' \in Seq(Row) /\ Len(journal') >= Len(journal)
    BY <1>i, <2>1, <2>3, <2>4, <2>6, LogType
  <2> QED
    BY <1>0, <2>4, <2>5, <2>7, NextItemType
<1>3. CASE SkipUnready
  <2>1. AtItem /\ NextItem /\ UNCHANGED <<disk, journal, quarantine, nextId, home, moved, misread>>
        /\ UNCHANGED bounds
    BY <1>3 DEF SkipUnready, history
  <2> QED
    BY <1>0, <2>1, NextItemType
<1>4. CASE PlanItem
  <2>1. /\ AtItem /\ Log(nextId, "planned", Item.action, Item.from, Item.to)
        /\ cur' = nextId /\ nextId' = nextId + 1 /\ ToStep("planned")
        /\ UNCHANGED <<disk, quarantine, home, moved, misread>> /\ UNCHANGED bounds
    BY <1>4 DEF PlanItem, history
  <2>2. "planned" \in JournalStatus /\ "planned" \in InBatch
    BY DEF JournalStatus, InBatch
  <2>3. journal' \in Seq(Row) /\ Len(journal') >= Len(journal)
    BY <1>i, <2>1, <2>2, LogType
  <2> QED
    BY <1>0, <2>1, <2>2, <2>3, ToStepType
<1>5. CASE CheckMove
  <2>1. /\ step \in InBatch /\ "checked" \in InBatch \ {"backed"}
        /\ UNCHANGED <<journal, quarantine, nextId, home, misread>> /\ UNCHANGED bounds
        /\ \/ NextItem
           \/ Return /\ UNCHANGED <<disk, moved>>
           \/ ToStep("checked") /\ UNCHANGED cur
    BY <1>5 DEF CheckMove, InBatch, history
  <2>2. disk' \in [Loc -> Node] /\ moved' \in [OpId -> Node \cup {"none"}]
    BY <1>0, <1>5, <1>b, <2>1, DiskFacts DEF CheckMove, history
  <2> QED
    BY <1>0, <2>1, <2>2, BatchStepType
<1>6. CASE CheckCreateDir
  <2>1. /\ step \in InBatch /\ "checked" \in InBatch \ {"backed"}
        /\ UNCHANGED <<journal, quarantine, nextId, home, misread>> /\ UNCHANGED bounds
        /\ \/ NextItem
           \/ Return /\ UNCHANGED <<disk, moved>>
           \/ ToStep("checked") /\ UNCHANGED cur
    BY <1>6 DEF CheckCreateDir, InBatch, history
  <2>2. disk' \in [Loc -> Node] /\ moved' \in [OpId -> Node \cup {"none"}]
    BY <1>0, <1>6 DEF CheckCreateDir, history
  <2> QED
    BY <1>0, <2>1, <2>2, BatchStepType
<1>7. CASE ApplyCreateFile
  <2>1. /\ step \in InBatch /\ "changed" \in InBatch \ {"backed"}
        /\ UNCHANGED <<journal, quarantine, nextId, home, misread>> /\ UNCHANGED bounds
        /\ \/ NextItem
           \/ Return /\ UNCHANGED <<disk, moved>>
           \/ ToStep("changed") /\ UNCHANGED cur
    BY <1>7 DEF ApplyCreateFile, InBatch, history
  <2>2. disk' \in [Loc -> Node] /\ moved' \in [OpId -> Node \cup {"none"}]
    <3>1. \/ UNCHANGED <<disk, moved>>
          \/ /\ disk' = [disk EXCEPT ![Item.to] = "empty"]
             /\ moved' = [moved EXCEPT ![cur] = "empty"]
      BY <1>7 DEF ApplyCreateFile
    <3>2. "empty" \in Node /\ [disk EXCEPT ![Item.to] = "empty"] \in [Loc -> Node]
      BY <1>0, <1>b, <1>r, <2>1, DiskFacts
    <3> QED
      BY <1>0, <1>b, <1>m, <2>1, <3>1, <3>2
  <2> QED
    BY <1>0, <2>1, <2>2, BatchStepType
<1>8. CASE ApplyCreateDir
  <2>1. /\ step \in InBatch /\ "changed" \in InBatch \ {"backed"}
        /\ UNCHANGED <<journal, quarantine, nextId, home, misread>> /\ UNCHANGED bounds
        /\ \/ NextItem
           \/ Return /\ UNCHANGED <<disk, moved>>
           \/ ToStep("changed") /\ UNCHANGED cur
    BY <1>8 DEF ApplyCreateDir, InBatch, history
  <2>2. disk' \in [Loc -> Node] /\ moved' \in [OpId -> Node \cup {"none"}]
    <3>1. \/ UNCHANGED <<disk, moved>>
          \/ /\ disk' = [disk EXCEPT ![Item.to] = "dir"]
             /\ moved' = [moved EXCEPT ![cur] = "dir"]
      BY <1>8 DEF ApplyCreateDir
    <3>2. "dir" \in Node /\ [disk EXCEPT ![Item.to] = "dir"] \in [Loc -> Node]
      BY <1>0, <1>b, <1>r, <2>1, DiskFacts
    <3> QED
      BY <1>0, <1>b, <1>m, <2>1, <3>1, <3>2
  <2> QED
    BY <1>0, <2>1, <2>2, BatchStepType
<1>9. CASE ApplyRename
  <2>1. /\ step \in InBatch /\ "changed" \in InBatch \ {"backed"}
        /\ UNCHANGED <<journal, quarantine, nextId, home, misread>> /\ UNCHANGED bounds
        /\ \/ NextItem
           \/ Return /\ UNCHANGED <<disk, moved>>
           \/ ToStep("changed") /\ UNCHANGED cur
    BY <1>9 DEF ApplyRename, InBatch, history
  <2>2. disk' \in [Loc -> Node] /\ moved' \in [OpId -> Node \cup {"none"}]
    <3>1. \/ UNCHANGED <<disk, moved>>
          \/ /\ disk' = Renamed(disk, Item.from, Target)
             /\ moved' = [moved EXCEPT ![cur] = disk[Item.from]]
      BY <1>9 DEF ApplyRename
    <3>2. disk[Item.from] \in Node /\ Renamed(disk, Item.from, Target) \in [Loc -> Node]
      BY <1>0, <1>b, <1>r, <2>1, DiskFacts
    <3> QED
      BY <1>0, <1>b, <1>m, <2>1, <3>1, <3>2
  <2> QED
    BY <1>0, <2>1, <2>2, BatchStepType
<1>10. CASE WriteReadme
  <2>1. /\ step \in InBatch /\ "changed" \in InBatch \ {"backed"}
        /\ UNCHANGED <<journal, quarantine, nextId, home, misread>> /\ UNCHANGED bounds
        /\ \/ NextItem
           \/ Return /\ UNCHANGED <<disk, moved>>
           \/ ToStep("changed") /\ UNCHANGED cur
    BY <1>10 DEF WriteReadme, InBatch, history
  <2>2. disk' \in [Loc -> Node] /\ moved' \in [OpId -> Node \cup {"none"}]
    <3>1. \/ UNCHANGED <<disk, moved>>
          \/ /\ disk' = [disk EXCEPT ![Readme] = "generated"]
             /\ moved' = [moved EXCEPT ![cur] = disk[Readme]]
      BY <1>10 DEF WriteReadme
    <3>2. disk[Readme] \in Node /\ [disk EXCEPT ![Readme] = "generated"] \in [Loc -> Node]
      BY <1>0, <1>b, <1>r, <2>1, DiskFacts
    <3> QED
      BY <1>0, <1>b, <1>m, <2>1, <3>1, <3>2
  <2> QED
    BY <1>0, <2>1, <2>2, BatchStepType
<1>11. CASE PlanTrash
  <2>1. /\ AtItem /\ UNCHANGED <<disk, quarantine, home, moved, misread>> /\ UNCHANGED bounds
        /\ \/ /\ Log(nextId, "planned", "trash", Item.from, TrashSlot(nextId))
              /\ cur' = nextId /\ nextId' = nextId + 1
              /\ ToStep("planned")
           \/ Return /\ UNCHANGED <<journal, nextId>>
    BY <1>11 DEF PlanTrash, history
  <2>2. "planned" \in JournalStatus /\ "planned" \in InBatch \ {"backed"} /\ "trash" \in Action
    BY DEF JournalStatus, InBatch, Action
  <2>3. CASE Return /\ UNCHANGED <<journal, nextId>>
    BY <1>0, <2>1, <2>3, ReturnType DEF bounds
  <2>4. CASE /\ Log(nextId, "planned", "trash", Item.from, TrashSlot(nextId))
             /\ cur' = nextId /\ nextId' = nextId + 1
             /\ ToStep("planned")
    <3>1. journal' \in Seq(Row) /\ Len(journal') >= Len(journal)
      BY <1>i, <2>1, <2>2, <2>4, LogType, SlotFacts
    <3> QED
      BY <1>0, <2>1, <2>2, <2>4, <3>1, ToStepType
  <2> QED
    BY <2>1, <2>3, <2>4
<1>12. CASE BackupReadme
  <2>1. /\ AtItem /\ Item.action = "readme_write"
        /\ UNCHANGED <<journal, quarantine, home, moved, misread>> /\ UNCHANGED bounds
        /\ \/ Return /\ UNCHANGED <<disk, nextId>>
           \/ /\ \/ disk' = [disk EXCEPT ![Backup(nextId)] = disk[Readme]]
                 \/ disk' = [disk EXCEPT ![Marker(nextId)] = "empty"]
              /\ cur' = nextId /\ nextId' = nextId + 1
              /\ ToStep("backed")
    BY <1>12 DEF BackupReadme, history
  <2>2. "backed" \in InBatch
    BY DEF InBatch
  <2>3. CASE Return /\ UNCHANGED <<disk, nextId>>
    BY <1>0, <2>1, <2>3, ReturnType DEF bounds
  <2>4. CASE /\ \/ disk' = [disk EXCEPT ![Backup(nextId)] = disk[Readme]]
                \/ disk' = [disk EXCEPT ![Marker(nextId)] = "empty"]
             /\ cur' = nextId /\ nextId' = nextId + 1
             /\ ToStep("backed")
    <3>1. disk' \in [Loc -> Node]
      BY <1>0, <1>i, <1>r, <2>1, <2>4, DiskFacts, SlotFacts
    <3> QED
      BY <1>0, <2>1, <2>2, <2>4, <3>1, ToStepType
  <2> QED
    BY <2>1, <2>3, <2>4
<1>13. CASE PlanReadme
  <2>1. /\ step \in InBatch /\ Log(cur, "planned", "readme_write", Backup(cur), Readme)
        /\ ToStep("checked") /\ UNCHANGED cur
        /\ UNCHANGED <<disk, quarantine, nextId, home, moved, misread>> /\ UNCHANGED bounds
    BY <1>13 DEF PlanReadme, InBatch, history
  <2>2. "planned" \in JournalStatus /\ "checked" \in InBatch \ {"backed"}
        /\ "readme_write" \in Action
    BY DEF JournalStatus, InBatch, Action
  <2>3. journal' \in Seq(Row) /\ Len(journal') >= Len(journal)
    BY <1>b, <1>r, <2>1, <2>2, LogType, SlotFacts
  <2> QED
    BY <1>0, <2>1, <2>2, <2>3, BatchStepType
<1>14. CASE LogExecuted
  <2>1. /\ step \in InBatch /\ Log(cur, "executed", Item.action, Source, Target)
        /\ NextItem
        /\ UNCHANGED <<disk, quarantine, nextId, home, moved, misread>> /\ UNCHANGED bounds
    BY <1>14 DEF LogExecuted, InBatch, history
  <2>2. "executed" \in JournalStatus /\ "checked" \in InBatch \ {"backed"}
    BY DEF JournalStatus, InBatch
  <2>3. journal' \in Seq(Row) /\ Len(journal') >= Len(journal)
    BY <1>b, <2>1, <2>2, LogType
  <2> QED
    BY <1>0, <2>1, <2>2, <2>3, BatchStepType
<1>15. CASE FinishBatch
  <2>1. Return /\ UNCHANGED <<disk, journal, quarantine, nextId, home, moved, misread>> /\ UNCHANGED bounds
    BY <1>15 DEF FinishBatch, history
  <2> QED
    BY <1>0, <2>1, ReturnType DEF bounds
<1>16. CASE MakeTrashDir
  <2>1. /\ step \in InBatch /\ disk' = [disk EXCEPT ![TrashDir] = "trash"]
        /\ ToStep("checked") /\ UNCHANGED cur
        /\ UNCHANGED <<journal, quarantine, nextId, home, moved, misread>> /\ UNCHANGED bounds
    BY <1>16 DEF MakeTrashDir, InBatch, history
  <2>2. "checked" \in InBatch \ {"backed"}
    BY DEF InBatch
  <2>3. disk' \in [Loc -> Node]
    BY <1>0, <2>1, DiskFacts
  <2>4. journal' \in Seq(Row) /\ Len(journal') >= Len(journal)
    BY <1>0, <2>1
  <2> QED
    BY <1>0, <2>1, <2>2, <2>3, <2>4, BatchStepType
<1> QED
  BY <1>1, <1>2, <1>3, <1>4, <1>5, <1>6, <1>7, <1>8, <1>9, <1>10, <1>11, <1>12,
     <1>13, <1>14, <1>15, <1>16 DEF Execute

\* trash_file and rename_file: one item, journaled and ready to be applied.
LEMMA StartOneType ==
    ASSUME TypeInv, call = "none", nextId <= MaxOp,
           NEW c \in {"trash", "rename"}, NEW ac \in Action,
           NEW p \in Path, NEW q \in Dest,
           call' = c, step' \in {"planned", "checked"}, batch' = OneItem(ac, p, q),
           cur' = nextId, nextId' = nextId + 1,
           journal' \in Seq(Row), Len(journal') >= Len(journal),
           UNCHANGED <<disk, quarantine, pos, prior, todo, scope, skipped, home, moved, misread>>,
           UNCHANGED bounds
    PROVE  TypeInv'
<1>1. disk[p] \in Node
  BY DEF TypeInv, TypeOK, Loc, Dest
<1>2. [action |-> ac, from |-> p, to |-> q, expect |-> disk[p], status |-> "ready"] \in Check
  BY <1>1 DEF Check, CheckStatus
<1>3. batch' \in Seq(Check) /\ Len(batch') = 1
  BY <1>2 DEF OneItem
<1>4. nextId' \in 1..(MaxOp + 1) /\ cur' \in 0..MaxOp /\ cur' \in OpId /\ cur' < nextId'
  BY BoundAssumption DEF TypeInv, TypeOK, OpId
<1>5. TypeOK'
  BY <1>3, <1>4 DEF TypeInv, TypeOK, Steps, Calls, bounds
<1>6. pos' = 1 /\ prior' <= Len(journal')
  BY DEF TypeInv, TypeOK, CallShape
<1>7. CallShape'
  BY <1>3, <1>4, <1>6 DEF CallShape, InBatch
<1> QED
  BY <1>5, <1>7 DEF TypeInv

\* Calls that leave the call state alone.
LEMMA OutsideType ==
    ASSUME TypeInv, UNCHANGED engineVars, nextId \in 1..(MaxOp + 1) => nextId' \in 1..(MaxOp + 1),
           call = "none" \/ nextId' = nextId,
           journal' \in Seq(Row), Len(journal') >= Len(journal),
           disk' \in [Loc -> Node], home' \in [Data -> SUBSET Path],
           UNCHANGED <<quarantine, moved, misread, crashes>>,
           userActs' \in 0..MaxUser, garbled' \in 0..MaxGarbled
    PROVE  TypeInv'
<1>1. TypeOK'
  BY DEF TypeInv, TypeOK, engineVars
<1>2. call = "none" => step = "idle"
  BY DEF TypeInv, CallShape
<1>3. CASE call = "none"
  <2>1. call' = "none" /\ step' = "idle" /\ pos' = 1 /\ prior' <= Len(journal')
    BY <1>2, <1>3 DEF TypeInv, TypeOK, CallShape, engineVars
  <2>2. CallShape'
    BY <2>1 DEF CallShape, InBatch
  <2> QED
    BY <1>1, <2>2 DEF TypeInv
<1>4. CASE nextId' = nextId
  <2>1. CallShape'
    BY <1>4 DEF TypeInv, TypeOK, CallShape, engineVars, InBatch, Item
  <2> QED
    BY <1>1, <2>1 DEF TypeInv
<1> QED
  BY <1>3, <1>4

LEMMA ManualType == TypeInv /\ Manual => TypeInv'
<1> SUFFICES ASSUME TypeInv, Manual PROVE TypeInv'
  OBVIOUS
<1>0. /\ TypeOK /\ disk \in [Loc -> Node] /\ journal \in Seq(Row) /\ Len(journal) \in Nat
      /\ home \in [Data -> SUBSET Path] /\ userActs \in 0..MaxUser /\ garbled \in 0..MaxGarbled
  BY DEF TypeInv, TypeOK
<1>i. nextId <= MaxOp => nextId \in OpId /\ nextId + 1 \in 1..(MaxOp + 1)
  BY BoundAssumption DEF TypeInv, TypeOK, OpId
<1>l. "planned" \in JournalStatus /\ {"trash", "move"} \subseteq Action
  BY DEF JournalStatus, Action
<1>1. ASSUME NEW p \in Path, StartTrash(p) PROVE TypeInv'
  <2>1. /\ call = "none" /\ nextId <= MaxOp
        /\ Log(nextId, "planned", "trash", p, TrashSlot(nextId))
        /\ call' = "trash" /\ step' = "planned" /\ batch' = OneItem("trash", p, TrashDir)
        /\ cur' = nextId /\ nextId' = nextId + 1
        /\ UNCHANGED <<disk, quarantine, pos, prior, todo, scope, skipped, home, moved, misread>>
        /\ UNCHANGED bounds
    BY <1>1 DEF StartTrash, history
  <2>2. journal' \in Seq(Row) /\ Len(journal') >= Len(journal)
    BY <1>0, <1>i, <1>l, <2>1, LogType, SlotFacts DEF Loc, Dest
  <2> QED
    BY <1>l, <2>1, <2>2, StartOneType DEF Dest
<1>2. ASSUME NEW r \in Renames, StartRename(r[1], r[2]) PROVE TypeInv'
  <2>1. /\ call = "none" /\ nextId <= MaxOp
        /\ Log(nextId, "planned", "move", r[1], r[2])
        /\ call' = "rename" /\ step' = "checked" /\ batch' = OneItem("move", r[1], r[2])
        /\ cur' = nextId /\ nextId' = nextId + 1
        /\ UNCHANGED <<disk, quarantine, pos, prior, todo, scope, skipped, home, moved, misread>>
        /\ UNCHANGED bounds
    BY <1>2 DEF StartRename, history
  <2>2. r[1] \in Path /\ r[2] \in Path /\ r[2] \in Dest
    BY ProposalAssumption DEF Dest
  <2>3. journal' \in Seq(Row) /\ Len(journal') >= Len(journal)
    BY <1>0, <1>i, <1>l, <2>1, <2>2, LogType DEF Loc, Dest
  <2> QED
    BY <1>l, <2>1, <2>2, <2>3, StartOneType
<1>3. ASSUME NEW p \in Path, CreateEmptyFile(p) PROVE TypeInv'
  <2>1. /\ call = "none" /\ disk' = [disk EXCEPT ![p] = "empty"]
        /\ UNCHANGED <<journal, quarantine, nextId, home, moved, misread>>
        /\ UNCHANGED engineVars /\ UNCHANGED <<crashes, userActs, garbled>>
    BY <1>3 DEF CreateEmptyFile, history, bounds
  <2>2. disk' \in [Loc -> Node]
    BY <1>0, <2>1, DiskFacts DEF Loc, Dest
  <2> QED
    BY <1>0, <2>1, <2>2, OutsideType
<1>4. CASE WritePlannedJournal
  <2>0. PICK pr \in Proposals :
           \E p \in ProposalsFor(pr) : Log(nextId, "planned", "move", p.from, p.to)
    BY <1>4 DEF WritePlannedJournal
  <2>1. PICK p \in ProposalsFor(pr) : Log(nextId, "planned", "move", p.from, p.to)
    BY <2>0
  <2>2. p.from \in Loc /\ p.to \in Loc
    BY ProposalAssumption DEF ProposalsFor, Loc, Dest
  <2>3. /\ call = "none" /\ nextId <= MaxOp /\ nextId' = nextId + 1
        /\ UNCHANGED <<disk, quarantine, home, moved, misread>>
        /\ UNCHANGED engineVars /\ UNCHANGED <<crashes, userActs, garbled>>
    BY <1>4 DEF WritePlannedJournal, history, bounds
  <2>4. journal' \in Seq(Row) /\ Len(journal') >= Len(journal)
    BY <1>0, <1>i, <1>l, <2>1, <2>2, <2>3, LogType
  <2> QED
    BY <1>0, <1>i, <2>3, <2>4, OutsideType
<1> QED
  BY <1>1, <1>2, <1>3, <1>4 DEF Manual

LEMMA UndoType == TypeInv /\ Undo => TypeInv'
<1> SUFFICES ASSUME TypeInv, Undo PROVE TypeInv'
  OBVIOUS
<1>0. /\ TypeOK /\ disk \in [Loc -> Node] /\ journal \in Seq(Row) /\ Len(journal) \in Nat
      /\ misread \subseteq {"reconcile", "undo"} /\ crashes \in 0..MaxCrash
  BY DEF TypeInv, TypeOK
<1>a. AtRow \/ step \in {"undo_planned", "restored"} =>
         /\ call = "undo" /\ pos \in 1..Len(journal)
         /\ URow.id \in OpId /\ URow.action \in Action
         /\ URow.from \in Loc /\ URow.to \in Loc
  <2>1. AtRow \/ step \in {"undo_planned", "restored"} => call = "undo" /\ pos \in 1..Len(journal)
    BY DEF TypeInv, TypeOK, CallShape, AtRow
  <2> QED
    BY <1>0, <2>1, URowFacts
<1>l. "undone" \in JournalStatus /\ "undo_planned" \in JournalStatus
  BY DEF JournalStatus
<1>r. Readme \in Loc
  BY PathAssumption DEF Loc, Dest
<1>1. ASSUME NEW s \in UndoScopes, StartUndo(s) PROVE TypeInv'
  <2>1. PICK ids \in UndoTargets(s), i \in 1..Len(journal) : todo' = ids /\ pos' = i
    BY <1>1 DEF StartUndo
  <2>2. Undoable \subseteq OpId
    <3>1. \A k \in 1..Len(journal) : journal[k] \in Row
      BY <1>0
    <3>2. \A k \in 1..Len(journal) : journal[k].id \in OpId
      BY <3>1 DEF Row
    <3> QED
      BY <3>2 DEF Undoable, IdsWith
  <2>3. ids \subseteq OpId
    BY <2>1, <2>2 DEF UndoTargets
  <2>4. /\ prior' = Len(journal) /\ call' = "undo" /\ step' = "next" /\ scope' = s /\ skipped' = {}
        /\ UNCHANGED <<disk, journal, quarantine, nextId, batch, cur, home, moved, misread>>
        /\ UNCHANGED <<crashes, userActs, garbled>>
    BY <1>1 DEF StartUndo, bounds, history
  <2>5. s \in {"none", "all", "one"}
    BY BoundAssumption
  <2>6. TypeOK'
    BY <1>0, <2>1, <2>3, <2>4, <2>5 DEF TypeOK, Calls, Steps
  <2>7. CallShape'
    BY <1>0, <2>1, <2>4 DEF CallShape, InBatch
  <2> QED
    BY <2>6, <2>7 DEF TypeInv
<1>2. CASE UndoRecorded \/ LogUndone
  <2>1. /\ AtRow \/ step \in {"undo_planned", "restored"}
        /\ Log(URow.id, "undone", URow.action, URow.to, URow.from) /\ NextRow({})
        /\ UNCHANGED <<disk, quarantine, nextId, home, moved, misread>> /\ UNCHANGED bounds
    BY <1>2 DEF UndoRecorded, LogUndone, LogUndo, history
  <2>2. journal' \in Seq(Row) /\ Len(journal') >= Len(journal)
    BY <1>0, <1>a, <1>l, <2>1, LogType
  <2> QED
    BY <1>a, <2>1, <2>2, NextRowType
<1>3. CASE UndoSkip
  <2>1. /\ AtRow /\ NextRow({URow.id})
        /\ UNCHANGED <<disk, journal, quarantine, nextId, home, moved, misread>> /\ UNCHANGED bounds
    BY <1>3 DEF UndoSkip, history
  <2>2. {URow.id} \in SUBSET OpId
    BY <1>a, <2>1
  <2> QED
    BY <1>0, <1>a, <2>1, <2>2, NextRowType
<1>4. CASE UndoError \/ FinishUndo
  <2>1. Return /\ UNCHANGED <<disk, journal, quarantine, nextId, home, moved, misread>> /\ UNCHANGED bounds
    BY <1>4 DEF UndoError, FinishUndo, history
  <2> QED
    BY <1>0, <2>1, ReturnType DEF bounds
<1>5. CASE UndoPlan
  <2>1. /\ AtRow /\ Log(URow.id, "undo_planned", URow.action, URow.to, URow.from)
        /\ disk' = WithParent(URow.from) \/ disk' = disk
        /\ ToStep("undo_planned")
        /\ UNCHANGED <<quarantine, nextId, cur, home, moved, misread>> /\ UNCHANGED bounds
    BY <1>5 DEF UndoPlan, LogUndo, history
  <2>2. journal' \in Seq(Row) /\ Len(journal') >= Len(journal)
    BY <1>0, <1>a, <1>l, <2>1, LogType
  <2>3. disk' \in [Loc -> Node]
    BY <1>0, <1>a, <2>1, DiskFacts
  <2> QED
    BY <1>0, <1>a, <2>1, <2>2, <2>3, UndoStepType
<1>6. CASE RestoreMoved \/ RemoveCreated \/ RestoreReadme
  <2>1. /\ step = "undo_planned"
        /\ UNCHANGED <<journal, quarantine, nextId, home, moved>> /\ UNCHANGED bounds
        /\ misread' \subseteq {"reconcile", "undo"}
    BY <1>0, <1>6 DEF RestoreMoved, RemoveCreated, RestoreReadme, Undoing, history
  <2>2. \/ /\ ToStep("restored") /\ UNCHANGED cur
           /\ \/ disk' = Renamed(disk, URow.to, URow.from)
              \/ disk' = TrashRenamed(URow.from)
              \/ disk' = [disk EXCEPT ![URow.to] = "absent"]
              \/ disk' = [disk EXCEPT ![Readme] = disk[Backup(URow.id)]]
              \/ disk' = [disk EXCEPT ![Readme] = "absent"]
        \/ Return /\ UNCHANGED <<disk, misread>>
        \/ NextRow({URow.id}) /\ UNCHANGED <<disk, misread>>
    BY <1>6 DEF RestoreMoved, RemoveCreated, RestoreReadme, Restore, UndoFails, history
  <2>3. CASE /\ ToStep("restored") /\ UNCHANGED cur
             /\ \/ disk' = Renamed(disk, URow.to, URow.from)
                \/ disk' = TrashRenamed(URow.from)
                \/ disk' = [disk EXCEPT ![URow.to] = "absent"]
                \/ disk' = [disk EXCEPT ![Readme] = disk[Backup(URow.id)]]
                \/ disk' = [disk EXCEPT ![Readme] = "absent"]
    <3>1. Backup(URow.id) \in Loc
      BY <1>a, <2>1, SlotFacts
    <3>2. disk[Backup(URow.id)] \in Node
      BY <1>0, <3>1
    <3>3. disk' \in [Loc -> Node]
      <4>1. URow.from \in Loc /\ URow.to \in Loc /\ "absent" \in Node
        BY <1>0, <1>a, <2>1, DiskFacts
      <4>2. /\ [disk EXCEPT ![URow.to] = "absent"] \in [Loc -> Node]
            /\ [disk EXCEPT ![Readme] = "absent"] \in [Loc -> Node]
            /\ [disk EXCEPT ![Readme] = disk[Backup(URow.id)]] \in [Loc -> Node]
        BY <1>0, <1>r, <3>2, <4>1
      <4>3. Renamed(disk, URow.to, URow.from) \in [Loc -> Node] /\ TrashRenamed(URow.from) \in [Loc -> Node]
        BY <1>0, <4>1, DiskFacts
      <4> QED
        BY <2>3, <4>2, <4>3
    <3> QED
      <4>1. call = "undo" /\ pos \in 1..Len(journal)
        BY <1>a, <2>1
      <4>2. journal' \in Seq(Row) /\ Len(journal') >= Len(journal)
        BY <1>0, <2>1
      <4> QED
        BY <2>1, <2>3, <3>3, <4>1, <4>2, UndoStepType
  <2>4. CASE Return /\ UNCHANGED <<disk, misread>>
    BY <1>0, <2>1, <2>4, ReturnType DEF bounds
  <2>5. CASE NextRow({URow.id}) /\ UNCHANGED <<disk, misread>>
    <3>1. {URow.id} \in SUBSET OpId
      BY <1>a, <2>1
    <3> QED
      BY <1>0, <1>a, <2>1, <2>5, <3>1, NextRowType
  <2> QED
    BY <2>2, <2>3, <2>4, <2>5
<1> QED
  BY <1>1, <1>2, <1>3, <1>4, <1>5, <1>6 DEF Undo

LEMMA RecoverType == TypeInv /\ Recover => TypeInv'
<1> SUFFICES ASSUME TypeInv, Recover PROVE TypeInv'
  OBVIOUS
<1>0. TypeOK /\ crashes \in 0..MaxCrash /\ journal \in Seq(Row) /\ Len(journal) \in Nat
  BY DEF TypeInv, TypeOK
<1>1. CASE DumpJournal
  <2>1. /\ call = "none" /\ quarantine' = quarantine \cup Rows
        /\ call' = "recover" /\ step' = "dumped"
        /\ UNCHANGED <<disk, journal, nextId, batch, pos, prior, cur, todo, scope, skipped,
                       home, moved, misread, crashes, userActs, garbled>>
    BY <1>1 DEF DumpJournal, bounds, history
  <2>2. Rows \subseteq Row
    BY <1>0 DEF Rows
  <2>3. TypeOK'
    BY <1>0, <2>1, <2>2 DEF TypeOK, Calls, Steps
  <2>4. CallShape'
    BY <1>0, <2>1 DEF TypeInv, CallShape, InBatch
  <2> QED
    BY <2>3, <2>4 DEF TypeInv
<1>2. CASE ClearJournal
  <2>1. /\ journal' = <<>> /\ Return
        /\ UNCHANGED <<disk, quarantine, nextId, home, moved, misread>> /\ UNCHANGED bounds
    BY <1>2 DEF ClearJournal, history
  <2>2. journal' \in Seq(Row)
    BY <2>1
  <2> QED
    BY <1>0, <2>1, <2>2, ReturnType DEF bounds
<1> QED
  BY <1>1, <1>2 DEF Recover

LEMMA EnvironmentType == TypeInv /\ (Crash \/ GarbledRow \/ User) => TypeInv'
<1> SUFFICES ASSUME TypeInv, Crash \/ GarbledRow \/ User PROVE TypeInv'
  OBVIOUS
<1>0. /\ TypeOK /\ disk \in [Loc -> Node] /\ journal \in Seq(Row) /\ Len(journal) \in Nat
      /\ home \in [Data -> SUBSET Path] /\ userActs \in 0..MaxUser /\ garbled \in 0..MaxGarbled
      /\ crashes \in 0..MaxCrash /\ nextId \in 1..(MaxOp + 1)
  BY DEF TypeInv, TypeOK
<1>1. CASE Crash
  <2>1. /\ Return /\ crashes' = crashes + 1 /\ crashes < MaxCrash
        /\ UNCHANGED <<disk, journal, quarantine, nextId, home, moved, misread>>
        /\ UNCHANGED <<userActs, garbled>>
    BY <1>1 DEF Crash, history
  <2>2. crashes' \in 0..MaxCrash
    BY <1>0, <2>1, BoundAssumption
  <2> QED
    BY <1>0, <2>1, <2>2, ReturnType
<1>2. CASE GarbledRow
  <2>1. Log(1, "garbled", "move", Readme, Readme) /\ 1 \in OpId
    BY <1>2, BoundAssumption DEF GarbledRow, OpId
  <2>2. /\ garbled' = garbled + 1 /\ garbled < MaxGarbled /\ UNCHANGED engineVars
        /\ UNCHANGED <<disk, quarantine, nextId, crashes, userActs, home, moved, misread>>
    BY <1>2 DEF GarbledRow, history
  <2>3. garbled' \in 0..MaxGarbled
    BY <1>0, <2>2, BoundAssumption
  <2>4. "garbled" \in JournalStatus /\ "move" \in Action /\ Readme \in Loc
    BY PathAssumption DEF JournalStatus, Action, Loc, Dest
  <2>5. journal' \in Seq(Row) /\ Len(journal') >= Len(journal)
    BY <1>0, <2>1, <2>4, LogType
  <2> QED
    BY <1>0, <2>2, <2>3, <2>5, OutsideType
<1>3. ASSUME NEW d \in [Loc -> Node], NEW h \in [Data -> SUBSET Path], UserChange(d, h)
      PROVE TypeInv'
  <2>1. /\ userActs' = userActs + 1 /\ userActs < MaxUser /\ UNCHANGED engineVars
        /\ disk' = d /\ home' = h
        /\ UNCHANGED <<journal, quarantine, nextId, crashes, garbled, moved, misread>>
    BY <1>3 DEF UserChange
  <2>2. userActs' \in 0..MaxUser
    BY <1>0, <2>1, BoundAssumption
  <2> QED
    BY <1>0, <2>1, <2>2, OutsideType
<1>4. ASSUME NEW p \in Path, NEW t \in Data, UserWrite(p, t) PROVE TypeInv'
  <2>1. [disk EXCEPT ![p] = t] \in [Loc -> Node] /\ [home EXCEPT ![t] = {p}] \in [Data -> SUBSET Path]
    BY <1>0 DEF Loc, Dest, Node
  <2> QED
    BY <1>3, <1>4, <2>1 DEF UserWrite
<1>5. ASSUME NEW p \in Path, UserMkdir(p) \/ UserDelete(p) PROVE TypeInv'
  <2>1. [disk EXCEPT ![p] = "dir"] \in [Loc -> Node] /\ [disk EXCEPT ![p] = "absent"] \in [Loc -> Node]
    BY <1>0, DiskFacts DEF Loc, Dest
  <2> QED
    BY <1>0, <1>3, <1>5, <2>1 DEF UserMkdir, UserDelete
<1>6. ASSUME NEW p \in Path, NEW q \in Path, UserMove(p, q) PROVE TypeInv'
  <2> DEFINE h == [t \in Data |-> IF t = disk[p]
                                  THEN {q} \cup {x \in home[t] \ {p} : disk[x] = t}
                                  ELSE home[t]]
  <2>1. Renamed(disk, p, q) \in [Loc -> Node]
    BY <1>0, DiskFacts DEF Loc, Dest
  <2>2. h \in [Data -> SUBSET Path]
    BY <1>0
  <2>3. UserChange(Renamed(disk, p, q), h)
    BY <1>6 DEF UserMove
  <2> QED
    BY <1>3, <2>1, <2>2, <2>3
<1> QED
  BY <1>1, <1>2, <1>4, <1>5, <1>6 DEF User

LEMMA TypeInvInit == Init => TypeInv
<1> SUFFICES ASSUME Init PROVE TypeInv
  OBVIOUS
<1>1. disk \in [Loc -> Node]
  BY DataAssumption DEF Init, Loc, Dest, Node
<1>2. /\ home \in [Data -> SUBSET Path] /\ moved \in [OpId -> Node \cup {"none"}]
  BY DEF Init
<1>3. journal \in Seq(Row) /\ batch \in Seq(Check) /\ Len(journal) = 0 /\ Len(batch) = 0
  BY DEF Init
<1>4. TypeOK
  BY <1>1, <1>2, <1>3, BoundAssumption DEF Init, TypeOK, Calls, Steps
<1>5. CallShape
  BY <1>3 DEF Init, CallShape, InBatch
<1> QED
  BY <1>4, <1>5 DEF TypeInv

LEMMA TypeInvStep == TypeInv /\ [Next]_vars => TypeInv'
<1>1. TypeInv /\ UNCHANGED vars => TypeInv'
  BY DEF TypeInv, TypeOK, CallShape, vars, engineVars, bounds, history, Item, InBatch
<1> QED
  BY <1>1, ExecuteType, ManualType, UndoType, RecoverType, EnvironmentType DEF Next

LEMMA AlwaysTypeInv == Spec => []TypeInv
  BY TypeInvInit, TypeInvStep, PTL DEF Spec

\* The variables keep their types in every folder and for every bound: no journal
\* row with a status, an action or a path that execute.rs, trash.rs, undo.rs or
\* recover_journal should not write, and no step that outlives its call.
THEOREM TypeCorrect == Spec => []TypeOK
<1>1. TypeInv => TypeOK
  BY DEF TypeInv
<1> QED
  BY <1>1, AlwaysTypeInv, PTL
-----------------------------------------------------------------------------
(* What the journal records.  Every step leaves the journal alone, appends *)
(* one row, or clears a journal that was dumped.                           *)

\* Where the engine may put and take files, backups apart.
Places == Path \cup ({"trash"} \X OpId)
\* An executed row names what undo may touch: a README row README.md, another
\* row no backup, and a row of a moved or trashed file the path it came from.
Faithful(r) ==
    r.status = "executed" =>
        /\ r.action = "readme_write" => r.to = Readme
        /\ r.action \in {"move", "trash"} => r.from \in Path
        /\ r.to \in Places \cup {TrashDir}
RowsInv == \A r \in Rows : Faithful(r)
BatchInv ==
    \A i \in 1..Len(batch) :
        /\ batch[i].action = "readme_write" => batch[i].from = Readme /\ batch[i].to = Readme
        /\ batch[i].action # "trash" => batch[i].to \in Path
\* A README row is completed by the item that was backed up.
Earned(r) ==
    r.status = "executed" /\ r.action = "readme_write" =>
        step \in InBatch /\ Item.action = "readme_write" /\ r.id = cur
Appended == \E r : journal' = Append(journal, r) /\ Faithful(r) /\ Earned(r)

LEMMA AppendRows ==
    ASSUME journal \in Seq(Row), NEW r, journal' = Append(journal, r)
    PROVE  /\ Len(journal') = Len(journal) + 1 /\ Len(journal) \in Nat
           /\ \A i \in 1..Len(journal) : journal'[i] = journal[i]
           /\ journal'[Len(journal) + 1] = r
           /\ Rows' = Rows \cup {r}
<1>1. /\ Len(journal') = Len(journal) + 1 /\ Len(journal) \in Nat
      /\ \A i \in 1..Len(journal) : journal'[i] = journal[i]
      /\ journal'[Len(journal) + 1] = r
  OBVIOUS
<1>2. Rows' = {journal'[i] : i \in 1..(Len(journal) + 1)}
  BY <1>1 DEF Rows
<1> QED
  BY <1>1, <1>2 DEF Rows

LEMMA LogAppends ==
    ASSUME NEW id, NEW st, NEW ac, NEW from, NEW to, Log(id, st, ac, from, to),
           st = "executed" => /\ ac = "readme_write" => /\ to = Readme /\ step \in InBatch
                                                        /\ Item.action = "readme_write" /\ id = cur
                              /\ ac \in {"move", "trash"} => from \in Path
                              /\ to \in Places \cup {TrashDir}
    PROVE  Appended
<1> DEFINE r == [id |-> id, status |-> st, action |-> ac, from |-> from, to |-> to]
<1>1. journal' = Append(journal, r) /\ Faithful(r) /\ Earned(r)
  BY DEF Log, Faithful, Earned
<1> QED
  BY <1>1 DEF Appended

LEMMA ItemIsFaithful ==
    ASSUME TypeInv, BatchInv, pos \in 1..Len(batch)
    PROVE  /\ Item.action = "readme_write" => Item.from = Readme /\ Item.to = Readme /\ Target = Readme
           /\ Item.action \in {"move", "trash"} => Item.from \in Path /\ Source = Item.from
           /\ Item.from \in Path /\ Item.to \in Places \cup {TrashDir}
           /\ cur \in OpId => Target \in Places \cup {TrashDir}
           /\ Item.action # "trash" => Item.to \in Path /\ Target = Item.to
<1>1. Item.to \in Dest /\ Item.from \in Path
  BY ItemFacts DEF TypeInv
<1>2. /\ Item.action = "readme_write" => Item.from = Readme /\ Item.to = Readme
      /\ Item.action # "trash" => Item.to \in Path
  BY DEF BatchInv, Item
<1>3. cur \in OpId => TrashSlot(cur) \in Places
  BY DEF TrashSlot, Places
<1> QED
  BY <1>1, <1>2, <1>3 DEF Dest, Places, Target, Source

LEMMA JournalMoves ==
    ASSUME TypeInv, BatchInv, [Next]_vars
    PROVE  UNCHANGED journal \/ Appended \/ (step = "dumped" /\ journal' = <<>>)
<1>i. /\ (AtItem \/ step \in InBatch) => pos \in 1..Len(batch)
      /\ step \in InBatch => cur \in OpId
  BY BoundAssumption DEF TypeInv, TypeOK, CallShape, AtItem, InBatch
<1>1. CASE Execute
  <2>1. CASE RecoverPlannedMove
    <3>1. PICK i \in PendingPlanned(Item.from, Item.to) :
             Log(journal[i].id, "executed", Item.action, Item.from, Item.to)
      BY <2>1 DEF RecoverPlannedMove
    <3>2. AtItem /\ Item.from # Item.to
      BY <2>1, <3>1 DEF RecoverPlannedMove, PendingPlanned
    <3> QED
      BY <1>i, <3>1, <3>2, ItemIsFaithful, LogAppends
  <2>2. CASE LogExecuted
    <3>1. step \in InBatch /\ Log(cur, "executed", Item.action, Source, Target)
      BY <2>2 DEF LogExecuted, InBatch
    <3> QED
      BY <1>i, <3>1, ItemIsFaithful, LogAppends
  <2>3. CASE PlanItem
    BY <2>3, LogAppends DEF PlanItem
  <2>4. CASE PlanTrash
    BY <2>4, LogAppends DEF PlanTrash
  <2>5. CASE PlanReadme
    BY <2>5, LogAppends DEF PlanReadme
  <2>6. CASE \/ StartExecute \/ SkipUnready \/ CheckMove \/ CheckCreateDir \/ ApplyCreateFile
             \/ ApplyCreateDir \/ ApplyRename \/ BackupReadme \/ WriteReadme \/ FinishBatch
             \/ MakeTrashDir
    BY <2>6 DEF StartExecute, SkipUnready, CheckMove, CheckCreateDir, ApplyCreateFile,
                ApplyCreateDir, ApplyRename, BackupReadme, WriteReadme, FinishBatch, MakeTrashDir
  <2> QED
    BY <1>1, <2>1, <2>2, <2>3, <2>4, <2>5, <2>6 DEF Execute
<1>2. CASE Manual
  <2>1. ASSUME NEW p \in Path, StartTrash(p) PROVE Appended
    BY <2>1, LogAppends DEF StartTrash
  <2>2. ASSUME NEW p, NEW q, StartRename(p, q) PROVE Appended
    BY <2>2, LogAppends DEF StartRename
  <2>3. ASSUME WritePlannedJournal PROVE Appended
    <3>1. PICK p : Log(nextId, "planned", "move", p.from, p.to)
      BY <2>3 DEF WritePlannedJournal
    <3> QED
      BY <3>1, LogAppends
  <2>4. ASSUME NEW p \in Path, CreateEmptyFile(p) PROVE UNCHANGED journal
    BY <2>4 DEF CreateEmptyFile
  <2> QED
    BY <1>2, <2>1, <2>2, <2>3, <2>4 DEF Manual
<1>3. CASE Undo
  <2>1. ASSUME NEW s, StartUndo(s) PROVE UNCHANGED journal
    BY <2>1 DEF StartUndo
  <2>2. CASE UndoRecorded \/ LogUndone \/ UndoPlan
    BY <2>2, LogAppends DEF UndoRecorded, LogUndone, UndoPlan, LogUndo
  <2>3. CASE UndoSkip \/ UndoError \/ RestoreMoved \/ RemoveCreated \/ RestoreReadme \/ FinishUndo
    BY <2>3 DEF UndoSkip, UndoError, RestoreMoved, RemoveCreated, RestoreReadme, FinishUndo
  <2> QED
    BY <1>3, <2>1, <2>2, <2>3 DEF Undo
<1>4. CASE Recover
  BY <1>4 DEF Recover, DumpJournal, ClearJournal
<1>5. CASE Crash \/ UNCHANGED vars
  BY <1>5 DEF Crash, vars
<1>6. CASE GarbledRow
  BY <1>6, LogAppends DEF GarbledRow
<1>7. CASE User
  BY <1>7 DEF User, UserWrite, UserMkdir, UserDelete, UserMove, UserChange
<1> QED
  BY <1>1, <1>2, <1>3, <1>4, <1>5, <1>6, <1>7 DEF Next

\* The ways a step can treat the locals of the call.
InUndo == call = "undo" /\ pos \in 1..Len(journal)
ToChecked(a) == ToStep("checked") /\ UNCHANGED cur /\ step = "planned" /\ Item.action = a /\ UNCHANGED journal
Kept ==
    /\ UNCHANGED engineVars
    /\ (call = "none" \/ (User /\ UNCHANGED journal) \/ UNCHANGED <<disk, journal>>)

LEMMA Kinds ==
    ASSUME TypeInv, [Next]_vars
    PROVE  \/ Return
           \/ NextItem /\ call # "undo"
           \/ Kept
           \/ ToStep("changed") /\ call # "undo" /\ step \in InBatch /\ UNCHANGED cur
           \/ BackupReadme /\ ToStep("backed") /\ call # "undo"
           \/ StartExecute \/ DumpJournal
           \/ \E p \in Path : StartTrash(p)
           \/ \E r \in Renames : StartRename(r[1], r[2])
           \/ \E s \in UndoScopes : StartUndo(s)
           \/ PlanItem \/ (PlanTrash /\ ToStep("planned")) \/ PlanReadme
           \/ (CheckMove /\ ToChecked("move")) \/ ToChecked("create_dir")
           \/ (MakeTrashDir /\ ToChecked("trash"))
           \/ InUndo /\ \E x : NextRow(x)
           \/ UndoPlan
           \/ InUndo /\ ToStep("restored")
<1>u. step \in InBatch \/ AtItem => call # "undo"
  BY DEF TypeInv, CallShape, AtItem
<1>v. step \in {"undo_planned", "restored"} \/ AtRow => InUndo
  BY DEF TypeInv, TypeOK, CallShape, AtRow, InUndo
<1>1. CASE Execute
  <2>1. CASE RecoverPlannedMove \/ SkipUnready \/ LogExecuted
    BY <1>u, <2>1 DEF RecoverPlannedMove, SkipUnready, LogExecuted, InBatch
  <2>2. CASE CheckMove \/ CheckCreateDir
    BY <1>u, <2>2 DEF CheckMove, CheckCreateDir, ToChecked, InBatch
  <2>3. CASE ApplyCreateFile \/ ApplyCreateDir \/ ApplyRename \/ WriteReadme
    BY <1>u, <2>3 DEF ApplyCreateFile, ApplyCreateDir, ApplyRename, WriteReadme, InBatch
  <2>4. CASE BackupReadme
    BY <1>u, <2>4 DEF BackupReadme
  <2>5. CASE PlanTrash
    BY <2>5 DEF PlanTrash
  <2>6. CASE FinishBatch \/ MakeTrashDir
    BY <2>6 DEF FinishBatch, MakeTrashDir, ToChecked
  <2> QED
    BY <1>1, <2>1, <2>2, <2>3, <2>4, <2>5, <2>6 DEF Execute
<1>2. CASE Manual
  BY <1>2 DEF Manual, CreateEmptyFile, WritePlannedJournal, Kept
<1>3. CASE Undo
  <2>1. CASE UndoRecorded \/ UndoSkip \/ LogUndone
    BY <1>v, <2>1 DEF UndoRecorded, UndoSkip, LogUndone
  <2>2. CASE UndoError \/ FinishUndo
    BY <2>2 DEF UndoError, FinishUndo
  <2>3. CASE RestoreMoved \/ RemoveCreated \/ RestoreReadme
    BY <1>v, <2>3 DEF RestoreMoved, RemoveCreated, RestoreReadme, Undoing, Restore, UndoFails
  <2> QED
    BY <1>3, <2>1, <2>2, <2>3 DEF Undo
<1>4. CASE Recover
  BY <1>4 DEF Recover, ClearJournal
<1>5. CASE Crash \/ GarbledRow \/ UNCHANGED vars
  BY <1>5 DEF Crash, GarbledRow, Kept, vars
<1>6. CASE User
  BY <1>6 DEF User, UserWrite, UserMkdir, UserDelete, UserMove, UserChange, Kept
<1> QED
  BY <1>1, <1>2, <1>3, <1>4, <1>5, <1>6 DEF Next

LEMMA BatchStep ==
    ASSUME TypeInv, BatchInv, [Next]_vars
    PROVE  BatchInv'
<1>1. CASE StartExecute
  <2>1. PICK n \in 1..MaxBatch : \E prs \in [1..n -> Proposals] :
            \E b \in [1..n -> UNION {ProposalsFor(prs[i]) : i \in 1..n}] :
               /\ \A i \in 1..n : b[i] \in ProposalsFor(prs[i])
               /\ batch' = [i \in 1..n |-> PrecheckProposal(b[i])]
    BY <1>1 DEF StartExecute
  <2>2. PICK prs, b :
           /\ prs \in [1..n -> Proposals]
           /\ \A i \in 1..n : b[i] \in ProposalsFor(prs[i])
           /\ batch' = [i \in 1..n |-> PrecheckProposal(b[i])]
    BY <2>1
  <2>3. \A i \in 1..n :
           /\ PrecheckProposal(b[i]).action = "readme_write" =>
                 PrecheckProposal(b[i]).from = Readme /\ PrecheckProposal(b[i]).to = Readme
           /\ PrecheckProposal(b[i]).action # "trash" => PrecheckProposal(b[i]).to \in Path
    <3>1. \A pr \in Proposals : pr.action # "trash" => pr.to \in Path
      BY ProposalAssumption DEF Dest
    <3> QED
      BY <2>2, <3>1, PrecheckType, ProposalAssumption DEF TypeInv
  <2>4. n \in Nat /\ Len(batch') = n
    BY <2>2, BoundAssumption
  <2> QED
    BY <2>2, <2>3, <2>4 DEF BatchInv
<1>2. ASSUME NEW ac \in {"trash", "move"}, NEW p, NEW q, batch' = OneItem(ac, p, q),
             ac # "trash" => q \in Path
      PROVE  BatchInv'
  BY <1>2 DEF BatchInv, OneItem
<1>3. CASE Return
  BY <1>3 DEF Return, BatchInv
<1>4. CASE UNCHANGED batch
  BY <1>4 DEF BatchInv
<1>5. \/ StartExecute \/ Return \/ UNCHANGED batch
      \/ \E ac \in {"trash", "move"} : \E p, q :
            batch' = OneItem(ac, p, q) /\ (ac # "trash" => q \in Path)
  <2>1. \A x \in Renames : x[2] \in Path
    BY ProposalAssumption
  <2> QED
    BY <2>1, Kinds DEF NextItem, Kept, engineVars, ToStep, DumpJournal, StartTrash, StartRename, StartUndo,
               PlanItem, PlanTrash, PlanReadme, ToChecked, NextRow, UndoPlan
<1> QED
  BY <1>1, <1>2, <1>3, <1>4, <1>5

LEMMA RowsStep ==
    ASSUME TypeInv, BatchInv, RowsInv, [Next]_vars
    PROVE  /\ RowsInv'
           /\ step # "dumped" => Rows \subseteq Rows'
           /\ journal' # <<>> => \A i \in 1..Len(journal) :
                 i \in 1..Len(journal') /\ journal'[i] = journal[i]
<1>0. journal \in Seq(Row) /\ Len(journal) \in Nat
  BY DEF TypeInv, TypeOK
<1>1. CASE UNCHANGED journal
  BY <1>1 DEF RowsInv, Rows
<1>2. CASE Appended
  <2>1. PICK r : journal' = Append(journal, r) /\ Faithful(r)
    BY <1>2 DEF Appended
  <2>2. /\ Rows' = Rows \cup {r} /\ Len(journal') = Len(journal) + 1
        /\ \A i \in 1..Len(journal) : journal'[i] = journal[i]
    BY <1>0, <2>1, AppendRows
  <2>3. \A x : Faithful(x)' <=> Faithful(x)
    BY DEF Faithful
  <2> QED
    BY <1>0, <2>1, <2>2, <2>3 DEF RowsInv
<1>3. CASE step = "dumped" /\ journal' = <<>>
  <2>1. Rows' = {}
    BY <1>3 DEF Rows
  <2> QED
    BY <1>3, <2>1 DEF RowsInv
<1> QED
  BY <1>1, <1>2, <1>3, JournalMoves

\* The undo is at an executed row, and has journaled where the file goes.
CursorInv ==
    /\ InUndo => URow.status = "executed"
    /\ step = "undo_planned" => \E r \in Rows : r.to = URow.from
\* A file is moved or trashed only once a row names where it goes.
PlannedInv ==
    step \in {"planned", "checked"} /\ Item.action \in {"move", "trash"} =>
        \E r \in Rows : r.to = Target
\* The table is cleared only once all its rows are in quarantine.
DumpInv == step = "dumped" => Rows \subseteq quarantine
RecordInv == RowsInv /\ BatchInv /\ CursorInv /\ PlannedInv /\ DumpInv

LEMMA CursorStep ==
    ASSUME TypeInv, RecordInv, [Next]_vars
    PROVE  CursorInv'
<1>0. /\ journal \in Seq(Row) /\ Len(journal) \in Nat /\ pos \in Nat
      /\ (call = "none" => pos = 1 /\ step = "idle")
      /\ (step \in {"undo_planned", "restored"} => call = "undo" /\ InUndo)
      /\ (call = "undo" => step # "dumped")
  BY DEF TypeInv, TypeOK, CallShape, InUndo
<1>1. /\ RowsInv' /\ (step # "dumped" => Rows \subseteq Rows')
      /\ (journal' # <<>> => \A i \in 1..Len(journal) : i \in 1..Len(journal') /\ journal'[i] = journal[i])
  BY RowsStep DEF RecordInv
<1>2. ASSUME call' # "undo", step' # "undo_planned" PROVE CursorInv'
  BY <1>2 DEF CursorInv, InUndo
<1>3. CASE Kept
  <2>1. CASE call = "none"
    <3>1. call' = "none" /\ step' = "idle"
      BY <1>0, <1>3, <2>1 DEF Kept, engineVars
    <3> QED
      BY <1>2, <3>1
  <2>2. CASE UNCHANGED journal
    BY <1>3, <2>2 DEF Kept, engineVars, RecordInv, CursorInv, InUndo, URow, Rows
  <2> QED
    BY <1>3, <2>1, <2>2 DEF Kept
<1>4. ASSUME NEW s, StartUndo(s) PROVE CursorInv'
  <2>1. PICK i \in 1..Len(journal) : journal[i].status = "executed" /\ pos' = i
    BY <1>4 DEF StartUndo, ScansTo, Selected
  <2>2. step' = "next" /\ journal' = journal
    BY <1>4 DEF StartUndo
  <2> QED
    BY <2>1, <2>2 DEF CursorInv, InUndo, URow
<1>5. ASSUME InUndo, NEW x, NextRow(x) PROVE CursorInv'
  <2>1. PICK i \in 0..(pos - 1) : (i > 0 => journal[i].status = "executed") /\ pos' = i
    BY <1>0, <1>5 DEF NextRow, ScansTo, Selected
  <2>2. step' = "next" /\ pos \in 1..Len(journal)
    BY <1>5 DEF NextRow, InUndo
  <2>3. InUndo' => i \in 1..Len(journal) /\ journal' # <<>>
    BY <1>0, <2>1, <2>2 DEF InUndo
  <2> QED
    BY <1>1, <2>1, <2>2, <2>3 DEF CursorInv, URow
<1>6. ASSUME UndoPlan PROVE CursorInv'
  <2>1. AtRow /\ LogUndo("undo_planned") /\ pos' = pos /\ call' = call
    BY <1>6 DEF UndoPlan, ToStep
  <2>2. InUndo
    BY <1>0, <2>1 DEF AtRow, InUndo, TypeInv, CallShape
  <2> DEFINE r == [id |-> URow.id, status |-> "undo_planned", action |-> URow.action,
                   from |-> URow.to, to |-> URow.from]
  <2>3. journal' = Append(journal, r)
    BY <2>1 DEF LogUndo, Log
  <2>4. r.to = URow.from
    OBVIOUS
  <2> HIDE DEF r
  <2>5. /\ r \in Rows' /\ Len(journal') = Len(journal) + 1
        /\ \A i \in 1..Len(journal) : journal'[i] = journal[i]
    BY <1>0, <2>3, AppendRows
  <2>6. URow' = URow /\ URow.status = "executed"
    BY <2>1, <2>2, <2>5 DEF URow, InUndo, RecordInv, CursorInv
  <2> QED
    BY <2>4, <2>5, <2>6 DEF CursorInv
<1>7. ASSUME InUndo, ToStep("restored") PROVE CursorInv'
  <2>1. step' = "restored" /\ pos' = pos
    BY <1>7 DEF ToStep
  <2>2. InUndo' => journal' # <<>>
    BY <1>0, <2>1 DEF InUndo
  <2> QED
    BY <1>1, <1>7, <2>1, <2>2 DEF CursorInv, InUndo, URow, RecordInv
<1>8. \/ call' # "undo" /\ step' # "undo_planned"
      \/ Kept \/ (\E s : StartUndo(s)) \/ (InUndo /\ \E x : NextRow(x)) \/ UndoPlan
      \/ InUndo /\ ToStep("restored")
  BY <1>0, Kinds DEF Return, NextItem, ToStep, StartExecute, DumpJournal, StartTrash, StartRename,
      PlanItem, PlanTrash, PlanReadme, ToChecked, AtItem, TypeInv, CallShape, InBatch
<1> QED
  BY <1>2, <1>3, <1>4, <1>5, <1>6, <1>7, <1>8

LEMMA PlannedStep ==
    ASSUME TypeInv, RecordInv, [Next]_vars
    PROVE  PlannedInv'
<1>0. /\ journal \in Seq(Row) /\ pos \in Nat
      /\ (call = "none" => pos = 1 /\ step = "idle")
  BY DEF TypeInv, TypeOK, CallShape
<1>1. step # "dumped" => Rows \subseteq Rows'
  BY RowsStep DEF RecordInv
<1>2. ASSUME step' \notin {"planned", "checked"} PROVE PlannedInv'
  BY <1>2 DEF PlannedInv
<1>3. CASE Kept
  <2>1. CASE call = "none"
    <3>1. step' = "idle"
      BY <1>0, <1>3, <2>1 DEF Kept, engineVars
    <3> QED
      BY <1>2, <3>1
  <2>2. CASE UNCHANGED journal
    BY <1>3, <2>2 DEF Kept, engineVars, RecordInv, PlannedInv, Item, Target, Rows
  <2> QED
    BY <1>3, <2>1, <2>2 DEF Kept
<1>4. ASSUME NEW id, NEW st, NEW ac, NEW from, NEW to, Log(id, st, ac, from, to),
             Item'.action \in {"move", "trash"} => to = Target'
      PROVE  PlannedInv'
  <2> DEFINE r == [id |-> id, status |-> st, action |-> ac, from |-> from, to |-> to]
  <2>1. journal' = Append(journal, r) /\ r.to = to
    BY <1>4 DEF Log
  <2> HIDE DEF r
  <2>2. r \in Rows'
    BY <1>0, <2>1, AppendRows
  <2> QED
    BY <1>4, <2>1, <2>2 DEF PlannedInv
<1>5. CASE PlanItem
  <2>1. /\ Log(nextId, "planned", Item.action, Item.from, Item.to) /\ Item.action # "trash"
        /\ Item' = Item /\ cur' = nextId
    BY <1>5 DEF PlanItem, ToStep, Item
  <2>2. Item'.action # "trash" => Target' = Item'.to
    BY DEF Target
  <2> QED
    BY <1>4, <2>1, <2>2
<1>6. CASE PlanTrash /\ ToStep("planned")
  <2>1. /\ Log(nextId, "planned", "trash", Item.from, TrashSlot(nextId))
        /\ Item' = Item /\ cur' = nextId /\ Item.action = "trash"
    BY <1>6 DEF PlanTrash, ToStep, Return, Item
  <2>2. Target' = TrashSlot(nextId)
    BY <2>1 DEF Target, TrashSlot
  <2> QED
    BY <1>4, <2>1, <2>2
<1>7. CASE PlanReadme
  BY <1>7 DEF PlanReadme, ToStep, PlannedInv, Item, TypeInv, CallShape
<1>8. ASSUME NEW p, StartTrash(p) PROVE PlannedInv'
  <2>1. /\ Log(nextId, "planned", "trash", p, TrashSlot(nextId)) /\ cur' = nextId
        /\ batch' = OneItem("trash", p, TrashDir) /\ pos' = 1
    BY <1>0, <1>8 DEF StartTrash
  <2>2. Item'.action = "trash"
    BY <2>1 DEF Item, OneItem
  <2>3. Target' = TrashSlot(nextId)
    BY <2>1, <2>2 DEF Target, TrashSlot
  <2> QED
    BY <1>4, <2>1, <2>3
<1>9. ASSUME NEW p, NEW q, StartRename(p, q) PROVE PlannedInv'
  <2>1. /\ Log(nextId, "planned", "move", p, q) /\ cur' = nextId
        /\ batch' = OneItem("move", p, q) /\ pos' = 1
    BY <1>0, <1>9 DEF StartRename
  <2>2. Item'.action = "move" /\ Item'.to = q
    BY <2>1 DEF Item, OneItem
  <2>3. Target' = q
    BY <2>1, <2>2 DEF Target
  <2> QED
    BY <1>4, <2>1, <2>3
<1>10. CASE ToChecked("move") \/ ToChecked("trash")
  <2>1. /\ step = "planned" /\ Item.action \in {"move", "trash"} /\ Item' = Item /\ Rows' = Rows
        /\ UNCHANGED cur
    BY <1>10 DEF ToChecked, ToStep, Item, Rows
  <2> QED
    BY <2>1 DEF PlannedInv, Target, RecordInv
<1>11. CASE ToChecked("create_dir")
  BY <1>11 DEF ToChecked, ToStep, Item, PlannedInv
<1>12. \/ step' \notin {"planned", "checked"}
       \/ Kept \/ PlanItem \/ (PlanTrash /\ ToStep("planned")) \/ PlanReadme
       \/ (\E p : StartTrash(p)) \/ (\E p, q : StartRename(p, q))
       \/ ToChecked("move") \/ ToChecked("trash") \/ ToChecked("create_dir")
  BY <1>0, Kinds DEF Return, NextItem, ToStep, StartExecute, DumpJournal, StartUndo, NextRow, UndoPlan
<1> QED
  BY <1>2, <1>3, <1>5, <1>6, <1>7, <1>8, <1>9, <1>10, <1>11, <1>12

LEMMA DumpStep ==
    ASSUME TypeInv, RecordInv, [Next]_vars
    PROVE  DumpInv' /\ Rows \cup quarantine \subseteq Rows' \cup quarantine'
<1>0. /\ call = "none" <=> step = "idle"
      /\ step = "dumped" <=> call = "recover"
  BY DEF TypeInv, CallShape
<1>1. step # "dumped" => Rows \subseteq Rows'
  BY RowsStep DEF RecordInv
<1>2. quarantine \subseteq quarantine'
  <2>1. CASE Execute
    BY <2>1 DEF Execute, StartExecute, RecoverPlannedMove, SkipUnready, PlanItem, CheckMove,
       CheckCreateDir, ApplyCreateFile, ApplyCreateDir, ApplyRename, PlanTrash, BackupReadme,
       PlanReadme, WriteReadme, LogExecuted, FinishBatch, MakeTrashDir
  <2>2. CASE Manual
    BY <2>2 DEF Manual, StartTrash, CreateEmptyFile, StartRename, WritePlannedJournal
  <2>3. CASE Undo
    BY <2>3 DEF Undo, StartUndo, UndoRecorded, UndoSkip, UndoError, UndoPlan, RestoreMoved,
       RemoveCreated, RestoreReadme, LogUndone, FinishUndo
  <2>4. CASE Recover \/ Crash \/ GarbledRow \/ User \/ UNCHANGED vars
    BY <2>4 DEF Recover, DumpJournal, ClearJournal, Crash, GarbledRow, User, UserWrite, UserMkdir,
       UserDelete, UserMove, UserChange, vars
  <2> QED
    BY <2>1, <2>2, <2>3, <2>4 DEF Next
<1>3. step' = "dumped" => DumpJournal \/ (step = "dumped" /\ UNCHANGED journal)
  BY <1>0, Kinds DEF Return, NextItem, Kept, engineVars, ToStep, StartExecute, StartTrash, StartRename,
      StartUndo, PlanItem, PlanTrash, PlanReadme, ToChecked, NextRow, UndoPlan
<1>4. DumpInv'
  <2>1. CASE DumpJournal
    BY <2>1 DEF DumpJournal, DumpInv, Rows
  <2>2. CASE step = "dumped" /\ UNCHANGED journal
    BY <1>2, <2>2 DEF DumpInv, RecordInv, Rows
  <2> QED
    BY <1>3, <2>1, <2>2 DEF DumpInv
<1> QED
  BY <1>1, <1>2, <1>4 DEF RecordInv, DumpInv

LEMMA AlwaysRecordInv == Spec => [](TypeInv /\ RecordInv)
<1>1. Init => RecordInv
  BY DEF Init, RecordInv, RowsInv, BatchInv, CursorInv, PlannedInv, DumpInv, Rows, InUndo
<1>2. TypeInv /\ RecordInv /\ [Next]_vars => TypeInv' /\ RecordInv'
  BY TypeInvStep, RowsStep, BatchStep, CursorStep, PlannedStep, DumpStep DEF RecordInv
<1> QED
  BY <1>1, <1>2, TypeInvInit, PTL DEF Spec

\* For every folder and every interleaving of calls, crashes and the user's changes: a row
\* leaves the journal (recover_journal's DELETE) only once it is in a quarantine file.
THEOREM JournalRowsAreKept == Spec => RowsAreKept
<1>1. TypeInv /\ RecordInv /\ [Next]_vars => [Rows \cup quarantine \subseteq Rows' \cup quarantine']_vars
  BY DumpStep
<1> QED
  BY <1>1, AlwaysRecordInv, PTL DEF Spec, RowsAreKept

-----------------------------------------------------------------------------
(* Where the user's files are.                                             *)

\* Steps that put no user data anywhere, and take no backup away.
PutsNoData ==
    \E l \in Loc, n \in Node \ Data :
        disk' = [disk EXCEPT ![l] = n] /\ (n = "absent" => l \in Places \cup {TrashDir})
\* Steps that move a file to a place some row names.
MovesNamed ==
    \E from, to \in Places \cup {TrashDir} :
        disk' = Renamed(disk, from, to) /\ \E r \in Rows : r.to = to
MovesTrash == \E p \in Path : disk' = TrashRenamed(p) /\ \E r \in Rows : r.to = p
BacksUp == \E id \in OpId, n \in Node : disk' = [disk EXCEPT ![Backup(id)] = n] /\ n # "absent"
RestoresReadme == (\E n \in Node : disk' = [disk EXCEPT ![Readme] = n]) /\ \E r \in Rows : r.to = Readme

LEMMA NoNode ==
    {"absent", "dir", "trash", "empty", "generated"} \subseteq Node \ Data
BY DataAssumption DEF Node

LEMMA DiskKinds ==
    ASSUME TypeInv, RecordInv, [Next]_vars
    PROVE  \/ User
           \/ /\ UNCHANGED home
              /\ \/ UNCHANGED disk \/ PutsNoData \/ MovesNamed \/ MovesTrash \/ BacksUp \/ RestoresReadme
                 \/ \E l \in Loc : disk' = WithParent(l)
<1>0. /\ disk \in [Loc -> Node] /\ journal \in Seq(Row) /\ Readme \in Loc
      /\ (AtItem \/ step \in InBatch => pos \in 1..Len(batch))
      /\ (AtItem => nextId \in OpId)
      /\ (step \in {"undo_planned", "restored"} \/ AtRow => InUndo)
  BY PathAssumption, BoundAssumption DEF TypeInv, TypeOK, CallShape, AtItem, AtRow, InUndo, InBatch,
     Loc, Dest, OpId
<1>i. pos \in 1..Len(batch) => Item.from \in Loc /\ Item.to \in Loc
  BY ItemFacts DEF TypeInv
<1>p. /\ TrashDir \in Loc /\ Places \cup {TrashDir} \subseteq Loc /\ Readme \in Places
      /\ (pos \in 1..Len(batch) => Item.from \in Places /\ Item.to \in Places \cup {TrashDir})
      /\ (step \in InBatch => Target \in Places \cup {TrashDir})
      /\ (InUndo => URow.to \in Places \cup {TrashDir})
      /\ (InUndo /\ URow.action \in {"move", "trash"} => URow.from \in Path /\ URow.from \in Places)
  <2>1. TrashDir \in Loc /\ Places \cup {TrashDir} \subseteq Loc /\ Readme \in Places
    BY PathAssumption DEF Places, Loc, Dest, Internal
  <2>2. pos \in 1..Len(batch) => Item.from \in Path /\ Item.to \in Places \cup {TrashDir}
    BY ItemIsFaithful DEF RecordInv
  <2>3. step \in InBatch => Target \in Places \cup {TrashDir}
    BY <1>0, ItemIsFaithful DEF RecordInv, TypeInv, CallShape
  <2>4. InUndo => URow \in Rows /\ URow.status = "executed"
    BY DEF RecordInv, CursorInv, InUndo, URow, Rows
  <2> QED
    BY <2>1, <2>2, <2>3, <2>4 DEF RecordInv, RowsInv, Faithful, Places
<1>t. step \in InBatch => Target \in Loc
  BY <1>0, <1>i, SlotFacts DEF Target, TypeInv, CallShape
<1>u. InUndo => URow.from \in Loc /\ URow.to \in Loc /\ URow.id \in OpId /\ URow \in Rows
  BY URowFacts DEF TypeInv, InUndo, URow, Rows
<1>1. CASE Execute
  <2>1. CASE \/ StartExecute \/ RecoverPlannedMove \/ SkipUnready \/ PlanItem \/ CheckCreateDir
             \/ PlanTrash \/ PlanReadme \/ LogExecuted \/ FinishBatch
    BY <2>1 DEF StartExecute, RecoverPlannedMove, SkipUnready, PlanItem, CheckCreateDir, PlanTrash,
       PlanReadme, LogExecuted, FinishBatch, history
  <2>2. CASE CheckMove
    BY <1>0, <1>i, <2>2 DEF CheckMove, InBatch, history
  <2>3. CASE ApplyCreateFile \/ ApplyCreateDir
    <3>1. /\ UNCHANGED home /\ step \in InBatch
          /\ \/ UNCHANGED disk
             \/ \E n \in {"empty", "dir"} : disk' = [disk EXCEPT ![Item.to] = n]
      BY <2>3 DEF ApplyCreateFile, ApplyCreateDir, InBatch
    <3> QED
      BY <1>0, <1>i, <1>p, <3>1, NoNode DEF PutsNoData
  <2>4. CASE ApplyRename
    <3>1. /\ UNCHANGED home /\ step = "checked" /\ Item.action \in {"move", "trash"}
          /\ (UNCHANGED disk \/ disk' = Renamed(disk, Item.from, Target))
      BY <2>4 DEF ApplyRename
    <3>2. \E r \in Rows : r.to = Target
      BY <3>1 DEF RecordInv, PlannedInv
    <3> QED
      BY <1>0, <1>p, <3>1, <3>2 DEF MovesNamed, InBatch
  <2>5. CASE BackupReadme
    <3>1. /\ UNCHANGED home /\ AtItem
          /\ \/ UNCHANGED disk
             \/ disk' = [disk EXCEPT ![Backup(nextId)] = disk[Readme]] /\ disk[Readme] # "absent"
             \/ disk' = [disk EXCEPT ![Marker(nextId)] = "empty"]
      BY <2>5 DEF BackupReadme, history, Exists
    <3> QED
      BY <1>0, <3>1, NoNode, SlotFacts DEF BacksUp, PutsNoData
  <2>6. CASE WriteReadme
    <3>1. UNCHANGED home /\ (UNCHANGED disk \/ disk' = [disk EXCEPT ![Readme] = "generated"])
      BY <2>6 DEF WriteReadme
    <3> QED
      BY <1>0, <3>1, NoNode DEF PutsNoData
  <2>7. CASE MakeTrashDir
    <3>1. UNCHANGED home /\ disk' = [disk EXCEPT ![TrashDir] = "trash"]
      BY <2>7 DEF MakeTrashDir, history
    <3> QED
      BY <1>p, <3>1, NoNode DEF PutsNoData
  <2> QED
    BY <1>1, <2>1, <2>2, <2>3, <2>4, <2>5, <2>6, <2>7 DEF Execute
<1>2. CASE Manual
  <2>1. ASSUME NEW p \in Path, CreateEmptyFile(p) PROVE UNCHANGED home /\ PutsNoData
    BY <2>1, NoNode DEF CreateEmptyFile, history, PutsNoData, Loc, Dest
  <2> QED
    BY <1>2, <2>1 DEF Manual, StartTrash, StartRename, WritePlannedJournal, history
<1>3. CASE Undo
  <2>1. CASE \/ (\E s \in UndoScopes : StartUndo(s)) \/ UndoRecorded \/ UndoSkip \/ UndoError
             \/ LogUndone \/ FinishUndo
    BY <2>1 DEF StartUndo, UndoRecorded, UndoSkip, UndoError, LogUndone, FinishUndo, history
  <2>2. CASE UndoPlan
    BY <1>0, <1>u, <2>2 DEF UndoPlan, history
  <2>3. CASE RestoreMoved
    <3>1. /\ UNCHANGED home /\ step = "undo_planned"
          /\ URow.action \in {"move", "trash"}
          /\ \/ UNCHANGED disk \/ disk' = Renamed(disk, URow.to, URow.from)
             \/ disk' = TrashRenamed(URow.from)
      BY <2>3 DEF RestoreMoved, Undoing, Restore, UndoFails
    <3>2. \E r \in Rows : r.to = URow.from
      BY <3>1 DEF RecordInv, CursorInv
    <3> QED
      BY <1>0, <1>p, <3>1, <3>2 DEF MovesNamed, MovesTrash
  <2>4. CASE RemoveCreated
    <3>1. /\ UNCHANGED home /\ step = "undo_planned"
          /\ (UNCHANGED disk \/ disk' = [disk EXCEPT ![URow.to] = "absent"])
      BY <2>4 DEF RemoveCreated, Undoing, Restore, UndoFails, history
    <3> QED
      BY <1>0, <1>u, <1>p, <3>1, NoNode DEF PutsNoData
  <2>5. CASE RestoreReadme
    <3>1. /\ UNCHANGED home /\ step = "undo_planned" /\ URow.action = "readme_write"
          /\ \/ UNCHANGED disk
             \/ disk' = [disk EXCEPT ![Readme] = disk[Backup(URow.id)]]
             \/ disk' = [disk EXCEPT ![Readme] = "absent"]
      BY <2>5 DEF RestoreReadme, Undoing, Restore, UndoFails, history
    <3>2. URow \in Rows /\ URow.to = Readme
      BY <1>0, <1>u, <3>1 DEF RecordInv, CursorInv, RowsInv, Faithful
    <3> QED
      BY <1>0, <1>u, <3>1, <3>2, NoNode, SlotFacts DEF RestoresReadme
  <2> QED
    BY <1>3, <2>1, <2>2, <2>3, <2>4, <2>5 DEF Undo
<1>4. CASE Recover \/ Crash \/ GarbledRow \/ UNCHANGED vars
  BY <1>4 DEF Recover, DumpJournal, ClearJournal, Crash, GarbledRow, vars, history
<1> QED
  BY <1>1, <1>2, <1>3, <1>4 DEF Next

\* A user's own change leaves the file where home says it is.
LEMMA UserPlaces ==
    ASSUME TypeInv, DisplacedIsJournaled, User
    PROVE  \A l \in Places : disk'[l] \in Data /\ l \notin home'[disk'[l]] =>
               disk'[l] = disk[l] /\ l \notin home[disk[l]]
<1>0. disk \in [Loc -> Node] /\ home \in [Data -> SUBSET Path] /\ Places \subseteq Loc /\ Path \subseteq Loc
  BY DEF TypeInv, TypeOK, Places, Loc, Dest, Internal
<1>n. "absent" \notin Data /\ "dir" \notin Data
  BY DataAssumption
<1> SUFFICES ASSUME NEW l \in Places, disk'[l] \in Data, l \notin home'[disk'[l]]
             PROVE  disk'[l] = disk[l] /\ l \notin home[disk[l]]
  OBVIOUS
<1>1. ASSUME NEW p \in Path, NEW t \in Data, UserWrite(p, t)
      PROVE  disk'[l] = disk[l] /\ l \notin home[disk[l]]
  <2>1. /\ disk' = [disk EXCEPT ![p] = t] /\ home' = [home EXCEPT ![t] = {p}]
        /\ t \notin Stored(disk)
    BY <1>1 DEF UserWrite, UserChange
  <2>2. disk[l] # t
    BY <1>0, <2>1 DEF Stored
  <2> QED
    BY <1>0, <2>1, <2>2
<1>2. ASSUME NEW p \in Path, UserMkdir(p) \/ UserDelete(p)
      PROVE  disk'[l] = disk[l] /\ l \notin home[disk[l]]
  <2>1. home' = home /\ \E n \in {"dir", "absent"} : disk' = [disk EXCEPT ![p] = n]
    BY <1>2 DEF UserMkdir, UserDelete, UserChange
  <2> QED
    BY <1>0, <1>n, <2>1
<1>3. ASSUME NEW p \in Path, NEW q \in Path, UserMove(p, q)
      PROVE  disk'[l] = disk[l] /\ l \notin home[disk[l]]
  <2>1. /\ disk' = Renamed(disk, p, q)
        /\ home' = [t \in Data |-> IF t = disk[p]
                                   THEN {q} \cup {h \in home[t] \ {p} : disk[h] = t}
                                   ELSE home[t]]
    BY <1>3 DEF UserMove, UserChange
  <2>2. disk'[l] = IF l = q THEN disk[p] ELSE IF l = p THEN "absent" ELSE disk[l]
    BY <1>0, <2>1 DEF Renamed
  <2> QED
    BY <1>0, <1>n, <2>1, <2>2
<1> QED
  BY <1>1, <1>2, <1>3 DEF User

LEMMA DisplacedStep ==
    ASSUME TypeInv, RecordInv, DisplacedIsJournaled, [Next]_vars
    PROVE  DisplacedIsJournaled'
<1>0. disk \in [Loc -> Node] /\ home \in [Data -> SUBSET Path] /\ Places \subseteq Loc /\ Path \subseteq Loc
  BY DEF TypeInv, TypeOK, Places, Loc, Dest, Internal
<1>1. Rows \cup quarantine \subseteq Rows' \cup quarantine'
  BY DumpStep
<1>2. \A l \in Places : disk'[l] \in Data /\ l \notin home'[disk'[l]] =>
          \/ disk'[l] = disk[l] /\ l \notin home[disk[l]]
          \/ \E r \in Rows : r.to = l
  <2>1. CASE User
    BY <2>1, UserPlaces
  <2>2. CASE UNCHANGED home /\ UNCHANGED disk
    BY <2>2
  <2>3. CASE UNCHANGED home /\ PutsNoData
    BY <1>0, <2>3 DEF PutsNoData
  <2>4. CASE UNCHANGED home /\ MovesNamed
    BY <1>0, <2>4, DataAssumption DEF MovesNamed, Renamed
  <2>8. CASE UNCHANGED home /\ MovesTrash
    <3>1. PICK p \in Path : disk' = TrashRenamed(p) /\ \E r \in Rows : r.to = p
      BY <2>8 DEF MovesTrash
    <3>2. \A q \in Path \ {p} : disk'[q] = disk[q]
      BY <1>0, <3>1, TrashFacts
    <3>3. \A x \in {"trash"} \X OpId : disk'[x] = "absent"
      BY <1>0, <3>1, TrashFacts DEF TrashSlot
    <3> QED
      BY <2>8, <3>1, <3>2, <3>3, DataAssumption DEF Places
  <2>5. CASE UNCHANGED home /\ BacksUp
    <3>1. \A id \in OpId : Backup(id) \in Loc \ Places
      BY PathAssumption DEF Backup, Places, Loc, Dest, Internal
    <3> QED
      BY <1>0, <2>5, <3>1 DEF BacksUp
  <2>6. CASE UNCHANGED home /\ RestoresReadme
    BY <1>0, <2>6 DEF RestoresReadme
  <2>7. ASSUME NEW l \in Loc, UNCHANGED home, disk' = WithParent(l)
        PROVE  \A x \in Places : disk'[x] \in Data => disk'[x] = disk[x]
    BY <1>0, <2>7, DataAssumption DEF WithParent
  <2> QED
    BY <2>1, <2>2, <2>3, <2>4, <2>5, <2>6, <2>7, <2>8, DiskKinds
<1> QED
  BY <1>1, <1>2 DEF DisplacedIsJournaled, Places

\* In every folder, whatever the order of calls, crashes, garbled rows, recoveries and changes by
\* other programs, also in the middle of a call: a file the engine displaced (execute_move,
\* trash_file, undo) is at a place that a row, readable or quarantined, names as its destination.
THEOREM DisplacedIsAlwaysJournaled == Spec => []DisplacedIsJournaled
<1>1. Init => DisplacedIsJournaled
  <2> SUFFICES ASSUME Init PROVE DisplacedIsJournaled
    OBVIOUS
  <2>1. \A l \in Places : disk[l] \in Data => l \in Path /\ l \in home[disk[l]]
    BY DataAssumption DEF Init, Places, Loc, Dest, Internal
  <2> QED
    BY <2>1 DEF DisplacedIsJournaled, Places
<1>2. TypeInv /\ RecordInv /\ DisplacedIsJournaled /\ [Next]_vars => DisplacedIsJournaled'
  BY DisplacedStep
<1> QED
  BY <1>1, <1>2, AlwaysRecordInv, PTL DEF Spec

-----------------------------------------------------------------------------
(* Nothing of the user's is lost, if no other program works in the folder  *)
(* between the last check of a step and its effect: after a backup of      *)
(* README.md, before a rename, before an undo.                             *)

StaysOut == UserMayActAt \cap {"backed", "checked", "undo_planned"} = {}

\* The places of operation ids that were not given out are empty.
SlotsInv ==
    /\ disk[TrashDir] \in {"absent", "trash"}
    /\ \A id \in OpId : id >= nextId =>
          /\ disk[TrashSlot(id)] = "absent" /\ disk[Backup(id)] = "absent"
          /\ disk[Marker(id)] = "absent" /\ disk[Adrift(id)] = "absent"
\* A file that left with the trash directory has no successor in its slot.
AdriftInv ==
    /\ \A id \in OpId : disk[Adrift(id)] = "absent" \/ disk[TrashSlot(id)] = "absent"
    /\ step \in {"planned", "checked"} /\ Item.action = "trash" =>
          disk[TrashSlot(cur)] = "absent" /\ disk[Adrift(cur)] = "absent"
\* What the last check found is still so when the step takes effect.
AheadInv ==
    /\ step = "checked" /\ Item.action \in {"move", "trash"} => disk[Target] = "absent"
    /\ step \in {"backed", "checked"} /\ Item.action = "readme_write" =>
          (disk[Readme] \in Data => disk[Backup(cur)] = disk[Readme])
    /\ step = "undo_planned" /\ URow.action \in {"move", "trash"} => disk[URow.from] = "absent"
    /\ step = "undo_planned" /\ URow.action = "create_file" => disk[URow.to] \notin Data

LEMMA ParentFacts ==
    ASSUME disk \in [Loc -> Node], NEW l \in Loc
    PROVE  /\ WithParent(l)[l] = disk[l]
           /\ \A x \in Internal \cup {TrashDir} : x \in Loc /\ WithParent(l)[x] = disk[x]
           /\ ParentCreatable(l) => Stored(disk) \subseteq Stored(WithParent(l))
<1>1. l \in Path => Parent[l] # l
  BY PathAssumption DEF Loc, Dest
<1>2. \A x \in Loc : WithParent(l)[x] =
         IF l \in Path /\ x = Parent[l] /\ disk[x] = "absent" THEN "dir" ELSE disk[x]
  BY DEF WithParent, Exists
<1>3. \A x \in Internal \cup {TrashDir} : x \in Loc /\ (l \in Path => x # Parent[l])
  BY PathAssumption DEF Loc, Dest
<1>4. ASSUME ParentCreatable(l), NEW x \in Loc, disk[x] \in Data PROVE WithParent(l)[x] = disk[x]
  BY <1>2, <1>4, DataAssumption
<1> QED
  BY <1>1, <1>2, <1>3, <1>4 DEF Stored

LEMMA StoredFacts ==
    ASSUME disk \in [Loc -> Node]
    PROVE  /\ \A l \in Loc : \A n : disk[l] \notin Data => Stored(disk) \subseteq Stored([disk EXCEPT ![l] = n])
           /\ \A from, to \in Loc : disk[to] \notin Data =>
                 Stored(disk) \subseteq Stored(Renamed(disk, from, to))
           /\ \A l, m \in Loc : \A n : l # m /\ disk[m] = disk[l] =>
                 Stored(disk) \subseteq Stored([disk EXCEPT ![l] = n])
<1>1. ASSUME NEW l \in Loc, NEW n, disk[l] \notin Data
      PROVE  Stored(disk) \subseteq Stored([disk EXCEPT ![l] = n])
  BY <1>1 DEF Stored
<1>2. ASSUME NEW from \in Loc, NEW to \in Loc, disk[to] \notin Data
      PROVE  Stored(disk) \subseteq Stored(Renamed(disk, from, to))
  <2>1. ASSUME NEW x \in Loc, disk[x] \in Data
        PROVE  \E y \in Loc : Renamed(disk, from, to)[y] = disk[x]
    <3>1. CASE x = from
      BY <3>1 DEF Renamed
    <3>2. CASE x # from
      BY <1>2, <2>1, <3>2 DEF Renamed
    <3> QED
      BY <3>1, <3>2
  <2> QED
    BY <2>1 DEF Stored
<1>3. ASSUME NEW l \in Loc, NEW m \in Loc, NEW n, l # m, disk[m] = disk[l]
      PROVE  Stored(disk) \subseteq Stored([disk EXCEPT ![l] = n])
  <2>1. ASSUME NEW x \in Loc PROVE \E y \in Loc : [disk EXCEPT ![l] = n][y] = disk[x]
    <3>1. CASE x = l
      BY <1>3, <3>1
    <3>2. CASE x # l
      BY <3>2
    <3> QED
      BY <3>1, <3>2
  <2> QED
    BY <2>1 DEF Stored
<1> QED
  BY <1>1, <1>2, <1>3

\* What DataSteps rests on, for the places a step reads.
DataFacts ==
    /\ disk \in [Loc -> Node] /\ journal \in Seq(Row) /\ Readme \in Loc /\ Readme \in Path
    /\ nextId \in Nat
    /\ (AtItem \/ step \in InBatch => pos \in 1..Len(batch) /\ Item.from \in Path /\ Item.to \in Dest)
    /\ (AtItem => nextId \in OpId)
    /\ (step \in InBatch => cur \in OpId /\ cur < nextId /\ Target \in Loc)
    /\ (AtItem \/ step \in InBatch => (Item.action # "trash" => Item.to \in Path))
    /\ (step \in {"undo_planned", "restored"} \/ AtRow => InUndo)
    /\ (InUndo => /\ URow.from \in Loc /\ URow.to \in Loc /\ URow.id \in OpId
                  /\ (URow.action \in {"move", "trash"} => URow.from \in Path))
    /\ Path \subseteq Loc /\ Dest \subseteq Loc /\ Internal \subseteq Loc /\ TrashDir \in Loc
    /\ \A id \in OpId : {TrashSlot(id), Backup(id), Marker(id), Adrift(id)} \subseteq Internal
    /\ Path \cap Internal = {} /\ TrashDir \notin Path /\ TrashDir \notin Internal

LEMMA DataFactsHold == TypeInv /\ RecordInv => DataFacts
<1> SUFFICES ASSUME TypeInv, RecordInv PROVE DataFacts
  OBVIOUS
<1>1. /\ disk \in [Loc -> Node] /\ journal \in Seq(Row) /\ Readme \in Loc /\ Readme \in Path
      /\ nextId \in Nat /\ Path \subseteq Loc /\ Internal \subseteq Loc /\ Path \cap Internal = {}
      /\ TrashDir \in Loc /\ TrashDir \notin Path /\ Dest \subseteq Loc
      /\ (AtItem \/ step \in InBatch => pos \in 1..Len(batch))
      /\ (AtItem => nextId \in OpId)
      /\ (step \in InBatch => cur \in OpId /\ cur < nextId)
      /\ (step \in {"undo_planned", "restored"} \/ AtRow => InUndo)
  BY PathAssumption, BoundAssumption DEF TypeInv, TypeOK, CallShape, AtItem, AtRow, InUndo, InBatch,
     Loc, Dest, OpId
<1>2. pos \in 1..Len(batch) => Item.from \in Path /\ Item.to \in Dest /\ (Item.action # "trash" => Item.to \in Path)
  BY ItemFacts, ItemIsFaithful DEF TypeInv, RecordInv
<1>3. step \in InBatch => Target \in Loc
  BY <1>1, <1>2, SlotFacts DEF Target, Loc
<1>4. InUndo => URow.from \in Loc /\ URow.to \in Loc /\ URow.id \in OpId /\ URow \in Rows
  BY URowFacts DEF TypeInv, InUndo, URow, Rows
<1>5. InUndo /\ URow.action \in {"move", "trash"} => URow.from \in Path
  BY <1>4 DEF RecordInv, CursorInv, RowsInv, Faithful
<1>6. \A id \in OpId : {TrashSlot(id), Backup(id), Marker(id), Adrift(id)} \subseteq Internal
  BY DEF TrashSlot, Backup, Marker, Adrift, Internal
<1>7. TrashDir \notin Internal
  BY BoundAssumption DEF TrashDir, Internal, OpId
<1> QED
  BY <1>1, <1>2, <1>3, <1>4, <1>5, <1>6, <1>7 DEF DataFacts

\* Each change of the disk by the engine, with the reason why it loses nothing.
LEMMA EngineDisk ==
    ASSUME TypeInv, RecordInv, SlotsInv, AheadInv, [Next]_vars, ~User
    PROVE  \/ UNCHANGED disk
           \/ \E l \in Loc : disk' = WithParent(l) /\ ParentCreatable(l)
           \/ \E l \in Path, n \in Node : disk' = [disk EXCEPT ![l] = n] /\ disk[l] \notin Data
           \/ \E l \in Loc : disk' = [disk EXCEPT ![l] = "absent"] /\ disk[l] \notin Data
           \/ AtItem /\ nextId' = nextId + 1 /\ \E l \in {Backup(nextId), Marker(nextId)}, n \in Node :
                 disk' = [disk EXCEPT ![l] = n] /\ disk[l] = "absent"
           \/ disk' = [disk EXCEPT ![TrashDir] = "trash"]
           \/ \E from \in Loc, to \in Path : disk' = Renamed(disk, from, to) /\ disk[to] = "absent"
           \/ \E from \in Path : /\ disk' = Renamed(disk, from, TrashSlot(cur)) /\ step = "checked"
                                 /\ Item.action = "trash" /\ disk[TrashSlot(cur)] = "absent"
           \/ \E to \in Path : disk' = TrashRenamed(to) /\ disk[to] = "absent"
           \/ /\ disk' = [disk EXCEPT ![Readme] = "generated"] /\ step \in InBatch
              /\ disk[Readme] \in Data => disk[Backup(cur)] = disk[Readme]
           \/ RestoringReadme /\ \E n \in Node : disk' = [disk EXCEPT ![Readme] = n]
<1>0. DataFacts
  BY DataFactsHold
<1> USE <1>0 DEF DataFacts
<1>n. {"absent", "dir", "trash", "empty", "generated"} \subseteq Node \ Data
  BY NoNode
<1>1. CASE Execute
  <2>1. CASE \/ StartExecute \/ RecoverPlannedMove \/ SkipUnready \/ PlanItem \/ CheckCreateDir
             \/ PlanTrash \/ PlanReadme \/ LogExecuted \/ FinishBatch \/ MakeTrashDir
    BY <2>1 DEF StartExecute, RecoverPlannedMove, SkipUnready, PlanItem, CheckCreateDir, PlanTrash,
       PlanReadme, LogExecuted, FinishBatch, MakeTrashDir
  <2>2. CASE CheckMove
    <3>1. step \in InBatch
      BY <2>2 DEF CheckMove, InBatch
    <3>2. UNCHANGED disk \/ (disk' = WithParent(Item.to) /\ ParentCreatable(Item.to))
      BY <2>2 DEF CheckMove
    <3> QED
      BY <3>1, <3>2
  <2>3. CASE ApplyCreateFile \/ ApplyCreateDir
    <3>1. /\ step \in InBatch /\ Item.action # "trash"
          /\ \/ UNCHANGED disk
             \/ disk[Item.to] = "absent" /\ \E n \in {"empty", "dir"} : disk' = [disk EXCEPT ![Item.to] = n]
      BY <2>3 DEF ApplyCreateFile, ApplyCreateDir, InBatch, Exists
    <3> QED
      BY <1>n, <3>1
  <2>4. CASE ApplyRename
    <3>1. /\ step = "checked" /\ step \in InBatch /\ Item.action \in {"move", "trash"}
          /\ (UNCHANGED disk \/ disk' = Renamed(disk, Item.from, Target))
      BY <2>4 DEF ApplyRename, InBatch
    <3>2. disk[Target] = "absent" /\ Target = IF Item.action = "trash" THEN TrashSlot(cur) ELSE Item.to
      BY <3>1 DEF AheadInv, Target
    <3> QED
      BY <3>1, <3>2
  <2>5. CASE BackupReadme
    <3>1. AtItem /\ \/ UNCHANGED disk
                    \/ /\ nextId' = nextId + 1
                       /\ \/ disk' = [disk EXCEPT ![Backup(nextId)] = disk[Readme]]
                          \/ disk' = [disk EXCEPT ![Marker(nextId)] = "empty"]
      BY <2>5 DEF BackupReadme
    <3>2. disk[Backup(nextId)] = "absent" /\ disk[Marker(nextId)] = "absent"
      BY <3>1 DEF SlotsInv
    <3> QED
      BY <1>n, <3>1, <3>2
  <2>6. CASE WriteReadme
    <3>1. /\ step = "checked" /\ step \in InBatch /\ Item.action = "readme_write"
          /\ (UNCHANGED disk \/ disk' = [disk EXCEPT ![Readme] = "generated"])
      BY <2>6 DEF WriteReadme, InBatch
    <3> QED
      BY <3>1 DEF AheadInv
  <2> QED
    BY <1>1, <2>1, <2>2, <2>3, <2>4, <2>5, <2>6 DEF Execute
<1>2. CASE Manual
  <2>1. ASSUME NEW p \in Path, CreateEmptyFile(p)
        PROVE  disk' = [disk EXCEPT ![p] = "empty"] /\ disk[p] = "absent"
    BY <2>1 DEF CreateEmptyFile, Exists
  <2> QED
    BY <1>2, <1>n, <2>1 DEF Manual, StartTrash, StartRename, WritePlannedJournal
<1>3. CASE Undo
  <2>1. CASE \/ (\E s \in UndoScopes : StartUndo(s)) \/ UndoRecorded \/ UndoSkip \/ UndoError
             \/ LogUndone \/ FinishUndo
    BY <2>1 DEF StartUndo, UndoRecorded, UndoSkip, UndoError, LogUndone, FinishUndo
  <2>2. CASE UndoPlan
    <3>1. AtRow /\ (UNCHANGED disk \/ (URow.action \in {"move", "trash"} /\ disk' = WithParent(URow.from)))
      BY <2>2 DEF UndoPlan
    <3>2. URow.action \in {"move", "trash"} => ParentCreatable(URow.from)
      BY <2>2 DEF UndoPlan, UndoVerdict
    <3> QED
      BY <3>1, <3>2
  <2>3. CASE RestoreMoved
    <3>1. /\ step = "undo_planned" /\ URow.action \in {"move", "trash"}
          /\ \/ UNCHANGED disk \/ disk' = Renamed(disk, URow.to, URow.from)
             \/ disk' = TrashRenamed(URow.from)
      BY <2>3 DEF RestoreMoved, Undoing, Restore, UndoFails
    <3>2. disk[URow.from] = "absent" /\ URow.from \in Path /\ URow.to \in Loc
      BY <3>1 DEF AheadInv
    <3> QED
      BY <3>1, <3>2
  <2>4. CASE RemoveCreated
    <3>1. /\ step = "undo_planned" /\ URow.action \in {"create_dir", "create_file"}
          /\ \/ UNCHANGED disk
             \/ /\ disk' = [disk EXCEPT ![URow.to] = "absent"]
                /\ URow.action = "create_dir" => disk[URow.to] = "dir"
      BY <2>4 DEF RemoveCreated, Undoing, Restore, UndoFails
    <3>2. URow.action = "create_file" => disk[URow.to] \notin Data
      BY <3>1 DEF AheadInv
    <3> QED
      BY <1>n, <3>1, <3>2
  <2>5. CASE RestoreReadme
    <3>1. /\ step = "undo_planned" /\ URow.action = "readme_write"
          /\ \/ UNCHANGED disk
             \/ /\ step' = "restored"
                /\ \/ disk' = [disk EXCEPT ![Readme] = disk[Backup(URow.id)]]
                   \/ disk' = [disk EXCEPT ![Readme] = "absent"]
      BY <2>5 DEF RestoreReadme, Undoing, Restore, UndoFails, ToStep
    <3> QED
      BY <1>n, <3>1 DEF RestoringReadme
  <2> QED
    BY <1>3, <2>1, <2>2, <2>3, <2>4, <2>5 DEF Undo
<1>4. CASE Recover \/ Crash \/ GarbledRow \/ UNCHANGED vars
  BY <1>4 DEF Recover, DumpJournal, ClearJournal, Crash, GarbledRow, vars
<1> QED
  BY <1>1, <1>2, <1>3, <1>4 DEF Next

LEMMA NextIdGrows ==
    ASSUME TypeInv, [Next]_vars
    PROVE  nextId' \in {nextId, nextId + 1}
<1>1. CASE Execute
  BY <1>1 DEF Execute, StartExecute, RecoverPlannedMove, SkipUnready, PlanItem, CheckMove,
     CheckCreateDir, ApplyCreateFile, ApplyCreateDir, ApplyRename, PlanTrash, BackupReadme,
     PlanReadme, WriteReadme, LogExecuted, FinishBatch, MakeTrashDir
<1>2. CASE Manual
  BY <1>2 DEF Manual, StartTrash, CreateEmptyFile, StartRename, WritePlannedJournal
<1>3. CASE Undo
  BY <1>3 DEF Undo, StartUndo, UndoRecorded, UndoSkip, UndoError, UndoPlan, RestoreMoved,
     RemoveCreated, RestoreReadme, LogUndone, FinishUndo
<1>4. CASE Recover \/ Crash \/ GarbledRow \/ User \/ UNCHANGED vars
  BY <1>4 DEF Recover, DumpJournal, ClearJournal, Crash, GarbledRow, User, UserWrite, UserMkdir,
     UserDelete, UserMove, UserChange, vars
<1> QED
  BY <1>1, <1>2, <1>3, <1>4 DEF Next

LEMMA UserDisk ==
    ASSUME TypeInv, User
    PROVE  /\ \A x \in Internal \cup {TrashDir} : disk'[x] = disk[x]
           /\ step \in UserMayActAt /\ step' = step /\ userActs' # userActs
<1>0. /\ disk \in [Loc -> Node] /\ Path \subseteq Loc /\ userActs \in Nat
      /\ Internal \cup {TrashDir} \subseteq Loc /\ Path \cap (Internal \cup {TrashDir}) = {}
  BY PathAssumption, BoundAssumption DEF TypeInv, TypeOK, Loc, Dest
<1>1. ASSUME NEW d, NEW h, UserChange(d, h)
      PROVE  disk' = d /\ step \in UserMayActAt /\ step' = step /\ userActs' # userActs
  BY <1>0, <1>1 DEF UserChange, engineVars
<1>2. ASSUME NEW p \in Path, NEW t \in Data, UserWrite(p, t) PROVE disk' = [disk EXCEPT ![p] = t]
  BY <1>2 DEF UserWrite, UserChange
<1>3. ASSUME NEW p \in Path, UserMkdir(p) \/ UserDelete(p)
      PROVE  \E n : disk' = [disk EXCEPT ![p] = n]
  BY <1>3 DEF UserMkdir, UserDelete, UserChange
<1>4. ASSUME NEW p \in Path, NEW q \in Path, UserMove(p, q) PROVE disk' = Renamed(disk, p, q)
  BY <1>4 DEF UserMove, UserChange
<1>5. \A x \in Internal \cup {TrashDir} : disk'[x] = disk[x]
  BY <1>0, <1>2, <1>3, <1>4 DEF User, Renamed
<1>6. \E d, h : UserChange(d, h)
  BY DEF User, UserWrite, UserMkdir, UserDelete, UserMove
<1> QED
  BY <1>1, <1>5, <1>6

LEMMA SlotsStep ==
    ASSUME TypeInv, RecordInv, SlotsInv, AheadInv, [Next]_vars
    PROVE  SlotsInv'
<1>0. DataFacts /\ nextId' \in {nextId, nextId + 1}
  BY DataFactsHold, NextIdGrows
<1> USE <1>0 DEF DataFacts
<1>d. disk'[TrashDir] \in {"absent", "trash"}
  <2>1. disk[TrashDir] \in {"absent", "trash"}
    BY DEF SlotsInv
  <2>2. CASE User
    BY <2>1, <2>2, UserDisk
  <2>3. ASSUME NEW l \in Loc, disk' = WithParent(l) PROVE disk'[TrashDir] = disk[TrashDir]
    BY <2>3, ParentFacts
  <2>4. ASSUME NEW from \in Loc, NEW to \in Loc \ {TrashDir}, disk' = Renamed(disk, from, to)
        PROVE  disk'[TrashDir] \in {disk[TrashDir], "absent"}
    BY <2>4 DEF Renamed
  <2>5. ASSUME NEW p \in Path, disk' = TrashRenamed(p) PROVE disk'[TrashDir] = "absent"
    BY <2>5, TrashFacts
  <2>6. ASSUME NEW l \in Loc, NEW n, disk' = [disk EXCEPT ![l] = n], l # TrashDir \/ n \in {"absent", "trash"}
        PROVE  disk'[TrashDir] \in {"absent", "trash"}
    BY <2>1, <2>6
  <2>7. step = "checked" => TrashSlot(cur) \in Loc \ {TrashDir}
    BY SlotFacts DEF InBatch
  <2>8. AtItem => {Backup(nextId), Marker(nextId)} \subseteq Loc \ {TrashDir}
    BY SlotFacts
  <2> QED
    BY <2>1, <2>2, <2>3, <2>4, <2>5, <2>6, <2>7, <2>8, EngineDisk
<1> SUFFICES ASSUME NEW id \in OpId, id >= nextId',
                    NEW x \in {TrashSlot(id), Backup(id), Marker(id), Adrift(id)}
             PROVE  disk'[x] = "absent"
  BY <1>d DEF SlotsInv, TrashSlot, Backup, Marker, Adrift
<1>1. id \in Nat /\ id >= nextId /\ disk[x] = "absent" /\ x \in Internal /\ x \in Loc /\ x \notin Path
  BY BoundAssumption DEF SlotsInv, OpId
<1>2. CASE User
  BY <1>1, <1>2, UserDisk
<1>3. CASE UNCHANGED disk
  BY <1>1, <1>3
<1>4. ASSUME NEW l \in Loc, disk' = WithParent(l) PROVE disk'[x] = "absent"
  BY <1>1, <1>4, ParentFacts
<1>5. ASSUME NEW l \in Loc, NEW n, disk' = [disk EXCEPT ![l] = n], l # x \/ n = "absent"
      PROVE  disk'[x] = "absent"
  BY <1>1, <1>5
<1>6. ASSUME NEW from \in Loc, NEW to \in Loc, disk' = Renamed(disk, from, to), to # x
      PROVE  disk'[x] = "absent"
  BY <1>1, <1>6 DEF Renamed
<1>t. ASSUME NEW p \in Path, disk' = TrashRenamed(p) PROVE disk'[x] = "absent"
  <2>1. \A y \in {TrashSlot(id), Backup(id), Marker(id), Adrift(id)} : disk[y] = "absent"
    BY <1>1 DEF SlotsInv
  <2> QED
    BY <1>t, <2>1, TrashFacts
<1>7. step \in InBatch => TrashSlot(cur) # x /\ TrashSlot(cur) \in Loc
  <2>1. step \in InBatch => cur \in OpId /\ cur # id
    BY <1>1 DEF OpId
  <2>2. ASSUME NEW k, k # id PROVE TrashSlot(k) # TrashSlot(id)
    BY <2>2 DEF TrashSlot
  <2>3. ASSUME NEW k PROVE TrashSlot(k) # Backup(id) /\ TrashSlot(k) # Marker(id) /\ TrashSlot(k) # Adrift(id)
    BY DEF TrashSlot, Backup, Marker, Adrift
  <2> QED
    BY <2>1, <2>2, <2>3, SlotFacts
<1>8. nextId' = nextId + 1 => x \notin {Backup(nextId), Marker(nextId)}
  <2>1. nextId' = nextId + 1 => id # nextId
    BY <1>1
  <2> QED
    BY <2>1 DEF TrashSlot, Backup, Marker, Adrift
<1>9. AtItem => Backup(nextId) \in Loc /\ Marker(nextId) \in Loc
  BY SlotFacts
<1> QED
  BY <1>1, <1>2, <1>3, <1>4, <1>5, <1>6, <1>7, <1>8, <1>9, <1>t, EngineDisk DEF InBatch

LEMMA DataStep ==
    ASSUME TypeInv, RecordInv, SlotsInv, AdriftInv, AheadInv, [Next]_vars
    PROVE  userActs' = userActs /\ ~RestoringReadme => Stored(disk) \subseteq Stored(disk')
<1>0. DataFacts
  BY DataFactsHold
<1> USE <1>0 DEF DataFacts
<1> SUFFICES ASSUME userActs' = userActs, ~RestoringReadme PROVE Stored(disk) \subseteq Stored(disk')
  OBVIOUS
<1>1. ~User
  BY UserDisk
<1>2. CASE UNCHANGED disk
  BY <1>2
<1>3. ASSUME NEW l \in Loc, disk' = WithParent(l), ParentCreatable(l) PROVE Stored(disk) \subseteq Stored(disk')
  BY <1>3, ParentFacts
<1>4. ASSUME NEW l \in Loc, NEW n, disk' = [disk EXCEPT ![l] = n], disk[l] \notin Data
      PROVE  Stored(disk) \subseteq Stored(disk')
  BY <1>4, StoredFacts
<1>5. ASSUME NEW from \in Loc, NEW to \in Loc, disk' = Renamed(disk, from, to), disk[to] = "absent"
      PROVE  Stored(disk) \subseteq Stored(disk')
  BY <1>5, StoredFacts, DataAssumption
<1>6. ASSUME disk' = [disk EXCEPT ![Readme] = "generated"], step \in InBatch,
             disk[Readme] \in Data => disk[Backup(cur)] = disk[Readme]
      PROVE  Stored(disk) \subseteq Stored(disk')
  <2>1. CASE disk[Readme] \notin Data
    BY <1>6, <2>1, StoredFacts
  <2>2. CASE disk[Readme] \in Data
    <3>1. Backup(cur) \in Loc /\ Readme # Backup(cur)
      BY <1>6
    <3> QED
      BY <1>6, <2>2, <3>1, StoredFacts
  <2> QED
    BY <2>1, <2>2
<1>7. "absent" \notin Data /\ (step \in InBatch => TrashSlot(cur) \in Loc)
      /\ (AtItem => Backup(nextId) \in Loc /\ Marker(nextId) \in Loc)
      /\ (step = "checked" => step \in InBatch) /\ disk[TrashDir] \notin Data
  BY DataAssumption DEF InBatch, SlotsInv
<1>8. ASSUME NEW to \in Path, disk' = TrashRenamed(to), disk[to] = "absent"
      PROVE  Stored(disk) \subseteq Stored(disk')
  <2> SUFFICES ASSUME NEW x \in Loc, disk[x] \in Data PROVE \E y \in Loc : disk'[y] = disk[x]
    BY DEF Stored
  <2>1. CASE x \in Path
    BY <1>7, <1>8, <2>1, TrashFacts
  <2>2. ASSUME NEW id \in OpId, x = TrashSlot(id) PROVE disk'[Adrift(id)] = disk[x] /\ Adrift(id) \in Loc
    BY <1>7, <1>8, <2>2, TrashFacts
  <2>3. ASSUME NEW id \in OpId, x = Adrift(id) PROVE disk'[x] = disk[x]
    BY <1>7, <1>8, <2>3, TrashFacts DEF AdriftInv
  <2>4. ASSUME NEW id \in OpId, x = Backup(id) \/ x = Marker(id) PROVE disk'[x] = disk[x]
    BY <1>8, <2>4, TrashFacts
  <2>5. x \in Path \/ \E id \in OpId : x \in {TrashSlot(id), Adrift(id), Backup(id), Marker(id)}
    BY <1>7 DEF Loc, Dest, Internal, TrashSlot, Adrift, Backup, Marker
  <2> QED
    BY <2>1, <2>2, <2>3, <2>4, <2>5
<1> QED
  BY <1>1, <1>2, <1>3, <1>4, <1>5, <1>6, <1>7, <1>8, EngineDisk

LEMMA AdriftStep ==
    ASSUME TypeInv, RecordInv, SlotsInv, AdriftInv, AheadInv, [Next]_vars
    PROVE  AdriftInv'
<1>0. DataFacts
  BY DataFactsHold
<1>c. (call = "none" => pos = 1 /\ step = "idle") /\ (step = "backed" => Item.action = "readme_write")
  BY DEF TypeInv, TypeOK, CallShape
<1> USE <1>0 DEF DataFacts
<1>1. ASSUME NEW id \in OpId
      PROVE  disk'[Adrift(id)] = "absent" \/ disk'[TrashSlot(id)] = "absent"
  <2>0. /\ Adrift(id) \in Loc \ Path /\ TrashSlot(id) \in Loc \ Path /\ Adrift(id) \in Internal
        /\ TrashSlot(id) \in Internal /\ Adrift(id) # TrashDir /\ TrashSlot(id) # TrashDir
        /\ (disk[Adrift(id)] = "absent" \/ disk[TrashSlot(id)] = "absent")
    BY DEF AdriftInv
  <2>1. CASE User
    BY <2>0, <2>1, UserDisk
  <2>2. ASSUME NEW l \in Loc, disk' = WithParent(l)
        PROVE  disk'[Adrift(id)] = disk[Adrift(id)] /\ disk'[TrashSlot(id)] = disk[TrashSlot(id)]
    BY <2>0, <2>2, ParentFacts
  <2>3. ASSUME NEW l \in Loc, NEW n, disk' = [disk EXCEPT ![l] = n],
               (l # Adrift(id) /\ l # TrashSlot(id)) \/ n = "absent"
        PROVE  disk'[Adrift(id)] = "absent" \/ disk'[TrashSlot(id)] = "absent"
    BY <2>0, <2>3
  <2>4. ASSUME NEW from \in Loc, NEW to \in Loc, disk' = Renamed(disk, from, to),
               to # Adrift(id) /\ to # TrashSlot(id)
        PROVE  disk'[Adrift(id)] = "absent" \/ disk'[TrashSlot(id)] = "absent"
    BY <2>0, <2>4 DEF Renamed
  <2>5. ASSUME NEW from \in Path, disk' = Renamed(disk, from, TrashSlot(cur)), step = "checked",
               Item.action = "trash"
        PROVE  disk'[Adrift(id)] = "absent" \/ disk'[TrashSlot(id)] = "absent"
    <3>1. cur \in OpId /\ disk[Adrift(cur)] = "absent" /\ TrashSlot(cur) \in Loc
      BY <2>5 DEF AdriftInv, InBatch
    <3>2. Adrift(id) # TrashSlot(cur) /\ (id # cur => TrashSlot(id) # TrashSlot(cur))
      BY DEF Adrift, TrashSlot
    <3>3. CASE id = cur
      BY <2>0, <2>5, <3>1, <3>2, <3>3 DEF Renamed
    <3>4. CASE id # cur
      BY <2>4, <2>5, <3>1, <3>2, <3>4
    <3> QED
      BY <3>3, <3>4
  <2>6. ASSUME NEW to \in Path, disk' = TrashRenamed(to) PROVE disk'[TrashSlot(id)] = "absent"
    BY <2>6, TrashFacts
  <2>7. AtItem => /\ {Backup(nextId), Marker(nextId)} \subseteq Loc
                  /\ {Backup(nextId), Marker(nextId)} \cap {Adrift(id), TrashSlot(id)} = {}
    <3>1. Backup(nextId) # Adrift(id) /\ Backup(nextId) # TrashSlot(id)
          /\ Marker(nextId) # Adrift(id) /\ Marker(nextId) # TrashSlot(id)
      BY DEF Backup, Marker, Adrift, TrashSlot
    <3> QED
      BY <3>1, SlotFacts
  <2>8. CASE UNCHANGED disk
    BY <2>0, <2>8
  <2> QED
    BY <2>0, <2>1, <2>2, <2>3, <2>4, <2>5, <2>6, <2>7, <2>8, EngineDisk
<1>2. ASSUME step' \in {"planned", "checked"}, Item'.action = "trash"
      PROVE  disk'[TrashSlot(cur')] = "absent" /\ disk'[Adrift(cur')] = "absent"
  <2>1. CASE Kept
    <3>1. step' = step /\ cur' = cur /\ Item' = Item
      BY <2>1 DEF Kept, engineVars, Item
    <3>2. disk[TrashSlot(cur)] = "absent" /\ disk[Adrift(cur)] = "absent" /\ cur \in OpId
      BY <1>2, <3>1 DEF AdriftInv, InBatch
    <3>3. User \/ UNCHANGED disk
      BY <1>2, <1>c, <2>1, <3>1 DEF Kept
    <3> QED
      BY <3>1, <3>2, <3>3, UserDisk
  <2>2. CASE MakeTrashDir /\ ToChecked("trash")
    <3>1. disk' = [disk EXCEPT ![TrashDir] = "trash"] /\ cur' = cur /\ step = "planned" /\ Item.action = "trash"
      BY <2>2 DEF MakeTrashDir, ToChecked
    <3>2. disk[TrashSlot(cur)] = "absent" /\ disk[Adrift(cur)] = "absent" /\ cur \in OpId
      BY <3>1 DEF AdriftInv, InBatch
    <3> QED
      BY <3>1, <3>2
  <2>3. CASE (PlanTrash /\ ToStep("planned")) \/ \E p \in Path : StartTrash(p)
    <3>1. cur' = nextId /\ disk' = disk
      BY <2>3 DEF PlanTrash, StartTrash, ToStep, Return
    <3>2. nextId \in OpId
      BY <2>3, BoundAssumption DEF PlanTrash, StartTrash, OpId, TypeInv, TypeOK
    <3> QED
      BY <3>1, <3>2 DEF SlotsInv
  <2>4. CASE PlanItem \/ PlanReadme \/ (CheckMove /\ ToChecked("move")) \/ ToChecked("create_dir")
    BY <1>2, <1>c, <2>4 DEF PlanItem, PlanReadme, ToChecked, ToStep, Item
  <2>5. ASSUME NEW r \in Renames, StartRename(r[1], r[2]) PROVE FALSE
    BY <1>2, <1>c, <2>5 DEF StartRename, OneItem, Item
  <2>6. \/ Kept \/ (MakeTrashDir /\ ToChecked("trash")) \/ (PlanTrash /\ ToStep("planned"))
        \/ (\E p \in Path : StartTrash(p)) \/ (\E r \in Renames : StartRename(r[1], r[2]))
        \/ PlanItem \/ PlanReadme \/ (CheckMove /\ ToChecked("move")) \/ ToChecked("create_dir")
    BY <1>2, Kinds DEF Return, NextItem, ToStep, StartExecute, DumpJournal, StartUndo, NextRow, UndoPlan
  <2> QED
    BY <2>1, <2>2, <2>3, <2>4, <2>5, <2>6
<1> QED
  BY <1>1, <1>2 DEF AdriftInv

LEMMA AheadStep ==
    ASSUME StaysOut, TypeInv, RecordInv, SlotsInv, AdriftInv, AheadInv, [Next]_vars
    PROVE  AheadInv'
<1>0. DataFacts
  BY DataFactsHold
<1>c. (call = "none" => pos = 1 /\ step = "idle") /\ cur \in 0..MaxOp
  BY DEF TypeInv, TypeOK, CallShape
<1> USE <1>0 DEF DataFacts
<1>1. ASSUME step' \notin {"backed", "checked", "undo_planned"} PROVE AheadInv'
  BY <1>1 DEF AheadInv
<1>2. CASE Kept
  <2>1. CASE call = "none"
    BY <1>1, <1>2, <1>c, <2>1 DEF Kept, engineVars
  <2>2. CASE User
    BY <1>1, <2>2, UserDisk DEF StaysOut
  <2>3. CASE UNCHANGED <<disk, journal>>
    BY <1>2, <2>3 DEF Kept, engineVars, AheadInv, Item, Target, URow, TrashSlot, Backup
  <2> QED
    BY <1>2, <2>1, <2>2, <2>3 DEF Kept
<1>3. CASE BackupReadme /\ ToStep("backed")
  <2>1. /\ AtItem /\ Item.action = "readme_write" /\ Item' = Item /\ cur' = nextId /\ step' = "backed"
        /\ disk' = IF Exists(Readme) THEN [disk EXCEPT ![Backup(nextId)] = disk[Readme]]
                   ELSE [disk EXCEPT ![Marker(nextId)] = "empty"]
    BY <1>3 DEF BackupReadme, ToStep, Return, Item
  <2>2. Backup(nextId) \in Loc /\ Readme # Backup(nextId) /\ Marker(nextId) \in Loc /\ Readme # Marker(nextId)
    BY <2>1
  <2>3. disk'[Readme] \in Data => disk'[Backup(nextId)] = disk'[Readme]
    BY <2>1, <2>2, DataAssumption DEF Exists
  <2>4. Backup(cur') = Backup(nextId)
    BY <2>1
  <2> QED
    BY <2>1, <2>3, <2>4 DEF AheadInv
<1>4. CASE PlanReadme
  <2>1. step = "backed" /\ Item.action = "readme_write" /\ Item' = Item /\ cur' = cur /\ disk' = disk
        /\ step' = "checked"
    BY <1>4 DEF PlanReadme, ToStep, Item, TypeInv, CallShape
  <2> QED
    BY <2>1 DEF AheadInv, Backup
<1>5. CASE MakeTrashDir /\ ToChecked("trash")
  <2>1. /\ step = "planned" /\ Item' = Item /\ cur' = cur /\ Item.action = "trash" /\ step' = "checked"
        /\ disk' = [disk EXCEPT ![TrashDir] = "trash"]
    BY <1>5 DEF MakeTrashDir, ToChecked, ToStep, Item
  <2>2. disk[TrashSlot(cur)] = "absent" /\ cur \in OpId /\ Target' = TrashSlot(cur)
    BY <2>1 DEF AdriftInv, InBatch, Target, TrashSlot
  <2> QED
    BY <2>1, <2>2 DEF AheadInv
<1>7. ASSUME NEW p, NEW q, StartRename(p, q) PROVE AheadInv'
  <2>1. /\ batch' = OneItem("move", p, q) /\ pos' = 1 /\ disk' = disk /\ step' = "checked"
        /\ disk[q] = "absent"
    BY <1>7, <1>c DEF StartRename, Exists
  <2>2. Item'.action = "move" /\ Item'.to = q
    BY <2>1 DEF Item, OneItem
  <2>3. Target' = q
    BY <2>2 DEF Target
  <2> QED
    BY <2>1, <2>2, <2>3 DEF AheadInv
<1>8. CASE CheckMove /\ ToChecked("move")
  <2>1. /\ Item' = Item /\ Item.action = "move" /\ step' = "checked" /\ step \in InBatch
    BY <1>8 DEF ToChecked, ToStep, Item, InBatch
  <2>2. disk' = WithParent(Item.to) /\ disk[Item.to] = "absent"
    BY <1>8 DEF CheckMove, ToChecked, ToStep, NextItem, Return, Exists
  <2>3. disk'[Item.to] = "absent" /\ Target' = Item.to
    BY <2>1, <2>2, ParentFacts DEF Target
  <2> QED
    BY <2>1, <2>3 DEF AheadInv
<1>9. CASE ToChecked("create_dir")
  BY <1>9 DEF ToChecked, ToStep, Item, AheadInv
<1>10. CASE UndoPlan
  <2>1. /\ AtRow /\ LogUndo("undo_planned") /\ pos' = pos /\ step' = "undo_planned"
        /\ UndoVerdict(URow) = "plan"
        /\ disk' = IF URow.action \in {"move", "trash"} THEN WithParent(URow.from) ELSE disk
    BY <1>10 DEF UndoPlan, ToStep
  <2>2. URow' = URow
    <3>1. PICK r : journal' = Append(journal, r)
      BY <2>1 DEF LogUndo, Log
    <3>2. InUndo
      BY <2>1
    <3> QED
      BY <2>1, <3>1, <3>2, AppendRows DEF URow, InUndo
  <2>3. URow.action \in {"move", "trash"} => disk'[URow.from] = "absent"
    <3>1. URow.action \in {"move", "trash"} => disk[URow.from] = "absent"
      BY <2>1 DEF UndoVerdict, Exists
    <3> QED
      BY <2>1, <3>1, ParentFacts
  <2>4. URow.action = "create_file" => disk'[URow.to] \notin Data
    BY <2>1, DataAssumption DEF UndoVerdict, Exists
  <2> QED
    BY <2>1, <2>2, <2>3, <2>4 DEF AheadInv
<1>11. \/ step' \notin {"backed", "checked", "undo_planned"}
       \/ Kept \/ (BackupReadme /\ ToStep("backed")) \/ PlanReadme
       \/ (MakeTrashDir /\ ToChecked("trash")) \/ (\E p, q : StartRename(p, q))
       \/ (CheckMove /\ ToChecked("move")) \/ ToChecked("create_dir") \/ UndoPlan
  BY Kinds DEF Return, NextItem, ToStep, StartExecute, DumpJournal, StartUndo, StartTrash, NextRow, PlanItem
<1> QED
  BY <1>1, <1>2, <1>3, <1>4, <1>5, <1>7, <1>8, <1>9, <1>10, <1>11

\* No step of the engine loses a user's file, in every folder, for every batch, crash and undo
\* (docs/FILE_ENGINE_CLI.md, "Existing destination files are not overwritten"), as long as other
\* programs keep out of the three windows between a check and its effect: execute_move's check of
\* the destination and fs::rename, the backup and the write of README.md, undo's check and rename.
THEOREM DataIsKept ==
    ASSUME StaysOut
    PROVE  Spec => NoDataLost
<1> DEFINE IInv == SlotsInv /\ AdriftInv /\ AheadInv
<1>1. Init => IInv
  <2> SUFFICES ASSUME Init PROVE IInv
    OBVIOUS
  <2>1. \A id \in OpId : {TrashSlot(id), Backup(id), Marker(id), Adrift(id)} \subseteq Loc \ Path
    BY PathAssumption DEF TrashSlot, Backup, Marker, Adrift, Internal, Loc, Dest
  <2>2. TrashDir \in Loc \ Path
    BY PathAssumption DEF Loc, Dest
  <2>3. step = "idle" /\ \A x \in Loc \ Path : disk[x] = "absent"
    BY DEF Init
  <2> QED
    BY <2>1, <2>2, <2>3 DEF SlotsInv, AdriftInv, AheadInv
<1>2. TypeInv /\ RecordInv /\ IInv /\ [Next]_vars => IInv'
  BY SlotsStep, AdriftStep, AheadStep
<1>3. TypeInv /\ RecordInv /\ IInv /\ [Next]_vars =>
        [userActs' = userActs /\ ~RestoringReadme => Stored(disk) \subseteq Stored(disk')]_vars
  BY DataStep
<1> QED
  BY <1>1, <1>2, <1>3, AlwaysRecordInv, PTL DEF Spec, NoDataLost

-----------------------------------------------------------------------------
(* What History shows.                                                     *)

\* A README write that was carried out can be taken back: its backup, or the
\* marker that there was no README.md, is there.
HasBackup(id) == Exists(Backup(id)) \/ Exists(Marker(id))
BackedInv ==
    /\ \A r \in Rows : r.status = "executed" /\ r.action = "readme_write" => HasBackup(r.id)
    /\ step \in InBatch /\ Item.action = "readme_write" => HasBackup(cur)

\* No step removes a backup or a marker.
LEMMA BackupsStay ==
    ASSUME TypeInv, RecordInv, [Next]_vars, NEW id \in OpId, HasBackup(id)
    PROVE  HasBackup(id)'
<1>0. /\ disk \in [Loc -> Node] /\ "absent" \notin Data
      /\ Backup(id) \in Loc /\ Marker(id) \in Loc
      /\ Backup(id) \in Internal /\ Marker(id) \in Internal
      /\ Backup(id) \notin Places \cup {TrashDir} /\ Marker(id) \notin Places \cup {TrashDir}
      /\ Path \subseteq Places /\ Places \cup {TrashDir} \subseteq Loc /\ Readme \in Places
  BY PathAssumption, DataAssumption, SlotFacts
     DEF TypeInv, TypeOK, Backup, Marker, Internal, Places, TrashDir, Loc, Dest
<1> SUFFICES ASSUME NEW x \in {Backup(id), Marker(id)}, disk[x] # "absent" PROVE disk'[x] # "absent"
  BY DEF HasBackup, Exists
<1>1. CASE User
  BY <1>0, <1>1, UserDisk
<1>2. CASE PutsNoData
  BY <1>0, <1>2 DEF PutsNoData
<1>3. CASE MovesNamed
  BY <1>0, <1>3 DEF MovesNamed, Renamed
<1>4. CASE MovesTrash
  BY <1>0, <1>4, TrashFacts DEF MovesTrash
<1>5. CASE BacksUp
  BY <1>0, <1>5, SlotFacts DEF BacksUp
<1>6. CASE RestoresReadme
  BY <1>0, <1>6 DEF RestoresReadme
<1>7. ASSUME NEW l \in Loc, disk' = WithParent(l) PROVE disk'[x] # "absent"
  BY <1>0, <1>7, ParentFacts
<1> QED
  BY <1>1, <1>2, <1>3, <1>4, <1>5, <1>6, <1>7, DiskKinds

LEMMA BackedStep ==
    ASSUME TypeInv, RecordInv, BackedInv, [Next]_vars
    PROVE  BackedInv'
<1>0. DataFacts /\ \A r \in Rows : r.id \in OpId
  <2>1. \A r \in Rows : r \in Row
    BY DEF TypeInv, TypeOK, Rows
  <2> QED
    BY <2>1, DataFactsHold DEF Row
<1>c. call = "none" => pos = 1 /\ step = "idle"
  BY DEF TypeInv, TypeOK, CallShape
<1> USE <1>0 DEF DataFacts
<1>1. ASSUME NEW r \in Rows', r.status = "executed", r.action = "readme_write" PROVE HasBackup(r.id)'
  <2>1. CASE UNCHANGED journal
    BY <1>1, <2>1, BackupsStay DEF BackedInv, Rows
  <2>2. CASE Appended
    <3>1. PICK a : journal' = Append(journal, a) /\ Earned(a)
      BY <2>2 DEF Appended
    <3>2. Rows' = Rows \cup {a}
      BY <3>1, AppendRows
    <3>3. CASE r \in Rows
      BY <1>1, <3>3, BackupsStay DEF BackedInv
    <3>4. CASE r = a
      BY <1>1, <3>1, <3>4, BackupsStay DEF BackedInv, Earned
    <3> QED
      BY <3>2, <3>3, <3>4
  <2>3. CASE journal' = <<>>
    BY <1>1, <2>3 DEF Rows
  <2> QED
    BY <2>1, <2>2, <2>3, JournalMoves DEF RecordInv
<1>2. ASSUME step' \in InBatch, Item'.action = "readme_write"
      PROVE  disk'[Backup(cur')] # "absent" \/ disk'[Marker(cur')] # "absent"
  <2>1. CASE /\ step \in InBatch /\ step' \in InBatch /\ UNCHANGED <<cur, batch, pos>>
    <3>1. HasBackup(cur) /\ cur \in OpId
      BY <1>2, <2>1 DEF BackedInv, Item
    <3>2. PICK k \in OpId : k = cur
      BY <3>1
    <3>3. HasBackup(k)
      BY <3>1, <3>2
    <3>4. HasBackup(k)'
      BY <3>3, BackupsStay
    <3>5. cur' = k
      BY <2>1, <3>2
    <3> QED
      BY <3>4, <3>5 DEF HasBackup, Exists
  <2>2. CASE BackupReadme /\ ToStep("backed")
    <3>1. /\ AtItem /\ cur' = nextId
          /\ \/ Exists(Readme) /\ disk' = [disk EXCEPT ![Backup(nextId)] = disk[Readme]]
             \/ disk' = [disk EXCEPT ![Marker(nextId)] = "empty"]
      BY <2>2 DEF BackupReadme, ToStep, Return
    <3>2. disk'[Backup(nextId)] # "absent" \/ disk'[Marker(nextId)] # "absent"
      BY <3>1, SlotFacts DEF Exists
    <3> QED
      BY <3>1, <3>2
  <2>3. CASE (PlanTrash /\ ToStep("planned")) \/ PlanItem
    BY <1>2, <2>3 DEF PlanTrash, PlanItem, ToStep, Item
  <2>4. ASSUME NEW p, StartTrash(p) PROVE FALSE
    BY <1>2, <1>c, <2>4 DEF StartTrash, OneItem, Item
  <2>5. ASSUME NEW p, NEW q, StartRename(p, q) PROVE FALSE
    BY <1>2, <1>c, <2>5 DEF StartRename, OneItem, Item
  <2>6. \/ step \in InBatch /\ step' \in InBatch /\ UNCHANGED <<cur, batch, pos>>
        \/ BackupReadme /\ ToStep("backed")
        \/ (PlanTrash /\ ToStep("planned")) \/ PlanItem
        \/ (\E p : StartTrash(p)) \/ (\E p, q : StartRename(p, q))
    <3>1. CASE Kept
      BY <1>2, <3>1 DEF Kept, engineVars
    <3>2. CASE PlanReadme \/ ToChecked("move") \/ ToChecked("create_dir") \/ ToChecked("trash")
      BY <1>2, <3>2 DEF PlanReadme, ToChecked, ToStep, InBatch
    <3>3. CASE ToStep("changed") /\ step \in InBatch /\ UNCHANGED cur
      BY <1>2, <3>3 DEF ToStep
    <3> QED
      BY <1>2, <3>1, <3>2, <3>3, Kinds DEF Return, NextItem, ToStep, StartExecute, DumpJournal,
         StartUndo, NextRow, UndoPlan, InBatch
  <2> QED
    BY <2>1, <2>2, <2>3, <2>4, <2>5, <2>6
<1> QED
  BY <1>1, <1>2 DEF BackedInv, HasBackup, Exists

\* What read_operation_history shows is what undo_operation does, in every folder and after every
\* sequence of calls, crashes and changes by other programs: an executed operation whose undo was
\* not begun is shown as undoable only if undo takes it back, and undo takes back none that is
\* shown otherwise, except where a file or directory that History does not look at stands in the
\* way (Unforeseen).
THEOREM HistoryAlwaysMirrorsUndo == Spec => []HistoryMirrorsUndo
<1>1. TypeInv /\ BackedInv => HistoryMirrorsUndo
  <2> SUFFICES ASSUME TypeInv, BackedInv, NEW r \in Offered
               PROVE  /\ HistoryCanUndo(r) /\ ~Unforeseen(r) => r.id \in Undoable /\ UndoWorks(r)
                      /\ ~HistoryCanUndo(r) => r.id \notin Undoable \/ ~UndoWorks(r)
    BY DEF HistoryMirrorsUndo
  <2>0. /\ r \in Rows /\ r.status = "executed" /\ r.id \notin IdsWith(Len(journal), {"undo_planned"})
        /\ r.action \in Action
    <3>1. r \in Rows /\ r.status = "executed" /\ r.id \notin IdsWith(Len(journal), {"undo_planned"})
      BY DEF Offered
    <3>2. r \in Row
      BY <3>1 DEF TypeInv, TypeOK, Rows
    <3> QED
      BY <3>1, <3>2 DEF Row
  <2>1. r.id \in IdsWith(Len(journal), {"executed"})
    BY <2>0 DEF Rows, IdsWith
  <2>2. r.id \in Undoable <=> r.id \notin IdsWith(Len(journal), {"undo_planned", "undone"})
    BY <2>0, <2>1 DEF Undoable, IdsWith
  <2> DEFINE shown == CASE r.action = "create_dir" ->
                              Exists(r.to) => disk[r.to] = "dir" /\ Children(r.to) = {}
                        [] r.action = "create_file" -> Exists(r.to) => disk[r.to] = "empty"
                        [] r.action = "readme_write" -> TRUE
                        [] OTHER -> Exists(r.from) # Exists(r.to)
  <2>3. HistoryCanUndo(r) <=> r.id \in Undoable /\ shown
    BY <2>2 DEF HistoryCanUndo
  <2>4. r.action = "readme_write" => HasBackup(r.id)
    BY <2>0 DEF BackedInv
  <2>5. shown /\ ~Unforeseen(r) => UndoWorks(r)
    BY <2>0, <2>4 DEF UndoWorks, UndoVerdict, Unforeseen, HasBackup, Exists, Action
  <2>6. ~shown => ~UndoWorks(r)
    BY <2>0 DEF UndoWorks, UndoVerdict, Exists, Action
  <2> HIDE DEF shown
  <2> QED
    BY <2>3, <2>5, <2>6
<1>2. Init => BackedInv
  BY DEF Init, BackedInv, Rows, InBatch
<1>3. TypeInv /\ RecordInv /\ BackedInv /\ [Next]_vars => BackedInv'
  BY BackedStep
<1> QED
  BY <1>1, <1>2, <1>3, AlwaysRecordInv, PTL DEF Spec

====
