-------------------------- MODULE SmartCacheProofs --------------------------
(***************************************************************************)
(* Proofs about module SmartCache, for any files, versions, policies and   *)
(* numbers of reservations, uploads and faults: what the phone can         *)
(* download is in the store and nobody is going to delete it; copies and   *)
(* reservations keep the quota but for the completions that no sum has     *)
(* counted; and a copy of an overwritten version is presented as current   *)
(* only while its mark is on its way, when the edit came before the        *)
(* completion, or when its mark was lost with the watcher.                 *)
(*                                                                         *)
(* The inductive invariant has four parts.  BackedInv: a version is        *)
(* reserved once, so that a row, its reservation and its object belong     *)
(* together for good; a completion that has passed its check holds its     *)
(* reservation; and what is sent was uploaded.  WatchInv: a new mark is    *)
(* not the one in hand.  ReportInv: a mark that was accepted left no copy  *)
(* it covers current, but for the edits that have a mark of their own or   *)
(* are with the watcher.  QuotaInv: the copies that submit or updatePolicy *)
(* did not sum are completions that are recorded.  What submit's loop      *)
(* leaves is proved by induction over its turns.                           *)
(***************************************************************************)
EXTENDS SmartCache, WellFoundedInduction, FiniteSetTheorems, SequenceTheorems, TLAPS

Candidate == [path : Paths, version : Versions, score : Nat, pin : BOOLEAN]
OnePerPath(B) == \A a, b \in B : a.path = b.path => a = b
Batches == {B \in SUBSET Candidate : IsFiniteSet(B) /\ OnePerPath(B)}
Statuses == {"RESERVED", "COMPLETED", "CANCELLED", "EXPIRED"}
Row == [path : Paths, version : Versions, batch : Batches, status : Statuses]
CachedRow ==
    [status : {"NONE", "AVAILABLE", "INVALIDATED"}, fresh : {"", "VERIFIED_CURRENT", "STALE"},
     key : Nat, upload : Contents, score : Nat, pin : BOOLEAN]
Item ==
    [kind : {"none", "completion", "stale"}, path : Paths \cup {0}, id : Nat, upload : Contents,
     score : Nat, pin : BOOLEAN]
PassRecord ==
    [pc : {"idle", "send", "submit", "check", "put", "recheck", "enqueue", "complete", "commit", "cancel"},
     batch : Batches, used : Nat, counted : SUBSET Nat, todo : SUBSET Nat, upload : Contents]
FlushRecord == [pc : {"idle", "commit", "mark"}, item : Item, answer : {"", "accept", "reject", "retry"}]

\* Types, tighter than TypeOK where the steps need it.
TypeInv ==
    /\ file \in [Paths -> Versions \cup {Removed}] /\ score \in [Paths -> Nat]
    /\ preference \in [Paths -> SUBSET Preferences]
    /\ reservations \in Seq(Row) /\ objects \in Seq(Contents) /\ Len(objects) = Len(reservations)
    /\ late \subseteq Ids /\ doomed \subseteq Ids /\ queued \subseteq Ids
    /\ cached \in [Files -> CachedRow] /\ room \in BOOLEAN
    /\ pass \in PassRecord /\ pass.todo \subseteq Ids /\ (pass.pc \in {"idle", "send", "submit"} <=> pass.todo = {})
    /\ outbox \subseteq Item /\ flush \in FlushRecord
    /\ nonces \in 0..MaxUploads /\ faults \in 0..MaxFaults

\* An item that can be sent: a completion is of a reservation with its path; a mark is of a
\* file or of the room.
SendableItem(i) ==
    \/ i.kind = "completion" /\ i.id \in Ids /\ i.path = reservations[i.id].path
    \/ i.kind = "stale" /\ i.path \in Paths \cup {WholeRoom}
ItemInv ==
    /\ \A i \in outbox : SendableItem(i)
    /\ \/ flush.pc = "idle" /\ flush.item = NoItem
       \/ flush.pc \in {"commit", "mark"} /\ SendableItem(flush.item)
    /\ flush.pc = "commit" => flush.item.kind = "completion"

\* The reservations: one of a version of a file; a row belongs to a completed one, and so does
\* an object that is to be deleted after use.
Completed == {r \in Ids : reservations[r].status = "COMPLETED"}
ReservationInv ==
    /\ \A r, q \in Ids : FileOf(r) = FileOf(q) => r = q
    /\ \A r \in Ids : \E c \in reservations[r].batch : c.path = reservations[r].path
    /\ \A f \in Files : \/ cached[f] = NoFile
                        \/ /\ cached[f].status # "NONE" /\ cached[f].fresh # ""
                           /\ cached[f].key \in Completed /\ FileOf(cached[f].key) = f
    /\ doomed \subseteq Completed

\* A completion that has begun holds a reservation that nobody else changes, and the room.
CommitInv ==
    /\ pass.pc = "commit" => reservations[Now].status = "RESERVED" /\ ~FlushHolds(Now)
    /\ flush.pc = "commit" => reservations[flush.item.id].status = "RESERVED"
    /\ ~room => AvailableFiles = {} /\ pass.pc \notin {"submit", "commit"} /\ flush.pc # "commit"

\* What a completion is sent for was uploaded, and is there unless it may not be completed.
Uploaded(r) == objects[r] # NoUpload \/ reservations[r].status \in {"CANCELLED", "EXPIRED"} \/ r \in doomed
UploadInv ==
    /\ \A i \in outbox \cup {flush.item} : i.kind = "completion" => Uploaded(i.id)
    /\ pass.pc \in {"recheck", "enqueue", "complete", "commit"} => Uploaded(Now)

BackedInv == TypeInv /\ ItemInv /\ ReservationInv /\ CommitInv /\ UploadInv /\ AvailableIsBacked

\* A copy that is presented as current and is not.
Unmarked(f) == f \in AvailableFiles /\ cached[f].fresh = "VERIFIED_CURRENT" /\ file[f[1]] # f[2]
Marked(f) == \E i \in outbox : Covers(i, f[1])
\* Its mark is not queued yet or will never be, or the edit came before the completion.
Excused(f) == f[1] \in pending \cup change \cup lost \/ cached[f].key \in overtaken
MarkInv ==
    flush.pc = "mark" /\ flush.item.kind = "stale" =>
        \/ flush.answer = "retry"
        \/ flush.answer = "reject" /\ ~room
        \/ flush.answer = "accept" /\
           \A f \in Files : Covers(flush.item, f[1]) /\ Unmarked(f) =>
              (\E i \in outbox : i # flush.item /\ Covers(i, f[1])) \/ Excused(f)

\* The watcher's files, and marks that are numbered in order.
WatchInv ==
    /\ watching \in BOOLEAN /\ marks \in Nat
    /\ pending \subseteq Paths /\ change \subseteq Paths /\ lost \subseteq Paths
    /\ \A i \in outbox \cup {flush.item} : i.kind = "stale" => i.id \in 0..marks

\* The copies that submit, or updatePolicy, has not summed are the completions recorded since; one of the
\* two has the advisory lock.
CountInv ==
    /\ uncounted \subseteq Completed /\ pass.counted \subseteq uncounted
    /\ pass.pc # "submit" => pass.counted = {}
    /\ pass.pc = "submit" => Cardinality(AvailableFiles) <= pass.used + Cardinality(uncounted \ pass.counted)
SettingRecord == [open : BOOLEAN, used : Nat, counted : SUBSET Nat]
SettingInv ==
    /\ policy \in Policies /\ setting \in SettingRecord /\ setting.counted \subseteq uncounted
    /\ ~setting.open => setting.counted = {}
    /\ setting.open => /\ pass.pc # "submit"
                       /\ Cardinality(AvailableFiles) <= setting.used + Cardinality(uncounted \ setting.counted)
-----------------------------------------------------------------------------
(* Numbers, induction and the first of a finite set.                       *)

\* A set of numbers has a least one.
LEMMA LeastNatural ==
    ASSUME NEW T \in SUBSET Nat, T # {}
    PROVE  \E x \in T : \A y \in T : x <= y
<1> DEFINE R == OpToRel(<, Nat)
<1>1. IsWellFoundedOn(R, Nat)
  BY NatLessThanWellFounded
<1>2. \A a, b \in Nat : <<a, b>> \in R <=> a < b
  BY DEF OpToRel
<1> HIDE DEF R
<1>3. PICK x \in T : \A y \in T : ~ (<<y, x>> \in R)
  BY <1>1, WFMin
<1>4. ASSUME NEW y \in T PROVE x <= y
  <2>1. x \in Nat /\ y \in Nat
    BY <1>3
  <2>2. ~ (y < x)
    BY <1>2, <1>3, <2>1
  <2> QED BY <2>1, <2>2
<1> QED BY <1>3, <1>4

\* Induction over the natural numbers, for a set.
LEMMA Induction ==
    ASSUME NEW S \in SUBSET Nat, 0 \in S, \A n \in S : n + 1 \in S
    PROVE  S = Nat
<1> DEFINE T == Nat \ S
<1> SUFFICES ASSUME T # {} PROVE FALSE
  BY DEF T
<1>1. T \in SUBSET Nat
  BY DEF T
<1>2. PICK x \in T : \A y \in T : x <= y
  <2> HIDE DEF T
  <2> QED BY <1>1, LeastNatural
<1>3. x \in Nat /\ x # 0
  BY <1>2
<1>4. x - 1 \in Nat /\ x - 1 \notin T
  BY <1>2, <1>3
<1>5. x - 1 \in S
  BY <1>4
<1>6. (x - 1) + 1 \in S
  BY <1>5
<1> QED BY <1>2, <1>3, <1>6

\* A finite set has a first element in every total and transitive order.
LEMMA FirstElement ==
    ASSUME NEW A, IsFiniteSet(A), A # {}, NEW R,
           \A a, b \in A : a # b => <<a, b>> \in R \/ <<b, a>> \in R,
           \A a, b, c \in A : <<a, b>> \in R /\ <<b, c>> \in R => <<a, c>> \in R
    PROVE  \E a \in A : \A b \in A \ {a} : <<a, b>> \in R
<1> DEFINE HasFirst(B) == \E a \in B : \A b \in B \ {a} : <<a, b>> \in R
           S == {n \in Nat : \A B \in SUBSET A : Cardinality(B) = n + 1 => HasFirst(B)}
<1>0. \A B \in SUBSET A : IsFiniteSet(B) /\ Cardinality(B) \in Nat
  BY FS_Subset, FS_CardinalityType
<1>1. 0 \in S
  <2> SUFFICES ASSUME NEW B \in SUBSET A, Cardinality(B) = 1 PROVE HasFirst(B)
    OBVIOUS
  <2>1. \E x : B = {x}
    BY <1>0, FS_Singleton
  <2> QED BY <2>1
<1>2. ASSUME NEW n \in S PROVE n + 1 \in S
  <2> SUFFICES ASSUME NEW B \in SUBSET A, Cardinality(B) = (n + 1) + 1 PROVE HasFirst(B)
    OBVIOUS
  <2>1. B # {}
    <3>1. n \in Nat
      OBVIOUS
    <3> QED BY <3>1, FS_EmptySet
  <2>2. PICK x \in B : TRUE
    BY <2>1
  <2>3. Cardinality(B \ {x}) = n + 1
    <3>1. n \in Nat
      OBVIOUS
    <3>2. Cardinality(B \ {x}) = Cardinality(B) - 1
      BY <1>0, <2>2, FS_RemoveElement
    <3> QED BY <3>1, <3>2
  <2>4. B \ {x} \in SUBSET A
    OBVIOUS
  <2>5. HasFirst(B \ {x})
    BY <2>3, <2>4
  <2>6. PICK a \in B \ {x} : \A b \in (B \ {x}) \ {a} : <<a, b>> \in R
    BY <2>5
  <2>7. x \in A /\ a \in A /\ a # x
    BY <2>2, <2>6
  <2>8. CASE <<a, x>> \in R
    <3>1. \A b \in B \ {a} : <<a, b>> \in R
      BY <2>6, <2>8
    <3> QED BY <2>6, <3>1
  <2>9. CASE <<x, a>> \in R
    <3>1. ASSUME NEW b \in B \ {x} PROVE <<x, b>> \in R
      <4>1. CASE b = a
        BY <2>9, <4>1
      <4>2. CASE b # a
        <5>1. <<a, b>> \in R /\ b \in A
          BY <2>6, <3>1, <4>2
        <5> QED BY <2>7, <2>9, <5>1
      <4> QED BY <4>1, <4>2
    <3> QED BY <2>2, <3>1
  <2> QED BY <2>7, <2>8, <2>9
<1>3. S = Nat
  <2>1. S \in SUBSET Nat
    OBVIOUS
  <2> HIDE DEF S
  <2> QED BY <1>1, <1>2, <2>1, Induction
<1>4. Cardinality(A) \in Nat \ {0}
  BY <1>0, FS_EmptySet
<1>5. Cardinality(A) - 1 \in S
  BY <1>3, <1>4
<1>6. \A B \in SUBSET A : Cardinality(B) = (Cardinality(A) - 1) + 1 => HasFirst(B)
  BY <1>5
<1>7. (Cardinality(A) - 1) + 1 = Cardinality(A)
  BY <1>4
<1> QED BY <1>6, <1>7
-----------------------------------------------------------------------------
(* The loop of submit.                                                     *)

\* What submit reads of the copies it may evict.
EvictableInv ==
    /\ IsFiniteSet(Evictable)
    /\ \A f \in Evictable : cached[f].score \in Nat /\ cached[f].key \in Nat
    /\ \A f, g \in Evictable : cached[f].key = cached[g].key => f = g

AccRecord(batch) ==
    [todo : SUBSET batch, left : SUBSET Evictable, allocated : Int, gone : SUBSET Evictable, new : Seq(Row)]
LoopInv(batch, used, acc) ==
    /\ acc \in AccRecord(batch)
    /\ acc.left \cap acc.gone = {}
    /\ acc.allocated = (Allocated(used) - Cardinality(acc.gone)) + Len(acc.new)
    /\ acc.new # <<>> => acc.allocated <= policy.quota
    /\ \A k \in 1..Len(acc.new) : \E c \in batch \ acc.todo : acc.new[k] = Reservation(batch, c) /\ FirstReservation(c)
    /\ \A k, l \in 1..Len(acc.new) : acc.new[k].path = acc.new[l].path => k = l

\* The server orders the candidates of a batch totally: one comes first.
LEMMA FirstCandidateIn ==
    ASSUME CacheAssumption, NEW B \in Batches, NEW T \in SUBSET B, T # {}
    PROVE  FirstCandidate(T) \in T
<1> DEFINE R == {x \in Candidate \X Candidate : Before(x[1], x[2])}
<1>1. IsFiniteSet(T) /\ T \subseteq Candidate
  BY FS_Subset DEF Batches
<1>2. \A c \in Candidate : c.score \in Nat /\ c.pin \in BOOLEAN /\ c.path \in Nat
  BY DEF Candidate, CacheAssumption
<1>3. \A a, b \in T : <<a, b>> \in R <=> Before(a, b)
  BY <1>1
<1>4. \A a, b \in T : a # b => a.path # b.path
  BY DEF Batches, OnePerPath
<1>5. \A a, b \in T : a # b => Before(a, b) \/ Before(b, a)
  <2> SUFFICES ASSUME NEW a \in T, NEW b \in T, a # b PROVE Before(a, b) \/ Before(b, a)
    OBVIOUS
  <2>1. a.path # b.path /\ a.score \in Nat /\ b.score \in Nat /\ a.pin \in BOOLEAN /\ b.pin \in BOOLEAN /\ a.path \in Nat /\ b.path \in Nat
    BY <1>1, <1>2, <1>4
  <2> QED BY <2>1 DEF Before
<1>6. \A a, b, c \in T : Before(a, b) /\ Before(b, c) => Before(a, c)
  <2> SUFFICES ASSUME NEW a \in T, NEW b \in T, NEW c \in T, Before(a, b), Before(b, c) PROVE Before(a, c)
    OBVIOUS
  <2>1. a.score \in Nat /\ b.score \in Nat /\ a.pin \in BOOLEAN /\ b.pin \in BOOLEAN /\ a.path \in Nat /\ b.path \in Nat
    BY <1>1, <1>2
  <2>2. c.score \in Nat /\ c.pin \in BOOLEAN /\ c.path \in Nat
    BY <1>1, <1>2
  <2> QED BY <2>1, <2>2 DEF Before
<1>7. \E a \in T : \A b \in T \ {a} : <<a, b>> \in R
  <2> HIDE DEF R
  <2>1. \A a, b \in T : a # b => <<a, b>> \in R \/ <<b, a>> \in R
    BY <1>3, <1>5
  <2>2. \A a, b, c \in T : <<a, b>> \in R /\ <<b, c>> \in R => <<a, c>> \in R
    BY <1>3, <1>6
  <2>3. IsFiniteSet(T) /\ T # {}
    BY <1>1
  <2> QED BY ONLY <2>1, <2>2, <2>3, FirstElement
<1>8. \E a \in T : \A b \in T \ {a} : Before(a, b)
  <2> HIDE DEF R
  <2> QED BY <1>3, <1>7
<1> QED BY <1>8 DEF FirstCandidate

\* Copies are ordered by their score and then by their key, which is theirs alone.
LEMMA FirstEvictedIn ==
    ASSUME EvictableInv, NEW T \in SUBSET Evictable, T # {}
    PROVE  FirstEvicted(T) \in T
<1> DEFINE R == {x \in Evictable \X Evictable : EvictedBefore(x[1], x[2])}
<1>1. IsFiniteSet(T)
  BY FS_Subset DEF EvictableInv
<1>2. \A f \in T : cached[f].score \in Nat /\ cached[f].key \in Nat
  BY DEF EvictableInv
<1>3. \A a, b \in T : <<a, b>> \in R <=> EvictedBefore(a, b)
  OBVIOUS
<1>4. \A a, b \in T : a # b => cached[a].key # cached[b].key
  BY DEF EvictableInv
<1>5. \A a, b \in T : a # b => EvictedBefore(a, b) \/ EvictedBefore(b, a)
  BY <1>2, <1>4 DEF EvictedBefore
<1>6. \A a, b, c \in T : EvictedBefore(a, b) /\ EvictedBefore(b, c) => EvictedBefore(a, c)
  BY <1>2 DEF EvictedBefore
<1>7. \E a \in T : \A b \in T \ {a} : <<a, b>> \in R
  <2> HIDE DEF R
  <2>1. \A a, b \in T : a # b => <<a, b>> \in R \/ <<b, a>> \in R
    BY <1>3, <1>5
  <2>2. \A a, b, c \in T : <<a, b>> \in R /\ <<b, c>> \in R => <<a, c>> \in R
    BY <1>3, <1>6
  <2> QED BY <1>1, <2>1, <2>2, FirstElement
<1>8. \E a \in T : \A b \in T \ {a} : EvictedBefore(a, b)
  <2> HIDE DEF R
  <2> QED BY <1>3, <1>7
<1> QED BY <1>8 DEF FirstEvicted

\* With a candidate dropped the loop's invariant holds, whatever copies are passed over.
LEMMA DropKeeps ==
    ASSUME NEW batch, NEW used, NEW acc, LoopInv(batch, used, acc), NEW T \in SUBSET acc.todo, NEW F \in SUBSET acc.left
    PROVE  LoopInv(batch, used, [acc EXCEPT !.todo = T, !.left = F])
<1> DEFINE b == [acc EXCEPT !.todo = T, !.left = F]
<1>1. acc \in AccRecord(batch)
  BY DEF LoopInv
<1>2. /\ b \in AccRecord(batch) /\ b.todo = T /\ b.left = F /\ b.allocated = acc.allocated
      /\ b.gone = acc.gone /\ b.new = acc.new
  BY <1>1 DEF AccRecord
<1> HIDE DEF b
<1>3. batch \ acc.todo \subseteq batch \ T
  OBVIOUS
<1>4. \A k \in 1..Len(b.new) : \E c \in batch \ b.todo : b.new[k] = Reservation(batch, c) /\ FirstReservation(c)
  BY <1>2, <1>3 DEF LoopInv
<1>5. b.left \cap b.gone = {}
  BY <1>2 DEF LoopInv
<1>6. LoopInv(batch, used, b)
  BY <1>2, <1>4, <1>5 DEF LoopInv
<1> QED BY <1>6 DEF b

\* A copy is evicted.
LEMMA EvictKeeps ==
    ASSUME NEW batch, NEW used \in Nat, NEW acc, EvictableInv, Allocated(used) \in Nat, policy.quota \in Nat,
           LoopInv(batch, used, acc), NEW f \in acc.left
    PROVE  LoopInv(batch, used, [acc EXCEPT !.left = @ \ {f}, !.allocated = @ - 1, !.gone = @ \cup {f}])
<1> DEFINE b == [acc EXCEPT !.left = @ \ {f}, !.allocated = @ - 1, !.gone = @ \cup {f}]
<1>1. acc \in AccRecord(batch)
  BY DEF LoopInv
<1>2. f \in Evictable /\ f \notin acc.gone
  BY <1>1 DEF LoopInv, AccRecord
<1>3. /\ b \in AccRecord(batch) /\ b.todo = acc.todo /\ b.left = acc.left \ {f} /\ b.allocated = acc.allocated - 1
      /\ b.gone = acc.gone \cup {f} /\ b.new = acc.new
  <2>1. /\ b.todo = acc.todo /\ b.left = acc.left \ {f} /\ b.allocated = acc.allocated - 1
        /\ b.gone = acc.gone \cup {f} /\ b.new = acc.new
    BY <1>1 DEF AccRecord
  <2>2. /\ acc.todo \in SUBSET batch /\ acc.left \ {f} \in SUBSET Evictable /\ acc.allocated - 1 \in Int
        /\ acc.gone \cup {f} \in SUBSET Evictable /\ acc.new \in Seq(Row)
    BY <1>1, <1>2 DEF AccRecord
  <2>3. b \in AccRecord(batch)
    BY <1>1, <2>2 DEF AccRecord
  <2> QED BY <2>1, <2>3
<1> HIDE DEF b
<1>4. IsFiniteSet(acc.gone)
  BY <1>1, FS_Subset DEF AccRecord, EvictableInv
<1>5. Cardinality(b.gone) = Cardinality(acc.gone) + 1 /\ Cardinality(acc.gone) \in Nat
  BY <1>2, <1>3, <1>4, FS_AddElement, FS_CardinalityType
<1>6. Len(acc.new) \in Nat /\ acc.allocated \in Int
  BY <1>1, LenProperties DEF AccRecord
<1>7. b.allocated = (Allocated(used) - Cardinality(b.gone)) + Len(b.new)
  BY <1>3, <1>5, <1>6 DEF LoopInv
<1>8. b.new # <<>> => b.allocated <= policy.quota
  BY <1>3, <1>6 DEF LoopInv
<1>9. \A k \in 1..Len(b.new) : \E c \in batch \ b.todo : b.new[k] = Reservation(batch, c) /\ FirstReservation(c)
  BY <1>3 DEF LoopInv
<1>10. b.left \cap b.gone = {}
  BY <1>3 DEF LoopInv
<1>11. LoopInv(batch, used, b)
  BY <1>3, <1>7, <1>8, <1>9, <1>10 DEF LoopInv
<1> QED BY <1>11 DEF b

\* A candidate that fits and has no reservation yet is let in.
LEMMA AdmitKeeps ==
    ASSUME NEW batch \in Batches, NEW used \in Nat, NEW acc, Allocated(used) \in Nat, policy.quota \in Nat, EvictableInv,
           LoopInv(batch, used, acc), NEW c \in acc.todo, FirstReservation(c), acc.allocated + 1 <= policy.quota
    PROVE  LoopInv(batch, used, [acc EXCEPT !.todo = @ \ {c}, !.allocated = @ + 1, !.new = Append(@, Reservation(batch, c))])
<1> DEFINE n == Reservation(batch, c)
           b == [acc EXCEPT !.todo = @ \ {c}, !.allocated = @ + 1, !.new = Append(@, n)]
<1>1. acc \in AccRecord(batch)
  BY DEF LoopInv
<1>2. c \in batch /\ c \in Candidate
  BY <1>1 DEF AccRecord, Batches
<1>3. n \in Row /\ n.path = c.path
  BY <1>2 DEF Reservation, Row, Statuses, Candidate
<1> HIDE DEF n
<1>4. acc.new \in Seq(Row) /\ Append(acc.new, n) \in Seq(Row)
  BY <1>1, <1>3 DEF AccRecord
<1>5. /\ b \in AccRecord(batch) /\ b.todo = acc.todo \ {c} /\ b.left = acc.left /\ b.allocated = acc.allocated + 1
      /\ b.gone = acc.gone /\ b.new = Append(acc.new, n)
  <2>1. /\ b.todo = acc.todo \ {c} /\ b.left = acc.left /\ b.allocated = acc.allocated + 1
        /\ b.gone = acc.gone /\ b.new = Append(acc.new, n)
    BY <1>1 DEF AccRecord
  <2>2. /\ acc.todo \ {c} \in SUBSET batch /\ acc.left \in SUBSET Evictable /\ acc.allocated + 1 \in Int
        /\ acc.gone \in SUBSET Evictable
    BY <1>1 DEF AccRecord
  <2>3. b \in AccRecord(batch)
    BY <1>1, <1>4, <2>2 DEF AccRecord
  <2> QED BY <2>1, <2>3
<1> HIDE DEF b
<1>6. /\ Len(b.new) = Len(acc.new) + 1 /\ Len(acc.new) \in Nat /\ b.new[Len(acc.new) + 1] = n
      /\ \A k \in 1..Len(acc.new) : b.new[k] = acc.new[k]
  BY <1>4, <1>5
<1>7. \A k \in 1..Len(b.new) : k \in 1..Len(acc.new) \/ k = Len(acc.new) + 1
  BY <1>6
<1>8. Cardinality(acc.gone) \in Nat
  BY <1>1, FS_Subset, FS_CardinalityType DEF AccRecord, EvictableInv
<1>9. b.allocated = (Allocated(used) - Cardinality(b.gone)) + Len(b.new)
  BY <1>5, <1>6, <1>8 DEF LoopInv
<1>10. \A k \in 1..Len(b.new) : \E d \in batch \ b.todo : b.new[k] = Reservation(batch, d) /\ FirstReservation(d)
  <2> SUFFICES ASSUME NEW k \in 1..Len(b.new)
               PROVE  \E d \in batch \ b.todo : b.new[k] = Reservation(batch, d) /\ FirstReservation(d)
    OBVIOUS
  <2>1. CASE k = Len(acc.new) + 1
    <3>1. c \in batch \ b.todo
      BY <1>2, <1>5
    <3>2. b.new[k] = Reservation(batch, c)
      BY <1>6, <2>1 DEF n
    <3> QED BY <3>1, <3>2
  <2>2. CASE k \in 1..Len(acc.new)
    <3>1. PICK d \in batch \ acc.todo : acc.new[k] = Reservation(batch, d) /\ FirstReservation(d)
      BY <2>2 DEF LoopInv
    <3>2. b.new[k] = Reservation(batch, d) /\ d \in batch \ b.todo
      BY <1>5, <1>6, <2>2, <3>1
    <3> QED BY <3>1, <3>2
  <2> QED BY <1>7, <2>1, <2>2
<1>11. \A k \in 1..Len(acc.new) : acc.new[k].path # n.path
  <2> SUFFICES ASSUME NEW k \in 1..Len(acc.new) PROVE acc.new[k].path # n.path
    OBVIOUS
  <2>1. PICK d \in batch \ acc.todo : acc.new[k] = Reservation(batch, d)
    BY DEF LoopInv
  <2>2. acc.new[k].path = d.path /\ d # c
    BY <2>1 DEF Reservation
  <2>3. d.path # c.path
    BY <1>2, <2>1, <2>2 DEF Batches, OnePerPath
  <2> QED BY <1>3, <2>2, <2>3
<1>12. \A k, l \in 1..Len(b.new) : b.new[k].path = b.new[l].path => k = l
  <2> SUFFICES ASSUME NEW k \in 1..Len(b.new), NEW l \in 1..Len(b.new), b.new[k].path = b.new[l].path PROVE k = l
    OBVIOUS
  <2>1. CASE k \in 1..Len(acc.new) /\ l \in 1..Len(acc.new)
    BY <1>6, <2>1 DEF LoopInv
  <2>2. CASE k = Len(acc.new) + 1 /\ l = Len(acc.new) + 1
    BY <2>2
  <2>3. CASE k = Len(acc.new) + 1 /\ l \in 1..Len(acc.new)
    BY <1>6, <1>11, <2>3
  <2>4. CASE l = Len(acc.new) + 1 /\ k \in 1..Len(acc.new)
    BY <1>6, <1>11, <2>4
  <2> QED BY <1>7, <2>1, <2>2, <2>3, <2>4
<1>13. b.left \cap b.gone = {} /\ b.allocated <= policy.quota
  BY <1>5 DEF LoopInv
<1>14. LoopInv(batch, used, b)
  BY <1>5, <1>9, <1>10, <1>12, <1>13 DEF LoopInv
<1> QED BY <1>14 DEF b, n

\* Every turn keeps the invariant of the loop.
LEMMA TurnKeeps ==
    ASSUME CacheAssumption, policy.quota \in Nat, NEW batch \in Batches, NEW used \in Nat, NEW acc, Allocated(used) \in Nat, EvictableInv,
           LoopInv(batch, used, acc)
    PROVE  LoopInv(batch, used, Turn(batch, acc))
<1> DEFINE c == FirstCandidate(acc.todo)
           f == FirstEvicted(acc.left)
<1>1. acc \in AccRecord(batch) /\ policy.quota \in Nat
  BY DEF LoopInv
<1>2. acc.todo # {} => c \in acc.todo
  BY <1>1, FirstCandidateIn DEF AccRecord
<1>3. acc.left # {} => f \in acc.left
  BY <1>1, FirstEvictedIn DEF AccRecord
<1>4. Turn(batch, acc) =
        IF acc.todo = {} THEN acc
        ELSE IF acc.allocated + 1 <= policy.quota
        THEN IF FirstReservation(c)
             THEN [acc EXCEPT !.todo = @ \ {c}, !.allocated = @ + 1, !.new = Append(@, Reservation(batch, c))]
             ELSE [acc EXCEPT !.todo = @ \ {c}]
        ELSE IF acc.left = {} THEN [acc EXCEPT !.todo = @ \ {c}]
        ELSE IF ~c.pin /\ cached[f].score >= c.score THEN [acc EXCEPT !.todo = @ \ {c}, !.left = @ \ {f}]
        ELSE [acc EXCEPT !.left = @ \ {f}, !.allocated = @ - 1, !.gone = @ \cup {f}]
  BY DEF Turn
<1> HIDE DEF c, f
<1>5. [acc EXCEPT !.todo = @ \ {c}] = [acc EXCEPT !.todo = acc.todo \ {c}, !.left = acc.left]
  BY <1>1 DEF AccRecord
<1>6. LoopInv(batch, used, [acc EXCEPT !.todo = acc.todo \ {c}, !.left = acc.left])
  <2>1. acc.todo \ {c} \in SUBSET acc.todo /\ acc.left \in SUBSET acc.left
    OBVIOUS
  <2> QED BY <2>1, DropKeeps
<1>7. LoopInv(batch, used, [acc EXCEPT !.todo = @ \ {c}, !.left = @ \ {f}])
  <2>1. acc.todo \ {c} \in SUBSET acc.todo /\ acc.left \ {f} \in SUBSET acc.left
    OBVIOUS
  <2>2. LoopInv(batch, used, [acc EXCEPT !.todo = acc.todo \ {c}, !.left = acc.left \ {f}])
    BY <2>1, DropKeeps
  <2> QED BY <2>2
<1>8. acc.left # {} => LoopInv(batch, used, [acc EXCEPT !.left = @ \ {f}, !.allocated = @ - 1, !.gone = @ \cup {f}])
  BY <1>1, <1>3, EvictKeeps
<1>9. acc.todo # {} /\ FirstReservation(c) /\ acc.allocated + 1 <= policy.quota =>
        LoopInv(batch, used, [acc EXCEPT !.todo = @ \ {c}, !.allocated = @ + 1, !.new = Append(@, Reservation(batch, c))])
  BY <1>1, <1>2, AdmitKeeps
<1> QED BY <1>4, <1>5, <1>6, <1>7, <1>8, <1>9

\* t holds the loop's state after every turn up to the n-th.
Runs(batch, used, n, t) ==
    t = [m \in 0..n |-> IF m = 0 THEN Start(batch, used) ELSE Turn(batch, t[m - 1])]

\* The turns can be numbered, by induction over their number.
LEMMA RunsExist ==
    ASSUME NEW batch, NEW used, NEW N \in Nat
    PROVE  \E t : Runs(batch, used, N, t)
<1> DEFINE S == {n \in Nat : \E t : Runs(batch, used, n, t)}
<1>1. 0 \in S
  <2> DEFINE t == [m \in 0..0 |-> Start(batch, used)]
  <2>1. t = [m \in 0..0 |-> IF m = 0 THEN Start(batch, used) ELSE Turn(batch, t[m - 1])]
    OBVIOUS
  <2> QED BY <2>1 DEF Runs
<1>2. ASSUME NEW n \in S PROVE n + 1 \in S
  <2>1. n \in Nat
    OBVIOUS
  <2>2. PICK t : Runs(batch, used, n, t)
    OBVIOUS
  <2> DEFINE u == [m \in 0..(n + 1) |-> IF m = n + 1 THEN Turn(batch, t[n]) ELSE t[m]]
             v == [m \in 0..(n + 1) |-> IF m = 0 THEN Start(batch, used) ELSE Turn(batch, u[m - 1])]
  <2>3. ASSUME NEW m \in 0..(n + 1) PROVE u[m] = v[m]
    <3>1. CASE m = n + 1
      <4>1. u[m] = Turn(batch, t[n]) /\ u[m - 1] = t[n] /\ m # 0
        BY <2>1, <3>1
      <4> HIDE DEF u
      <4> QED BY <4>1
    <3>2. CASE m # n + 1
      <4>1. m \in 0..n /\ u[m] = t[m]
        BY <2>1, <3>2
      <4>2. t[m] = IF m = 0 THEN Start(batch, used) ELSE Turn(batch, t[m - 1])
        BY <2>2, <4>1 DEF Runs
      <4>3. m # 0 => u[m - 1] = t[m - 1]
        BY <2>1, <4>1
      <4> HIDE DEF u
      <4> QED BY <4>1, <4>2, <4>3
    <3> QED BY <3>1, <3>2
  <2>4. u = v
    BY <2>3
  <2>5. Runs(batch, used, n + 1, u)
    <3> HIDE DEF u
    <3> QED BY <2>4 DEF Runs
  <2> QED BY <2>1, <2>5
<1>3. S = Nat
  <2>1. S \in SUBSET Nat
    OBVIOUS
  <2> HIDE DEF S
  <2> QED BY <1>1, <1>2, <2>1, Induction
<1> QED BY <1>3

\* What submit computes is the state after the last turn.
LEMMA AdmittedIs ==
    ASSUME NEW batch, NEW used, Cardinality(batch) + Cardinality(Evictable) \in Nat
    PROVE  \E t : Runs(batch, used, Cardinality(batch) + Cardinality(Evictable), t)
               /\ Admitted(batch, used) = t[Cardinality(batch) + Cardinality(Evictable)]
<1> DEFINE N == Cardinality(batch) + Cardinality(Evictable)
           t == CHOOSE t : t = [m \in 0..N |-> IF m = 0 THEN Start(batch, used) ELSE Turn(batch, t[m - 1])]
<1>1. Admitted(batch, used) = t[N]
  BY DEF Admitted
<1>2. \E u : Runs(batch, used, N, u)
  <2> HIDE DEF N
  <2> QED BY RunsExist DEF N
<1>3. Runs(batch, used, N, t)
  <2> HIDE DEF N
  <2> QED BY <1>2 DEF Runs
<1> QED BY <1>1, <1>3

\* submit's loop ends with its invariant.
LEMMA LoopHolds ==
    ASSUME CacheAssumption, policy.quota \in Nat, NEW batch \in Batches, NEW used \in Nat, Allocated(used) \in Nat, EvictableInv
    PROVE  LoopInv(batch, used, Admitted(batch, used))
<1> DEFINE N == Cardinality(batch) + Cardinality(Evictable)
<1>1. N \in Nat
  BY FS_CardinalityType DEF Batches, EvictableInv
<1>2. PICK t : Runs(batch, used, N, t) /\ Admitted(batch, used) = t[N]
  BY <1>1, AdmittedIs
<1> HIDE DEF N
<1>3. LoopInv(batch, used, Start(batch, used))
  <2> DEFINE b == Start(batch, used)
  <2>1. b.todo = batch /\ b.left = Evictable /\ b.allocated = Allocated(used) /\ b.gone = {} /\ b.new = <<>>
    BY DEF Start
  <2>2. b \in AccRecord(batch)
    BY DEF Start, AccRecord
  <2>3. Len(b.new) = 0 /\ Cardinality(b.gone) = 0
    BY <2>1, FS_EmptySet
  <2> HIDE DEF b
  <2>4. \A k \in 1..Len(b.new) : FALSE
    BY <2>3
  <2>5. b.allocated = (Allocated(used) - Cardinality(b.gone)) + Len(b.new)
    BY <2>1, <2>3
  <2>6. LoopInv(batch, used, b)
    BY <2>1, <2>2, <2>4, <2>5 DEF LoopInv
  <2> QED BY <2>6 DEF b
<1> DEFINE S == {n \in Nat : n <= N => LoopInv(batch, used, t[n])}
<1>4. 0 \in S
  <2>1. t[0] = Start(batch, used)
    BY <1>1, <1>2 DEF Runs
  <2> QED BY <1>3, <2>1
<1>5. ASSUME NEW n \in S PROVE n + 1 \in S
  <2> SUFFICES ASSUME n + 1 <= N PROVE LoopInv(batch, used, t[n + 1])
    OBVIOUS
  <2>1. n \in Nat /\ n <= N /\ n + 1 \in 0..N /\ n + 1 # 0 /\ (n + 1) - 1 = n
    BY <1>1
  <2>2. LoopInv(batch, used, t[n])
    BY <2>1
  <2>3. t[n + 1] = Turn(batch, t[(n + 1) - 1])
    BY <1>2, <2>1 DEF Runs
  <2>4. t[n + 1] = Turn(batch, t[n])
    BY <2>1, <2>3
  <2> QED BY <2>2, <2>4, TurnKeeps
<1>6. S = Nat
  <2>1. S \in SUBSET Nat
    OBVIOUS
  <2> HIDE DEF S
  <2> QED BY <1>4, <1>5, <2>1, Induction
<1>7. N \in S
  BY <1>1, <1>6
<1>8. LoopInv(batch, used, t[N])
  BY <1>1, <1>7
<1> QED BY <1>2, <1>8

-----------------------------------------------------------------------------
(* Types, fields and single assignments.                                   *)

\* Min is a member.
LEMMA LeastOf ==
    ASSUME NEW T \in SUBSET Nat, T # {}
    PROVE  Min(T) \in T
<1>1. \E x \in T : \A y \in T : x <= y
  BY LeastNatural
<1> QED BY <1>1 DEF Min

LEMMA IdsAre == ASSUME TypeInv PROVE Ids = 1..Len(reservations) /\ Ids \subseteq Nat /\ DOMAIN objects = Ids
BY DEF TypeInv, Ids

\* The pass works on one of its reservations, while it has any.
LEMMA NowIn ==
    ASSUME TypeInv, pass.todo # {}
    PROVE  Now \in pass.todo /\ Now \in Ids
BY IdsAre, LeastOf DEF TypeInv, Now

\* The fields of a reservation.
LEMMA RowFields ==
    ASSUME TypeInv, NEW r \in Ids
    PROVE  /\ reservations[r] \in Row
           /\ reservations[r].path \in Paths /\ reservations[r].version \in Versions /\ reservations[r].batch \in Batches
           /\ reservations[r].status \in Statuses /\ FileOf(r) \in Files
<1>1. reservations[r] \in Row
  BY DEF TypeInv, Ids
<1> QED BY <1>1 DEF Row, FileOf, Files

\* The fields of a row of cached_files.
LEMMA CachedFields ==
    ASSUME TypeInv, NEW f \in Files
    PROVE  /\ cached[f] \in CachedRow
           /\ cached[f].status \in {"NONE", "AVAILABLE", "INVALIDATED"} /\ cached[f].fresh \in {"", "VERIFIED_CURRENT", "STALE"}
           /\ cached[f].key \in Nat /\ cached[f].upload \in Contents /\ cached[f].score \in Nat /\ cached[f].pin \in BOOLEAN
<1>1. cached[f] \in CachedRow
  BY DEF TypeInv
<1> QED BY <1>1 DEF CachedRow

LEMMA NoUploadType == NoUpload \in Contents
BY DEF Contents

LEMMA NoBatch == {} \in Batches
BY FS_EmptySet DEF Batches, OnePerPath

LEMMA NoItemType == NoItem \in Item
BY NoUploadType DEF NoItem, Item

LEMMA NoFileType == NoFile \in CachedRow /\ ~Available(NoFile)
BY NoUploadType DEF NoFile, CachedRow, Available

LEMMA IdleType ==
    /\ Idle \in PassRecord /\ Idle.pc = "idle" /\ Idle.todo = {} /\ Idle.counted = {} /\ Idle.used = 0
BY NoUploadType, NoBatch DEF Idle, PassRecord

LEMMA NoFlushType == NoFlush \in FlushRecord /\ NoFlush.pc = "idle" /\ NoFlush.item = NoItem
BY NoItemType DEF NoFlush, FlushRecord

\* The fields of the pass.
LEMMA PassFields ==
    ASSUME pass \in PassRecord
    PROVE  /\ pass.pc \in {"idle", "send", "submit", "check", "put", "recheck", "enqueue", "complete", "commit", "cancel"}
           /\ pass.batch \in Batches /\ pass.used \in Nat /\ pass.counted \in SUBSET Nat /\ pass.todo \in SUBSET Nat
           /\ pass.upload \in Contents
BY DEF PassRecord

\* The pass after a step that goes on with the reservations rs.
LEMMA UploadStep ==
    ASSUME NEW rs \in SUBSET Nat, Upload(rs)
    PROVE  /\ pass' \in PassRecord /\ pass'.todo = rs /\ pass'.counted = {} /\ pass'.pc \in {"idle", "check"}
           /\ (pass'.pc = "idle" <=> pass'.todo = {})
<1>1. CASE rs = {}
  BY <1>1, IdleType DEF Upload
<1>2. CASE rs # {}
  <2> DEFINE b == [Idle EXCEPT !.pc = "check", !.todo = rs]
  <2>1. b \in PassRecord /\ b.todo = rs /\ b.counted = {} /\ b.pc = "check"
    BY NoUploadType, NoBatch DEF Idle, PassRecord
  <2>2. pass' = b
    BY <1>2 DEF Upload
  <2> HIDE DEF b
  <2> QED BY <1>2, <2>1, <2>2
<1> QED BY <1>1, <1>2

\* The pass takes its next step with all else as it was.
LEMMA GotoStep ==
    ASSUME pass \in PassRecord, NEW pc \in {"idle", "send", "submit", "check", "put", "recheck", "enqueue", "complete", "commit", "cancel"}, Goto(pc)
    PROVE  /\ pass' \in PassRecord /\ pass'.pc = pc /\ pass'.todo = pass.todo /\ pass'.counted = pass.counted
           /\ pass'.used = pass.used /\ pass'.batch = pass.batch /\ pass'.upload = pass.upload
BY DEF Goto, PassRecord

\* The candidate a reservation was made for is one of its batch.
LEMMA CandidateIn ==
    ASSUME TypeInv, ReservationInv, NEW r \in Ids
    PROVE  CandidateOf(r) \in Candidate /\ CandidateOf(r).score \in Nat /\ CandidateOf(r).pin \in BOOLEAN
<1>1. \E c \in reservations[r].batch : c.path = reservations[r].path
  BY DEF ReservationInv
<1>2. CandidateOf(r) \in reservations[r].batch
  BY <1>1 DEF CandidateOf
<1>3. CandidateOf(r) \in Candidate
  BY <1>2, RowFields DEF Batches
<1> QED BY <1>3 DEF Candidate

\* What the pass sends is a completion of the reservation it works on.
LEMMA InHandIs ==
    ASSUME TypeInv, ReservationInv, pass.todo # {}
    PROVE  /\ InHand \in Item /\ InHand.kind = "completion" /\ InHand.id = Now /\ InHand.path = reservations[Now].path
           /\ InHand.upload = pass.upload /\ SendableItem(InHand)
<1>1. Now \in Ids
  BY NowIn
<1>2. CandidateOf(Now).score \in Nat /\ CandidateOf(Now).pin \in BOOLEAN /\ reservations[Now].path \in Paths /\ Now \in Nat
      /\ pass.upload \in Contents
  BY <1>1, CandidateIn, RowFields, IdsAre, PassFields DEF TypeInv
<1>3. InHand \in Item /\ InHand.kind = "completion" /\ InHand.id = Now /\ InHand.path = reservations[Now].path /\ InHand.upload = pass.upload
  BY <1>2 DEF InHand, Item, Current
<1> QED BY <1>1, <1>3 DEF SendableItem

\* One reservation takes another status.
LEMMA StatusStep ==
    ASSUME TypeInv, NEW r \in Ids, NEW st \in Statuses, reservations' = [reservations EXCEPT ![r].status = st]
    PROVE  /\ reservations' \in Seq(Row) /\ Ids' = Ids /\ Len(reservations') = Len(reservations)
           /\ \A q \in Ids : /\ reservations'[q].path = reservations[q].path /\ reservations'[q].version = reservations[q].version
                             /\ reservations'[q].batch = reservations[q].batch
                             /\ reservations'[q].status = IF q = r THEN st ELSE reservations[q].status
<1>1. /\ [reservations[r] EXCEPT !.status = st] \in Row
      /\ [reservations[r] EXCEPT !.status = st].path = reservations[r].path
      /\ [reservations[r] EXCEPT !.status = st].version = reservations[r].version
      /\ [reservations[r] EXCEPT !.status = st].batch = reservations[r].batch
      /\ [reservations[r] EXCEPT !.status = st].status = st
  BY RowFields DEF Row
<1> DEFINE n == [reservations[r] EXCEPT !.status = st]
<1> HIDE DEF n
<1>2. reservations' = [reservations EXCEPT ![r] = n] /\ reservations \in Seq(Row) /\ Ids = 1..Len(reservations) /\ n \in Row
  BY <1>1, IdsAre DEF n, TypeInv
<1>3. reservations' \in Seq(Row) /\ Len(reservations') = Len(reservations) /\ Ids' = Ids
      /\ \A q \in Ids : reservations'[q] = IF q = r THEN n ELSE reservations[q]
  BY <1>2 DEF Ids
<1> QED BY <1>1, <1>3 DEF n

\* Rows lose their copy.
LEMMA InvalidateIs ==
    ASSUME TypeInv, NEW F \in SUBSET Files
    PROVE  /\ Invalidate(F) \in [Files -> CachedRow]
           /\ \A f \in Files \ F : Invalidate(F)[f] = cached[f]
           /\ \A f \in F : /\ Invalidate(F)[f].status = "INVALIDATED" /\ Invalidate(F)[f].fresh = "STALE"
                           /\ Invalidate(F)[f].key = cached[f].key /\ Invalidate(F)[f].pin = cached[f].pin
                           /\ Invalidate(F)[f].score = cached[f].score
<1>1. \A f \in F : LET n == [cached[f] EXCEPT !.status = "INVALIDATED", !.fresh = "STALE"] IN
         n \in CachedRow /\ n.status = "INVALIDATED" /\ n.fresh = "STALE" /\ n.key = cached[f].key /\ n.pin = cached[f].pin /\ n.score = cached[f].score
  BY CachedFields DEF CachedRow
<1>2. \A f \in Files \ F : cached[f] \in CachedRow
  BY CachedFields
<1> QED BY <1>1, <1>2 DEF Invalidate

-----------------------------------------------------------------------------
(* What a step may do to reservations and rows.                            *)

\* Reservations stay, and only one that is RESERVED takes another status.
Progress ==
    /\ Ids \subseteq Ids'
    /\ \A r \in Ids : /\ reservations'[r].path = reservations[r].path /\ reservations'[r].version = reservations[r].version
                      /\ reservations'[r].batch = reservations[r].batch
                      /\ reservations'[r].status = reservations[r].status \/ reservations[r].status = "RESERVED"
\* What a step may do to the row of a file.
Keeps(f) == cached'[f] = cached[f]
Changes(f) ==
    /\ cached[f] # NoFile /\ cached'[f].key = cached[f].key
    /\ cached'[f].status # "NONE" /\ cached'[f].fresh \in {cached[f].fresh, "STALE"}
Loses(f) == Changes(f) /\ Available(cached[f]) /\ cached'[f].status = "INVALIDATED"

\* What was completed stays so, and a reservation keeps its file.
LEMMA ProgressFacts ==
    ASSUME Progress
    PROVE  Completed \subseteq Completed' /\ \A r \in Ids : FileOf(r)' = FileOf(r)
BY DEF Progress, Completed, FileOf

\* The files with a copy, before and after a step.
LEMMA AvailableIs ==
    /\ AvailableFiles \subseteq Files
    /\ \A f \in Files : f \in AvailableFiles <=> cached[f].status = "AVAILABLE"
    /\ AvailableFiles' \subseteq Files
    /\ \A f \in Files : f \in AvailableFiles' <=> cached'[f].status = "AVAILABLE"
BY DEF AvailableFiles, Available, Files

\* A copy belongs to a completed reservation of its file.
LEMMA AvailableRows ==
    ASSUME ReservationInv, NEW f \in AvailableFiles
    PROVE  cached[f].key \in Completed /\ cached[f].key \in Ids /\ FileOf(cached[f].key) = f /\ cached[f] # NoFile
BY AvailableIs, NoFileType DEF ReservationInv, AvailableFiles, Completed

\* A completion inserts the row of its file, which had none, and every other copy of the path loses
\* its own; its reservation is completed, and no other changes.
LEMMA CommitStep ==
    ASSUME TypeInv, ReservationInv, NEW i \in Item, i.kind = "completion", SendableItem(i),
           reservations[i.id].status = "RESERVED", CommitCompletion(i)
    PROVE  /\ i.id \in Ids /\ FileOf(i.id) \in Files /\ FileOf(i.id)[1] = i.path /\ cached[FileOf(i.id)] = NoFile
           /\ cached' \in [Files -> CachedRow]
           /\ cached'[FileOf(i.id)].status = "AVAILABLE" /\ cached'[FileOf(i.id)].key = i.id
           /\ cached'[FileOf(i.id)].fresh = "VERIFIED_CURRENT"
           /\ \A f \in AvailableFiles : f[1] = i.path => f # FileOf(i.id) /\ Loses(f)
           /\ \A f \in Files \ {FileOf(i.id)} : (f \notin AvailableFiles \/ f[1] # i.path) => Keeps(f)
           /\ doomed' = doomed \cup KeysOf({f \in AvailableFiles : f[1] = i.path})
           /\ reservations' \in Seq(Row) /\ Ids' = Ids /\ Len(reservations') = Len(reservations)
           /\ Progress /\ Completed' = Completed \cup {i.id} /\ i.id \notin Completed
           /\ \A r \in Ids \ {i.id} : reservations'[r].status = reservations[r].status
<1> DEFINE f0 == FileOf(i.id)
           old == {f \in AvailableFiles : f[1] = i.path}
           new == [status |-> "AVAILABLE", fresh |-> "VERIFIED_CURRENT", key |-> i.id, upload |-> i.upload,
                   score |-> i.score, pin |-> i.pin]
<1>1. i.id \in Ids /\ i.path = reservations[i.id].path /\ i.id \in Nat
  BY IdsAre DEF SendableItem
<1>2. f0 \in Files /\ f0[1] = i.path
  BY <1>1, RowFields DEF FileOf
<1>3. cached[f0] = NoFile
  <2> SUFFICES ASSUME cached[f0] # NoFile PROVE FALSE
    OBVIOUS
  <2>1. cached[f0].key \in Completed /\ FileOf(cached[f0].key) = FileOf(i.id)
    BY <1>2 DEF ReservationInv
  <2>2. cached[f0].key = i.id
    BY <1>1, <2>1 DEF ReservationInv, Completed
  <2> QED BY <2>1, <2>2 DEF Completed
<1>4. new \in CachedRow /\ new.status = "AVAILABLE" /\ new.key = i.id /\ new.fresh = "VERIFIED_CURRENT"
  BY <1>1 DEF CachedRow, Item
<1>5. old \in SUBSET Files /\ f0 \notin old
  BY <1>3, NoFileType, AvailableIs DEF AvailableFiles
<1>6. Invalidate(old)[f0] = cached[f0]
  BY <1>2, <1>5, InvalidateIs
<1>7. cached' = [Invalidate(old) EXCEPT ![f0] = new]
  <2>1. cached' = [Invalidate(old) EXCEPT ![f0] =
                    [status |-> "AVAILABLE", fresh |-> "VERIFIED_CURRENT",
                     key |-> IF Invalidate(old)[f0] = NoFile THEN i.id ELSE Invalidate(old)[f0].key, upload |-> i.upload,
                     score |-> i.score, pin |-> i.pin]]
    BY DEF CommitCompletion
  <2> QED BY <1>3, <1>6, <2>1
<1> HIDE DEF new, f0, old
<1>8. cached' \in [Files -> CachedRow] /\ cached'[f0] = new /\ \A f \in Files \ {f0} : cached'[f] = Invalidate(old)[f]
  BY <1>2, <1>4, <1>5, <1>7, InvalidateIs
<1>9. ASSUME NEW f \in AvailableFiles, f[1] = i.path PROVE f # f0 /\ Loses(f)
  <2>1. f \in old /\ f # f0 /\ f \in Files
    BY <1>5, <1>9, AvailableIs DEF old
  <2>2. cached'[f] = Invalidate(old)[f]
    BY <1>8, <2>1
  <2>3. cached[f].status = "AVAILABLE" /\ cached[f] # NoFile
    BY <1>9, AvailableIs, AvailableRows
  <2> QED BY <1>5, <2>1, <2>2, <2>3, InvalidateIs DEF Loses, Changes, Available
<1>10. ASSUME NEW f \in Files \ {f0}, f \notin AvailableFiles \/ f[1] # i.path PROVE Keeps(f)
  <2>1. f \notin old
    BY <1>10 DEF old
  <2> QED BY <1>5, <1>8, <2>1, InvalidateIs DEF Keeps
<1>11. doomed' = doomed \cup KeysOf(old) /\ reservations' = [reservations EXCEPT ![i.id].status = "COMPLETED"]
  BY DEF CommitCompletion, old
<1>12. /\ reservations' \in Seq(Row) /\ Ids' = Ids /\ Len(reservations') = Len(reservations)
       /\ \A q \in Ids : /\ reservations'[q].path = reservations[q].path /\ reservations'[q].version = reservations[q].version
                         /\ reservations'[q].batch = reservations[q].batch
                         /\ reservations'[q].status = IF q = i.id THEN "COMPLETED" ELSE reservations[q].status
  BY <1>1, <1>11, StatusStep DEF Statuses
<1>13. Progress /\ Completed' = Completed \cup {i.id} /\ i.id \notin Completed
  BY <1>1, <1>12 DEF Progress, Completed
<1>14. \A r \in Ids \ {i.id} : reservations'[r].status = reservations[r].status
  BY <1>12
<1>15. cached'[f0].status = "AVAILABLE" /\ cached'[f0].key = i.id /\ cached'[f0].fresh = "VERIFIED_CURRENT"
  BY <1>4, <1>8
<1> QED BY <1>1, <1>2, <1>3, <1>8, <1>9, <1>10, <1>11, <1>12, <1>13, <1>14, <1>15 DEF f0, old

\* After a completion its file is the only one of the path with a copy.
LEMMA CommitAvailable ==
    ASSUME TypeInv, ReservationInv, NEW i \in Item, i.kind = "completion", SendableItem(i),
           reservations[i.id].status = "RESERVED", CommitCompletion(i)
    PROVE  /\ AvailableFiles' = {f \in AvailableFiles : f[1] # i.path} \cup {FileOf(i.id)}
           /\ FileOf(i.id) \notin AvailableFiles
<1>1. FileOf(i.id) \in Files /\ FileOf(i.id) \notin AvailableFiles /\ FileOf(i.id) \in AvailableFiles'
  BY CommitStep, AvailableIs, NoFileType DEF Available
<1>2. \A f \in Files \ {FileOf(i.id)} : f \in AvailableFiles' <=> f \in AvailableFiles /\ f[1] # i.path
  <2> SUFFICES ASSUME NEW f \in Files \ {FileOf(i.id)} PROVE f \in AvailableFiles' <=> f \in AvailableFiles /\ f[1] # i.path
    OBVIOUS
  <2>1. CASE f \in AvailableFiles /\ f[1] = i.path
    <3>1. Loses(f)
      BY <2>1, CommitStep
    <3> QED BY <2>1, <3>1, AvailableIs DEF Loses
  <2>2. CASE f \notin AvailableFiles \/ f[1] # i.path
    <3>1. Keeps(f)
      BY <2>2, CommitStep
    <3> QED BY <2>2, <3>1, AvailableIs DEF Keeps
  <2> QED BY <2>1, <2>2
<1> QED BY <1>1, <1>2, AvailableIs

\* Copies are evicted or removed.
LEMMA InvalidateStep ==
    ASSUME TypeInv, ReservationInv, NEW F \in SUBSET AvailableFiles, cached' = Invalidate(F)
    PROVE  /\ cached' \in [Files -> CachedRow] /\ AvailableFiles' = AvailableFiles \ F
           /\ \A f \in F : Loses(f)
           /\ \A f \in Files \ F : Keeps(f)
<1>1. F \in SUBSET Files
  BY AvailableIs
<1>2. cached' \in [Files -> CachedRow] /\ \A f \in Files \ F : Keeps(f)
  BY <1>1, InvalidateIs DEF Keeps
<1>3. ASSUME NEW f \in F PROVE Loses(f)
  <2>1. cached[f].status = "AVAILABLE" /\ cached[f] # NoFile
    BY AvailableIs, AvailableRows
  <2> QED BY <1>1, <2>1, InvalidateIs DEF Loses, Changes, Available
<1>4. \A f \in Files : f \in AvailableFiles' <=> f \in AvailableFiles \ F
  BY <1>2, <1>3, AvailableIs DEF Loses, Keeps
<1> QED BY <1>1, <1>2, <1>3, <1>4, AvailableIs

\* markStale leaves no copy that the mark covers current, and every copy where it is.
LEMMA MarkStaleStep ==
    ASSUME TypeInv, ReservationInv, NEW i, MarkStale(i)
    PROVE  /\ cached' \in [Files -> CachedRow] /\ AvailableFiles' = AvailableFiles
           /\ \A f \in Files : Keeps(f) \/ Changes(f)
           /\ \A f \in AvailableFiles : Covers(i, f[1]) => cached'[f].fresh = "STALE"
           /\ \A f \in Files : cached'[f].key = cached[f].key
<1>1. \A f \in Files : LET n == [cached[f] EXCEPT !.fresh = "STALE"] IN
         n \in CachedRow /\ n.status = cached[f].status /\ n.fresh = "STALE" /\ n.key = cached[f].key /\ n.pin = cached[f].pin /\ n.score = cached[f].score
  BY CachedFields DEF CachedRow
<1>2. \A f \in Files : cached[f] \in CachedRow
  BY CachedFields
<1> DEFINE M == {f \in AvailableFiles : Covers(i, f[1])}
<1>3. cached' = [f \in Files |-> IF f \in M THEN [cached[f] EXCEPT !.fresh = "STALE"] ELSE cached[f]]
  BY DEF MarkStale, AvailableFiles
<1> HIDE DEF M
<1>4. /\ cached' \in [Files -> CachedRow]
      /\ \A f \in Files : f \notin M => cached'[f] = cached[f]
      /\ \A f \in Files : f \in M => /\ cached'[f].status = cached[f].status /\ cached'[f].fresh = "STALE"
                                     /\ cached'[f].key = cached[f].key /\ cached'[f].pin = cached[f].pin
                                     /\ cached'[f].score = cached[f].score
  BY <1>1, <1>2, <1>3
<1>5. \A f \in Files : f \in M => cached[f].status = "AVAILABLE" /\ cached[f] # NoFile
  BY AvailableIs, AvailableRows DEF M
<1>6. \A f \in Files : Keeps(f) \/ Changes(f)
  BY <1>4, <1>5 DEF Keeps, Changes
<1>7. \A f \in Files : f \in AvailableFiles' <=> f \in AvailableFiles
  BY <1>4, AvailableIs
<1>8. AvailableFiles' = AvailableFiles
  BY <1>7, AvailableIs
<1>9. \A f \in AvailableFiles : Covers(i, f[1]) => cached'[f].fresh = "STALE"
  BY <1>4, AvailableIs DEF M
<1> QED BY <1>4, <1>6, <1>8, <1>9

\* Rows, reservations and jobs that a step keeps or changes as it may still fit together.
LEMMA ReservationKeeps ==
    ASSUME ReservationInv, Progress, Ids' = Ids,
           \A f \in Files : \/ Keeps(f) \/ Changes(f)
                            \/ /\ cached'[f].status # "NONE" /\ cached'[f].fresh # "" /\ cached'[f].key \in Completed'
                               /\ FileOf(cached'[f].key) = f,
           doomed' \subseteq doomed \cup Completed'
    PROVE  ReservationInv'
<1>1. Completed \subseteq Completed' /\ Completed \subseteq Ids /\ Completed' \subseteq Ids
  BY ProgressFacts DEF Completed
<1>2. \A r \in Ids : FileOf(r)' = FileOf(r)
  BY ProgressFacts
<1>3. \A r, q \in Ids' : FileOf(r)' = FileOf(q)' => r = q
  <2>1. \A r, q \in Ids : FileOf(r) = FileOf(q) => r = q
    BY DEF ReservationInv
  <2> QED BY ONLY <1>2, <2>1, Ids' = Ids
<1>4. \A r \in Ids' : \E c \in reservations'[r].batch : c.path = reservations'[r].path
  <2>1. \A r \in Ids : \E c \in reservations[r].batch : c.path = reservations[r].path
    BY DEF ReservationInv
  <2>2. \A r \in Ids : reservations'[r].path = reservations[r].path /\ reservations'[r].batch = reservations[r].batch
    BY DEF Progress
  <2> QED BY ONLY <2>1, <2>2, Ids' = Ids
<1>5. ASSUME NEW f \in Files
      PROVE  \/ cached'[f] = NoFile
             \/ /\ cached'[f].status # "NONE" /\ cached'[f].fresh # ""
                /\ cached'[f].key \in Completed' /\ FileOf(cached'[f].key) = f
  <2>1. CASE Keeps(f)
    BY <1>1, <2>1 DEF Keeps, ReservationInv
  <2>2. CASE Changes(f)
    BY <1>1, <2>2 DEF Changes, ReservationInv
  <2>3. CASE /\ cached'[f].status # "NONE" /\ cached'[f].fresh # "" /\ cached'[f].key \in Completed'
             /\ FileOf(cached'[f].key) = f
    BY <2>3
  <2> QED BY <2>1, <2>2, <2>3
<1>6. \A f \in Files' : \/ cached'[f] = NoFile
                        \/ /\ cached'[f].status # "NONE" /\ cached'[f].fresh # ""
                           /\ cached'[f].key \in Completed' /\ FileOf(cached[f].key)' = f
  <2>1. Files' = Files /\ NoFile' = NoFile
    OBVIOUS
  <2>2. \A f \in Files : cached'[f].key \in Completed' => FileOf(cached[f].key)' = FileOf(cached'[f].key)
    <3>1. \A r \in Ids : reservations'[r].path = reservations[r].path /\ reservations'[r].version = reservations[r].version
      BY DEF Progress
    <3> QED BY ONLY <1>1, <3>1 DEF FileOf
  <2> QED BY <1>5, <2>1, <2>2
<1>7. doomed' \subseteq Completed'
  BY <1>1 DEF ReservationInv
<1> QED BY <1>3, <1>4, <1>6, <1>7 DEF ReservationInv

-----------------------------------------------------------------------------
(* What submit counts, and what it adds.                                   *)

\* There are no more copies than reservations.
LEMMA AvailableFinite ==
    ASSUME TypeInv, ReservationInv
    PROVE  IsFiniteSet(AvailableFiles) /\ Cardinality(AvailableFiles) \in Nat
<1> DEFINE k == [f \in AvailableFiles |-> cached[f].key]
<1>1. IsFiniteSet(Ids)
  <2>1. Len(reservations) \in Nat
    BY DEF TypeInv
  <2> QED BY <2>1, IdsAre, FS_Interval
<1>2. \A f \in AvailableFiles : cached[f].key \in Ids /\ FileOf(cached[f].key) = f
  BY AvailableRows
<1>3. k \in [AvailableFiles -> Ids]
  BY <1>2
<1>4. \A f, g \in AvailableFiles : k[f] = k[g] => f = g
  BY <1>2
<1>5. k \in Injection(AvailableFiles, Ids)
  <2> HIDE DEF k
  <2> QED BY <1>3, <1>4 DEF Injection, IsInjective
<1>6. IsFiniteSet(AvailableFiles)
  <2> HIDE DEF k
  <2> QED BY <1>1, <1>5, FS_Injection
<1> QED BY <1>6, FS_CardinalityType

\* Reservations are finitely many.
LEMMA ReservedFinite ==
    ASSUME TypeInv
    PROVE  IsFiniteSet(Ids) /\ Reserved \subseteq Ids /\ IsFiniteSet(Reserved) /\ Cardinality(Reserved) \in Nat
<1>1. Len(reservations) \in Nat
  BY DEF TypeInv
<1>2. IsFiniteSet(Ids)
  BY <1>1, IdsAre, FS_Interval
<1>3. Reserved \subseteq Ids
  BY DEF Reserved
<1> QED BY <1>2, <1>3, FS_Subset, FS_CardinalityType

\* Two copies have different keys.
LEMMA EvictableHolds ==
    ASSUME TypeInv, ReservationInv
    PROVE  EvictableInv
<1>1. Evictable \subseteq AvailableFiles
  BY DEF Evictable
<1>2. IsFiniteSet(Evictable)
  BY <1>1, AvailableFinite, FS_Subset
<1>3. \A f \in Evictable : f \in Files /\ f \in AvailableFiles
  BY <1>1, AvailableIs
<1>4. \A f \in Evictable : cached[f].score \in Nat /\ cached[f].key \in Nat
  BY <1>3, CachedFields
<1>5. \A f, g \in Evictable : cached[f].key = cached[g].key => f = g
  BY <1>3, AvailableRows
<1> QED BY <1>2, <1>4, <1>5 DEF EvictableInv

\* What submit's loop leaves, for the pass's batch.
LEMMA SubmitLoop ==
    ASSUME CacheAssumption, policy \in Policies, TypeInv, ReservationInv
    PROVE  LoopInv(pass.batch, pass.used, Admitted(pass.batch, pass.used))
<1>1. pass.batch \in Batches /\ pass.used \in Nat
  BY PassFields DEF TypeInv
<1>2. Allocated(pass.used) \in Nat
  BY <1>1, ReservedFinite DEF Allocated
<1>3. policy.quota \in Nat
  BY DEF CacheAssumption
<1> QED BY <1>1, <1>2, <1>3, EvictableHolds, LoopHolds

\* The new reservations follow the old ones; none is of a file that was reserved before.
LEMMA GrowStep ==
    ASSUME CacheAssumption, TypeInv, ReservationInv, NEW a, LoopInv(pass.batch, pass.used, a),
           reservations' = reservations \o a.new, objects' = objects \o [k \in DOMAIN a.new |-> NoUpload]
    PROVE  /\ a.gone \subseteq AvailableFiles
           /\ reservations' \in Seq(Row) /\ objects' \in Seq(Contents) /\ Len(objects') = Len(reservations')
           /\ Progress /\ Ids' = 1..(Len(reservations) + Len(a.new)) /\ Completed' = Completed
           /\ \A r \in Ids : reservations'[r] = reservations[r] /\ objects'[r] = objects[r]
           /\ \A r \in Ids' \ Ids : reservations'[r].status = "RESERVED" /\ objects'[r] = NoUpload
           /\ \A r, q \in Ids' : FileOf(r)' = FileOf(q)' => r = q
           /\ \A r \in Ids' : \E c \in reservations'[r].batch : c.path = reservations'[r].path
<1> DEFINE n == a.new
           m == Len(reservations)
<1>1. /\ a \in AccRecord(pass.batch)
      /\ \A k \in 1..Len(n) : \E c \in pass.batch : n[k] = Reservation(pass.batch, c) /\ FirstReservation(c)
      /\ \A k, l \in 1..Len(n) : n[k].path = n[l].path => k = l
  BY DEF LoopInv
<1>2. n \in Seq(Row) /\ a.gone \subseteq Evictable
  BY <1>1 DEF AccRecord
<1>3. a.gone \subseteq AvailableFiles
  BY <1>2 DEF Evictable
<1>4. /\ reservations \in Seq(Row) /\ objects \in Seq(Contents) /\ Len(objects) = m /\ m \in Nat
      /\ Ids = 1..m
  <2>1. reservations \in Seq(Row) /\ objects \in Seq(Contents) /\ Len(objects) = m
    BY DEF TypeInv
  <2>2. m \in Nat
    BY <2>1, LenProperties
  <2> QED BY <2>1, <2>2, IdsAre
<1> DEFINE o == [k \in DOMAIN n |-> NoUpload]
<1>5. o \in Seq(Contents) /\ Len(o) = Len(n) /\ Len(n) \in Nat /\ \A k \in 1..Len(n) : o[k] = NoUpload
  <2>1. Len(n) \in Nat /\ DOMAIN n = 1..Len(n)
    BY <1>2, LenProperties
  <2>2. o = [k \in 1..Len(n) |-> NoUpload]
    BY <2>1
  <2> HIDE DEF n, o
  <2>3. o \in Seq(Contents) /\ Len(o) = Len(n)
    BY <2>1, <2>2, NoUploadType
  <2> QED BY <2>1, <2>2, <2>3
<1>6. objects' = objects \o o /\ reservations' = reservations \o n
  OBVIOUS
<1> HIDE DEF n, o, m
<1>7. /\ reservations' \in Seq(Row) /\ Len(reservations') = m + Len(n)
      /\ \A r \in 1..m : reservations'[r] = reservations[r]
      /\ \A k \in 1..Len(n) : reservations'[m + k] = n[k]
  <2>1. /\ reservations \o n \in Seq(Row) /\ Len(reservations \o n) = Len(reservations) + Len(n)
        /\ \A r \in 1..(Len(reservations) + Len(n)) :
              (reservations \o n)[r] = IF r <= Len(reservations) THEN reservations[r] ELSE n[r - Len(reservations)]
    BY <1>2, <1>4, ConcatProperties
  <2>2. /\ reservations' \in Seq(Row) /\ Len(reservations') = m + Len(n)
        /\ \A r \in 1..(m + Len(n)) : reservations'[r] = IF r <= m THEN reservations[r] ELSE n[r - m]
    BY <1>6, <2>1 DEF m
  <2>3. \A r \in 1..m : r \in 1..(m + Len(n)) /\ r <= m
    BY <1>4, <1>5
  <2>4. \A k \in 1..Len(n) : m + k \in 1..(m + Len(n)) /\ ~(m + k <= m) /\ (m + k) - m = k
    BY <1>4, <1>5
  <2> QED BY <2>2, <2>3, <2>4
<1>8. /\ objects' \in Seq(Contents) /\ Len(objects') = m + Len(n)
      /\ \A r \in 1..m : objects'[r] = objects[r]
      /\ \A k \in 1..Len(n) : objects'[m + k] = o[k]
  <2>1. /\ objects \o o \in Seq(Contents) /\ Len(objects \o o) = Len(objects) + Len(o)
        /\ \A r \in 1..(Len(objects) + Len(o)) :
              (objects \o o)[r] = IF r <= Len(objects) THEN objects[r] ELSE o[r - Len(objects)]
    BY <1>4, <1>5, ConcatProperties
  <2>2. /\ objects' \in Seq(Contents) /\ Len(objects') = m + Len(n)
        /\ \A r \in 1..(m + Len(n)) : objects'[r] = IF r <= m THEN objects[r] ELSE o[r - m]
    BY <1>4, <1>5, <1>6, <2>1
  <2>3. \A r \in 1..m : r \in 1..(m + Len(n)) /\ r <= m
    BY <1>4, <1>5
  <2>4. \A k \in 1..Len(n) : m + k \in 1..(m + Len(n)) /\ ~(m + k <= m) /\ (m + k) - m = k
    BY <1>4, <1>5
  <2> QED BY <2>2, <2>3, <2>4
<1>9. Ids' = 1..(m + Len(n))
  <2>1. DOMAIN reservations' = 1..Len(reservations')
    BY <1>7, LenProperties
  <2> QED BY <1>7, <2>1 DEF Ids
<1>10. Progress
  <2>1. Ids \subseteq Ids'
    BY <1>4, <1>5, <1>9
  <2>2. \A r \in Ids : reservations'[r] = reservations[r]
    BY <1>4, <1>7
  <2> QED BY <2>1, <2>2 DEF Progress
<1>11. ASSUME NEW r \in Ids' \ Ids PROVE \E k \in 1..Len(n) : r = m + k
  <2>1. r - m \in 1..Len(n) /\ r = m + (r - m)
    BY <1>4, <1>5, <1>9
  <2> QED BY <2>1
<1>12. ASSUME NEW r \in Ids' \ Ids
       PROVE  /\ reservations'[r].status = "RESERVED" /\ objects'[r] = NoUpload
              /\ \E c \in reservations'[r].batch : c.path = reservations'[r].path
              /\ \A q \in Ids : FileOf(r)' # FileOf(q)'
  <2>1. PICK k \in 1..Len(n) : r = m + k
    BY <1>11
  <2>2. PICK c \in pass.batch : n[k] = Reservation(pass.batch, c) /\ FirstReservation(c)
    BY <1>1 DEF n
  <2>3. reservations'[r] = n[k] /\ objects'[r] = NoUpload
    BY <1>5, <1>7, <1>8, <2>1
  <2>4. n[k].status = "RESERVED" /\ n[k].batch = pass.batch /\ n[k].path = c.path /\ n[k].version = c.version
    BY <2>2 DEF Reservation
  <2>5. ASSUME NEW q \in Ids PROVE FileOf(r)' # FileOf(q)'
    <3>1. reservations'[q] = reservations[q]
      BY <1>4, <1>7
    <3>2. reservations[q].path # c.path \/ reservations[q].version # c.version
      BY <2>2 DEF FirstReservation
    <3> QED BY <2>3, <2>4, <3>1, <3>2 DEF FileOf
  <2>6. c \in reservations'[r].batch /\ c.path = reservations'[r].path
    BY <2>2, <2>3, <2>4
  <2> QED BY <2>3, <2>4, <2>5, <2>6
<1>13. ASSUME NEW r \in Ids' \ Ids, NEW q \in Ids' \ Ids, FileOf(r)' = FileOf(q)' PROVE r = q
  <2>1. PICK k \in 1..Len(n) : r = m + k
    BY <1>11
  <2>2. PICK l \in 1..Len(n) : q = m + l
    BY <1>11
  <2>3. reservations'[r] = n[k] /\ reservations'[q] = n[l]
    BY <1>7, <2>1, <2>2
  <2>4. n[k].path = n[l].path
    BY <1>13, <2>3 DEF FileOf
  <2>5. k = l
    BY <1>1, <2>4 DEF n
  <2> QED BY <2>1, <2>2, <2>5
<1>14. ASSUME NEW r \in Ids, NEW q \in Ids, FileOf(r)' = FileOf(q)' PROVE r = q
  <2>1. FileOf(r)' = FileOf(r) /\ FileOf(q)' = FileOf(q)
    BY <1>10, ProgressFacts
  <2> QED BY <1>14, <2>1 DEF ReservationInv
<1>15. \A r, q \in Ids' : FileOf(r)' = FileOf(q)' => r = q
  BY <1>12, <1>13, <1>14
<1>16. \A r \in Ids' : \E c \in reservations'[r].batch : c.path = reservations'[r].path
  <2>1. ASSUME NEW r \in Ids PROVE \E c \in reservations'[r].batch : c.path = reservations'[r].path
    <3>1. \E c \in reservations[r].batch : c.path = reservations[r].path
      BY DEF ReservationInv
    <3>2. reservations'[r] = reservations[r]
      BY <1>4, <1>7
    <3> QED BY <3>1, <3>2
  <2> QED BY <1>12, <2>1
<1>17. Completed' = Completed
  <2>1. \A r \in Ids : reservations'[r] = reservations[r] /\ r \in Ids'
    BY <1>4, <1>7, <1>10 DEF Progress
  <2>2. \A r \in Ids' \ Ids : reservations'[r].status # "COMPLETED"
    BY <1>12
  <2> QED BY <2>1, <2>2 DEF Completed
<1>18. \A r \in Ids : reservations'[r] = reservations[r] /\ objects'[r] = objects[r]
  BY <1>4, <1>7, <1>8
<1> QED BY <1>3, <1>7, <1>8, <1>9, <1>10, <1>12, <1>15, <1>16, <1>17, <1>18 DEF n, m

-----------------------------------------------------------------------------
(* The parts of BackedInv, for what a step may do.                         *)

\* A step that changes no row.
LEMMA SameRows ==
    ASSUME UNCHANGED <<reservations, cached>>
    PROVE  Progress /\ Ids' = Ids /\ Completed' = Completed /\ AvailableFiles' = AvailableFiles
           /\ \A f \in Files : Keeps(f)
BY DEF Progress, Ids, Completed, AvailableFiles, Keeps

\* The keys of copies that go are of completed reservations, and of no copy that stays.
LEMMA KeysApart ==
    ASSUME ReservationInv, NEW F \in SUBSET AvailableFiles
    PROVE  KeysOf(F) \subseteq Completed /\ \A f \in AvailableFiles \ F : cached[f].key \notin KeysOf(F)
<1>1. \A f \in AvailableFiles : cached[f].key \in Completed /\ FileOf(cached[f].key) = f
  BY AvailableRows
<1> QED BY <1>1 DEF KeysOf

\* An item stays sendable.
LEMMA SendableKeeps ==
    ASSUME Progress, NEW i, SendableItem(i)
    PROVE  SendableItem(i)'
<1>1. CASE i.kind = "completion"
  BY <1>1 DEF SendableItem, Progress
<1>2. CASE i.kind = "stale"
  BY <1>2 DEF SendableItem
<1> QED BY <1>1, <1>2 DEF SendableItem

\* A reservation stays uploaded unless its object goes for a reason.
LEMMA UploadedKeeps ==
    ASSUME Progress, NEW r \in Ids, Uploaded(r), doomed \subseteq doomed',
           \/ objects'[r] = objects[r] \/ objects'[r] # NoUpload
           \/ r \in doomed \/ reservations'[r].status \in {"CANCELLED", "EXPIRED"}
    PROVE  Uploaded(r)'
<1>1. reservations'[r].status = reservations[r].status \/ reservations[r].status = "RESERVED"
  BY DEF Progress
<1>2. NoUpload' = NoUpload
  OBVIOUS
<1> QED BY <1>1, <1>2 DEF Uploaded

\* What was sent for stays uploaded, when the step sends for nothing new.
LEMMA UploadKeeps ==
    ASSUME TypeInv, ItemInv, UploadInv, Progress, doomed \subseteq doomed',
           \A r \in Ids : \/ objects'[r] = objects[r] \/ objects'[r] # NoUpload
                          \/ r \in doomed \/ reservations'[r].status \in {"CANCELLED", "EXPIRED"},
           \A i \in outbox' \cup {flush'.item} :
              i \in outbox \cup {flush.item} \/ i.kind # "completion" \/ (i.id \in Ids /\ Uploaded(i.id)),
           \/ pass'.pc \notin {"recheck", "enqueue", "complete", "commit"}
           \/ pass.pc \in {"recheck", "enqueue", "complete", "commit"} /\ pass'.todo = pass.todo
    PROVE  UploadInv'
<1>1. \A r \in Ids : Uploaded(r) => Uploaded(r)'
  BY UploadedKeeps
<1>2. ASSUME NEW i \in outbox' \cup {flush'.item}, i.kind = "completion" PROVE Uploaded(i.id)'
  <2>1. CASE i \in outbox \cup {flush.item}
    <3>1. i.id \in Ids
      BY <1>2, <2>1 DEF ItemInv, SendableItem, NoItem
    <3>2. Uploaded(i.id)
      BY <1>2, <2>1 DEF UploadInv
    <3> QED BY <1>1, <3>1, <3>2
  <2>2. CASE i.id \in Ids /\ Uploaded(i.id)
    BY <1>1, <2>2
  <2> QED BY <1>2, <2>1, <2>2
<1>3. ASSUME pass'.pc \in {"recheck", "enqueue", "complete", "commit"} PROVE Uploaded(Now)'
  <2>1. pass.pc \in {"recheck", "enqueue", "complete", "commit"} /\ pass'.todo = pass.todo
    BY <1>3
  <2>2. Now \in Ids /\ Uploaded(Now)
    BY <2>1, NowIn DEF UploadInv, TypeInv
  <2>3. Now' = Now
    BY <2>1 DEF Now
  <2>4. \A r : r = Now' => (Uploaded(r)' <=> Uploaded(Now)')
    BY DEF Uploaded
  <2> QED BY <1>1, <2>2, <2>3, <2>4
<1> QED BY <1>2, <1>3 DEF UploadInv

\* A copy that stays available stays backed.
LEMMA BackedKeeps ==
    ASSUME ReservationInv, AvailableIsBacked,
           \A f \in AvailableFiles' : \/ f \in AvailableFiles /\ cached'[f].key = cached[f].key /\ cached[f].key \notin doomed' \ doomed
                                      \/ objects'[cached'[f].key] # NoUpload /\ cached'[f].key \notin doomed',
           \A r \in Completed : r \in doomed \/ objects'[r] = objects[r] \/ objects'[r] # NoUpload
    PROVE  AvailableIsBacked'
<1> SUFFICES ASSUME NEW f \in AvailableFiles' PROVE objects'[cached'[f].key] # NoUpload /\ cached'[f].key \notin doomed'
  BY DEF AvailableIsBacked
<1>1. CASE f \in AvailableFiles /\ cached'[f].key = cached[f].key /\ cached[f].key \notin doomed' \ doomed
  <2>1. objects[cached[f].key] # NoUpload /\ cached[f].key \notin doomed
    BY <1>1 DEF AvailableIsBacked
  <2>2. cached[f].key \in Completed
    BY <1>1, AvailableRows
  <2> QED BY <1>1, <2>1, <2>2
<1> QED BY <1>1

\* A step that leaves the pass and the flush alone, or lets them hold what they held.
LEMMA CommitKeeps ==
    ASSUME TypeInv, ItemInv, CommitInv, Ids \subseteq Ids',
           \A r \in Ids : PassHolds(r) \/ FlushHolds(r) => reservations'[r].status = reservations[r].status,
           \/ pass'.pc # "commit"
           \/ pass.pc = "commit" /\ pass'.todo = pass.todo /\ (flush' = flush \/ flush'.pc # "commit"),
           \/ flush'.pc # "commit"
           \/ flush.pc = "commit" /\ flush'.item = flush.item
    PROVE  /\ pass'.pc = "commit" => reservations'[Now'].status = "RESERVED" /\ ~FlushHolds(Now)'
           /\ flush'.pc = "commit" => reservations'[flush'.item.id].status = "RESERVED"
<1>1. ASSUME pass'.pc = "commit" PROVE reservations'[Now'].status = "RESERVED" /\ ~FlushHolds(Now)'
  <2>1. pass.pc = "commit" /\ pass'.todo = pass.todo /\ (flush' = flush \/ flush'.pc # "commit")
    BY <1>1
  <2>2. Now \in Ids /\ Now' = Now /\ PassHolds(Now)
    BY <2>1, NowIn DEF TypeInv, Now, PassHolds
  <2>3. reservations[Now].status = "RESERVED" /\ ~FlushHolds(Now)
    BY <2>1 DEF CommitInv
  <2>4. reservations'[Now].status = "RESERVED"
    BY <2>2, <2>3
  <2> QED BY <2>1, <2>2, <2>3, <2>4 DEF FlushHolds
<1>2. ASSUME flush'.pc = "commit" PROVE reservations'[flush'.item.id].status = "RESERVED"
  <2>1. flush.pc = "commit" /\ flush'.item = flush.item
    BY <1>2
  <2>2. flush.item.id \in Ids /\ FlushHolds(flush.item.id)
    BY <2>1 DEF ItemInv, SendableItem, FlushHolds
  <2>3. reservations[flush.item.id].status = "RESERVED"
    BY <2>1 DEF CommitInv
  <2> QED BY <2>1, <2>2, <2>3
<1> QED BY <1>1, <1>2

\* A step of the desktop or the user that leaves the server and the store alone.
Quiet == UNCHANGED <<reservations, late, cached, doomed, objects, room>>

\* With the server and the store as they were, rows and copies are as they were.
LEMMA QuietKeeps ==
    ASSUME BackedInv, Quiet
    PROVE  /\ ReservationInv' /\ AvailableIsBacked' /\ Progress /\ Ids' = Ids /\ AvailableFiles' = AvailableFiles
<1>1. Progress /\ Ids' = Ids /\ Completed' = Completed /\ AvailableFiles' = AvailableFiles /\ \A f \in Files : Keeps(f)
  BY SameRows DEF Quiet
<1>2. ReservationInv'
  BY <1>1, ReservationKeeps DEF BackedInv, Quiet
<1>3. AvailableIsBacked'
  BY <1>1, BackedKeeps DEF BackedInv, Quiet
<1> QED BY <1>1, <1>2, <1>3

\* A step that changes files, scores and preferences alone.
LEMMA UserKeeps ==
    ASSUME BackedInv, Quiet, UNCHANGED <<pass, outbox, queued, flush, nonces, faults>>,
           file' \in [Paths -> Versions \cup {Removed}], score' \in [Paths -> Nat], preference' \in [Paths -> SUBSET Preferences]
    PROVE  BackedInv'
<1>1. ReservationInv' /\ AvailableIsBacked' /\ Progress /\ Ids' = Ids /\ AvailableFiles' = AvailableFiles
  BY QuietKeeps
<1>2. TypeInv /\ ItemInv /\ CommitInv /\ UploadInv
  BY DEF BackedInv
<1>3. TypeInv'
  BY <1>1, <1>2 DEF TypeInv, Quiet
<1>4. ItemInv'
  BY <1>1, <1>2 DEF ItemInv, SendableItem, Quiet
<1>5. CommitInv'
  BY <1>1, <1>2 DEF CommitInv, Quiet, Now, FlushHolds
<1>6. UploadInv'
  BY <1>1, <1>2 DEF UploadInv, Uploaded, Quiet, Now
<1> QED BY <1>1, <1>3, <1>4, <1>5, <1>6 DEF BackedInv

\* BackedInv, action by action.
LEMMA RecordUsageEventKeeps ==
    ASSUME BackedInv, NEW p \in Paths, RecordUsageEvent(p)
    PROVE  BackedInv'
<1>1. Quiet /\ UNCHANGED <<file, preference, pass, outbox, queued, flush, nonces, faults>> /\ score' = [score EXCEPT ![p] = @ + 1]
  BY DEF RecordUsageEvent, Quiet, server, desktop
<1>2. score' \in [Paths -> Nat] /\ preference' \in [Paths -> SUBSET Preferences] /\ file' \in [Paths -> Versions \cup {Removed}]
  BY <1>1 DEF BackedInv, TypeInv
<1> QED BY <1>1, <1>2, UserKeeps

LEMMA UpdateFilePreferenceKeeps ==
    ASSUME BackedInv, NEW p \in Paths, NEW flag \in Preferences, UpdateFilePreference(p, flag)
    PROVE  BackedInv'
<1>1. Quiet /\ UNCHANGED <<file, score, pass, outbox, queued, flush, nonces, faults>>
  BY DEF UpdateFilePreference, Quiet, server, desktop
<1>2. score' \in [Paths -> Nat] /\ preference \in [Paths -> SUBSET Preferences] /\ file' \in [Paths -> Versions \cup {Removed}]
  BY <1>1 DEF BackedInv, TypeInv
<1>3. preference' \in [Paths -> SUBSET Preferences]
  BY <1>2 DEF UpdateFilePreference
<1> QED BY <1>1, <1>2, <1>3, UserKeeps

\* An edit is nothing to the server.
LEMMA EditFileKeeps ==
    ASSUME CacheAssumption, BackedInv, NEW p \in Edited, EditFile(p)
    PROVE  BackedInv'
<1>1. Quiet /\ UNCHANGED <<score, preference, pass, outbox, queued, flush, nonces, faults>> /\ p \in Paths
  BY DEF EditFile, Quiet, server, desktop, CacheAssumption
<1>2. PICK v \in {Removed} \cup {u \in Versions : u = file[p] + 1} : file' = [file EXCEPT ![p] = v]
  BY DEF EditFile
<1>3. file' \in [Paths -> Versions \cup {Removed}]
  BY <1>1, <1>2 DEF BackedInv, TypeInv
<1>4. score' \in [Paths -> Nat] /\ preference' \in [Paths -> SUBSET Preferences]
  BY <1>1 DEF BackedInv, TypeInv
<1> QED BY <1>1, <1>3, <1>4, UserKeeps

\* The outbox with marks more or less.
LEMMA OutboxKeeps ==
    ASSUME BackedInv, Quiet, UNCHANGED <<file, score, preference, pass, queued, flush, nonces>>, faults' \in 0..MaxFaults,
           \A i \in outbox' : i \in outbox \/ (i \in Item /\ i.kind = "stale" /\ i.path \in Paths \cup {WholeRoom})
    PROVE  BackedInv'
<1>1. ReservationInv' /\ AvailableIsBacked' /\ Progress /\ Ids' = Ids /\ AvailableFiles' = AvailableFiles
  BY QuietKeeps
<1>2. TypeInv /\ ItemInv /\ CommitInv /\ UploadInv
  BY DEF BackedInv
<1>3. TypeInv'
  <2>1. outbox' \subseteq Item
    BY <1>2 DEF TypeInv
  <2> QED BY <1>1, <1>2, <2>1 DEF TypeInv, Quiet
<1>4. ItemInv'
  BY <1>1, <1>2 DEF ItemInv, SendableItem, Quiet
<1>5. CommitInv'
  BY <1>1, <1>2 DEF CommitInv, Quiet, Now, FlushHolds
<1>6. UploadInv'
  BY <1>1, <1>2 DEF UploadInv, Uploaded, Quiet, Now
<1> QED BY <1>1, <1>3, <1>4, <1>5, <1>6 DEF BackedInv

-----------------------------------------------------------------------------
(* The pass.                                                               *)

Sending == {"recheck", "enqueue", "complete", "commit"}

\* A step of the pass that leaves the server alone: it goes on to a completion only with its check done.
LEMMA PassKeeps ==
    ASSUME BackedInv, Quiet, UNCHANGED <<file, score, preference, outbox, queued, flush>>,
           nonces' \in 0..MaxUploads, faults' \in 0..MaxFaults,
           pass' \in PassRecord, pass'.todo \subseteq Ids, pass'.pc \in {"idle", "send", "submit"} <=> pass'.todo = {},
           pass'.pc \notin Sending \/ (pass.pc \in Sending /\ pass'.todo = pass.todo),
           pass'.pc = "commit" => room /\ reservations[Now].status = "RESERVED" /\ ~FlushHolds(Now),
           pass'.pc = "submit" => room
    PROVE  BackedInv'
<1>1. ReservationInv' /\ AvailableIsBacked' /\ Progress /\ Ids' = Ids /\ AvailableFiles' = AvailableFiles
  BY QuietKeeps
<1>2. TypeInv /\ ItemInv /\ CommitInv /\ UploadInv
  BY DEF BackedInv
<1>3. TypeInv'
  BY <1>1, <1>2 DEF TypeInv, Quiet
<1>4. ItemInv'
  BY <1>1, <1>2 DEF ItemInv, SendableItem, Quiet
<1>5. CommitInv'
  <2>1. pass'.pc = "commit" => Now' = Now
    BY DEF Sending, Now
  <2>2. pass'.pc = "commit" => reservations'[Now'].status = "RESERVED" /\ ~FlushHolds(Now)'
    BY <2>1 DEF Quiet, FlushHolds
  <2> QED BY <1>1, <1>2, <2>2 DEF CommitInv, Quiet
<1>6. UploadInv'
  <2>1. \A i \in outbox' \cup {flush'.item} : i \in outbox \cup {flush.item}
    OBVIOUS
  <2> QED BY <1>1, <1>2, <2>1, UploadKeeps DEF Quiet, Sending
<1> QED BY <1>1, <1>3, <1>4, <1>5, <1>6 DEF BackedInv

\* Faults stay within their bound.
LEMMA FaultType ==
    ASSUME CacheAssumption, faults \in 0..MaxFaults, Fault \/ UNCHANGED faults
    PROVE  faults' \in 0..MaxFaults
BY DEF CacheAssumption, Fault

\* The candidates the desktop chooses are a batch: one of each path.
LEMMA CandidatesType ==
    ASSUME CacheAssumption, TypeInv
    PROVE  Candidates \in Batches
<1> DEFINE Q == {q \in Paths \ policy.excluded : score[q] > 0 /\ "excluded" \notin preference[q] /\ file[q] # Removed}
           Of(p) == [path |-> p, version |-> file[p], score |-> Score(p), pin |-> "pinned" \in preference[p] \/ p \in policy.pinned]
           g == [p \in Q |-> Of(p)]
<1>1. Q \subseteq Paths /\ IsFiniteSet(Q)
  BY FS_Subset DEF CacheAssumption
<1>2. \A p \in Q : file[p] # Removed
  OBVIOUS
<1> HIDE DEF Q
<1>3. Candidates = {Of(p) : p \in Q}
  BY DEF Candidates, Q
<1>4. ASSUME NEW p \in Q PROVE Of(p) \in Candidate /\ Of(p).path = p
  <2>1. file[p] \in Versions /\ Score(p) \in Nat
    <3>1. file \in [Paths -> Versions \cup {Removed}] /\ score \in [Paths -> Nat]
      BY DEF TypeInv
    <3>2. file[p] \in Versions /\ score[p] \in Nat
      BY <1>1, <1>2, <3>1
    <3> QED BY <3>2 DEF Score, PinBonus
  <2> QED BY <1>1, <2>1 DEF Candidate
<1> HIDE DEF Of
<1>5. Candidates \subseteq Candidate
  BY <1>3, <1>4
<1>6. OnePerPath(Candidates)
  BY <1>3, <1>4 DEF OnePerPath
<1>7. g \in Surjection(Q, Candidates)
  <2>1. g \in [Q -> Candidates]
    BY <1>3
  <2>2. \A c \in Candidates : \E p \in Q : g[p] = c
    BY <1>3
  <2> HIDE DEF g
  <2> QED BY <2>1, <2>2 DEF Surjection
<1>8. IsFiniteSet(Candidates)
  <2> HIDE DEF g
  <2> QED BY <1>1, <1>7, FS_Surjection
<1> QED BY <1>5, <1>6, <1>8 DEF Batches

\* A pass has chosen its candidates.
LEMMA PreparedIs ==
    ASSUME Candidates \in Batches, pass' = [Idle EXCEPT !.pc = "send", !.batch = Candidates]
    PROVE  pass' \in PassRecord /\ pass'.pc = "send" /\ pass'.todo = {} /\ pass'.counted = {}
<1> DEFINE b == [Idle EXCEPT !.pc = "send", !.batch = Candidates]
<1>1. b \in PassRecord
  BY IdleType DEF PassRecord
<1>2. b.pc = "send" /\ b.todo = {} /\ b.counted = {}
  BY IdleType DEF PassRecord, Idle
<1> QED BY <1>1, <1>2

LEMMA PrepareCandidatesKeeps ==
    ASSUME CacheAssumption, BackedInv, PrepareCandidates
    PROVE  BackedInv'
<1>1. Quiet /\ UNCHANGED <<file, score, preference, outbox, queued, flush, nonces, faults>> /\ room
  BY DEF PrepareCandidates, Quiet, local, server
<1>2. TypeInv
  BY DEF BackedInv
<1>3. pass' \in PassRecord /\ pass'.pc = "send" /\ pass'.todo = {}
  BY <1>2, CandidatesType, PreparedIs DEF PrepareCandidates
<1>4. nonces' \in 0..MaxUploads /\ faults' \in 0..MaxFaults
  BY <1>1, <1>2 DEF TypeInv
<1> QED BY <1>1, <1>3, <1>4, PassKeeps DEF Sending

\* submit has summed what is cached.
LEMMA SummedIs ==
    ASSUME TypeInv, ReservationInv, uncounted \in SUBSET Nat,
           pass' = [pass EXCEPT !.pc = "submit", !.used = Cardinality(AvailableFiles), !.counted = uncounted]
    PROVE  /\ pass' \in PassRecord /\ pass'.pc = "submit" /\ pass'.todo = pass.todo
           /\ pass'.used = Cardinality(AvailableFiles) /\ pass'.counted = uncounted
<1>1. Cardinality(AvailableFiles) \in Nat
  BY AvailableFinite
<1>2. pass \in PassRecord
  BY DEF TypeInv
<1> DEFINE n == Cardinality(AvailableFiles)
<1>3. n \in Nat
  BY <1>1
<1> HIDE DEF n
<1>4. pass' = [pass EXCEPT !.pc = "submit", !.used = n, !.counted = uncounted]
  BY DEF n
<1>5. /\ pass' \in PassRecord /\ pass'.pc = "submit" /\ pass'.todo = pass.todo
      /\ pass'.used = n /\ pass'.counted = uncounted
  BY <1>2, <1>3, <1>4 DEF PassRecord
<1> QED BY <1>5 DEF n

LEMMA BeginSubmitKeeps ==
    ASSUME BackedInv, uncounted \subseteq Completed, BeginSubmit
    PROVE  BackedInv'
<1>1. Quiet /\ UNCHANGED <<file, score, preference, outbox, queued, flush, nonces, faults>> /\ pass.pc = "send"
  BY DEF BeginSubmit, Quiet, local, server
<1>2. TypeInv /\ ReservationInv
  BY DEF BackedInv
<1>3. uncounted \in SUBSET Nat /\ pass.todo = {}
  BY <1>1, <1>2, IdsAre DEF Completed, TypeInv
<1>4. nonces' \in 0..MaxUploads /\ faults' \in 0..MaxFaults
  BY <1>1, <1>2 DEF TypeInv
<1>5. CASE room /\ pass' = [pass EXCEPT !.pc = "submit", !.used = Cardinality(AvailableFiles), !.counted = uncounted]
  <2>1. pass' \in PassRecord /\ pass'.pc = "submit" /\ pass'.todo = {}
    BY <1>2, <1>3, <1>5, SummedIs
  <2> QED BY <1>1, <1>4, <1>5, <2>1, PassKeeps DEF Sending
<1>6. CASE pass' = Idle
  BY <1>1, <1>4, <1>6, IdleType, PassKeeps DEF Sending
<1> QED BY <1>5, <1>6 DEF BeginSubmit

LEMMA EnsureStillCurrentKeeps ==
    ASSUME BackedInv, NEW at, NEW next, <<at, next>> \in {<<"check", "put">>, <<"recheck", "enqueue">>},
           EnsureStillCurrent(at, next)
    PROVE  BackedInv'
<1>1. Quiet /\ UNCHANGED <<file, score, preference, outbox, queued, flush, nonces, faults>> /\ pass.pc = at
  BY DEF EnsureStillCurrent, Quiet, local, server
<1>2. TypeInv
  BY DEF BackedInv
<1>3. PICK pc \in {next, "cancel"} : Goto(pc)
  BY DEF EnsureStillCurrent
<1>4. pass \in PassRecord /\ pc \in {"idle", "send", "submit", "check", "put", "recheck", "enqueue", "complete", "commit", "cancel"}
  BY <1>2 DEF TypeInv
<1>5. pass' \in PassRecord /\ pass'.pc = pc /\ pass'.todo = pass.todo
  BY <1>3, <1>4, GotoStep
<1>6. nonces' \in 0..MaxUploads /\ faults' \in 0..MaxFaults /\ pass.todo \subseteq Ids /\ pass.todo # {}
  BY <1>1, <1>2 DEF TypeInv
<1>7. pc \notin Sending \/ pass.pc \in Sending
  BY <1>1, <1>3 DEF Sending
<1>8. pc \notin {"idle", "send", "submit", "commit"}
  BY <1>3
<1> QED BY <1>1, <1>5, <1>6, <1>7, <1>8, PassKeeps

\* The pass goes on with the next reservation.
LEMMA SkipKeeps ==
    ASSUME BackedInv, Quiet, UNCHANGED <<file, score, preference, outbox, queued, flush, nonces>>, faults' \in 0..MaxFaults, Skip
    PROVE  BackedInv'
<1>1. TypeInv
  BY DEF BackedInv
<1>2. pass.todo \ {Now} \subseteq Ids /\ pass.todo \ {Now} \in SUBSET Nat
  BY <1>1, IdsAre DEF TypeInv
<1>3. /\ pass' \in PassRecord /\ pass'.todo \subseteq Ids /\ pass'.pc \in {"idle", "check"} /\ (pass'.pc = "idle" <=> pass'.todo = {})
  BY <1>2, UploadStep DEF Skip
<1>4. nonces' \in 0..MaxUploads
  BY <1>1 DEF TypeInv
<1>5. pass'.pc \in {"idle", "send", "submit"} <=> pass'.todo = {}
  BY <1>3
<1>6. pass'.pc \notin Sending /\ pass'.pc # "commit" /\ pass'.pc # "submit"
  BY <1>3 DEF Sending
<1> QED BY <1>3, <1>4, <1>5, <1>6, PassKeeps

\* A completion that may commit has a reservation that is RESERVED and has not run out.
LEMMA CheckedIsReserved ==
    ASSUME NEW i, CompletionCheck(i) = "commit"
    PROVE  room /\ reservations[i.id].status = "RESERVED" /\ i.id \notin late
BY DEF CompletionCheck

LEMMA CompleteUploadCheckKeeps ==
    ASSUME CacheAssumption, BackedInv, CompleteUpload, pass.pc = "complete"
    PROVE  BackedInv'
<1>1. TypeInv /\ ReservationInv
  BY DEF BackedInv
<1>2. Quiet /\ UNCHANGED <<file, score, preference, outbox, queued, flush, nonces>>
  BY DEF CompleteUpload, Quiet, local
<1>3. (Fault \/ UNCHANGED faults) /\ ~FlushHolds(Now)
  BY DEF CompleteUpload
<1>4. faults' \in 0..MaxFaults
  BY <1>1, <1>3, FaultType DEF TypeInv
<1>5. CASE Skip
  BY <1>2, <1>4, <1>5, SkipKeeps
<1>6. CASE CompletionCheck(InHand) = "commit" /\ Goto("commit")
  <2>1. pass.todo # {} /\ pass \in PassRecord /\ pass.todo \subseteq Ids /\ nonces' \in 0..MaxUploads
    BY <1>1, <1>2 DEF TypeInv
  <2>2. room /\ reservations[Now].status = "RESERVED"
    BY <1>1, <1>6, <2>1, CheckedIsReserved, InHandIs
  <2>3. pass' \in PassRecord /\ pass'.pc = "commit" /\ pass'.todo = pass.todo
    BY <1>6, <2>1, GotoStep
  <2> QED BY <1>2, <1>3, <1>4, <2>1, <2>2, <2>3, PassKeeps DEF Sending
<1> QED BY <1>5, <1>6 DEF CompleteUpload

\* An encryption is of a version and never empty.
LEMMA EncryptedType ==
    ASSUME CacheAssumption, TypeInv, nonces < MaxUploads, NEW p \in Paths, file[p] # Removed
    PROVE  EncryptFile(p) \in Contents /\ EncryptFile(p) # NoUpload /\ nonces + 1 \in 0..MaxUploads
<1>1. MaxUploads \in Nat /\ nonces \in 0..MaxUploads /\ Versions \subseteq Nat \ {0}
  BY DEF CacheAssumption, TypeInv
<1>2. file[p] \in Versions
  <2>1. file \in [Paths -> Versions \cup {Removed}]
    BY DEF TypeInv
  <2> QED BY <2>1
<1>3. nonces + 1 \in 1..MaxUploads /\ nonces + 1 \in 0..MaxUploads /\ nonces + 1 # 0
  BY <1>1
<1>4. EncryptFile(p).nonce = nonces + 1 /\ NoUpload.nonce = 0
  BY DEF EncryptFile, NoUpload
<1>5. EncryptFile(p) \in [version : Versions, nonce : 1..MaxUploads]
  BY <1>2, <1>3 DEF EncryptFile
<1> QED BY <1>3, <1>4, <1>5 DEF Contents

LEMMA PutUploadBytesKeeps ==
    ASSUME CacheAssumption, BackedInv, PutUploadBytes
    PROVE  BackedInv'
<1>1. TypeInv /\ ItemInv /\ ReservationInv /\ CommitInv /\ UploadInv /\ AvailableIsBacked
  BY DEF BackedInv
<1>2. /\ UNCHANGED <<file, score, preference, reservations, late, cached, doomed, room, outbox, queued, flush>>
      /\ pass.pc = "put" /\ nonces < MaxUploads
  BY DEF PutUploadBytes, local, server
<1>3. Now \in Ids /\ pass.todo # {} /\ pass.todo \subseteq Ids /\ pass \in PassRecord /\ nonces \in 0..MaxUploads
  BY <1>1, <1>2, NowIn DEF TypeInv
<1>4. faults' \in 0..MaxFaults
  <2>1. Fault \/ UNCHANGED faults
    BY DEF PutUploadBytes
  <2> QED BY <1>1, <2>1, FaultType DEF TypeInv
<1>5. Current.path \in Paths /\ Current = reservations[Now]
  BY <1>1, <1>3, RowFields DEF Current
<1>6. CASE UNCHANGED objects /\ Goto("cancel")
  <2>1. pass' \in PassRecord /\ pass'.pc = "cancel" /\ pass'.todo = pass.todo
    BY <1>3, <1>6, GotoStep
  <2>2. nonces' \in 0..MaxUploads
    <3>1. nonces' = nonces \/ (nonces' = nonces + 1 /\ file[Current.path] # Removed)
      BY DEF PutUploadBytes
    <3> QED BY <1>1, <1>2, <1>3, <1>5, <3>1, EncryptedType
  <2>3. Quiet
    BY <1>2, <1>6 DEF Quiet
  <2> QED BY <1>2, <1>3, <1>4, <2>1, <2>2, <2>3, PassKeeps DEF Sending
<1>7. CASE /\ file[Current.path] # Removed /\ nonces' = nonces + 1
           /\ objects' = [objects EXCEPT ![Now] = EncryptFile(Current.path)]
           /\ pass' = [pass EXCEPT !.pc = "recheck", !.upload = EncryptFile(Current.path)]
  <2> DEFINE u == EncryptFile(Current.path)
  <2>1. u \in Contents /\ u # NoUpload /\ nonces' \in 0..MaxUploads
    BY <1>1, <1>2, <1>5, <1>7, EncryptedType
  <2> HIDE DEF u
  <2>2. pass' \in PassRecord /\ pass'.pc = "recheck" /\ pass'.todo = pass.todo
    <3>1. pass' = [pass EXCEPT !.pc = "recheck", !.upload = u]
      BY <1>7 DEF u
    <3> QED BY <1>3, <2>1, <3>1 DEF PassRecord
  <2>3. /\ objects' \in Seq(Contents) /\ Len(objects') = Len(objects) /\ objects'[Now] = u
        /\ \A r \in Ids : objects'[r] = objects[r] \/ objects'[r] # NoUpload
    <3>1. objects \in Seq(Contents) /\ DOMAIN objects = Ids /\ objects' = [objects EXCEPT ![Now] = u]
      BY <1>1, <1>7, IdsAre DEF TypeInv, u
    <3> QED BY <1>3, <2>1, <3>1
  <2>4. Progress /\ Ids' = Ids /\ Completed' = Completed /\ AvailableFiles' = AvailableFiles /\ \A f \in Files : Keeps(f)
    BY <1>2, SameRows
  <2>5. TypeInv'
    <3>1. pass'.pc \notin {"idle", "send", "submit"} /\ pass'.todo # {} /\ pass'.todo \subseteq Ids'
      BY <1>3, <2>2, <2>4
    <3> QED BY <1>1, <1>2, <1>4, <2>1, <2>2, <2>3, <2>4, <3>1 DEF TypeInv
  <2>6. ItemInv'
    BY <1>1, <1>2, <2>4 DEF ItemInv, SendableItem
  <2>7. ReservationInv'
    BY <1>1, <1>2, <2>4, ReservationKeeps
  <2>8. CommitInv'
    BY <1>1, <1>2, <2>2, <2>4 DEF CommitInv
  <2>9. UploadInv'
    <3>1. Uploaded(Now)'
      <4>1. Now' = Now /\ NoUpload' = NoUpload
        BY <2>2 DEF Now
      <4> QED BY <2>1, <2>3, <4>1 DEF Uploaded
    <3>2. ASSUME NEW i \in outbox' \cup {flush'.item}, i.kind = "completion" PROVE Uploaded(i.id)'
      <4>1. i.id \in Ids /\ Uploaded(i.id)
        BY <1>1, <1>2, <3>2 DEF ItemInv, SendableItem, NoItem, UploadInv
      <4> QED BY <1>2, <2>3, <2>4, <4>1, UploadedKeeps
    <3> QED BY <3>1, <3>2 DEF UploadInv
  <2>10. AvailableIsBacked'
    <3>1. \A r \in Completed : objects'[r] = objects[r] \/ objects'[r] # NoUpload
      BY <2>3 DEF Completed
    <3>2. \A f \in AvailableFiles' : f \in AvailableFiles /\ cached'[f].key = cached[f].key /\ cached[f].key \notin doomed' \ doomed
      BY <1>2, <2>4
    <3> QED BY <1>1, <3>1, <3>2, BackedKeeps
  <2> QED BY <2>5, <2>6, <2>7, <2>8, <2>9, <2>10 DEF BackedInv
<1> QED BY <1>6, <1>7 DEF PutUploadBytes

LEMMA EnqueueCompletionKeeps ==
    ASSUME CacheAssumption, BackedInv, EnqueueCompletion
    PROVE  BackedInv'
<1>1. TypeInv /\ ItemInv /\ ReservationInv /\ CommitInv /\ UploadInv /\ AvailableIsBacked
  BY DEF BackedInv
<1>2. /\ Quiet /\ UNCHANGED <<file, score, preference, flush, nonces, faults>>
      /\ pass.pc = "enqueue" /\ Goto("complete") /\ queued' = queued \cup {Now}
      /\ outbox' = outbox \/ outbox' = outbox \cup {InHand}
  BY DEF EnqueueCompletion, local, server, Quiet, InHand
<1>3. Now \in Ids /\ pass.todo # {} /\ pass.todo \subseteq Ids /\ pass \in PassRecord
  BY <1>1, <1>2, NowIn DEF TypeInv
<1>4. pass' \in PassRecord /\ pass'.pc = "complete" /\ pass'.todo = pass.todo
  BY <1>2, <1>3, GotoStep
<1>5. /\ InHand \in Item /\ InHand.kind = "completion" /\ InHand.id = Now /\ SendableItem(InHand)
  BY <1>1, <1>3, InHandIs
<1>6. ReservationInv' /\ AvailableIsBacked' /\ Progress /\ Ids' = Ids /\ AvailableFiles' = AvailableFiles
  BY <1>2, QuietKeeps
<1>7. \A i \in outbox' : i \in outbox \/ i = InHand
  BY <1>2
<1>8. TypeInv'
  <2>1. outbox' \subseteq Item /\ queued' \subseteq Ids'
    BY <1>1, <1>2, <1>3, <1>5, <1>6, <1>7 DEF TypeInv
  <2>2. pass'.pc \notin {"idle", "send", "submit"} /\ pass'.todo # {} /\ pass'.todo \subseteq Ids'
    BY <1>3, <1>4, <1>6
  <2> QED BY <1>1, <1>2, <1>4, <1>6, <2>1, <2>2 DEF TypeInv, Quiet
<1>9. ItemInv'
  <2>1. \A i : SendableItem(i) => SendableItem(i)'
    BY <1>2, <1>6, SendableKeeps
  <2>2. \A i \in outbox' : SendableItem(i)'
    BY <1>1, <1>5, <1>7, <2>1 DEF ItemInv
  <2> QED BY <1>1, <1>2, <2>1, <2>2 DEF ItemInv
<1>10. CommitInv'
  BY <1>1, <1>2, <1>4, <1>6 DEF CommitInv, Quiet
<1>11. UploadInv'
  <2>1. Uploaded(Now)
    BY <1>1, <1>2 DEF UploadInv
  <2>2. \A i \in outbox' \cup {flush'.item} :
              i \in outbox \cup {flush.item} \/ i.kind # "completion" \/ (i.id \in Ids /\ Uploaded(i.id))
    <3> SUFFICES ASSUME NEW i \in outbox' \cup {flush'.item}
                 PROVE  i \in outbox \cup {flush.item} \/ i.kind # "completion" \/ (i.id \in Ids /\ Uploaded(i.id))
      OBVIOUS
    <3>1. i \in outbox \/ i = InHand \/ i = flush.item
      BY <1>2, <1>7
    <3>2. i = InHand => i.id \in Ids /\ Uploaded(i.id)
      BY <1>3, <1>5, <2>1
    <3> QED BY <3>1, <3>2
  <2>3. pass.pc \in {"recheck", "enqueue", "complete", "commit"} /\ pass'.todo = pass.todo
    BY <1>2, <1>4
  <2> QED BY <1>1, <1>2, <1>6, <2>2, <2>3, UploadKeeps DEF Quiet
<1> QED BY <1>6, <1>8, <1>9, <1>10, <1>11 DEF BackedInv

\* A completion commits, for the pass or for the flush.
LEMMA CommitCompletionKeeps ==
    ASSUME CacheAssumption, BackedInv, NEW i \in Item, i.kind = "completion", SendableItem(i), CommitCompletion(i),
           Uploaded(i.id), \/ pass.pc = "commit" /\ i.id = Now /\ pass'.pc \in {"idle", "check"} /\ flush' = flush
                           \/ flush.pc = "commit" /\ i = flush.item /\ pass' = pass /\ flush'.pc = "mark" /\ flush'.item = i,
           pass' \in PassRecord, pass'.todo \subseteq Ids, pass'.pc \in {"idle", "send", "submit"} <=> pass'.todo = {},
           flush' \in FlushRecord, faults' \in 0..MaxFaults,
           UNCHANGED <<file, score, preference, late, objects, room, outbox, queued, nonces>>
    PROVE  BackedInv'
<1>1. TypeInv /\ ItemInv /\ ReservationInv /\ CommitInv /\ UploadInv /\ AvailableIsBacked
  BY DEF BackedInv
<1>2. reservations[i.id].status = "RESERVED"
  BY <1>1 DEF CommitInv
<1> DEFINE f0 == FileOf(i.id)
           old == {f \in AvailableFiles : f[1] = i.path}
<1>3. /\ i.id \in Ids /\ f0 \in Files /\ f0[1] = i.path /\ cached[f0] = NoFile
      /\ cached' \in [Files -> CachedRow]
      /\ cached'[f0].status = "AVAILABLE" /\ cached'[f0].key = i.id
      /\ cached'[f0].fresh = "VERIFIED_CURRENT"
      /\ \A f \in AvailableFiles : f[1] = i.path => f # f0 /\ Loses(f)
      /\ \A f \in Files \ {f0} : (f \notin AvailableFiles \/ f[1] # i.path) => Keeps(f)
      /\ doomed' = doomed \cup KeysOf(old)
      /\ reservations' \in Seq(Row) /\ Ids' = Ids /\ Len(reservations') = Len(reservations)
      /\ Progress /\ Completed' = Completed \cup {i.id} /\ i.id \notin Completed
      /\ \A r \in Ids \ {i.id} : reservations'[r].status = reservations[r].status
  BY <1>1, <1>2, CommitStep
<1>4. AvailableFiles' = {f \in AvailableFiles : f[1] # i.path} \cup {f0}
  BY <1>1, <1>2, CommitAvailable
<1>5. old \in SUBSET AvailableFiles
  OBVIOUS
<1>6. KeysOf(old) \subseteq Completed /\ \A f \in AvailableFiles \ old : cached[f].key \notin KeysOf(old)
  BY <1>1, <1>5, KeysApart
<1>7. \A f \in AvailableFiles : f[1] # i.path => f \in AvailableFiles \ old
  OBVIOUS
<1> HIDE DEF f0, old
<1>8. Completed \subseteq Ids
  BY DEF Completed
<1>9. TypeInv'
  <2>1. doomed' \subseteq Ids' /\ late' \subseteq Ids' /\ queued' \subseteq Ids' /\ pass'.todo \subseteq Ids'
    BY <1>1, <1>3, <1>6, <1>8 DEF TypeInv
  <2> QED BY <1>1, <1>3, <2>1 DEF TypeInv
<1>10. ItemInv'
  <2>1. \A j : SendableItem(j) => SendableItem(j)'
    BY <1>3, SendableKeeps
  <2>2. \/ flush' = flush
        \/ flush'.pc = "mark" /\ SendableItem(flush'.item)
    OBVIOUS
  <2>3. \/ flush'.pc = "idle" /\ flush'.item = NoItem
        \/ flush'.pc \in {"commit", "mark"} /\ SendableItem(flush.item)'
    <3>1. CASE flush' = flush
      BY <1>1, <2>1, <3>1 DEF ItemInv
    <3>2. CASE flush'.pc = "mark" /\ SendableItem(flush'.item) /\ flush'.item = i
      <4>1. SendableItem(i)'
        BY <2>1
      <4>2. \A j : j = flush'.item => (SendableItem(j)' <=> SendableItem(flush.item)')
        BY DEF SendableItem
      <4> QED BY <3>2, <4>1, <4>2
    <3> QED BY <3>1, <3>2
  <2>4. flush'.pc = "commit" => flush'.item.kind = "completion"
    BY <1>1, <2>2 DEF ItemInv
  <2>5. \A j \in outbox' : SendableItem(j)'
    BY <1>1, <2>1 DEF ItemInv
  <2> QED BY <2>3, <2>4, <2>5 DEF ItemInv
<1>11. ReservationInv'
  <2>1. ASSUME NEW f \in Files
        PROVE  \/ Keeps(f) \/ Changes(f)
               \/ /\ cached'[f].status # "NONE" /\ cached'[f].fresh # "" /\ cached'[f].key \in Completed'
                  /\ FileOf(cached'[f].key) = f
    <3>1. CASE f = f0
      BY <1>3, <3>1 DEF f0
    <3>2. CASE f # f0 /\ f \in AvailableFiles /\ f[1] = i.path
      BY <1>3, <3>2 DEF Loses
    <3>3. CASE f # f0 /\ ~(f \in AvailableFiles /\ f[1] = i.path)
      BY <1>3, <3>3
    <3> QED BY <3>1, <3>2, <3>3
  <2>2. doomed' \subseteq doomed \cup Completed'
    BY <1>3, <1>6
  <2> QED BY <1>1, <1>3, <2>1, <2>2, ReservationKeeps
<1>12. CommitInv'
  <2>1. \A r \in Ids : r # i.id => reservations'[r].status = reservations[r].status
    BY <1>3
  <2>2. ASSUME pass'.pc = "commit" PROVE reservations'[Now'].status = "RESERVED" /\ ~FlushHolds(Now)'
    <3>1. flush.pc = "commit" /\ i = flush.item /\ pass' = pass /\ flush'.pc = "mark"
      BY <2>2
    <3>2. Now' = Now /\ Now \in Ids
      BY <1>1, <2>2, <3>1, NowIn DEF Now, TypeInv
    <3>3. Now # i.id /\ reservations[Now].status = "RESERVED"
      BY <1>1, <2>2, <3>1 DEF CommitInv, FlushHolds
    <3> QED BY <2>1, <3>1, <3>2, <3>3 DEF FlushHolds
  <2>3. ASSUME flush'.pc = "commit" PROVE reservations'[flush'.item.id].status = "RESERVED"
    <3>1. pass.pc = "commit" /\ i.id = Now /\ flush' = flush /\ flush.pc = "commit"
      BY <2>3
    <3>2. flush.item.id # i.id /\ reservations[flush.item.id].status = "RESERVED"
      BY <1>1, <3>1 DEF CommitInv, FlushHolds
    <3>3. flush.item.id \in Ids
      BY <1>1, <3>1 DEF ItemInv, SendableItem
    <3> QED BY <2>1, <3>1, <3>2, <3>3
  <2>4. room
    BY <1>1 DEF CommitInv
  <2> QED BY <2>2, <2>3, <2>4 DEF CommitInv
<1>13. UploadInv'
  <2>1. \A j \in outbox' \cup {flush'.item} :
              j \in outbox \cup {flush.item} \/ j.kind # "completion" \/ (j.id \in Ids /\ Uploaded(j.id))
    OBVIOUS
  <2>2. \/ pass'.pc \notin {"recheck", "enqueue", "complete", "commit"}
        \/ pass.pc \in {"recheck", "enqueue", "complete", "commit"} /\ pass'.todo = pass.todo
    OBVIOUS
  <2>3. doomed \subseteq doomed'
    BY <1>3
  <2> QED BY <1>1, <1>3, <2>1, <2>2, <2>3, UploadKeeps
<1>14. AvailableIsBacked'
  <2>1. i.id \notin doomed /\ i.id \notin KeysOf(old)
    BY <1>1, <1>3, <1>6 DEF ReservationInv
  <2>2. objects[i.id] # NoUpload
    BY <1>2, <2>1 DEF Uploaded
  <2>3. ASSUME NEW f \in AvailableFiles'
        PROVE  \/ f \in AvailableFiles /\ cached'[f].key = cached[f].key /\ cached[f].key \notin doomed' \ doomed
               \/ objects'[cached'[f].key] # NoUpload /\ cached'[f].key \notin doomed'
    <3>1. CASE f = f0
      BY <1>3, <2>1, <2>2, <3>1
    <3>2. CASE f # f0
      <4>1. f \in AvailableFiles /\ f[1] # i.path /\ f \in Files
        BY <1>4, <3>2, AvailableIs
      <4>2. Keeps(f) /\ cached[f].key \notin KeysOf(old)
        BY <1>3, <1>6, <1>7, <3>2, <4>1
      <4> QED BY <1>3, <4>1, <4>2 DEF Keeps
    <3> QED BY <3>1, <3>2
  <2> QED BY <1>1, <2>3, BackedKeeps
<1> QED BY <1>9, <1>10, <1>11, <1>12, <1>13, <1>14 DEF BackedInv

LEMMA CompleteUploadCommitKeeps ==
    ASSUME CacheAssumption, BackedInv, CompleteUpload, pass.pc = "commit"
    PROVE  BackedInv'
<1>1. TypeInv /\ ReservationInv /\ UploadInv
  BY DEF BackedInv
<1>2. /\ CommitCompletion(InHand) /\ Skip
      /\ UNCHANGED <<file, score, preference, late, objects, room, outbox, queued, flush, nonces, faults>>
  BY DEF CompleteUpload, local
<1>3. pass.todo # {}
  BY <1>1 DEF TypeInv
<1>4. InHand \in Item /\ InHand.kind = "completion" /\ InHand.id = Now /\ SendableItem(InHand)
  BY <1>1, <1>3, InHandIs
<1>5. Uploaded(Now)
  BY <1>1 DEF UploadInv
<1>6. pass.todo \ {Now} \subseteq Ids /\ pass.todo \ {Now} \in SUBSET Nat
  BY <1>1, IdsAre DEF TypeInv
<1>7. /\ pass' \in PassRecord /\ pass'.todo \subseteq Ids /\ pass'.pc \in {"idle", "check"} /\ (pass'.pc = "idle" <=> pass'.todo = {})
  BY <1>2, <1>6, UploadStep DEF Skip
<1>8. pass'.pc \in {"idle", "send", "submit"} <=> pass'.todo = {}
  BY <1>7
<1>9. flush' \in FlushRecord /\ faults' \in 0..MaxFaults
  BY <1>1, <1>2 DEF TypeInv
<1> DEFINE i == InHand
<1>10. i \in Item /\ i.kind = "completion" /\ SendableItem(i) /\ CommitCompletion(i) /\ Uploaded(i.id) /\ i.id = Now
  BY <1>2, <1>4, <1>5
<1> HIDE DEF i
<1> QED BY <1>2, <1>7, <1>8, <1>9, <1>10, CommitCompletionKeeps

-----------------------------------------------------------------------------
(* The flush.                                                              *)

\* The flush has its answer.
LEMMA AnswerStep ==
    ASSUME NEW i \in Item, NEW a \in {"", "accept", "reject", "retry"}, NextAnswer(i, a)
    PROVE  flush' \in FlushRecord /\ flush'.pc = "mark" /\ flush'.item = i /\ flush'.answer = a
BY DEF NextAnswer, FlushRecord

\* The fields of the flush.
LEMMA FlushFields ==
    ASSUME TypeInv
    PROVE  /\ flush.pc \in {"idle", "commit", "mark"} /\ flush.item \in Item
           /\ flush.answer \in {"", "accept", "reject", "retry"}
BY DEF TypeInv, FlushRecord

LEMMA CommitItemKeeps ==
    ASSUME CacheAssumption, BackedInv, CommitItem
    PROVE  BackedInv'
<1>1. TypeInv /\ ItemInv /\ UploadInv
  BY DEF BackedInv
<1>2. /\ flush.pc = "commit" /\ CommitCompletion(flush.item) /\ (Fault \/ UNCHANGED faults)
      /\ UNCHANGED <<file, score, preference, late, objects, room, pass, outbox, queued, nonces>>
  BY DEF CommitItem, local
<1>3. PICK a \in {"accept", "retry"} : NextAnswer(flush.item, a)
  BY DEF CommitItem
<1> DEFINE i == flush.item
<1>4. i \in Item /\ i.kind = "completion" /\ SendableItem(i) /\ Uploaded(i.id) /\ CommitCompletion(i)
  BY <1>1, <1>2, FlushFields DEF ItemInv, UploadInv
<1>5. flush' \in FlushRecord /\ flush'.pc = "mark" /\ flush'.item = i
  BY <1>3, <1>4, AnswerStep
<1>6. /\ pass' \in PassRecord /\ pass'.todo \subseteq Ids /\ (pass'.pc \in {"idle", "send", "submit"} <=> pass'.todo = {})
  BY <1>1, <1>2 DEF TypeInv
<1>7. faults' \in 0..MaxFaults
  BY <1>1, <1>2, FaultType DEF TypeInv
<1>8. i = flush.item
  OBVIOUS
<1> HIDE DEF i
<1> QED BY <1>2, <1>4, <1>5, <1>6, <1>7, <1>8, CommitCompletionKeeps

\* Copies stay, and the rows change in their freshness alone.
MarksOnly ==
    /\ cached' \in [Files -> CachedRow] /\ AvailableFiles' = AvailableFiles
    /\ \A f \in Files : (Keeps(f) \/ Changes(f)) /\ cached'[f].key = cached[f].key

\* markStale changes freshness alone.
LEMMA MarksOnlyIs ==
    ASSUME TypeInv, ReservationInv, NEW i, UNCHANGED cached \/ MarkStale(i)
    PROVE  MarksOnly
<1>1. CASE UNCHANGED cached
  BY <1>1 DEF TypeInv, Keeps, AvailableFiles, MarksOnly
<1>2. CASE MarkStale(i)
  BY <1>2, MarkStaleStep DEF MarksOnly
<1> QED BY <1>1, <1>2

\* A step of the flush beside the server; or one that marks copies STALE.
LEMMA FlushKeeps ==
    ASSUME CacheAssumption, BackedInv, UNCHANGED <<file, score, preference, reservations, late, doomed, objects, room, queued, nonces>>,
           MarksOnly,
           flush' \in FlushRecord, faults' \in 0..MaxFaults, outbox' \subseteq outbox,
           \/ flush'.pc = "idle" /\ flush'.item = NoItem
           \/ flush'.pc = "mark" /\ (flush'.item \in outbox \/ (flush'.item = flush.item /\ flush.pc # "idle"))
           \/ /\ flush'.pc = "commit" /\ flush'.item \in outbox /\ flush'.item.kind = "completion"
              /\ reservations[flush'.item.id].status = "RESERVED" /\ room /\ ~PassHolds(flush'.item.id),
           pass' = pass \/ (pass' = Idle /\ pass.pc # "commit")
    PROVE  BackedInv'
<1>1. TypeInv /\ ItemInv /\ ReservationInv /\ CommitInv /\ UploadInv /\ AvailableIsBacked
  BY DEF BackedInv
<1>2. /\ cached' \in [Files -> CachedRow] /\ AvailableFiles' = AvailableFiles
      /\ \A f \in Files : (Keeps(f) \/ Changes(f)) /\ cached'[f].key = cached[f].key
  BY DEF MarksOnly
<1>3. Progress /\ Ids' = Ids /\ Completed' = Completed
  BY DEF Progress, Ids, Completed
<1>4. /\ pass' \in PassRecord /\ pass'.todo \subseteq Ids' /\ (pass'.pc \in {"idle", "send", "submit"} <=> pass'.todo = {})
  BY <1>1, <1>3, IdleType DEF TypeInv
<1>5. TypeInv'
  <2>1. outbox' \subseteq Item
    BY <1>1 DEF TypeInv
  <2> QED BY <1>1, <1>2, <1>3, <1>4, <2>1 DEF TypeInv
<1>6. flush'.item \in outbox \/ flush'.item = flush.item \/ flush'.item = NoItem
  OBVIOUS
<1>7. ItemInv'
  <2>1. \A j : SendableItem(j) => SendableItem(j)'
    BY <1>3, SendableKeeps
  <2>2. flush'.pc # "idle" => SendableItem(flush'.item)
    BY <1>1 DEF ItemInv
  <2>3. \A j : j = flush'.item => (SendableItem(j)' <=> SendableItem(flush.item)')
    BY DEF SendableItem
  <2>4. \/ flush'.pc = "idle" /\ flush'.item = NoItem
        \/ flush'.pc \in {"commit", "mark"} /\ SendableItem(flush.item)'
    <3>1. CASE flush'.pc = "idle"
      BY <3>1
    <3>2. CASE flush'.pc # "idle"
      <4>1. SendableItem(flush.item)'
        <5>1. \A j : j = flush'.item => SendableItem(j)
          BY <2>2, <3>2
        <5> QED BY <2>1, <2>3, <5>1
      <4>2. flush'.pc \in {"commit", "mark"}
        BY <3>2
      <4> QED BY <4>1, <4>2
    <3> QED BY <3>1, <3>2
  <2>5. \A j \in outbox' : SendableItem(j)'
    BY <1>1, <2>1 DEF ItemInv
  <2>6. flush'.pc = "commit" => flush'.item.kind = "completion"
    OBVIOUS
  <2> QED BY <2>4, <2>5, <2>6 DEF ItemInv
<1>8. ReservationInv'
  BY <1>1, <1>2, <1>3, ReservationKeeps
<1>9. CommitInv'
  <2>1. ASSUME pass'.pc = "commit" PROVE reservations'[Now'].status = "RESERVED" /\ ~FlushHolds(Now)'
    <3>1. pass' = pass /\ pass.pc = "commit"
      BY <2>1, IdleType
    <3>2. Now' = Now
      BY <3>1 DEF Now
    <3>3. reservations[Now].status = "RESERVED"
      BY <1>1, <3>1 DEF CommitInv
    <3>4. flush'.pc = "commit" => flush'.item.id # Now
      BY <3>1 DEF PassHolds
    <3> QED BY <3>2, <3>3, <3>4 DEF FlushHolds
  <2>2. flush'.pc = "commit" => reservations'[flush'.item.id].status = "RESERVED" /\ room
    OBVIOUS
  <2>3. ~room' => AvailableFiles' = {} /\ pass'.pc \notin {"submit", "commit"} /\ flush'.pc # "commit"
    BY <1>1, <1>2, <2>2, IdleType DEF CommitInv
  <2> QED BY <2>1, <2>2, <2>3 DEF CommitInv
<1>10. UploadInv'
  <2>1. \A j \in outbox' \cup {flush'.item} : j \in outbox \cup {flush.item} \/ j.kind # "completion"
    BY <1>6 DEF NoItem
  <2>2. \/ pass'.pc \notin {"recheck", "enqueue", "complete", "commit"}
        \/ pass.pc \in {"recheck", "enqueue", "complete", "commit"} /\ pass'.todo = pass.todo
    BY IdleType
  <2> QED BY <1>1, <1>3, <2>1, <2>2, UploadKeeps
<1>11. AvailableIsBacked'
  <2>1. \A f \in AvailableFiles' : f \in AvailableFiles /\ cached'[f].key = cached[f].key /\ cached[f].key \notin doomed' \ doomed
    BY <1>2, AvailableIs
  <2> QED BY <1>1, <2>1, BackedKeeps
<1> QED BY <1>5, <1>7, <1>8, <1>9, <1>10, <1>11 DEF BackedInv

\* The flush holds a completion that has passed its check.
LEMMA CommitFlush ==
    ASSUME NEW i \in Item, flush' = [pc |-> "commit", item |-> i, answer |-> ""]
    PROVE  flush' \in FlushRecord /\ flush'.pc = "commit" /\ flush'.item = i
BY DEF FlushRecord

LEMMA DispatchKeeps ==
    ASSUME CacheAssumption, BackedInv, NEW i \in outbox, Dispatch(i)
    PROVE  BackedInv'
<1>1. TypeInv /\ ReservationInv /\ i \in Item
  BY DEF BackedInv, TypeInv
<1>2. /\ UNCHANGED <<file, score, preference, late, objects, room, pass, outbox, queued, nonces>>
      /\ UNCHANGED <<doomed, reservations>> /\ (Fault \/ UNCHANGED faults)
  BY DEF Dispatch, local
<1>3. faults' \in 0..MaxFaults
  BY <1>1, <1>2, FaultType DEF TypeInv
<1>4. CASE /\ i.kind = "completion" /\ ~PassHolds(i.id) /\ CompletionCheck(i) = "commit"
           /\ flush' = [pc |-> "commit", item |-> i, answer |-> ""] /\ cached' = cached
  <2>1. room /\ reservations[i.id].status = "RESERVED"
    BY <1>4, CheckedIsReserved
  <2>2. flush' \in FlushRecord /\ flush'.pc = "commit" /\ flush'.item = i
    BY <1>1, <1>4, CommitFlush
  <2>3. MarksOnly
    BY <1>1, <1>4, MarksOnlyIs
  <2> QED BY <1>2, <1>3, <1>4, <2>1, <2>2, <2>3, FlushKeeps
<1>5. CASE (\E a \in {"accept", "reject", "retry"} : NextAnswer(i, a)) /\ (cached' = cached \/ MarkStale(i))
  <2>1. flush' \in FlushRecord /\ flush'.pc = "mark" /\ flush'.item = i
    BY <1>1, <1>5, AnswerStep
  <2>2. MarksOnly
    BY <1>1, <1>5, MarksOnlyIs
  <2>3. flush'.pc = "mark" /\ flush'.item \in outbox
    BY <2>1
  <2>4. outbox' \subseteq outbox /\ pass' = pass
    BY <1>2
  <2>5. UNCHANGED <<file, score, preference, reservations, late, doomed, objects, room, queued, nonces>>
    BY <1>2
  <2>6. flush' \in FlushRecord
    BY <2>1
  <2> QED BY <1>3, <2>2, <2>3, <2>4, <2>5, <2>6, FlushKeeps
<1>6. \A j : CompletionCheck(j) \in {"accept", "reject", "commit"}
  BY DEF CompletionCheck
<1>7. CASE i.kind = "stale"
  BY <1>5, <1>7 DEF Dispatch
<1>8. CASE i.kind = "completion"
  <2>1. /\ ~PassHolds(i.id) /\ cached' = cached
        /\ \/ CompletionCheck(i) = "commit" /\ flush' = [pc |-> "commit", item |-> i, answer |-> ""]
           \/ CompletionCheck(i) # "commit" /\ NextAnswer(i, CompletionCheck(i))
           \/ NextAnswer(i, "retry")
    BY <1>8 DEF Dispatch
  <2>2. CompletionCheck(i) # "commit" => CompletionCheck(i) \in {"accept", "reject", "retry"}
    BY <1>6
  <2> QED BY <1>4, <1>5, <1>8, <2>1, <2>2
<1> QED BY <1>7, <1>8 DEF Dispatch

LEMMA MarkItemKeeps ==
    ASSUME CacheAssumption, BackedInv, MarkItem
    PROVE  BackedInv'
<1>1. /\ UNCHANGED <<file, score, preference, reservations, late, cached, doomed, objects, room, pass, queued, nonces, faults>>
      /\ flush' = NoFlush /\ outbox' \subseteq outbox
  BY DEF MarkItem, local, server, Mark
<1>2. faults' \in 0..MaxFaults
  BY <1>1 DEF BackedInv, TypeInv
<1>3. MarksOnly
  BY <1>1, MarksOnlyIs DEF BackedInv
<1> QED BY <1>1, <1>2, <1>3, NoFlushType, FlushKeeps

-----------------------------------------------------------------------------
(* The restart, the clock, the worker, the phone and the room.             *)

LEMMA RestartDesktopKeeps ==
    ASSUME CacheAssumption, BackedInv, RestartDesktop
    PROVE  BackedInv'
<1>1. /\ UNCHANGED <<file, score, preference, reservations, late, cached, doomed, objects, room, queued, nonces, outbox>>
      /\ flush' = NoFlush /\ pass' = Idle /\ pass.pc # "commit" /\ Fault
  BY DEF RestartDesktop, server
<1>2. faults' \in 0..MaxFaults
  BY <1>1, FaultType DEF BackedInv, TypeInv
<1>3. MarksOnly
  BY <1>1, MarksOnlyIs DEF BackedInv
<1> QED BY <1>1, <1>2, <1>3, NoFlushType, FlushKeeps

LEMMA TimePassesKeeps ==
    ASSUME BackedInv, NEW r \in Ids, TimePasses(r)
    PROVE  BackedInv'
<1>1. TypeInv /\ ItemInv /\ ReservationInv /\ CommitInv /\ UploadInv /\ AvailableIsBacked
  BY DEF BackedInv
<1>2. /\ UNCHANGED <<file, score, preference, reservations, cached, doomed, objects, room, pass, outbox, queued, flush, nonces, faults>>
      /\ late' = late \cup {r}
  BY DEF TimePasses, local, desktop
<1>3. Progress /\ Ids' = Ids /\ Completed' = Completed /\ AvailableFiles' = AvailableFiles /\ \A f \in Files : Keeps(f)
  BY <1>2, SameRows
<1>4. TypeInv'
  BY <1>1, <1>2, <1>3 DEF TypeInv
<1>5. ItemInv'
  BY <1>1, <1>2, <1>3 DEF ItemInv, SendableItem
<1>6. ReservationInv'
  BY <1>1, <1>2, <1>3, ReservationKeeps
<1>7. CommitInv'
  BY <1>1, <1>2, <1>3 DEF CommitInv, Now, FlushHolds
<1>8. UploadInv'
  BY <1>1, <1>2, <1>3 DEF UploadInv, Uploaded, Now
<1>9. AvailableIsBacked'
  BY <1>1, <1>2, <1>3, BackedKeeps
<1> QED BY <1>4, <1>5, <1>6, <1>7, <1>8, <1>9 DEF BackedInv

\* A reservation that no completion holds ends; the pass may go on.
LEMMA EndsKeeps ==
    ASSUME BackedInv, NEW r \in Ids, NEW st \in {"CANCELLED", "EXPIRED"}, reservations[r].status = "RESERVED",
           reservations' = [reservations EXCEPT ![r].status = st],
           ~PassHolds(r), ~FlushHolds(r),
           UNCHANGED <<file, score, preference, late, cached, doomed, objects, room, outbox, queued, flush, nonces>>,
           faults' \in 0..MaxFaults,
           pass' \in PassRecord, pass'.todo \subseteq Ids, pass'.pc \in {"idle", "send", "submit"} <=> pass'.todo = {},
           pass' = pass \/ pass'.pc \in {"idle", "check"}
    PROVE  BackedInv'
<1>1. TypeInv /\ ItemInv /\ ReservationInv /\ CommitInv /\ UploadInv /\ AvailableIsBacked
  BY DEF BackedInv
<1>2. /\ reservations' \in Seq(Row) /\ Ids' = Ids /\ Len(reservations') = Len(reservations)
      /\ \A q \in Ids : /\ reservations'[q].path = reservations[q].path /\ reservations'[q].version = reservations[q].version
                        /\ reservations'[q].batch = reservations[q].batch
                        /\ reservations'[q].status = IF q = r THEN st ELSE reservations[q].status
  <2>1. st \in Statuses
    BY DEF Statuses
  <2> QED BY <1>1, <2>1, StatusStep
<1>3. Progress /\ Completed' = Completed
  BY <1>2 DEF Progress, Completed
<1>4. AvailableFiles' = AvailableFiles /\ \A f \in Files : Keeps(f)
  BY DEF AvailableFiles, Keeps
<1>5. TypeInv'
  BY <1>1, <1>2 DEF TypeInv
<1>6. ItemInv'
  <2>1. \A j : SendableItem(j) => SendableItem(j)'
    BY <1>3, SendableKeeps
  <2> QED BY <1>1, <2>1 DEF ItemInv
<1>7. ReservationInv'
  BY <1>1, <1>2, <1>3, <1>4, ReservationKeeps
<1>8. CommitInv'
  <2>1. \A q \in Ids : PassHolds(q) \/ FlushHolds(q) => reservations'[q].status = reservations[q].status
    BY <1>2
  <2>2. \/ pass'.pc # "commit"
        \/ pass.pc = "commit" /\ pass'.todo = pass.todo /\ (flush' = flush \/ flush'.pc # "commit")
    OBVIOUS
  <2>3. \/ flush'.pc # "commit"
        \/ flush.pc = "commit" /\ flush'.item = flush.item
    OBVIOUS
  <2>4. /\ pass'.pc = "commit" => reservations'[Now'].status = "RESERVED" /\ ~FlushHolds(Now)'
        /\ flush'.pc = "commit" => reservations'[flush'.item.id].status = "RESERVED"
    BY <1>1, <1>2, <2>1, <2>2, <2>3, CommitKeeps
  <2>5. ~room => pass'.pc \notin {"submit", "commit"}
    BY <1>1 DEF CommitInv
  <2> QED BY <1>1, <1>4, <2>4, <2>5 DEF CommitInv
<1>9. UploadInv'
  <2>1. \/ pass'.pc \notin {"recheck", "enqueue", "complete", "commit"}
        \/ pass.pc \in {"recheck", "enqueue", "complete", "commit"} /\ pass'.todo = pass.todo
    OBVIOUS
  <2>2. \A i \in outbox' \cup {flush'.item} : i \in outbox \cup {flush.item}
    OBVIOUS
  <2> QED BY <1>1, <1>3, <2>1, <2>2, UploadKeeps
<1>10. AvailableIsBacked'
  BY <1>1, <1>4, BackedKeeps DEF Keeps, AvailableFiles
<1> QED BY <1>5, <1>6, <1>7, <1>8, <1>9, <1>10 DEF BackedInv

LEMMA CancelReservationKeeps ==
    ASSUME CacheAssumption, BackedInv, CancelReservation
    PROVE  BackedInv'
<1>1. TypeInv
  BY DEF BackedInv
<1>2. /\ pass.pc = "cancel" /\ Skip /\ ~FlushHolds(Now) /\ (Fault \/ UNCHANGED faults)
      /\ UNCHANGED <<file, score, preference, late, cached, doomed, objects, room, outbox, queued, flush, nonces>>
  BY DEF CancelReservation, local
<1>3. faults' \in 0..MaxFaults
  BY <1>1, <1>2, FaultType DEF TypeInv
<1>4. CASE reservations' = reservations
  <2>1. Quiet
    BY <1>2, <1>4 DEF Quiet
  <2> QED BY <1>2, <1>3, <2>1, SkipKeeps
<1>5. CASE Current.status = "RESERVED" /\ reservations' = [reservations EXCEPT ![Now].status = "CANCELLED"]
  <2>1. Now \in Ids /\ reservations[Now].status = "RESERVED" /\ ~PassHolds(Now)
    BY <1>1, <1>2, <1>5, NowIn DEF Current, TypeInv, PassHolds
  <2>2. pass.todo \ {Now} \subseteq Ids /\ pass.todo \ {Now} \in SUBSET Nat
    BY <1>1, IdsAre DEF TypeInv
  <2>3. /\ pass' \in PassRecord /\ pass'.todo \subseteq Ids /\ pass'.pc \in {"idle", "check"} /\ (pass'.pc = "idle" <=> pass'.todo = {})
    BY <1>2, <2>2, UploadStep DEF Skip
  <2>4. pass'.pc \in {"idle", "send", "submit"} <=> pass'.todo = {}
    BY <2>3
  <2> DEFINE r == Now
  <2>5. r \in Ids /\ reservations[r].status = "RESERVED" /\ ~PassHolds(r) /\ ~FlushHolds(r)
        /\ reservations' = [reservations EXCEPT ![r].status = "CANCELLED"]
    BY <1>2, <1>5, <2>1
  <2> HIDE DEF r
  <2> QED BY <1>2, <1>3, <2>3, <2>4, <2>5, EndsKeeps
<1> QED BY <1>4, <1>5 DEF CancelReservation

LEMMA ExpireReservationKeeps ==
    ASSUME BackedInv, NEW r \in Ids, ExpireReservation(r)
    PROVE  BackedInv'
<1>1. /\ reservations[r].status = "RESERVED" /\ ~PassHolds(r) /\ ~FlushHolds(r)
      /\ reservations' = [reservations EXCEPT ![r].status = "EXPIRED"]
      /\ UNCHANGED <<file, score, preference, late, cached, doomed, objects, room, pass, outbox, queued, flush, nonces, faults>>
  BY DEF ExpireReservation, Expirable, local, desktop
<1>2. /\ faults' \in 0..MaxFaults /\ pass' \in PassRecord /\ pass'.todo \subseteq Ids
      /\ (pass'.pc \in {"idle", "send", "submit"} <=> pass'.todo = {})
  BY <1>1 DEF BackedInv, TypeInv
<1> QED BY <1>1, <1>2, EndsKeeps

LEMMA DeleteObjectKeeps ==
    ASSUME BackedInv, NEW r \in Ids, DeleteObject(r)
    PROVE  BackedInv'
<1>1. TypeInv /\ ItemInv /\ ReservationInv /\ CommitInv /\ UploadInv /\ AvailableIsBacked
  BY DEF BackedInv
<1>2. /\ UNCHANGED <<file, score, preference, reservations, late, cached, doomed, room, pass, outbox, queued, flush, nonces, faults>>
      /\ objects' = [objects EXCEPT ![r] = NoUpload]
      /\ r \in doomed \/ reservations[r].status \in {"CANCELLED", "EXPIRED"}
  BY DEF DeleteObject, local, server, desktop
<1>3. Progress /\ Ids' = Ids /\ Completed' = Completed /\ AvailableFiles' = AvailableFiles /\ \A f \in Files : Keeps(f)
  BY <1>2, SameRows
<1>4. objects' \in Seq(Contents) /\ Len(objects') = Len(objects) /\ \A q \in Ids : q # r => objects'[q] = objects[q]
  <2>1. objects \in Seq(Contents) /\ DOMAIN objects = Ids
    BY <1>1, IdsAre DEF TypeInv
  <2> QED BY <1>2, <2>1, NoUploadType
<1>5. TypeInv'
  BY <1>1, <1>2, <1>3, <1>4 DEF TypeInv
<1>6. ItemInv'
  BY <1>1, <1>2, <1>3 DEF ItemInv, SendableItem
<1>7. ReservationInv'
  BY <1>1, <1>2, <1>3, ReservationKeeps
<1>8. CommitInv'
  BY <1>1, <1>2, <1>3 DEF CommitInv, Now, FlushHolds
<1>9. UploadInv'
  <2>1. \A q \in Ids : \/ objects'[q] = objects[q] \/ objects'[q] # NoUpload
                       \/ q \in doomed \/ reservations'[q].status \in {"CANCELLED", "EXPIRED"}
    BY <1>2, <1>4
  <2>2. \A i \in outbox' \cup {flush'.item} : i \in outbox \cup {flush.item}
    BY <1>2
  <2>3. \/ pass'.pc \notin {"recheck", "enqueue", "complete", "commit"}
        \/ pass.pc \in {"recheck", "enqueue", "complete", "commit"} /\ pass'.todo = pass.todo
    BY <1>2
  <2> QED BY <1>1, <1>2, <1>3, <2>1, <2>2, <2>3, UploadKeeps
<1>10. AvailableIsBacked'
  <2>1. \A q \in Completed : q \in doomed \/ objects'[q] = objects[q] \/ objects'[q] # NoUpload
    BY <1>2, <1>4 DEF Completed
  <2>2. \A f \in AvailableFiles' : f \in AvailableFiles /\ cached'[f].key = cached[f].key /\ cached[f].key \notin doomed' \ doomed
    BY <1>2, <1>3
  <2> QED BY <1>1, <2>1, <2>2, BackedKeeps
<1> QED BY <1>5, <1>6, <1>7, <1>8, <1>9, <1>10 DEF BackedInv

\* Copies are invalidated and their objects doomed, by the phone or with the room.
LEMMA EvictionKeeps ==
    ASSUME BackedInv, NEW F \in SUBSET AvailableFiles, cached' = Invalidate(F), doomed' = doomed \cup KeysOf(F),
           Progress, reservations' \in Seq(Row), Len(reservations') = Len(reservations), Ids' = Ids,
           \A r \in Ids : PassHolds(r) \/ FlushHolds(r) => reservations'[r].status = reservations[r].status,
           room' \in BOOLEAN, ~room' => AvailableFiles' = {} /\ pass.pc \notin {"submit", "commit"} /\ flush.pc # "commit",
           UNCHANGED <<file, score, preference, late, objects, pass, outbox, queued, flush, nonces, faults>>
    PROVE  BackedInv'
<1>1. TypeInv /\ ItemInv /\ ReservationInv /\ CommitInv /\ UploadInv /\ AvailableIsBacked
  BY DEF BackedInv
<1>2. /\ cached' \in [Files -> CachedRow] /\ AvailableFiles' = AvailableFiles \ F
      /\ \A f \in F : Loses(f)
      /\ \A f \in Files \ F : Keeps(f)
  BY <1>1, InvalidateStep
<1>3. KeysOf(F) \subseteq Completed /\ \A f \in AvailableFiles \ F : cached[f].key \notin KeysOf(F)
  BY <1>1, KeysApart
<1>4. Completed \subseteq Ids /\ Completed \subseteq Completed'
  BY ProgressFacts DEF Completed
<1>5. TypeInv'
  <2>1. late' \subseteq Ids' /\ doomed' \subseteq Ids' /\ queued' \subseteq Ids' /\ pass'.todo \subseteq Ids'
    BY <1>1, <1>3, <1>4 DEF TypeInv
  <2> QED BY <1>1, <1>2, <2>1 DEF TypeInv
<1>6. ItemInv'
  <2>1. \A j : SendableItem(j) => SendableItem(j)'
    BY SendableKeeps
  <2> QED BY <1>1, <2>1 DEF ItemInv
<1>7. ReservationInv'
  <2>1. \A f \in Files : Keeps(f) \/ Changes(f)
    BY <1>2 DEF Loses
  <2>2. doomed' \subseteq doomed \cup Completed'
    BY <1>3, <1>4
  <2> QED BY <1>1, <2>1, <2>2, ReservationKeeps
<1>8. CommitInv'
  <2>1. \/ pass'.pc # "commit"
        \/ pass.pc = "commit" /\ pass'.todo = pass.todo /\ (flush' = flush \/ flush'.pc # "commit")
    OBVIOUS
  <2>2. \/ flush'.pc # "commit"
        \/ flush.pc = "commit" /\ flush'.item = flush.item
    OBVIOUS
  <2>3. /\ pass'.pc = "commit" => reservations'[Now'].status = "RESERVED" /\ ~FlushHolds(Now)'
        /\ flush'.pc = "commit" => reservations'[flush'.item.id].status = "RESERVED"
    BY <1>1, <2>1, <2>2, CommitKeeps
  <2> QED BY <2>3 DEF CommitInv
<1>9. UploadInv'
  <2>1. \/ pass'.pc \notin {"recheck", "enqueue", "complete", "commit"}
        \/ pass.pc \in {"recheck", "enqueue", "complete", "commit"} /\ pass'.todo = pass.todo
    OBVIOUS
  <2>2. \A i \in outbox' \cup {flush'.item} : i \in outbox \cup {flush.item}
    OBVIOUS
  <2>3. doomed \subseteq doomed'
    OBVIOUS
  <2> QED BY <1>1, <2>1, <2>2, <2>3, UploadKeeps
<1>10. AvailableIsBacked'
  <2>1. ASSUME NEW f \in AvailableFiles'
        PROVE  f \in AvailableFiles /\ cached'[f].key = cached[f].key /\ cached[f].key \notin doomed' \ doomed
    <3>1. f \in AvailableFiles \ F /\ f \in Files \ F
      BY <1>2, AvailableIs
    <3> QED BY <1>2, <1>3, <3>1 DEF Keeps
  <2> QED BY <1>1, <2>1, BackedKeeps
<1> QED BY <1>5, <1>6, <1>7, <1>8, <1>9, <1>10 DEF BackedInv

\* The phone opened a copy: its row keeps its place.
LEMMA AccessStep ==
    ASSUME TypeInv, ReservationInv, NEW f \in Files, RecordAccess(f)
    PROVE  /\ cached' \in [Files -> CachedRow] /\ AvailableFiles' = AvailableFiles
           /\ \A g \in Files : Keeps(g) \/ Changes(g)
           /\ \A g \in Files : cached'[g].key = cached[g].key /\ cached'[g].fresh = cached[g].fresh
<1>1. /\ cached \in [Files -> CachedRow] /\ cached[f] \in CachedRow /\ cached[f].score \in Nat
      /\ cached' = [cached EXCEPT ![f].score = @ + AccessScore] /\ Available(cached[f])
  BY CachedFields DEF TypeInv, RecordAccess
<1> DEFINE n == [cached[f] EXCEPT !.score = @ + AccessScore]
<1>2. n \in CachedRow /\ n.status = cached[f].status /\ n.fresh = cached[f].fresh /\ n.key = cached[f].key
  <2>1. cached[f].score + AccessScore \in Nat
    BY <1>1 DEF AccessScore
  <2> QED BY <1>1, <2>1 DEF CachedRow
<1>3. cached' = [cached EXCEPT ![f] = n]
  BY <1>1
<1> HIDE DEF n
<1>4. cached' \in [Files -> CachedRow] /\ cached'[f] = n /\ \A g \in Files : g # f => cached'[g] = cached[g]
  BY <1>1, <1>2, <1>3
<1>5. cached[f].status = "AVAILABLE" /\ cached[f] # NoFile
  BY <1>1, NoFileType DEF Available
<1>6. \A g \in Files : Available(cached'[g]) <=> Available(cached[g])
  BY <1>2, <1>4 DEF Available
<1> QED BY <1>2, <1>4, <1>5, <1>6 DEF Keeps, Changes, AvailableFiles

LEMMA RecordAccessKeeps ==
    ASSUME BackedInv, NEW f \in Files, RecordAccess(f)
    PROVE  BackedInv'
<1>1. TypeInv /\ ItemInv /\ ReservationInv /\ CommitInv /\ UploadInv /\ AvailableIsBacked
  BY DEF BackedInv
<1>2. UNCHANGED <<file, score, preference, reservations, late, doomed, objects, room, pass, outbox, queued, flush, nonces, faults>>
  BY DEF RecordAccess, desktop
<1>3. /\ cached' \in [Files -> CachedRow] /\ AvailableFiles' = AvailableFiles
      /\ \A g \in Files : (Keeps(g) \/ Changes(g)) /\ cached'[g].key = cached[g].key
  BY <1>1, AccessStep
<1>4. Progress /\ Ids' = Ids /\ Completed' = Completed
  BY <1>2 DEF Progress, Ids, Completed
<1>5. TypeInv'
  BY <1>1, <1>2, <1>3, <1>4 DEF TypeInv
<1>6. ItemInv'
  BY <1>1, <1>2, <1>4 DEF ItemInv, SendableItem
<1>7. ReservationInv'
  BY <1>1, <1>2, <1>3, <1>4, ReservationKeeps
<1>8. CommitInv'
  BY <1>1, <1>2, <1>3 DEF CommitInv, Now, FlushHolds
<1>9. UploadInv'
  BY <1>1, <1>2, <1>4 DEF UploadInv, Uploaded, Now
<1>10. AvailableIsBacked'
  <2>1. \A g \in AvailableFiles' : g \in AvailableFiles /\ cached'[g].key = cached[g].key /\ cached[g].key \notin doomed' \ doomed
    BY <1>2, <1>3, AvailableIs
  <2> QED BY <1>1, <1>2, <1>4, <2>1, BackedKeeps
<1> QED BY <1>5, <1>6, <1>7, <1>8, <1>9, <1>10 DEF BackedInv

LEMMA RemoveCachedKeeps ==
    ASSUME BackedInv, NEW f \in Files, RemoveCached(f)
    PROVE  BackedInv'
<1>1. /\ room /\ Available(cached[f]) /\ cached' = Invalidate({f}) /\ doomed' = doomed \cup {cached[f].key}
      /\ UNCHANGED <<file, score, preference, reservations, late, objects, room, pass, outbox, queued, flush, nonces, faults>>
  BY DEF RemoveCached, desktop
<1>2. {f} \in SUBSET AvailableFiles /\ KeysOf({f}) = {cached[f].key}
  BY <1>1 DEF AvailableFiles, KeysOf
<1>3. Progress /\ Ids' = Ids
  BY <1>1 DEF Progress, Ids
<1>4. reservations' \in Seq(Row) /\ Len(reservations') = Len(reservations) /\ room' \in BOOLEAN /\ room'
  BY <1>1 DEF BackedInv, TypeInv
<1> DEFINE F == {f}
<1>5. F \in SUBSET AvailableFiles /\ cached' = Invalidate(F) /\ doomed' = doomed \cup KeysOf(F)
  BY <1>1, <1>2
<1> HIDE DEF F
<1> QED BY <1>1, <1>3, <1>4, <1>5, EvictionKeeps

\* The reservations of a room that is removed.
LEMMA CloseReservations ==
    ASSUME TypeInv, reservations' = [r \in Ids |-> IF reservations[r].status = "RESERVED"
                                      THEN [reservations[r] EXCEPT !.status = "CANCELLED"] ELSE reservations[r]]
    PROVE  /\ reservations' \in Seq(Row) /\ Len(reservations') = Len(reservations) /\ Ids' = Ids /\ Progress
           /\ \A r \in Ids : reservations'[r].status = IF reservations[r].status = "RESERVED" THEN "CANCELLED" ELSE reservations[r].status
<1> DEFINE Closed(r) == IF reservations[r].status = "RESERVED"
                        THEN [reservations[r] EXCEPT !.status = "CANCELLED"] ELSE reservations[r]
<1>1. ASSUME NEW r \in Ids
      PROVE  /\ Closed(r) \in Row /\ Closed(r).path = reservations[r].path /\ Closed(r).version = reservations[r].version
             /\ Closed(r).batch = reservations[r].batch
             /\ Closed(r).status = IF reservations[r].status = "RESERVED" THEN "CANCELLED" ELSE reservations[r].status
  <2>1. reservations[r] \in Row
    BY RowFields
  <2> QED BY <2>1 DEF Row, Statuses
<1>2. reservations' = [r \in 1..Len(reservations) |-> Closed(r)] /\ Len(reservations) \in Nat /\ Ids = 1..Len(reservations)
  <2>1. reservations \in Seq(Row) /\ Ids = 1..Len(reservations)
    BY IdsAre DEF TypeInv
  <2> QED BY <2>1, LenProperties
<1> HIDE DEF Closed
<1>3. reservations' \in Seq(Row) /\ Len(reservations') = Len(reservations) /\ DOMAIN reservations' = 1..Len(reservations)
  BY <1>1, <1>2
<1>4. Ids' = Ids
  BY <1>2, <1>3 DEF Ids
<1>5. \A r \in Ids : reservations'[r] = Closed(r)
  BY <1>2
<1>6. Progress
  BY <1>1, <1>4, <1>5 DEF Progress
<1> QED BY <1>1, <1>3, <1>4, <1>5, <1>6

LEMMA CloseRoomKeeps ==
    ASSUME BackedInv, CloseRoom
    PROVE  BackedInv'
<1>1. /\ room' = FALSE /\ pass.pc \notin {"submit", "commit"} /\ flush.pc # "commit"
      /\ cached' = Invalidate(AvailableFiles) /\ doomed' = doomed \cup KeysOf(AvailableFiles)
      /\ UNCHANGED <<file, score, preference, late, objects, pass, outbox, queued, flush, nonces, faults>>
  BY DEF CloseRoom, desktop
<1>2. TypeInv /\ ReservationInv
  BY DEF BackedInv
<1>3. reservations' \in Seq(Row) /\ Len(reservations') = Len(reservations) /\ Ids' = Ids /\ Progress
  BY <1>2, CloseReservations DEF CloseRoom
<1> DEFINE F == AvailableFiles
<1>4. F \in SUBSET AvailableFiles /\ cached' = Invalidate(F) /\ doomed' = doomed \cup KeysOf(F)
  BY <1>1
<1>5. AvailableFiles' = {}
  <2>1. AvailableFiles' = AvailableFiles \ F
    <3> HIDE DEF F
    <3> QED BY <1>2, <1>4, InvalidateStep
  <2> QED BY <2>1
<1>6. \A r \in Ids : PassHolds(r) \/ FlushHolds(r) => reservations'[r].status = reservations[r].status
  BY <1>1 DEF PassHolds, FlushHolds
<1>7. room' \in BOOLEAN
  BY <1>1
<1> HIDE DEF F
<1> QED BY <1>1, <1>3, <1>4, <1>5, <1>6, <1>7, EvictionKeeps

LEMMA SubmitCandidatesKeeps ==
    ASSUME CacheAssumption, policy \in Policies, BackedInv, SubmitCandidates
    PROVE  BackedInv'
<1>1. TypeInv /\ ItemInv /\ ReservationInv /\ CommitInv /\ UploadInv /\ AvailableIsBacked
  BY DEF BackedInv
<1>2. /\ pass.pc = "submit" /\ UNCHANGED <<file, score, preference, late, room, outbox, queued, flush, nonces>>
      /\ (Fault \/ UNCHANGED faults)
      /\ Upload(Uploadable(reservations', pass.batch)) \/ pass' = Idle
  BY DEF SubmitCandidates, local
<1>3. faults' \in 0..MaxFaults
  BY <1>1, <1>2, FaultType DEF TypeInv
<1>4. ASSUME Ids' \subseteq Nat
      PROVE  /\ pass' \in PassRecord /\ pass'.todo \subseteq Ids' /\ (pass'.pc \in {"idle", "send", "submit"} <=> pass'.todo = {})
             /\ pass'.pc \in {"idle", "check"}
  <2> DEFINE rs == Uploadable(reservations', pass.batch)
  <2>1. rs \in SUBSET Nat /\ rs \subseteq Ids'
    BY <1>4 DEF Uploadable, Ids
  <2> HIDE DEF rs
  <2>2. CASE Upload(rs)
    BY <2>1, <2>2, UploadStep
  <2>3. CASE pass' = Idle
    BY <2>3, IdleType
  <2> QED BY <1>2, <2>2, <2>3 DEF rs
<1>5. CASE UNCHANGED <<reservations, objects, cached, doomed>>
  <2>1. Quiet
    BY <1>2, <1>5 DEF Quiet
  <2>2. Ids' = Ids /\ Ids \subseteq Nat
    BY <1>1, <1>5, IdsAre DEF Ids
  <2>3. /\ pass' \in PassRecord /\ pass'.todo \subseteq Ids /\ (pass'.pc \in {"idle", "send", "submit"} <=> pass'.todo = {})
        /\ pass'.pc \in {"idle", "check"}
    BY <1>4, <2>2
  <2>4. nonces' \in 0..MaxUploads
    BY <1>1, <1>2 DEF TypeInv
  <2>5. pass'.pc \notin Sending /\ pass'.pc # "commit" /\ pass'.pc # "submit"
    BY <2>3 DEF Sending
  <2> QED BY <1>2, <1>3, <2>1, <2>3, <2>4, <2>5, PassKeeps
<1>6. ASSUME NEW a, a = Admitted(pass.batch, pass.used),
             reservations' = reservations \o a.new, objects' = objects \o [i \in DOMAIN a.new |-> NoUpload],
             cached' = Invalidate(a.gone), doomed' = doomed \cup KeysOf(a.gone)
      PROVE  BackedInv'
  <2>1. LoopInv(pass.batch, pass.used, a)
    BY <1>1, <1>6, SubmitLoop
  <2>2. /\ a.gone \subseteq AvailableFiles
        /\ reservations' \in Seq(Row) /\ objects' \in Seq(Contents) /\ Len(objects') = Len(reservations')
        /\ Progress /\ Ids' = 1..(Len(reservations) + Len(a.new)) /\ Completed' = Completed
        /\ \A r \in Ids : reservations'[r] = reservations[r] /\ objects'[r] = objects[r]
        /\ \A r \in Ids' \ Ids : reservations'[r].status = "RESERVED" /\ objects'[r] = NoUpload
        /\ \A r, q \in Ids' : FileOf(r)' = FileOf(q)' => r = q
        /\ \A r \in Ids' : \E c \in reservations'[r].batch : c.path = reservations'[r].path
    BY <1>1, <1>6, <2>1, GrowStep
  <2> DEFINE F == a.gone
  <2>3. F \in SUBSET AvailableFiles /\ cached' = Invalidate(F) /\ doomed' = doomed \cup KeysOf(F)
    BY <1>6, <2>2
  <2> HIDE DEF F
  <2>4. /\ cached' \in [Files -> CachedRow] /\ AvailableFiles' = AvailableFiles \ F
        /\ \A f \in F : Loses(f)
        /\ \A f \in Files \ F : Keeps(f)
    BY <1>1, <2>3, InvalidateStep
  <2>5. KeysOf(F) \subseteq Completed /\ \A f \in AvailableFiles \ F : cached[f].key \notin KeysOf(F)
    BY <1>1, <2>3, KeysApart
  <2>6. Completed \subseteq Ids /\ Ids \subseteq Ids'
    BY <2>2 DEF Completed, Progress
  <2>7. Ids' \subseteq Nat
    BY <2>2
  <2>8. /\ pass' \in PassRecord /\ pass'.todo \subseteq Ids' /\ (pass'.pc \in {"idle", "send", "submit"} <=> pass'.todo = {})
        /\ pass'.pc \in {"idle", "check"}
    BY <1>4, <2>7
  <2>9. TypeInv'
    <3>1. late' \subseteq Ids' /\ doomed' \subseteq Ids' /\ queued' \subseteq Ids'
      BY <1>1, <1>2, <2>3, <2>5, <2>6 DEF TypeInv
    <3> QED BY <1>1, <1>2, <1>3, <2>2, <2>4, <2>8, <3>1 DEF TypeInv
  <2>10. ItemInv'
    <3>1. \A j : SendableItem(j) => SendableItem(j)'
      BY <1>2, <2>2, SendableKeeps
    <3> QED BY <1>1, <1>2, <3>1 DEF ItemInv
  <2>11. ReservationInv'
    <3>1. ASSUME NEW f \in Files
          PROVE  \/ cached'[f] = NoFile
                 \/ /\ cached'[f].status # "NONE" /\ cached'[f].fresh # ""
                    /\ cached'[f].key \in Completed /\ FileOf(cached'[f].key) = f
      <4>1. CASE f \in F
        BY <1>1, <2>4, <4>1 DEF Loses, Changes, ReservationInv
      <4>2. CASE f \notin F
        BY <1>1, <2>4, <4>2 DEF Keeps, ReservationInv
      <4> QED BY <4>1, <4>2
    <3>2. \A f \in Files : cached'[f].key \in Completed => FileOf(cached[f].key)' = FileOf(cached'[f].key)
      BY <2>2, <2>6 DEF FileOf
    <3>3. \A f \in Files' : \/ cached'[f] = NoFile
                            \/ /\ cached'[f].status # "NONE" /\ cached'[f].fresh # ""
                               /\ cached'[f].key \in Completed' /\ FileOf(cached[f].key)' = f
      <4>1. Files' = Files
        OBVIOUS
      <4> QED BY <2>2, <3>1, <3>2, <4>1
    <3>4. doomed' \subseteq Completed'
      BY <1>1, <2>2, <2>3, <2>5 DEF ReservationInv
    <3> QED BY <2>2, <3>3, <3>4 DEF ReservationInv
  <2>12. CommitInv'
    <3>1. flush'.pc = "commit" => reservations'[flush'.item.id].status = "RESERVED"
      BY <1>1, <1>2, <2>2 DEF CommitInv, ItemInv, SendableItem
    <3>2. room' /\ pass'.pc # "commit"
      BY <1>1, <1>2, <2>8 DEF CommitInv
    <3> QED BY <3>1, <3>2 DEF CommitInv
  <2>13. UploadInv'
    <3>1. pass'.pc \notin {"recheck", "enqueue", "complete", "commit"}
      BY <2>8
    <3>2. \A i \in outbox' \cup {flush'.item} : i \in outbox \cup {flush.item}
      BY <1>2
    <3>3. doomed \subseteq doomed'
      BY <2>3
    <3> QED BY <1>1, <2>2, <3>1, <3>2, <3>3, UploadKeeps
  <2>14. AvailableIsBacked'
    <3>1. ASSUME NEW f \in AvailableFiles'
          PROVE  f \in AvailableFiles /\ cached'[f].key = cached[f].key /\ cached[f].key \notin doomed' \ doomed
      <4>1. f \in AvailableFiles \ F /\ f \in Files \ F
        BY <2>4, AvailableIs
      <4> QED BY <2>3, <2>4, <2>5, <4>1 DEF Keeps
    <3>2. \A r \in Completed : objects'[r] = objects[r]
      BY <2>2, <2>6
    <3> QED BY <1>1, <3>1, <3>2, BackedKeeps
  <2> QED BY <2>9, <2>10, <2>11, <2>12, <2>13, <2>14 DEF BackedInv
<1> QED BY <1>5, <1>6 DEF SubmitCandidates

-----------------------------------------------------------------------------
(* What the phone sees of an overwritten file.                             *)

\* OverwrittenIsReported, file by file.
Reported == \A f \in Files : Unmarked(f) => Marked(f) \/ Excused(f)
ReportInv == Reported /\ MarkInv

\* No copy becomes available or current again.
Fewer ==
    /\ AvailableFiles' \subseteq AvailableFiles
    /\ \A f \in AvailableFiles' : /\ cached'[f].key = cached[f].key
                                  /\ cached'[f].fresh = "VERIFIED_CURRENT" => cached[f].fresh = "VERIFIED_CURRENT"

\* No row changes.
LEMMA FewerSame ==
    ASSUME UNCHANGED cached
    PROVE  Fewer
BY DEF Fewer, AvailableFiles

\* Copies are evicted or removed.
LEMMA FewerLost ==
    ASSUME TypeInv, ReservationInv, NEW F \in SUBSET AvailableFiles, cached' = Invalidate(F)
    PROVE  Fewer
<1>1. /\ AvailableFiles' = AvailableFiles \ F
      /\ \A f \in Files \ F : Keeps(f)
  BY InvalidateStep
<1>2. \A f \in AvailableFiles' : f \in Files \ F
  BY <1>1, AvailableIs
<1> QED BY <1>1, <1>2 DEF Fewer, Keeps

\* A mark is accepted: no copy that it covers is presented as current.
LEMMA FewerStale ==
    ASSUME TypeInv, ReservationInv, NEW i, MarkStale(i)
    PROVE  Fewer /\ \A f \in AvailableFiles' : Covers(i, f[1]) => cached'[f].fresh # "VERIFIED_CURRENT"
<1>1. /\ AvailableFiles' = AvailableFiles
      /\ \A f \in Files : Keeps(f) \/ Changes(f)
      /\ \A f \in AvailableFiles : Covers(i, f[1]) => cached'[f].fresh = "STALE"
      /\ \A f \in Files : cached'[f].key = cached[f].key
  BY MarkStaleStep
<1>2. \A f \in AvailableFiles' : f \in Files
  BY AvailableIs
<1>3. \A f \in AvailableFiles' : Covers(i, f[1]) => cached'[f].fresh # "VERIFIED_CURRENT"
  BY <1>1
<1>4. \A f \in AvailableFiles' : /\ cached'[f].key = cached[f].key
                                 /\ cached'[f].fresh = "VERIFIED_CURRENT" => cached[f].fresh = "VERIFIED_CURRENT"
  BY <1>1, <1>2 DEF Keeps, Changes
<1> QED BY <1>1, <1>3, <1>4 DEF Fewer

\* A copy that is not what it is presented as was so before.
LEMMA UnmarkedFewer ==
    ASSUME Fewer, UNCHANGED file, NEW f \in Files, Unmarked(f)'
    PROVE  Unmarked(f) /\ cached'[f].key = cached[f].key
BY DEF Fewer, Unmarked

\* What a step owes a copy that is not what it is presented as: it is excused; or it was one before,
\* and keeps its excuse and its marks; or it has a mark that is not the one in hand.
Owed(f) ==
    \/ Excused(f)'
    \/ /\ Unmarked(f) /\ (Excused(f) => Excused(f)')
       /\ \A i \in outbox : Covers(i, f[1]) => i \in outbox'
    \/ \E i \in outbox' : i # flush.item /\ Covers(i, f[1])

\* A step that pays what it owes and is done with no mark.
LEMMA ReportStep ==
    ASSUME ReportInv, room' => room, flush' = flush \/ flush'.pc # "mark" \/ flush'.item.kind # "stale",
           \A f \in Files : Unmarked(f)' => Owed(f)
    PROVE  ReportInv'
<1>1. Reported'
  <2> SUFFICES ASSUME NEW f \in Files, Unmarked(f)' PROVE Marked(f)' \/ Excused(f)'
    BY DEF Reported
  <2>1. Owed(f)
    OBVIOUS
  <2>2. Unmarked(f) => Marked(f) \/ Excused(f)
    BY DEF ReportInv, Reported
  <2> QED BY <2>1, <2>2 DEF Owed, Marked
<1>2. MarkInv'
  <2> SUFFICES ASSUME flush'.pc = "mark", flush'.item.kind = "stale"
               PROVE  \/ flush'.answer = "retry"
                      \/ flush'.answer = "reject" /\ ~room'
                      \/ flush'.answer = "accept" /\
                         \A f \in Files : Covers(flush'.item, f[1]) /\ Unmarked(f)' =>
                            (\E i \in outbox' : i # flush'.item /\ Covers(i, f[1])) \/ Excused(f)'
    BY DEF MarkInv
  <2>1. flush' = flush
    OBVIOUS
  <2>2. \/ flush.answer = "retry"
        \/ flush.answer = "reject" /\ ~room
        \/ flush.answer = "accept" /\
           \A f \in Files : Covers(flush.item, f[1]) /\ Unmarked(f) =>
              (\E i \in outbox : i # flush.item /\ Covers(i, f[1])) \/ Excused(f)
    BY <2>1 DEF ReportInv, MarkInv
  <2>3. ASSUME NEW f \in Files, Covers(flush.item, f[1]), Unmarked(f)', flush.answer = "accept",
               \A g \in Files : Covers(flush.item, g[1]) /\ Unmarked(g) =>
                  (\E i \in outbox : i # flush.item /\ Covers(i, g[1])) \/ Excused(g)
        PROVE  (\E i \in outbox' : i # flush.item /\ Covers(i, f[1])) \/ Excused(f)'
    <3>1. Owed(f)
      BY <2>3
    <3>2. Unmarked(f) => (\E i \in outbox : i # flush.item /\ Covers(i, f[1])) \/ Excused(f)
      BY <2>3
    <3> QED BY <3>1, <3>2 DEF Owed
  <2> QED BY <2>1, <2>2, <2>3
<1> QED BY <1>1, <1>2 DEF ReportInv

\* The files stay, no copy is new, no mark is done with and no file is forgotten.
LEMMA ReportKeeps ==
    ASSUME ReportInv, Fewer, UNCHANGED file, overtaken \subseteq overtaken',
           pending \cup change \cup lost \subseteq pending' \cup change' \cup lost',
           \A i \in outbox : i.kind = "stale" => i \in outbox',
           flush' = flush \/ flush'.pc # "mark" \/ flush'.item.kind # "stale", room' => room
    PROVE  ReportInv'
<1>1. ASSUME NEW f \in Files, Unmarked(f)' PROVE Owed(f)
  <2>1. Unmarked(f) /\ cached'[f].key = cached[f].key
    BY <1>1, UnmarkedFewer
  <2>2. Excused(f) => Excused(f)'
    BY <2>1 DEF Excused
  <2>3. \A i \in outbox : Covers(i, f[1]) => i \in outbox'
    BY DEF Covers
  <2> QED BY <2>1, <2>2, <2>3 DEF Owed
<1> QED BY <1>1, ReportStep

\* A completion commits a copy that is current, or is recorded as overtaken.
LEMMA ReportCommit ==
    ASSUME BackedInv, ReportInv, NEW i \in Item, i.kind = "completion", SendableItem(i), CommitCompletion(i),
           reservations[i.id].status = "RESERVED", UNCHANGED <<file, outbox, room, pending, change>>,
           flush' = flush \/ flush'.pc # "mark" \/ flush'.item.kind # "stale"
    PROVE  ReportInv'
<1>1. TypeInv /\ ReservationInv
  BY DEF BackedInv
<1> DEFINE f0 == FileOf(i.id)
<1>2. /\ f0 \in Files /\ f0[1] = i.path /\ cached'[f0].key = i.id /\ f0[2] = reservations[i.id].version
      /\ \A f \in Files \ {f0} : (f \notin AvailableFiles \/ f[1] # i.path) => Keeps(f)
  BY <1>1, CommitStep DEF FileOf
<1>3. AvailableFiles' = {f \in AvailableFiles : f[1] # i.path} \cup {f0}
  BY <1>1, CommitAvailable
<1>4. /\ overtaken' = IF file[i.path] = reservations[i.id].version THEN overtaken ELSE overtaken \cup {i.id}
      /\ lost' = lost \ {i.path}
  BY DEF CommitCompletion
<1> HIDE DEF f0
<1>5. ASSUME NEW f \in Files, Unmarked(f)' PROVE Owed(f)
  <2>1. f \in AvailableFiles' /\ cached'[f].fresh = "VERIFIED_CURRENT" /\ file[f[1]] # f[2]
    BY <1>5 DEF Unmarked
  <2>2. CASE f = f0
    <3>1. cached'[f].key \in overtaken'
      BY <1>2, <1>4, <2>1, <2>2
    <3> QED BY <3>1 DEF Owed, Excused
  <2>3. CASE f # f0
    <3>1. f \in AvailableFiles /\ f[1] # i.path
      BY <1>3, <2>1, <2>3
    <3>2. cached'[f] = cached[f]
      BY <1>2, <2>3, <3>1 DEF Keeps
    <3>3. Unmarked(f)
      BY <2>1, <3>1, <3>2 DEF Unmarked
    <3>4. Excused(f) => Excused(f)'
      BY <1>4, <3>1, <3>2 DEF Excused
    <3> QED BY <3>3, <3>4 DEF Owed
  <2> QED BY <2>2, <2>3
<1> QED BY <1>5, ReportStep

\* An edit is with the watcher, or is recorded as lost.
LEMMA ReportEdit ==
    ASSUME CacheAssumption, BackedInv, ReportInv, NEW p \in Edited, EditFile(p)
    PROVE  ReportInv'
<1>1. /\ UNCHANGED <<cached, room, flush, overtaken, outbox, change>> /\ p \in Paths
      /\ pending \subseteq pending' /\ lost \subseteq lost' /\ p \in pending' \cup lost'
  BY DEF EditFile, server, desktop, CacheAssumption
<1>2. PICK v \in {Removed} \cup {u \in Versions : u = file[p] + 1} : file' = [file EXCEPT ![p] = v]
  BY DEF EditFile
<1>3. file \in [Paths -> Versions \cup {Removed}]
  BY DEF BackedInv, TypeInv
<1>4. \A f \in Files : f[1] # p => file'[f[1]] = file[f[1]]
  BY <1>2, <1>3 DEF Files
<1>5. AvailableFiles' = AvailableFiles
  BY <1>1 DEF AvailableFiles
<1>6. ASSUME NEW f \in Files, Unmarked(f)' PROVE Owed(f)
  <2>1. CASE f[1] = p
    <3>1. Excused(f)'
      BY <1>1, <2>1 DEF Excused
    <3> QED BY <3>1 DEF Owed
  <2>2. CASE f[1] # p
    <3>1. Unmarked(f)
      BY <1>1, <1>4, <1>5, <1>6, <2>2 DEF Unmarked
    <3>2. Excused(f) => Excused(f)'
      BY <1>1 DEF Excused
    <3> QED BY <1>1, <3>1, <3>2 DEF Owed
  <2> QED BY <2>1, <2>2
<1> QED BY <1>1, <1>6, ReportStep

\* A mark that the watcher queues.
LEMMA StaleItemIs ==
    ASSUME WatchInv, NEW p \in Paths \cup {WholeRoom}
    PROVE  /\ StaleItem(p, marks + 1) \in Item /\ StaleItem(p, marks + 1).kind = "stale"
           /\ StaleItem(p, marks + 1).path = p /\ StaleItem(p, marks + 1).id = marks + 1
<1>1. marks + 1 \in Nat
  BY DEF WatchInv
<1> QED BY <1>1, NoUploadType DEF StaleItem, Item, WholeRoom

\* The watcher queues the mark of its change, which is not the one in hand and supersedes those of its scope.
LEMMA ReportEnqueue ==
    ASSUME WatchInv, ReportInv, NEW p \in Coalesced(change), outbox' = EnqueueStale(p),
           lost' = {q \in lost : p \notin {q, WholeRoom}}, UNCHANGED <<file, cached, room, flush, overtaken, pending>>
    PROVE  ReportInv'
<1> DEFINE s == StaleItem(p, marks + 1)
<1>1. p \in Paths \cup {WholeRoom}
  BY DEF Coalesced
<1>2. s.kind = "stale" /\ s.path = p /\ s.id = marks + 1
  BY <1>1, StaleItemIs
<1>3. s \in outbox' /\ \A i \in outbox : i.path # p => i \in outbox'
  BY DEF EnqueueStale
<1> HIDE DEF s
<1>4. s # flush.item
  <2>1. marks \in Nat /\ (flush.item.kind = "stale" => flush.item.id \in 0..marks)
    BY DEF WatchInv
  <2>2. flush.item.kind = "stale" => flush.item.id # marks + 1
    <3> SUFFICES ASSUME flush.item.id \in 0..marks PROVE flush.item.id # marks + 1
      BY <2>1
    <3> QED BY <2>1
  <2> QED BY <1>2, <2>2
<1>5. AvailableFiles' = AvailableFiles
  BY DEF AvailableFiles
<1>6. ASSUME NEW f \in Files, Unmarked(f)' PROVE Owed(f)
  <2>1. CASE p \in {f[1], WholeRoom}
    <3>1. Covers(s, f[1])
      BY <1>2, <2>1 DEF Covers
    <3> QED BY <1>3, <1>4, <3>1 DEF Owed
  <2>2. CASE p \notin {f[1], WholeRoom}
    <3>1. Unmarked(f)
      BY <1>5, <1>6 DEF Unmarked
    <3>2. change = {p}
      BY <2>2 DEF Coalesced
    <3>3. Excused(f) => Excused(f)'
      BY <2>2, <3>2 DEF Excused
    <3>4. \A i \in outbox : Covers(i, f[1]) => i \in outbox'
      BY <1>3, <2>2 DEF Covers
    <3> QED BY <3>1, <3>3, <3>4 DEF Owed
  <2> QED BY <2>1, <2>2
<1> QED BY <1>6, ReportStep

\* A mark is sent: when it is accepted, no copy that it covers is current.
LEMMA ReportDispatch ==
    ASSUME BackedInv, ReportInv, NEW i \in outbox, Dispatch(i)
    PROVE  ReportInv'
<1>1. TypeInv /\ ReservationInv /\ i \in Item
  BY DEF BackedInv, TypeInv
<1>2. UNCHANGED <<file, room, outbox, overtaken, pending, change, lost>>
  BY DEF Dispatch, local, ghosts, watcher
<1>3. CASE i.kind = "completion"
  <2>1. /\ UNCHANGED cached
        /\ \/ flush' = [pc |-> "commit", item |-> i, answer |-> ""]
           \/ NextAnswer(i, CompletionCheck(i))
           \/ NextAnswer(i, "retry")
    BY <1>3 DEF Dispatch
  <2>3. flush'.item = i
    <3>1. CASE flush' = [pc |-> "commit", item |-> i, answer |-> ""]
      BY ONLY <3>1
    <3>2. CASE NextAnswer(i, CompletionCheck(i))
      BY ONLY <3>2 DEF NextAnswer
    <3>3. CASE NextAnswer(i, "retry")
      BY ONLY <3>3 DEF NextAnswer
    <3> QED BY <2>1, <3>1, <3>2, <3>3
  <2>2. flush'.item.kind # "stale"
    BY <1>3, <2>3
  <2> QED BY <1>2, <2>1, <2>2, FewerSame, ReportKeeps
<1>4. CASE i.kind = "stale"
  <2>1. \/ MarkStale(i) /\ NextAnswer(i, "accept")
        \/ ~room /\ NextAnswer(i, "reject") /\ cached' = cached
        \/ NextAnswer(i, "retry") /\ cached' = cached
    BY <1>4 DEF Dispatch
  <2>2. Fewer
    BY <1>1, <2>1, FewerSame, FewerStale
  <2>3. Reported'
    <3> SUFFICES ASSUME NEW f \in Files, Unmarked(f)' PROVE Marked(f)' \/ Excused(f)'
      BY DEF Reported
    <3>1. Unmarked(f) /\ cached'[f].key = cached[f].key
      BY <1>2, <2>2, UnmarkedFewer
    <3>2. Marked(f) \/ Excused(f)
      BY <3>1 DEF ReportInv, Reported
    <3> QED BY <1>2, <3>1, <3>2 DEF Marked, Excused
  <2>4. MarkInv'
    <3>1. CASE MarkStale(i) /\ NextAnswer(i, "accept")
      <4>1. \A f \in AvailableFiles' : Covers(i, f[1]) => cached'[f].fresh # "VERIFIED_CURRENT"
        BY <1>1, <3>1, FewerStale
      <4>2. flush'.answer = "accept" /\ flush'.item = i
        BY <3>1 DEF NextAnswer
      <4>3. \A f \in Files : Covers(flush'.item, f[1]) => ~Unmarked(f)'
        BY <4>1, <4>2 DEF Unmarked
      <4> QED BY <4>2, <4>3 DEF MarkInv
    <3>2. CASE ~room /\ NextAnswer(i, "reject")
      BY <1>2, <3>2 DEF MarkInv, NextAnswer
    <3>3. CASE NextAnswer(i, "retry")
      BY <3>3 DEF MarkInv, NextAnswer
    <3> QED BY <2>1, <3>1, <3>2, <3>3
  <2> QED BY <2>3, <2>4 DEF ReportInv
<1> QED BY <1>3, <1>4 DEF Dispatch

\* The flush is done with an item: with a mark that was accepted nothing is left to report.
LEMMA ReportMark ==
    ASSUME BackedInv, ReportInv, MarkItem
    PROVE  ReportInv'
<1>1. /\ flush.pc = "mark" /\ flush' = NoFlush /\ UNCHANGED <<file, cached, overtaken, pending, change, lost>>
      /\ outbox' = IF flush.answer = "retry" THEN outbox ELSE outbox \ {flush.item}
  BY DEF MarkItem, local, server, ghosts, watcher, Mark
<1>2. MarkInv'
  BY <1>1, NoFlushType DEF MarkInv
<1>3. AvailableFiles' = AvailableFiles
  BY <1>1 DEF AvailableFiles
<1>4. Reported'
  <2> SUFFICES ASSUME NEW f \in Files, Unmarked(f)' PROVE Marked(f)' \/ Excused(f)'
    BY DEF Reported
  <2>1. Unmarked(f)
    BY <1>1, <1>3 DEF Unmarked
  <2>2. Excused(f)' <=> Excused(f)
    BY <1>1 DEF Excused
  <2>3. Marked(f) \/ Excused(f)
    BY <2>1 DEF ReportInv, Reported
  <2>4. ASSUME Covers(flush.item, f[1]), flush.answer # "retry"
        PROVE  (\E j \in outbox : j # flush.item /\ Covers(j, f[1])) \/ Excused(f)
    <3>1. room
      BY <2>1 DEF BackedInv, CommitInv, Unmarked
    <3>2. flush.item.kind = "stale"
      BY <2>4 DEF Covers
    <3> QED BY <1>1, <2>1, <2>4, <3>1, <3>2 DEF ReportInv, MarkInv
  <2> QED BY <1>1, <2>2, <2>3, <2>4 DEF Marked
<1> QED BY <1>2, <1>4 DEF ReportInv

-----------------------------------------------------------------------------
(* The watcher and the numbers of its marks.                               *)

\* A step that queues no mark.
LEMMA WatchKeeps ==
    ASSUME WatchInv, UNCHANGED <<watching, pending, change, marks>>, lost' \subseteq Paths,
           \A i \in outbox' \cup {flush'.item} : i.kind = "stale" => i \in outbox \cup {flush.item}
    PROVE  WatchInv'
BY DEF WatchInv

LEMMA FlushWatch ==
    ASSUME WatchInv, Flush
    PROVE  WatchInv'
<1>1. lost' \subseteq Paths /\ UNCHANGED <<watching, pending, change, marks>>
  BY DEF Flush, Dispatch, CommitItem, MarkItem, CommitCompletion, WatchInv, local, watcher, ghosts
<1>2. ASSUME NEW i \in outbox, Dispatch(i) PROVE outbox' = outbox /\ flush'.item = i
  <2>1. outbox' = outbox
    BY <1>2 DEF Dispatch
  <2>2. \/ flush' = [pc |-> "commit", item |-> i, answer |-> ""]
        \/ \E a : flush' = [pc |-> "mark", item |-> i, answer |-> a]
    BY <1>2 DEF Dispatch, NextAnswer
  <2>3. flush'.item = i
    <3>1. CASE flush' = [pc |-> "commit", item |-> i, answer |-> ""]
      BY ONLY <3>1
    <3>2. ASSUME NEW a, flush' = [pc |-> "mark", item |-> i, answer |-> a] PROVE flush'.item = i
      BY ONLY <3>2
    <3> QED BY <2>2, <3>1, <3>2
  <2> QED BY <2>1, <2>3
<1>3. CASE \E i \in outbox : Dispatch(i)
  BY <1>1, <1>2, <1>3, WatchKeeps
<1>4. CASE CommitItem
  <2>1. outbox' = outbox /\ flush'.item = flush.item
    BY <1>4 DEF CommitItem, NextAnswer
  <2> QED BY <1>1, <2>1, WatchKeeps
<1>5. CASE MarkItem
  <2>1. outbox' \subseteq outbox /\ flush'.item.kind # "stale"
    BY <1>5, NoFlushType DEF MarkItem, Mark, NoItem
  <2> QED BY <1>1, <2>1, WatchKeeps
<1> QED BY <1>3, <1>4, <1>5 DEF Flush

LEMMA PassWatch ==
    ASSUME WatchInv, Pass
    PROVE  WatchInv'
<1>1. flush' = flush /\ lost' \subseteq Paths /\ UNCHANGED <<watching, pending, change, marks>>
  BY DEF Pass, PrepareCandidates, BeginSubmit, SubmitCandidates, EnsureStillCurrent, PutUploadBytes, EnqueueCompletion,
         CompleteUpload, CancelReservation, CommitCompletion, WatchInv, local, watcher, ghosts
<1>2. CASE EnqueueCompletion
  <2>1. \A i \in outbox' : i.kind = "stale" => i \in outbox
    <3> DEFINE c == [kind |-> "completion", path |-> Current.path, id |-> Now, upload |-> pass.upload,
                     score |-> CandidateOf(Now).score, pin |-> CandidateOf(Now).pin]
    <3>1. outbox' \subseteq outbox \cup {c}
      BY <1>2 DEF EnqueueCompletion
    <3>2. c.kind = "completion"
      OBVIOUS
    <3> HIDE DEF c
    <3> QED BY <3>1, <3>2
  <2> QED BY <1>1, <2>1, WatchKeeps
<1>3. CASE ~EnqueueCompletion
  <2>1. outbox' = outbox
    BY <1>3 DEF Pass, PrepareCandidates, BeginSubmit, SubmitCandidates, EnsureStillCurrent, PutUploadBytes,
                CompleteUpload, CancelReservation
  <2> QED BY <1>1, <2>1, WatchKeeps
<1> QED BY <1>2, <1>3

LEMMA WatcherWatch ==
    ASSUME WatchInv, Watch
    PROVE  WatchInv'
<1>1. CASE StartRootWatcher \/ StopWatcher \/ TakeChanges
  <2>1. /\ watching' \in BOOLEAN /\ pending' \cup change' \cup lost' \subseteq Paths
        /\ UNCHANGED <<marks, outbox, flush>>
    BY <1>1 DEF StartRootWatcher, StopWatcher, TakeChanges, WatchInv, desktop, ghosts
  <2> QED BY <2>1 DEF WatchInv
<1>2. CASE EnqueueStaleForChange
  <2>1. change' = {} /\ UNCHANGED <<watching, pending, flush>>
    BY <1>2 DEF EnqueueStaleForChange
  <2>2. CASE outbox' = outbox /\ marks' = marks /\ lost' = lost \cup change
    BY <2>1, <2>2 DEF WatchInv
  <2>3. ASSUME NEW p \in Coalesced(change), outbox' = EnqueueStale(p), marks' = marks + 1,
               lost' = {q \in lost : p \notin {q, WholeRoom}}
        PROVE  WatchInv'
    <3> DEFINE s == StaleItem(p, marks + 1)
    <3>1. p \in Paths \cup {WholeRoom}
      BY DEF Coalesced
    <3>2. s.id = marks + 1 /\ s \in Item
      BY <3>1, StaleItemIs
    <3>3. outbox' \subseteq outbox \cup {s}
      BY <2>3 DEF EnqueueStale
    <3> HIDE DEF s
    <3>4. marks \in Nat /\ marks' = marks + 1
      BY <2>3 DEF WatchInv
    <3>5. ASSUME NEW i \in outbox' \cup {flush'.item}, i.kind = "stale" PROVE i.id \in 0..marks'
      <4>1. CASE i \in outbox \cup {flush.item}
        <5>1. i.id \in 0..marks
          BY <3>5, <4>1 DEF WatchInv
        <5> QED BY <3>4, <5>1
      <4>2. CASE i = s
        BY <3>2, <3>4, <4>2
      <4> QED BY <2>1, <3>3, <4>1, <4>2
    <3>6. marks' \in Nat /\ lost' \subseteq Paths /\ pending' \subseteq Paths /\ change' \subseteq Paths /\ watching' \in BOOLEAN
      BY <2>1, <2>3, <3>4 DEF WatchInv
    <3> QED BY <3>5, <3>6 DEF WatchInv
  <2> QED BY <1>2, <2>2, <2>3 DEF EnqueueStaleForChange
<1> QED BY <1>1, <1>2 DEF Watch

\* Every step.
LEMMA NextWatch ==
    ASSUME CacheAssumption, WatchInv, Next
    PROVE  WatchInv'
<1>1. CASE \/ \E p \in Chosen : RecordUsageEvent(p)
           \/ \E p \in Chosen, flag \in Preferences : UpdateFilePreference(p, flag)
           \/ \E r \in Ids : TimePasses(r) \/ Work(r)
           \/ \E f \in Files : RemoveCached(f) \/ RecordAccess(f)
           \/ BeginUpdatePolicy \/ (\E q \in Policies : UpdatePolicy(q)) \/ CloseRoom
  <2>1. UNCHANGED <<watching, pending, change, marks, lost, outbox, flush>>
    BY <1>1 DEF RecordUsageEvent, UpdateFilePreference, TimePasses, Work, ExpireReservation, DeleteObject, RemoveCached,
                RecordAccess, BeginUpdatePolicy, UpdatePolicy, CloseRoom, local, watcher, ghosts, desktop
  <2> QED BY <2>1 DEF WatchInv
<1>2. ASSUME NEW p \in Edited, EditFile(p) PROVE WatchInv'
  <2>1. /\ UNCHANGED <<watching, change, marks, outbox, flush>> /\ p \in Paths
        /\ pending' \subseteq pending \cup {p} /\ lost' \subseteq lost \cup {p}
    BY <1>2 DEF EditFile, desktop, CacheAssumption
  <2> QED BY <2>1 DEF WatchInv
<1>3. CASE RestartDesktop
  <2>1. /\ UNCHANGED <<marks, outbox>> /\ flush'.item.kind # "stale" /\ watching' = FALSE
        /\ pending' = {} /\ change' = {} /\ lost' = lost \cup pending \cup change
    BY <1>3, NoFlushType DEF RestartDesktop, NoItem
  <2> QED BY <2>1 DEF WatchInv
<1> QED BY <1>1, <1>2, <1>3, PassWatch, FlushWatch, WatcherWatch DEF Next

-----------------------------------------------------------------------------
(* What the sums of a batch have counted.                                  *)

\* The pass sums nothing.
Onward ==
    \/ pass' = pass
    \/ pass'.pc # "submit" /\ (pass'.counted = {} \/ (pass.pc # "submit" /\ pass'.counted = pass.counted))
\* No copy and no reservation is new, and the policy stays.
Steady ==
    /\ AvailableFiles' \subseteq AvailableFiles /\ Reserved' \subseteq Reserved
    /\ Completed \subseteq Completed' /\ UNCHANGED <<uncounted, policy, setting>>
    /\ Onward

QuotaInv == CountInv /\ SettingInv /\ QuotaIsKept

\* The quota, and the fields of a change of the policy.
LEMMA PolicyFields ==
    ASSUME CacheAssumption, SettingInv
    PROVE  policy.quota \in Nat /\ setting.used \in Nat /\ setting.open \in BOOLEAN
BY DEF CacheAssumption, SettingInv, SettingRecord

\* Cardinalities of a set with one element less, and of two sets apart.
LEMMA RemoveOne ==
    ASSUME NEW S, IsFiniteSet(S), NEW x \in S
    PROVE  Cardinality(S \ {x}) = Cardinality(S) - 1
BY FS_RemoveElement

LEMMA UnionApart ==
    ASSUME NEW S, NEW T, IsFiniteSet(S), IsFiniteSet(T), S \cap T = {}
    PROVE  Cardinality(S \cup T) = Cardinality(S) + Cardinality(T)
<1>1. Cardinality(S \cup T) = Cardinality(S) + (Cardinality(T) - Cardinality(S \cap T))
  BY FS_Union
<1>2. Cardinality(S \cap T) = 0 /\ Cardinality(S) \in Nat /\ Cardinality(T) \in Nat
  BY FS_EmptySet, FS_CardinalityType
<1> QED BY <1>1, <1>2

\* What is recorded is finite.
LEMMA CountedFinite ==
    ASSUME TypeInv, CountInv
    PROVE  /\ IsFiniteSet(uncounted) /\ Cardinality(uncounted) \in Nat
           /\ IsFiniteSet(uncounted \ pass.counted) /\ Cardinality(uncounted \ pass.counted) \in Nat
           /\ IsFiniteSet(uncounted \ setting.counted) /\ Cardinality(uncounted \ setting.counted) \in Nat
<1>1. IsFiniteSet(Ids) /\ uncounted \subseteq Ids
  BY ReservedFinite DEF CountInv, Completed
<1>2. IsFiniteSet(uncounted)
  BY <1>1, FS_Subset
<1>3. IsFiniteSet(uncounted \ pass.counted) /\ IsFiniteSet(uncounted \ setting.counted)
  BY <1>2, FS_Subset
<1> QED BY <1>2, <1>3, FS_CardinalityType

\* With nothing new the sums stay right.
LEMMA SteadyKeeps ==
    ASSUME CacheAssumption, TypeInv, ReservationInv, QuotaInv, Steady
    PROVE  QuotaInv'
<1>1. /\ IsFiniteSet(AvailableFiles) /\ Cardinality(AvailableFiles) \in Nat
      /\ IsFiniteSet(Reserved) /\ Cardinality(Reserved) \in Nat
      /\ Cardinality(uncounted) \in Nat /\ Cardinality(uncounted \ pass.counted) \in Nat
      /\ Cardinality(uncounted \ setting.counted) \in Nat
  BY AvailableFinite, ReservedFinite, CountedFinite DEF QuotaInv
<1>2. /\ Cardinality(AvailableFiles') <= Cardinality(AvailableFiles) /\ Cardinality(AvailableFiles') \in Nat
      /\ Cardinality(Reserved') <= Cardinality(Reserved) /\ Cardinality(Reserved') \in Nat
  BY <1>1, FS_Subset, FS_CardinalityType DEF Steady
<1>3. policy.quota \in Nat /\ setting.used \in Nat
  BY PolicyFields DEF QuotaInv
<1>4. Cardinality(AvailableFiles) + Cardinality(Reserved) <= policy.quota + Cardinality(uncounted)
  BY DEF QuotaInv, QuotaIsKept
<1>5. QuotaIsKept'
  <2>1. Cardinality(AvailableFiles') + Cardinality(Reserved') <= policy.quota + Cardinality(uncounted)
    BY <1>1, <1>2, <1>3, <1>4
  <2> QED BY <2>1 DEF QuotaIsKept, Steady
<1>6. uncounted' \subseteq Completed' /\ pass'.counted \subseteq uncounted' /\ (pass'.pc # "submit" => pass'.counted = {})
  BY DEF QuotaInv, CountInv, Steady, Onward
<1>7. ASSUME pass'.pc = "submit" PROVE Cardinality(AvailableFiles') <= pass'.used + Cardinality(uncounted' \ pass'.counted)
  <2>1. pass' = pass /\ uncounted' = uncounted
    BY <1>7 DEF Steady, Onward
  <2>2. Cardinality(AvailableFiles) <= pass.used + Cardinality(uncounted \ pass.counted) /\ pass.used \in Nat
    BY <1>7, <2>1, PassFields DEF QuotaInv, CountInv, TypeInv
  <2>3. Cardinality(AvailableFiles') <= pass.used + Cardinality(uncounted \ pass.counted)
    BY <1>1, <1>2, <2>2
  <2> QED BY <2>1, <2>3
<1>8. SettingInv'
  <2>1. UNCHANGED <<policy, setting, uncounted>> /\ SettingInv
    BY DEF Steady, QuotaInv
  <2>2. ASSUME setting.open
        PROVE  pass'.pc # "submit" /\ Cardinality(AvailableFiles') <= setting.used + Cardinality(uncounted \ setting.counted)
    <3>1. pass.pc # "submit" /\ Cardinality(AvailableFiles) <= setting.used + Cardinality(uncounted \ setting.counted)
      BY <2>1, <2>2 DEF SettingInv
    <3>2. pass'.pc # "submit"
      BY <3>1 DEF Steady, Onward
    <3>3. Cardinality(AvailableFiles') <= setting.used + Cardinality(uncounted \ setting.counted)
      BY <1>1, <1>2, <1>3, <3>1
    <3> QED BY <3>2, <3>3
  <2> QED BY <2>1, <2>2 DEF SettingInv
<1> QED BY <1>5, <1>6, <1>7, <1>8 DEF QuotaInv, CountInv

\* submit begins with every completion counted.
LEMMA SubmitQuota ==
    ASSUME CacheAssumption, BackedInv, QuotaInv, UNCHANGED <<reservations, late, cached, uncounted, policy, setting>>, ~setting.open,
           pass' = [pass EXCEPT !.pc = "submit", !.used = Cardinality(AvailableFiles), !.counted = uncounted]
    PROVE  QuotaInv'
<1>1. TypeInv /\ ReservationInv /\ CountInv /\ SettingInv /\ QuotaIsKept
  BY DEF BackedInv, QuotaInv
<1>2. uncounted \in SUBSET Nat
  BY <1>1, IdsAre DEF CountInv, Completed
<1>3. pass'.used = Cardinality(AvailableFiles) /\ pass'.counted = uncounted /\ pass'.pc = "submit"
  BY <1>1, <1>2, SummedIs
<1>4. AvailableFiles' = AvailableFiles /\ Reserved' = Reserved /\ Completed' = Completed
  BY DEF AvailableFiles, Reserved, Completed, Ids
<1>5. QuotaIsKept'
  BY <1>1, <1>4 DEF QuotaIsKept
<1>6. Cardinality(uncounted' \ pass'.counted) = 0
  <2>1. uncounted' \ pass'.counted = {}
    BY <1>3
  <2> QED BY <2>1, FS_EmptySet
<1>7. Cardinality(AvailableFiles) \in Nat
  BY <1>1, AvailableFinite
<1>8. Cardinality(AvailableFiles') <= pass'.used + Cardinality(uncounted' \ pass'.counted)
  BY <1>3, <1>4, <1>6, <1>7
<1>9. CountInv'
  BY <1>1, <1>3, <1>4, <1>8 DEF CountInv
<1>10. SettingInv'
  BY <1>1 DEF SettingInv
<1> QED BY <1>5, <1>9, <1>10 DEF QuotaInv

\* updatePolicy begins with every completion counted.
LEMMA BeginUpdateQuota ==
    ASSUME CacheAssumption, BackedInv, QuotaInv, BeginUpdatePolicy
    PROVE  QuotaInv'
<1>1. TypeInv /\ ReservationInv /\ CountInv /\ SettingInv /\ QuotaIsKept
  BY DEF BackedInv, QuotaInv
<1>2. /\ UNCHANGED <<reservations, late, cached, uncounted, policy, pass>> /\ pass.pc # "submit"
      /\ setting' = [open |-> TRUE, used |-> Cardinality(AvailableFiles), counted |-> uncounted]
  BY DEF BeginUpdatePolicy, desktop, ghosts
<1>3. uncounted \in SUBSET Nat /\ Cardinality(AvailableFiles) \in Nat
  BY <1>1, IdsAre, AvailableFinite DEF CountInv, Completed
<1>4. AvailableFiles' = AvailableFiles /\ Reserved' = Reserved /\ Completed' = Completed
  BY <1>2 DEF AvailableFiles, Reserved, Completed, Ids
<1> DEFINE n == Cardinality(AvailableFiles)
<1>5. n \in Nat /\ setting' = [open |-> TRUE, used |-> n, counted |-> uncounted] /\ Cardinality(AvailableFiles') = n
  BY <1>2, <1>3, <1>4
<1> HIDE DEF n
<1>6. setting' \in SettingRecord /\ setting'.open /\ setting'.used = n /\ setting'.counted = uncounted
  BY <1>3, <1>5 DEF SettingRecord
<1>7. Cardinality(uncounted' \ setting'.counted) = 0
  <2>1. uncounted' \ setting'.counted = {}
    BY <1>2, <1>6
  <2> QED BY <2>1, FS_EmptySet
<1>8. Cardinality(AvailableFiles') <= setting'.used + Cardinality(uncounted' \ setting'.counted)
  BY <1>5, <1>6, <1>7
<1>9. SettingInv'
  BY <1>1, <1>2, <1>6, <1>8 DEF SettingInv
<1>10. QuotaIsKept' /\ CountInv'
  BY <1>1, <1>2, <1>4 DEF QuotaIsKept, CountInv
<1> QED BY <1>9, <1>10 DEF QuotaInv

\* The arithmetic of updatePolicy: what its first sum missed was recorded since.
LEMMA PolicyFits ==
    ASSUME NEW used \in Nat, NEW copies \in Nat, NEW reserved \in Nat, NEW quota \in Nat, NEW since \in Nat,
           copies <= used + since, used + reserved <= quota
    PROVE  copies + reserved <= quota + since
OBVIOUS

\* A quota that is set holds what was summed, and what was not is recorded.
LEMMA UpdateQuota ==
    ASSUME CacheAssumption, BackedInv, QuotaInv, NEW q \in Policies, UpdatePolicy(q)
    PROVE  QuotaInv'
<1>1. TypeInv /\ ReservationInv /\ CountInv /\ SettingInv /\ QuotaIsKept
  BY DEF BackedInv, QuotaInv
<1>2. setting.open /\ setting' = NoSetting /\ UNCHANGED <<reservations, late, cached, pass>>
  BY DEF UpdatePolicy, desktop
<1>3. setting' \in SettingRecord /\ ~setting'.open /\ setting'.counted = {}
  BY <1>2 DEF NoSetting, SettingRecord
<1>4. AvailableFiles' = AvailableFiles /\ Reserved' = Reserved /\ Completed' = Completed
  BY <1>2 DEF AvailableFiles, Reserved, Completed, Ids
<1>5. pass.pc # "submit" /\ Cardinality(AvailableFiles) <= setting.used + Cardinality(uncounted \ setting.counted) /\ pass.counted = {}
  BY <1>1, <1>2 DEF SettingInv, CountInv
<1>6. CASE UNCHANGED <<policy, uncounted>>
  <2>1. SettingInv'
    BY <1>1, <1>3, <1>6 DEF SettingInv
  <2>2. QuotaIsKept' /\ CountInv'
    BY <1>1, <1>2, <1>4, <1>6 DEF QuotaIsKept, CountInv
  <2> QED BY <2>1, <2>2 DEF QuotaInv
<1>7. CASE Allocated(setting.used) <= q.quota /\ policy' = q /\ uncounted' = uncounted \ setting.counted
  <2>1. SettingInv'
    BY <1>3, <1>7 DEF SettingInv
  <2>2. CountInv'
    BY <1>1, <1>2, <1>4, <1>5, <1>7 DEF CountInv
  <2>3. /\ Cardinality(AvailableFiles) \in Nat /\ Cardinality(Reserved) \in Nat /\ setting.used \in Nat
        /\ Cardinality(uncounted \ setting.counted) \in Nat
    BY <1>1, AvailableFinite, ReservedFinite, CountedFinite, PolicyFields
  <2>4. q.quota \in Nat /\ setting.used + Cardinality(Reserved) <= q.quota
    BY <1>7 DEF CacheAssumption, Allocated
  <2>5. Cardinality(AvailableFiles) + Cardinality(Reserved) <= q.quota + Cardinality(uncounted \ setting.counted)
    BY <1>5, <2>3, <2>4, PolicyFits
  <2>6. QuotaIsKept'
    BY <1>4, <1>7, <2>5 DEF QuotaIsKept
  <2> QED BY <2>1, <2>2, <2>6 DEF QuotaInv
<1> QED BY <1>6, <1>7 DEF UpdatePolicy

\* A completion is either one more copy for a reservation less, or recorded.
LEMMA CommitQuota ==
    ASSUME CacheAssumption, BackedInv, QuotaInv, NEW i \in Item, i.kind = "completion", SendableItem(i), CommitCompletion(i),
           reservations[i.id].status = "RESERVED", UNCHANGED <<late, policy, setting>>,
           pass' = pass \/ (pass.pc # "submit" /\ pass'.pc # "submit" /\ pass'.counted = {})
    PROVE  QuotaInv'
<1>1. TypeInv /\ ReservationInv /\ CountInv /\ SettingInv /\ QuotaIsKept
  BY DEF BackedInv, QuotaInv
<1>2. /\ i.id \in Ids /\ Ids' = Ids /\ Completed' = Completed \cup {i.id} /\ i.id \notin Completed
      /\ \A r \in Ids \ {i.id} : reservations'[r].status = reservations[r].status
  BY <1>1, CommitStep
<1>3. AvailableFiles' = {f \in AvailableFiles : f[1] # i.path} \cup {FileOf(i.id)}
  BY <1>1, CommitAvailable
<1>4. reservations'[i.id].status = "COMPLETED"
  BY <1>2 DEF Completed
<1>5. Reserved' = Reserved \ {i.id}
  BY <1>2, <1>4 DEF Reserved
<1>6. uncounted' = IF pass.pc = "submit" \/ setting.open \/ i.id \in late THEN uncounted \cup {i.id} ELSE uncounted
  BY DEF CommitCompletion
<1>7. i.id \notin uncounted /\ i.id \notin pass.counted /\ i.id \notin setting.counted
  BY <1>1, <1>2 DEF CountInv, SettingInv
<1>8. /\ IsFiniteSet(AvailableFiles) /\ Cardinality(AvailableFiles) \in Nat
      /\ IsFiniteSet(Reserved) /\ Cardinality(Reserved) \in Nat
      /\ IsFiniteSet(uncounted) /\ Cardinality(uncounted) \in Nat
      /\ IsFiniteSet(uncounted \ pass.counted) /\ Cardinality(uncounted \ pass.counted) \in Nat
      /\ IsFiniteSet(uncounted \ setting.counted) /\ Cardinality(uncounted \ setting.counted) \in Nat
  BY <1>1, AvailableFinite, ReservedFinite, CountedFinite
<1>9. Cardinality(AvailableFiles') <= Cardinality(AvailableFiles) + 1 /\ Cardinality(AvailableFiles') \in Nat
  <2> DEFINE S == {f \in AvailableFiles : f[1] # i.path}
  <2>1. S \subseteq AvailableFiles
    OBVIOUS
  <2>2. IsFiniteSet(S) /\ Cardinality(S) <= Cardinality(AvailableFiles) /\ Cardinality(S) \in Nat
    BY <1>8, <2>1, FS_Subset, FS_CardinalityType
  <2> HIDE DEF S
  <2>3. IsFiniteSet(S \cup {FileOf(i.id)}) /\ Cardinality(S \cup {FileOf(i.id)}) \in {Cardinality(S), Cardinality(S) + 1}
    BY <2>2, FS_AddElement
  <2>4. AvailableFiles' = S \cup {FileOf(i.id)}
    BY <1>3 DEF S
  <2> QED BY <1>8, <2>2, <2>3, <2>4
<1>10. policy.quota \in Nat /\ pass.used \in Nat /\ setting.used \in Nat
  BY <1>1, PassFields, PolicyFields DEF TypeInv
<1>11. Cardinality(AvailableFiles) + Cardinality(Reserved) <= policy.quota + Cardinality(uncounted)
  BY <1>1 DEF QuotaIsKept
<1>12. CASE pass.pc = "submit" \/ setting.open \/ i.id \in late
  <2>1. uncounted' = uncounted \cup {i.id}
    BY <1>6, <1>12
  <2>2. Cardinality(uncounted') = Cardinality(uncounted) + 1
    BY <1>7, <1>8, <2>1, FS_AddElement
  <2>3. Cardinality(Reserved') <= Cardinality(Reserved) /\ Cardinality(Reserved') \in Nat
    BY <1>5, <1>8, FS_Subset, FS_CardinalityType
  <2>4. QuotaIsKept'
    <3>1. Cardinality(AvailableFiles') + Cardinality(Reserved') <= policy.quota + Cardinality(uncounted')
      BY <1>8, <1>9, <1>10, <1>11, <2>2, <2>3
    <3> QED BY <3>1 DEF QuotaIsKept
  <2>5. uncounted' \subseteq Completed' /\ pass'.counted \subseteq uncounted' /\ (pass'.pc # "submit" => pass'.counted = {})
    BY <1>1, <1>2, <2>1 DEF CountInv
  <2>6. ASSUME pass'.pc = "submit" PROVE Cardinality(AvailableFiles') <= pass'.used + Cardinality(uncounted' \ pass'.counted)
    <3>1. pass' = pass
      BY <2>6
    <3>2. uncounted' \ pass'.counted = (uncounted \ pass.counted) \cup {i.id} /\ i.id \notin uncounted \ pass.counted
      BY <1>7, <2>1, <3>1
    <3>3. Cardinality(uncounted' \ pass'.counted) = Cardinality(uncounted \ pass.counted) + 1
      BY <1>8, <3>2, FS_AddElement
    <3>4. Cardinality(AvailableFiles) <= pass.used + Cardinality(uncounted \ pass.counted)
      BY <1>1, <2>6, <3>1 DEF CountInv
    <3>5. Cardinality(AvailableFiles') <= pass.used + (Cardinality(uncounted \ pass.counted) + 1)
      BY <1>8, <1>9, <1>10, <3>4
    <3> QED BY <3>1, <3>3, <3>5
  <2>7. SettingInv'
    <3>1. ASSUME setting.open
          PROVE  pass'.pc # "submit" /\ Cardinality(AvailableFiles') <= setting.used + Cardinality(uncounted' \ setting.counted)
      <4>1. pass.pc # "submit" /\ Cardinality(AvailableFiles) <= setting.used + Cardinality(uncounted \ setting.counted)
        BY <1>1, <3>1 DEF SettingInv
      <4>2. uncounted' \ setting.counted = (uncounted \ setting.counted) \cup {i.id} /\ i.id \notin uncounted \ setting.counted
        BY <1>7, <2>1
      <4>3. Cardinality(uncounted' \ setting.counted) = Cardinality(uncounted \ setting.counted) + 1
        BY <1>8, <4>2, FS_AddElement
      <4>4. Cardinality(AvailableFiles') <= setting.used + (Cardinality(uncounted \ setting.counted) + 1)
        BY <1>8, <1>9, <1>10, <4>1
      <4> QED BY <4>1, <4>3, <4>4
    <3>2. setting.counted \subseteq uncounted'
      BY <1>1, <2>1 DEF SettingInv
    <3> QED BY <1>1, <3>1, <3>2 DEF SettingInv
  <2> QED BY <2>4, <2>5, <2>6, <2>7 DEF QuotaInv, CountInv
<1>13. CASE pass.pc # "submit" /\ ~setting.open /\ i.id \notin late
  <2>1. uncounted' = uncounted
    BY <1>6, <1>13
  <2>2. i.id \in Reserved
    BY <1>2, <1>13 DEF Reserved
  <2>3. Cardinality(Reserved') = Cardinality(Reserved) - 1
    <3>1. Cardinality(Reserved \ {i.id}) = Cardinality(Reserved) - 1
      BY <1>8, <2>2, RemoveOne
    <3> QED BY <1>5, <3>1
  <2>4. QuotaIsKept'
    <3>1. Cardinality(AvailableFiles') + Cardinality(Reserved') <= policy.quota + Cardinality(uncounted)
      BY <1>8, <1>9, <1>10, <1>11, <2>3
    <3> QED BY <2>1, <3>1 DEF QuotaIsKept
  <2>5. uncounted' \subseteq Completed' /\ pass'.counted = {} /\ pass'.pc # "submit"
    BY <1>1, <1>2, <1>13, <2>1 DEF CountInv
  <2>6. SettingInv'
    BY <1>1, <1>13, <2>1 DEF SettingInv
  <2> QED BY <2>4, <2>5, <2>6 DEF QuotaInv, CountInv
<1> QED BY <1>12, <1>13

\* The arithmetic of submit: what its first sum missed was recorded since.
LEMMA SumsFit ==
    ASSUME NEW used \in Nat, NEW copies \in Nat, NEW reserved \in Nat, NEW gone \in Nat, NEW new \in Nat, NEW quota \in Nat,
           NEW since \in Nat, copies <= used + since, ((used + reserved) - gone) + new <= quota
    PROVE  (copies - gone) + (reserved + new) <= quota + since
OBVIOUS

\* What a batch reserves fits beside what it has summed, and what it has not is recorded.
LEMMA GrowQuota ==
    ASSUME CacheAssumption, BackedInv, QuotaInv, pass.pc = "submit", NEW a, a = Admitted(pass.batch, pass.used),
           reservations' = reservations \o a.new, objects' = objects \o [i \in DOMAIN a.new |-> NoUpload],
           cached' = Invalidate(a.gone), UNCHANGED <<late, policy, setting>>,
           uncounted' = IF a.new = <<>> THEN uncounted ELSE uncounted \ pass.counted,
           pass'.pc # "submit", pass'.counted = {}
    PROVE  QuotaInv'
<1>1. TypeInv /\ ReservationInv /\ CountInv /\ SettingInv /\ QuotaIsKept
  BY DEF BackedInv, QuotaInv
<1>2. LoopInv(pass.batch, pass.used, a)
  BY <1>1, SubmitLoop DEF SettingInv
<1>3. /\ a.gone \subseteq AvailableFiles
      /\ Ids' = 1..(Len(reservations) + Len(a.new)) /\ Completed' = Completed
      /\ \A r \in Ids : reservations'[r] = reservations[r]
      /\ \A r \in Ids' \ Ids : reservations'[r].status = "RESERVED"
  BY <1>1, <1>2, GrowStep
<1> DEFINE F == a.gone
           n == Len(a.new)
           m == Len(reservations)
<1>4. F \in SUBSET AvailableFiles /\ cached' = Invalidate(F)
  BY <1>3
<1>5. a.new \in Seq(Row) /\ n \in Nat /\ m \in Nat /\ Ids = 1..m
  <2>1. a.new \in Seq(Row) /\ reservations \in Seq(Row)
    BY <1>1, <1>2 DEF LoopInv, AccRecord, TypeInv
  <2> QED BY <1>1, <2>1, LenProperties, IdsAre
<1>6. Ids' = 1..(m + n)
  BY <1>3
<1>7. a.allocated = ((pass.used + Cardinality(Reserved)) - Cardinality(F)) + n
  BY <1>2 DEF LoopInv, Allocated
<1>8. a.new # <<>> => a.allocated <= policy.quota
  BY <1>2 DEF LoopInv
<1> HIDE DEF F, n, m
<1>9. AvailableFiles' = AvailableFiles \ F
  BY <1>1, <1>4, InvalidateStep
<1>10. late \subseteq 1..m
  BY <1>1, <1>5 DEF TypeInv
<1>11. Reserved' = Reserved \cup ((m + 1)..(m + n)) /\ Reserved \cap ((m + 1)..(m + n)) = {}
  <2>1. 1..(m + n) = (1..m) \cup ((m + 1)..(m + n)) /\ (1..m) \cap ((m + 1)..(m + n)) = {}
    BY <1>5
  <2>2. Reserved \subseteq 1..m
    BY <1>5 DEF Reserved
  <2>3. \A r \in (m + 1)..(m + n) : r \in Ids' /\ r \notin Ids /\ r \notin late
    BY <1>5, <1>6, <1>10, <2>1
  <2>4. \A r \in (m + 1)..(m + n) : reservations'[r].status = "RESERVED"
    BY <1>3, <2>3
  <2>5. \A r \in 1..m : reservations'[r] = reservations[r] /\ r \in Ids'
    BY <1>3, <1>5, <1>6, <2>1
  <2>6. Reserved' = {r \in Ids' : reservations'[r].status = "RESERVED" /\ r \notin late}
    BY DEF Reserved
  <2>7. Reserved = {r \in 1..m : reservations[r].status = "RESERVED" /\ r \notin late}
    BY <1>5 DEF Reserved
  <2>8. Ids' = (1..m) \cup ((m + 1)..(m + n))
    BY <1>6, <2>1
  <2>9. \A r : r \in Reserved' <=> r \in Reserved \cup ((m + 1)..(m + n))
    BY <2>3, <2>4, <2>5, <2>6, <2>7, <2>8
  <2> QED BY <2>1, <2>2, <2>9
<1>12. /\ IsFiniteSet(AvailableFiles) /\ Cardinality(AvailableFiles) \in Nat
       /\ IsFiniteSet(Reserved) /\ Cardinality(Reserved) \in Nat
       /\ Cardinality(uncounted \ pass.counted) \in Nat
  BY <1>1, AvailableFinite, ReservedFinite, CountedFinite
<1>13. CASE a.new = <<>>
  <2>1. n = 0
    BY <1>13 DEF n
  <2>2. Reserved' \subseteq Reserved
    BY <1>5, <1>11, <2>1
  <2>3. uncounted' = uncounted
    BY <1>13
  <2>4. Steady
    BY <1>3, <1>9, <2>2, <2>3 DEF Steady, Onward
  <2> QED BY <1>1, <2>4, SteadyKeeps
<1>14. CASE a.new # <<>>
  <2>1. uncounted' = uncounted \ pass.counted
    BY <1>14
  <2>2. /\ Cardinality(AvailableFiles') = Cardinality(AvailableFiles) - Cardinality(F)
        /\ Cardinality(F) \in Nat
    <3>1. IsFiniteSet(F) /\ Cardinality(F) \in Nat
      BY <1>4, <1>12, FS_Subset, FS_CardinalityType
    <3>2. Cardinality(AvailableFiles \ F) = Cardinality(AvailableFiles) - Cardinality(AvailableFiles \cap F)
      BY <1>12, FS_Difference
    <3>3. AvailableFiles \cap F = F
      BY <1>4
    <3> QED BY <1>9, <3>1, <3>2, <3>3
  <2>3. Cardinality(Reserved') = Cardinality(Reserved) + n
    <3> DEFINE N == (m + 1)..(m + n)
    <3>1. IsFiniteSet(N) /\ Cardinality(N) = n
      <4>1. m + 1 \in Int /\ m + n \in Int
        BY <1>5
      <4>2. IsFiniteSet(N) /\ Cardinality(N) = IF m + 1 > m + n THEN 0 ELSE ((m + n) - (m + 1)) + 1
        BY <4>1, FS_Interval
      <4> QED BY <1>5, <4>2
    <3>2. Reserved' = Reserved \cup N /\ Reserved \cap N = {}
      BY <1>11
    <3> HIDE DEF N
    <3>3. Cardinality(Reserved \cup N) = Cardinality(Reserved) + Cardinality(N)
      BY <1>12, <3>1, <3>2, UnionApart
    <3> QED BY <3>1, <3>2, <3>3
  <2>4. Cardinality(AvailableFiles) <= pass.used + Cardinality(uncounted \ pass.counted)
    BY <1>1 DEF CountInv
  <2>5. policy.quota \in Nat /\ pass.used \in Nat
    BY <1>1, PassFields, PolicyFields DEF TypeInv
  <2>6. ((pass.used + Cardinality(Reserved)) - Cardinality(F)) + n <= policy.quota
    BY <1>7, <1>8, <1>14
  <2>7. (Cardinality(AvailableFiles) - Cardinality(F)) + (Cardinality(Reserved) + n) <= policy.quota + Cardinality(uncounted \ pass.counted)
    BY <1>5, <1>12, <2>2, <2>4, <2>5, <2>6, SumsFit
  <2>8. QuotaIsKept'
    <3>1. Cardinality(AvailableFiles') + Cardinality(Reserved') <= policy.quota + Cardinality(uncounted')
      BY <2>1, <2>2, <2>3, <2>7
    <3> QED BY <3>1 DEF QuotaIsKept
  <2>9. uncounted' \subseteq Completed' /\ pass'.counted \subseteq uncounted'
    BY <1>1, <1>3, <2>1 DEF CountInv
  <2>10. SettingInv'
    <3>1. ~setting.open
      BY <1>1 DEF SettingInv
    <3> QED BY <1>1, <3>1 DEF SettingInv
  <2> QED BY <2>8, <2>9, <2>10 DEF QuotaInv, CountInv
<1> QED BY <1>13, <1>14

-----------------------------------------------------------------------------
(* Every step keeps the two.                                               *)

\* A step beside the watcher and the policy.
Aside == UNCHANGED <<policy, setting, pending, change, lost>>
\* A step that commits nothing, reserves nothing, edits nothing and is done with no mark.
Calm ==
    /\ Fewer /\ Steady /\ UNCHANGED <<file, overtaken, pending, change, lost>>
    /\ \A i \in outbox : i.kind = "stale" => i \in outbox'
    /\ flush' = flush \/ flush' = NoFlush
    /\ room' => room

\* Such a step keeps the report and the quota.
LEMMA CalmKeeps ==
    ASSUME CacheAssumption, BackedInv, ReportInv, QuotaInv, Calm
    PROVE  ReportInv' /\ QuotaInv'
<1>1. TypeInv /\ ReservationInv /\ Steady
  BY DEF BackedInv, Calm
<1>2. QuotaInv'
  BY <1>1, SteadyKeeps
<1>3. flush' = flush \/ flush'.pc # "mark" \/ flush'.item.kind # "stale"
  BY NoFlushType DEF Calm
<1>4. ReportInv'
  BY <1>3, ReportKeeps DEF Calm
<1> QED BY <1>2, <1>4

\* Reservations end, and none begins.
LEMMA EndedRows ==
    ASSUME Ids' = Ids, Progress, late \subseteq late',
           \A r \in Ids : reservations'[r].status = "RESERVED" => reservations[r].status = "RESERVED"
    PROVE  Reserved' \subseteq Reserved /\ Completed \subseteq Completed'
<1>1. Completed \subseteq Completed'
  BY ProgressFacts
<1>2. Reserved' \subseteq Reserved
  BY DEF Reserved
<1> QED BY <1>1, <1>2

\* A step that changes no row and no mark.
LEMMA QuietCalm ==
    ASSUME Aside, UNCHANGED <<file, reservations, cached, room, uncounted, overtaken>>, late \subseteq late', outbox \subseteq outbox',
           flush' = flush \/ flush' = NoFlush,
           Onward
    PROVE  Calm
<1>1. Progress /\ Ids' = Ids /\ AvailableFiles' = AvailableFiles
  BY SameRows
<1>2. Reserved' \subseteq Reserved /\ Completed \subseteq Completed'
  BY <1>1, EndedRows
<1>3. Steady
  BY <1>1, <1>2 DEF Steady, Aside
<1>4. Fewer
  BY FewerSame
<1> QED BY <1>3, <1>4 DEF Calm, Aside

\* A pass that goes on sums nothing.
LEMMA SkipCalm ==
    ASSUME TypeInv, Skip
    PROVE  pass'.pc # "submit" /\ pass'.counted = {}
<1>1. pass.todo \ {Now} \in SUBSET Nat
  BY PassFields DEF TypeInv
<1> QED BY <1>1, UploadStep DEF Skip

\* The calm steps, action by action.
LEMMA UserCalm ==
    ASSUME \/ \E p \in Chosen : RecordUsageEvent(p)
           \/ \E p \in Chosen, flag \in Preferences : UpdateFilePreference(p, flag)
    PROVE  Calm
<1>1. UNCHANGED <<file, reservations, cached, room, uncounted, overtaken, late, outbox, flush, pass>> /\ Aside
  BY DEF RecordUsageEvent, UpdateFilePreference, server, desktop, ghosts, watcher, rules, Aside
<1> QED BY <1>1, QuietCalm DEF Onward

LEMMA EnsureStillCurrentCalm ==
    ASSUME TypeInv, NEW at, NEW next, <<at, next>> \in {<<"check", "put">>, <<"recheck", "enqueue">>}, EnsureStillCurrent(at, next)
    PROVE  Calm
<1>1. UNCHANGED <<file, reservations, cached, room, uncounted, overtaken, late, outbox, flush>> /\ Aside
  BY DEF EnsureStillCurrent, server, local, ghosts, watcher, rules, Aside
<1>2. Goto(IF file[Current.path] = Current.version THEN next ELSE "cancel") /\ next \in {"put", "enqueue"} /\ pass.pc # "submit"
  BY DEF EnsureStillCurrent
<1>3. PICK pc \in {"put", "enqueue", "cancel"} : Goto(pc)
  BY <1>2
<1>4. pass'.pc # "submit" /\ pass'.counted = pass.counted
  BY <1>3, GotoStep DEF TypeInv
<1> QED BY <1>1, <1>2, <1>4, QuietCalm DEF Onward

LEMMA PutUploadBytesCalm ==
    ASSUME TypeInv, PutUploadBytes
    PROVE  Calm
<1>1. UNCHANGED <<file, reservations, cached, room, uncounted, overtaken, late, outbox, flush>> /\ Aside /\ pass.pc = "put"
  BY DEF PutUploadBytes, server, local, ghosts, watcher, rules, Aside
<1>2. \/ pass' = [pass EXCEPT !.pc = "recheck", !.upload = EncryptFile(Current.path)]
      \/ pass' = [pass EXCEPT !.pc = "cancel"]
  BY DEF PutUploadBytes, Goto
<1>3. pass \in PassRecord
  BY DEF TypeInv
<1>4. pass'.pc # "submit" /\ pass'.counted = pass.counted
  BY <1>2, <1>3 DEF PassRecord
<1> QED BY <1>1, <1>4, QuietCalm DEF Onward

LEMMA EnqueueCompletionCalm ==
    ASSUME TypeInv, EnqueueCompletion
    PROVE  Calm
<1>1. UNCHANGED <<file, reservations, cached, room, uncounted, overtaken, late, flush>> /\ outbox \subseteq outbox' /\ Aside /\ pass.pc = "enqueue"
  BY DEF EnqueueCompletion, server, local, ghosts, watcher, rules, Aside
<1>2. Goto("complete")
  BY DEF EnqueueCompletion
<1>3. pass'.pc # "submit" /\ pass'.counted = pass.counted
  BY <1>2 DEF TypeInv, Goto, PassRecord
<1> QED BY <1>1, <1>3, QuietCalm DEF Onward

LEMMA CompleteUploadCalm ==
    ASSUME TypeInv, CompleteUpload, pass.pc = "complete"
    PROVE  Calm
<1>1. UNCHANGED <<file, reservations, cached, room, uncounted, overtaken, late, outbox, flush>> /\ (Goto("commit") \/ Skip) /\ Aside
  BY DEF CompleteUpload, local, ghosts, watcher, rules, Aside
<1>2. pass'.pc # "submit" /\ pass'.counted \in {pass.counted, {}}
  <2>1. CASE Goto("commit")
    BY <2>1 DEF TypeInv, Goto, PassRecord
  <2>2. CASE Skip
    BY <2>2, SkipCalm
  <2> QED BY <1>1, <2>1, <2>2
<1> QED BY <1>1, <1>2, QuietCalm DEF Onward

\* One reservation is cancelled or runs out.
LEMMA EndsCalm ==
    ASSUME TypeInv, Aside, UNCHANGED <<file, cached, room, uncounted, overtaken, late, outbox, flush>>,
           pass' = pass \/ (pass'.pc # "submit" /\ pass'.counted = {}),
           NEW r \in Ids, NEW st \in {"CANCELLED", "EXPIRED"}, reservations[r].status = "RESERVED",
           reservations' = [reservations EXCEPT ![r].status = st]
    PROVE  Calm
<1>1. st \in Statuses
  BY DEF Statuses
<1>2. /\ Ids' = Ids
      /\ \A q \in Ids : /\ reservations'[q].path = reservations[q].path /\ reservations'[q].version = reservations[q].version
                        /\ reservations'[q].batch = reservations[q].batch
                        /\ reservations'[q].status = IF q = r THEN st ELSE reservations[q].status
  BY <1>1, StatusStep
<1>3. Progress
  BY <1>2 DEF Progress
<1>4. \A q \in Ids : reservations'[q].status = "RESERVED" => reservations[q].status = "RESERVED"
  BY <1>2
<1>5. Reserved' \subseteq Reserved /\ Completed \subseteq Completed'
  BY <1>2, <1>3, <1>4, EndedRows
<1>6. AvailableFiles' = AvailableFiles
  BY DEF AvailableFiles
<1>7. Steady
  BY <1>5, <1>6 DEF Steady, Onward, Aside
<1>8. Fewer
  BY FewerSame
<1> QED BY <1>7, <1>8 DEF Calm, Aside

LEMMA CancelReservationCalm ==
    ASSUME TypeInv, CancelReservation
    PROVE  Calm
<1>1. UNCHANGED <<file, cached, room, uncounted, overtaken, late, outbox, flush>> /\ Skip /\ pass.pc = "cancel" /\ Aside
  BY DEF CancelReservation, local, ghosts, watcher, rules, Aside
<1>2. pass'.pc # "submit" /\ pass'.counted = {}
  BY <1>1, SkipCalm
<1>3. CASE reservations' = reservations
  BY <1>1, <1>2, <1>3, QuietCalm DEF Onward
<1>4. CASE reservations[Now].status = "RESERVED" /\ reservations' = [reservations EXCEPT ![Now].status = "CANCELLED"]
  <2>1. Now \in Ids
    BY <1>1, NowIn DEF TypeInv
  <2> DEFINE r == Now
  <2>2. r \in Ids /\ reservations[r].status = "RESERVED" /\ reservations' = [reservations EXCEPT ![r].status = "CANCELLED"]
    BY <1>4, <2>1
  <2> HIDE DEF r
  <2> QED BY <1>1, <1>2, <2>2, EndsCalm
<1> QED BY <1>3, <1>4 DEF CancelReservation, Current

LEMMA WorkCalm ==
    ASSUME TypeInv, NEW r \in Ids, TimePasses(r) \/ Work(r)
    PROVE  Calm
<1>1. CASE TimePasses(r) \/ DeleteObject(r)
  <2>1. UNCHANGED <<file, reservations, cached, room, uncounted, overtaken, outbox, flush, pass>> /\ late \subseteq late' /\ Aside
    BY <1>1 DEF TimePasses, DeleteObject, local, server, desktop, ghosts, watcher, rules, Aside
  <2> QED BY <2>1, QuietCalm DEF Onward
<1>2. CASE ExpireReservation(r)
  <2>1. /\ UNCHANGED <<file, cached, room, uncounted, overtaken, late, outbox, flush, pass>> /\ Aside
        /\ reservations[r].status = "RESERVED" /\ reservations' = [reservations EXCEPT ![r].status = "EXPIRED"]
    BY <1>2 DEF ExpireReservation, Expirable, local, desktop, ghosts, watcher, rules, Aside
  <2> QED BY <2>1, EndsCalm
<1> QED BY <1>1, <1>2 DEF Work

LEMMA RecordAccessCalm ==
    ASSUME TypeInv, ReservationInv, NEW f \in Files, RecordAccess(f)
    PROVE  Calm
<1>1. UNCHANGED <<file, reservations, room, uncounted, overtaken, late, outbox, flush, pass>> /\ Aside
  BY DEF RecordAccess, desktop, ghosts, watcher, rules, Aside
<1>2. /\ AvailableFiles' = AvailableFiles
      /\ \A g \in Files : cached'[g].key = cached[g].key /\ cached'[g].fresh = cached[g].fresh
  BY AccessStep
<1>3. Fewer
  BY <1>2, AvailableIs DEF Fewer
<1>4. Progress /\ Ids' = Ids
  BY <1>1 DEF Progress, Ids
<1>5. Reserved' \subseteq Reserved /\ Completed \subseteq Completed'
  BY <1>1, <1>4, EndedRows
<1>6. Steady
  BY <1>1, <1>2, <1>5 DEF Steady, Onward, Aside
<1> QED BY <1>1, <1>3, <1>6 DEF Calm, Aside

LEMMA RemoveCachedCalm ==
    ASSUME TypeInv, ReservationInv, NEW f \in Files, RemoveCached(f)
    PROVE  Calm
<1>1. UNCHANGED <<file, reservations, room, uncounted, overtaken, late, outbox, flush, pass>> /\ cached' = Invalidate({f}) /\ Aside
  BY DEF RemoveCached, desktop, ghosts, watcher, rules, Aside
<1> DEFINE F == {f}
<1>2. F \in SUBSET AvailableFiles /\ cached' = Invalidate(F)
  BY <1>1 DEF RemoveCached, AvailableFiles
<1> HIDE DEF F
<1>3. Fewer
  BY <1>2, FewerLost
<1>4. Progress /\ Ids' = Ids
  BY <1>1 DEF Progress, Ids
<1>5. Reserved' \subseteq Reserved /\ Completed \subseteq Completed'
  BY <1>1, <1>4, EndedRows
<1>6. Steady
  BY <1>1, <1>3, <1>5 DEF Steady, Fewer, Onward, Aside
<1> QED BY <1>1, <1>3, <1>6 DEF Calm, Aside

LEMMA CloseRoomCalm ==
    ASSUME TypeInv, ReservationInv, CloseRoom
    PROVE  Calm
<1>1. /\ UNCHANGED <<file, uncounted, overtaken, late, outbox, flush, pass>> /\ room /\ ~room' /\ Aside
      /\ cached' = Invalidate(AvailableFiles)
      /\ reservations' = [r \in Ids |-> IF reservations[r].status = "RESERVED"
                                      THEN [reservations[r] EXCEPT !.status = "CANCELLED"] ELSE reservations[r]]
  BY DEF CloseRoom, desktop, ghosts, watcher, rules, Aside
<1>2. Fewer
  BY <1>1, FewerLost
<1>3. /\ Ids' = Ids /\ Progress
      /\ \A r \in Ids : reservations'[r].status = IF reservations[r].status = "RESERVED" THEN "CANCELLED" ELSE reservations[r].status
  BY <1>1, CloseReservations
<1>4. \A r \in Ids : reservations'[r].status = "RESERVED" => reservations[r].status = "RESERVED"
  BY <1>3
<1>5. Reserved' \subseteq Reserved /\ Completed \subseteq Completed'
  BY <1>1, <1>3, <1>4, EndedRows
<1>6. Steady
  BY <1>1, <1>2, <1>5 DEF Steady, Fewer, Onward, Aside
<1> QED BY <1>1, <1>2, <1>6 DEF Calm, Aside

\* A completion commits, of the pass or of the flush.
LEMMA CompleteUploadCommits ==
    ASSUME CacheAssumption, BackedInv, ReportInv, QuotaInv, CompleteUpload, pass.pc = "commit"
    PROVE  ReportInv' /\ QuotaInv'
<1>1. TypeInv /\ ReservationInv /\ CommitInv
  BY DEF BackedInv
<1>2. CommitCompletion(InHand) /\ Skip /\ UNCHANGED <<file, late, room, outbox, flush, pending, change, policy, setting>>
  BY DEF CompleteUpload, local, watcher, rules
<1>3. pass.todo # {}
  BY <1>1 DEF TypeInv
<1> DEFINE i == InHand
<1>4. /\ i \in Item /\ i.kind = "completion" /\ SendableItem(i) /\ CommitCompletion(i)
      /\ reservations[i.id].status = "RESERVED"
  BY <1>1, <1>2, <1>3, InHandIs DEF CommitInv
<1>5. pass'.pc # "submit" /\ pass'.counted = {}
  BY <1>1, <1>2, SkipCalm
<1> HIDE DEF i
<1>6. ReportInv'
  BY <1>2, <1>4, ReportCommit
<1>7. QuotaInv'
  BY <1>2, <1>4, <1>5, CommitQuota
<1> QED BY <1>6, <1>7

LEMMA CommitItemCommits ==
    ASSUME CacheAssumption, BackedInv, ReportInv, QuotaInv, CommitItem
    PROVE  ReportInv' /\ QuotaInv'
<1>1. TypeInv /\ ItemInv /\ CommitInv
  BY DEF BackedInv
<1>2. flush.pc = "commit" /\ CommitCompletion(flush.item) /\ UNCHANGED <<file, late, room, outbox, pass, pending, change, policy, setting>>
  BY DEF CommitItem, local, watcher, rules
<1>3. PICK a \in {"accept", "retry"} : NextAnswer(flush.item, a)
  BY DEF CommitItem
<1> DEFINE i == flush.item
<1>4. /\ i \in Item /\ i.kind = "completion" /\ SendableItem(i) /\ CommitCompletion(i)
      /\ reservations[i.id].status = "RESERVED"
  BY <1>1, <1>2, FlushFields DEF ItemInv, CommitInv
<1>5. flush'.item.kind # "stale"
  BY <1>3, <1>4, AnswerStep
<1> HIDE DEF i
<1>6. ReportInv'
  BY <1>2, <1>4, <1>5, ReportCommit
<1>7. QuotaInv'
  BY <1>2, <1>4, CommitQuota
<1> QED BY <1>6, <1>7

\* submit evicts and reserves, or replays.
LEMMA SubmitCandidatesCounts ==
    ASSUME CacheAssumption, BackedInv, ReportInv, QuotaInv, SubmitCandidates
    PROVE  ReportInv' /\ QuotaInv'
<1>1. TypeInv /\ ReservationInv
  BY DEF BackedInv
<1>2. /\ pass.pc = "submit" /\ UNCHANGED <<file, late, room, outbox, flush, overtaken>> /\ Aside
      /\ Upload(Uploadable(reservations', pass.batch)) \/ pass' = Idle
  BY DEF SubmitCandidates, local, watcher, rules, Aside
<1>3. ASSUME Ids' \subseteq Nat PROVE pass'.pc # "submit" /\ pass'.counted = {}
  <2> DEFINE rs == Uploadable(reservations', pass.batch)
  <2>1. rs \in SUBSET Nat
    BY <1>3 DEF Uploadable, Ids
  <2> HIDE DEF rs
  <2>2. CASE Upload(rs)
    BY <2>1, <2>2, UploadStep
  <2>3. CASE pass' = Idle
    BY <2>3, IdleType
  <2> QED BY <1>2, <2>2, <2>3 DEF rs
<1>4. CASE UNCHANGED <<reservations, cached, uncounted>>
  <2>1. Ids' \subseteq Nat
    BY <1>1, <1>4, IdsAre DEF Ids
  <2>2. Onward
    BY <1>3, <2>1 DEF Onward
  <2>3. Calm
    BY <1>2, <1>4, <2>2, QuietCalm
  <2> QED BY <2>3, CalmKeeps
<1>5. ASSUME NEW a, a = Admitted(pass.batch, pass.used),
             reservations' = reservations \o a.new, objects' = objects \o [i \in DOMAIN a.new |-> NoUpload],
             cached' = Invalidate(a.gone),
             uncounted' = IF a.new = <<>> THEN uncounted ELSE uncounted \ pass.counted
      PROVE  ReportInv' /\ QuotaInv'
  <2>1. LoopInv(pass.batch, pass.used, a)
    BY <1>1, <1>5, SubmitLoop DEF QuotaInv, SettingInv
  <2>2. a.gone \subseteq AvailableFiles /\ Ids' = 1..(Len(reservations) + Len(a.new))
    BY <1>1, <1>5, <2>1, GrowStep
  <2>3. Ids' \subseteq Nat
    BY <2>2
  <2>4. pass'.pc # "submit" /\ pass'.counted = {}
    BY <1>3, <2>3
  <2>5. QuotaInv'
    BY <1>2, <1>5, <2>4, GrowQuota DEF Aside
  <2> DEFINE F == a.gone
  <2>6. F \in SUBSET AvailableFiles /\ cached' = Invalidate(F)
    BY <1>5, <2>2
  <2> HIDE DEF F
  <2>7. Fewer
    BY <1>1, <2>6, FewerLost
  <2>8. ReportInv'
    BY <1>2, <2>7, ReportKeeps DEF Aside
  <2> QED BY <2>5, <2>8
<1> QED BY <1>4, <1>5 DEF SubmitCandidates

LEMMA PrepareCandidatesCalm ==
    ASSUME CacheAssumption, TypeInv, SettingInv, PrepareCandidates
    PROVE  Calm
<1>1. UNCHANGED <<file, reservations, cached, room, uncounted, overtaken, late, outbox, flush>> /\ Aside
  BY DEF PrepareCandidates, local, server, ghosts, watcher, rules, Aside
<1>2. pass'.pc = "send" /\ pass'.counted = {}
  BY CandidatesType, PreparedIs DEF PrepareCandidates
<1> QED BY <1>1, <1>2, QuietCalm DEF Onward

LEMMA BeginSubmitCounts ==
    ASSUME CacheAssumption, BackedInv, ReportInv, QuotaInv, BeginSubmit
    PROVE  ReportInv' /\ QuotaInv'
<1>1. UNCHANGED <<file, reservations, cached, room, uncounted, overtaken, late, outbox, flush>> /\ Aside
  BY DEF BeginSubmit, local, server, ghosts, watcher, rules, Aside
<1>2. CASE ~setting.open /\ pass' = [pass EXCEPT !.pc = "submit", !.used = Cardinality(AvailableFiles), !.counted = uncounted]
  <2>1. ReportInv'
    BY <1>1, FewerSame, ReportKeeps DEF Aside
  <2>2. QuotaInv'
    BY <1>1, <1>2, SubmitQuota DEF Aside
  <2> QED BY <2>1, <2>2
<1>3. CASE pass' = Idle
  <2>1. Calm
    BY <1>1, <1>3, IdleType, QuietCalm DEF Onward
  <2> QED BY <2>1, CalmKeeps
<1> QED BY <1>2, <1>3 DEF BeginSubmit

\* Nothing that the sums look at changes.
Uncounting == UNCHANGED <<reservations, late, cached, uncounted, policy, setting>> /\ Onward

LEMMA UncountingSteady ==
    ASSUME Uncounting
    PROVE  Steady
<1>1. AvailableFiles' = AvailableFiles /\ Reserved' = Reserved /\ Completed' = Completed
  BY DEF Uncounting, AvailableFiles, Reserved, Completed, Ids
<1> QED BY <1>1 DEF Steady, Uncounting

\* What the flush does to rows and marks.
LEMMA MarksCount ==
    ASSUME CacheAssumption, BackedInv, ReportInv, QuotaInv, (\E i \in outbox : Dispatch(i)) \/ MarkItem
    PROVE  ReportInv' /\ QuotaInv'
<1>1. TypeInv /\ ReservationInv
  BY DEF BackedInv
<1>2. ReportInv'
  BY ReportDispatch, ReportMark
<1>3. UNCHANGED <<reservations, late, pass, uncounted, policy, setting>>
  BY DEF Dispatch, MarkItem, local, server, ghosts, rules
<1>4. AvailableFiles' = AvailableFiles
  <2>1. UNCHANGED cached \/ \E i \in outbox : MarkStale(i)
    BY DEF Dispatch, MarkItem, server
  <2>2. CASE UNCHANGED cached
    BY <2>2 DEF AvailableFiles
  <2>3. ASSUME NEW i \in outbox, MarkStale(i) PROVE AvailableFiles' = AvailableFiles
    BY <1>1, <2>3, MarkStaleStep
  <2> QED BY <2>1, <2>2, <2>3
<1>5. Steady
  <2>1. Reserved' = Reserved /\ Completed' = Completed
    BY <1>3 DEF Reserved, Completed, Ids
  <2> QED BY <1>3, <1>4, <2>1 DEF Steady, Onward
<1> QED BY <1>1, <1>2, <1>5, SteadyKeeps

\* The edit of a file.
LEMMA EditCounts ==
    ASSUME CacheAssumption, BackedInv, ReportInv, QuotaInv, NEW p \in Edited, EditFile(p)
    PROVE  ReportInv' /\ QuotaInv'
<1>1. Uncounting
  BY DEF EditFile, server, desktop, rules, Uncounting, Onward
<1>2. TypeInv /\ ReservationInv
  BY DEF BackedInv
<1> QED BY <1>1, <1>2, UncountingSteady, SteadyKeeps, ReportEdit

\* The watcher starts, stops, and takes up and queues its change.
LEMMA WatchCounts ==
    ASSUME CacheAssumption, BackedInv, WatchInv, ReportInv, QuotaInv, Watch
    PROVE  BackedInv' /\ ReportInv' /\ QuotaInv'
<1>1. Quiet /\ UNCHANGED <<file, score, preference, pass, queued, flush, nonces, overtaken>> /\ Uncounting
  BY DEF Watch, StartRootWatcher, StopWatcher, TakeChanges, EnqueueStaleForChange, server, desktop, rules, ghosts,
         Quiet, Uncounting, Onward
<1>2. TypeInv /\ ReservationInv
  BY DEF BackedInv
<1>3. QuotaInv'
  BY <1>1, <1>2, UncountingSteady, SteadyKeeps
<1>4. Fewer
  BY <1>1, FewerSame DEF Quiet
<1>5. CASE StartRootWatcher \/ StopWatcher \/ TakeChanges
  <2>1. UNCHANGED <<outbox, faults>> /\ pending \cup change \cup lost \subseteq pending' \cup change' \cup lost'
    BY <1>5 DEF StartRootWatcher, StopWatcher, TakeChanges, desktop, ghosts
  <2>2. ReportInv'
    BY <1>1, <1>4, <2>1, ReportKeeps DEF Quiet
  <2>3. file' \in [Paths -> Versions \cup {Removed}] /\ score' \in [Paths -> Nat] /\ preference' \in [Paths -> SUBSET Preferences]
    BY <1>1, <1>2 DEF TypeInv
  <2>4. BackedInv'
    BY <1>1, <2>1, <2>3, UserKeeps
  <2> QED BY <1>3, <2>2, <2>4
<1>6. ASSUME NEW p \in Coalesced(change), outbox' = EnqueueStale(p), lost' = {q \in lost : p \notin {q, WholeRoom}},
             pending' = pending, faults' = faults
      PROVE  BackedInv' /\ ReportInv' /\ QuotaInv'
  <2> DEFINE i0 == StaleItem(p, marks + 1)
  <2>1. p \in Paths \cup {WholeRoom}
    BY DEF Coalesced
  <2>2. i0 \in Item /\ i0.kind = "stale" /\ i0.path \in Paths \cup {WholeRoom}
    BY <2>1, StaleItemIs
  <2>3. outbox' \subseteq outbox \cup {i0}
    BY <1>6 DEF EnqueueStale
  <2> HIDE DEF i0
  <2>4. faults' \in 0..MaxFaults
    BY <1>2, <1>6 DEF TypeInv
  <2>5. \A i \in outbox' : i \in outbox \/ (i \in Item /\ i.kind = "stale" /\ i.path \in Paths \cup {WholeRoom})
    BY <2>2, <2>3
  <2>6. BackedInv'
    BY <1>1, <2>4, <2>5, OutboxKeeps
  <2>7. ReportInv'
    BY <1>1, <1>6, ReportEnqueue DEF Quiet
  <2> QED BY <1>3, <2>6, <2>7
<1>7. CASE Fault /\ lost' = lost \cup change /\ UNCHANGED <<outbox, pending>>
  <2>1. faults' \in 0..MaxFaults
    BY <1>2, <1>7, FaultType DEF TypeInv
  <2>2. BackedInv'
    BY <1>1, <1>7, <2>1, OutboxKeeps
  <2>3. ReportInv'
    BY <1>1, <1>4, <1>7, ReportKeeps DEF Quiet
  <2> QED BY <1>3, <2>2, <2>3
<1>8. CASE EnqueueStaleForChange
  <2>1. UNCHANGED pending
    BY <1>8 DEF EnqueueStaleForChange
  <2> QED BY <1>6, <1>7, <1>8, <2>1 DEF EnqueueStaleForChange
<1> QED BY <1>5, <1>8 DEF Watch

\* The desktop stops: what the watcher had is recorded as lost.
LEMMA RestartDesktopCounts ==
    ASSUME CacheAssumption, BackedInv, ReportInv, QuotaInv, RestartDesktop
    PROVE  ReportInv' /\ QuotaInv'
<1>1. /\ UNCHANGED <<file, reservations, cached, room, uncounted, overtaken, late, outbox, policy, setting>>
      /\ flush' = NoFlush /\ pass' = Idle /\ lost' = lost \cup pending \cup change
  BY DEF RestartDesktop, server, rules
<1>2. TypeInv /\ ReservationInv
  BY DEF BackedInv
<1>3. Uncounting
  BY <1>1, IdleType DEF Uncounting, Onward
<1>4. ReportInv'
  BY <1>1, FewerSame, NoFlushType, ReportKeeps
<1> QED BY <1>2, <1>3, <1>4, UncountingSteady, SteadyKeeps

\* The phone sets a policy, in two steps.
LEMMA PolicyCounts ==
    ASSUME CacheAssumption, BackedInv, ReportInv, QuotaInv, BeginUpdatePolicy \/ \E q \in Policies : UpdatePolicy(q)
    PROVE  BackedInv' /\ ReportInv' /\ QuotaInv'
<1>1. /\ Quiet /\ UNCHANGED <<file, score, preference, pass, outbox, queued, flush, nonces, faults, overtaken, pending, change, lost>>
  BY DEF BeginUpdatePolicy, UpdatePolicy, Quiet, local, watcher, desktop, ghosts
<1>2. file' \in [Paths -> Versions \cup {Removed}] /\ score' \in [Paths -> Nat] /\ preference' \in [Paths -> SUBSET Preferences]
  BY <1>1 DEF BackedInv, TypeInv
<1>3. BackedInv'
  BY <1>1, <1>2, UserKeeps
<1>4. ReportInv'
  BY <1>1, FewerSame, ReportKeeps DEF Quiet
<1>5. QuotaInv'
  BY BeginUpdateQuota, UpdateQuota
<1> QED BY <1>3, <1>4, <1>5

-----------------------------------------------------------------------------
(* The inductive invariant and what follows from it.                       *)

Inv == BackedInv /\ WatchInv /\ ReportInv /\ QuotaInv

\* The cache begins empty.
LEMMA InitInv == ASSUME CacheAssumption, Init PROVE Inv
<1>1. reservations = <<>> /\ Ids = {} /\ objects = <<>> /\ outbox = {} /\ flush = NoFlush /\ pass = Idle /\ room
  BY DEF Init, Ids
<1>2. late = {} /\ doomed = {} /\ queued = {} /\ uncounted = {} /\ cached = [f \in Files |-> NoFile]
  BY DEF Init
<1>3. AvailableFiles = {}
  BY <1>2, NoFileType DEF AvailableFiles
<1>4. TypeInv
  <2>1. file \in [Paths -> Versions \cup {Removed}] /\ score \in [Paths -> Nat] /\ preference \in [Paths -> SUBSET Preferences]
    BY DEF Init, CacheAssumption
  <2>2. reservations \in Seq(Row) /\ objects \in Seq(Contents) /\ Len(objects) = Len(reservations)
    BY <1>1
  <2>3. cached \in [Files -> CachedRow]
    BY <1>2, NoFileType
  <2>4. nonces \in 0..MaxUploads /\ faults \in 0..MaxFaults
    BY DEF Init, CacheAssumption
  <2>5. pass \in PassRecord /\ pass.todo = {} /\ pass.pc = "idle" /\ flush \in FlushRecord
    BY <1>1, IdleType, NoFlushType
  <2>6. room \in BOOLEAN /\ outbox \subseteq Item /\ late \subseteq Ids /\ doomed \subseteq Ids /\ queued \subseteq Ids
    BY <1>1, <1>2
  <2>7. pass.todo \subseteq Ids /\ (pass.pc \in {"idle", "send", "submit"} <=> pass.todo = {})
    BY <2>5
  <2> QED BY <2>1, <2>2, <2>3, <2>4, <2>5, <2>6, <2>7 DEF TypeInv
<1>5. flush.pc = "idle" /\ flush.item = NoItem /\ pass.pc = "idle" /\ pass.counted = {} /\ NoItem.kind = "none"
  BY <1>1, IdleType, NoFlushType DEF NoItem
<1>6. ItemInv
  BY <1>1, <1>5 DEF ItemInv
<1>7. ReservationInv
  BY <1>1, <1>2 DEF ReservationInv, Completed
<1>8. CommitInv
  BY <1>1, <1>5 DEF CommitInv
<1>9. UploadInv
  BY <1>1, <1>5 DEF UploadInv
<1>10. AvailableIsBacked
  BY <1>3 DEF AvailableIsBacked
<1>11. ReportInv
  BY <1>3, <1>5 DEF ReportInv, Reported, Unmarked, MarkInv
<1>12. QuotaInv
  <2>1. Reserved = {}
    BY <1>1 DEF Reserved
  <2>2. policy \in Policies /\ setting = NoSetting
    BY DEF Init, CacheAssumption
  <2>3. SettingInv
    <3>1. setting \in SettingRecord /\ ~setting.open /\ setting.counted = {}
      BY <2>2 DEF NoSetting, SettingRecord
    <3> QED BY <2>2, <3>1 DEF SettingInv
  <2>4. policy.quota \in Nat
    BY <2>3, PolicyFields
  <2>5. Cardinality(AvailableFiles) + Cardinality(Reserved) <= policy.quota + Cardinality(uncounted)
    BY <1>2, <1>3, <2>1, <2>4, FS_EmptySet
  <2> QED BY <1>2, <1>5, <2>3, <2>5 DEF QuotaInv, QuotaIsKept, CountInv
<1>13. WatchInv
  BY <1>1, <1>5 DEF Init, WatchInv
<1> QED BY <1>4, <1>6, <1>7, <1>8, <1>9, <1>10, <1>11, <1>12, <1>13 DEF Inv, BackedInv

\* The steps of the pass.
LEMMA PassInv ==
    ASSUME CacheAssumption, Inv, Pass
    PROVE  BackedInv' /\ ReportInv' /\ QuotaInv'
<1>1. /\ BackedInv /\ ReportInv /\ QuotaInv /\ TypeInv /\ uncounted \subseteq Completed
      /\ SettingInv /\ policy \in Policies
  BY DEF Inv, BackedInv, QuotaInv, CountInv, SettingInv
<1>2. CASE PrepareCandidates
  BY <1>1, <1>2, PrepareCandidatesKeeps, PrepareCandidatesCalm, CalmKeeps
<1>3. CASE SubmitCandidates
  BY <1>1, <1>3, SubmitCandidatesKeeps, SubmitCandidatesCounts
<1>4. ASSUME NEW at, NEW next, <<at, next>> \in {<<"check", "put">>, <<"recheck", "enqueue">>}, EnsureStillCurrent(at, next)
      PROVE  BackedInv' /\ ReportInv' /\ QuotaInv'
  BY <1>1, <1>4, EnsureStillCurrentKeeps, EnsureStillCurrentCalm, CalmKeeps
<1>5. CASE PutUploadBytes
  BY <1>1, <1>5, PutUploadBytesKeeps, PutUploadBytesCalm, CalmKeeps
<1>6. CASE EnqueueCompletion
  BY <1>1, <1>6, EnqueueCompletionKeeps, EnqueueCompletionCalm, CalmKeeps
<1>7. CASE CompleteUpload
  <2>1. pass.pc = "complete" \/ pass.pc = "commit"
    BY <1>7 DEF CompleteUpload
  <2>2. CASE pass.pc = "complete"
    BY <1>1, <1>7, <2>2, CompleteUploadCheckKeeps, CompleteUploadCalm, CalmKeeps
  <2>3. CASE pass.pc = "commit"
    BY <1>1, <1>7, <2>3, CompleteUploadCommitKeeps, CompleteUploadCommits
  <2> QED BY <2>1, <2>2, <2>3
<1>8. CASE CancelReservation
  BY <1>1, <1>8, CancelReservationKeeps, CancelReservationCalm, CalmKeeps
<1>9. CASE BeginSubmit
  BY <1>1, <1>9, BeginSubmitKeeps, BeginSubmitCounts
<1> QED BY <1>2, <1>3, <1>4, <1>5, <1>6, <1>7, <1>8, <1>9 DEF Pass

\* The steps of the flush.
LEMMA FlushInv ==
    ASSUME CacheAssumption, Inv, Flush
    PROVE  BackedInv' /\ ReportInv' /\ QuotaInv'
<1>1. BackedInv /\ ReportInv /\ QuotaInv
  BY DEF Inv
<1>2. CASE \E i \in outbox : Dispatch(i)
  BY <1>1, <1>2, DispatchKeeps, MarksCount
<1>3. CASE CommitItem
  BY <1>1, <1>3, CommitItemKeeps, CommitItemCommits
<1>4. CASE MarkItem
  BY <1>1, <1>4, MarkItemKeeps, MarksCount
<1> QED BY <1>2, <1>3, <1>4 DEF Flush

\* Every step.
LEMMA NextInv ==
    ASSUME CacheAssumption, Inv, Next
    PROVE  Inv'
<1>1. BackedInv /\ WatchInv /\ ReportInv /\ QuotaInv /\ TypeInv /\ ReservationInv
  BY DEF Inv, BackedInv
<1>2. BackedInv' /\ ReportInv' /\ QuotaInv'
  <2>2. CASE \E p \in Chosen : RecordUsageEvent(p)
    BY <1>1, <2>2, RecordUsageEventKeeps, UserCalm, CalmKeeps
  <2>3. CASE \E p \in Chosen, flag \in Preferences : UpdateFilePreference(p, flag)
    BY <1>1, <2>3, UpdateFilePreferenceKeeps, UserCalm, CalmKeeps
  <2>4. CASE \E p \in Edited : EditFile(p)
    BY <1>1, <2>4, EditFileKeeps, EditCounts
  <2>5. CASE RestartDesktop
    BY <1>1, <2>5, RestartDesktopKeeps, RestartDesktopCounts
  <2>6. CASE \E r \in Ids : TimePasses(r) \/ Work(r)
    BY <1>1, <2>6, TimePassesKeeps, ExpireReservationKeeps, DeleteObjectKeeps, WorkCalm, CalmKeeps DEF Work
  <2>7. CASE \E f \in Files : RemoveCached(f)
    BY <1>1, <2>7, RemoveCachedKeeps, RemoveCachedCalm, CalmKeeps
  <2>8. CASE \E f \in Files : RecordAccess(f)
    BY <1>1, <2>8, RecordAccessKeeps, RecordAccessCalm, CalmKeeps
  <2>9. CASE CloseRoom
    BY <1>1, <2>9, CloseRoomKeeps, CloseRoomCalm, CalmKeeps
  <2>10. CASE BeginUpdatePolicy \/ \E q \in Policies : UpdatePolicy(q)
    BY <1>1, <2>10, PolicyCounts
  <2>11. CASE Watch
    BY <1>1, <2>11, WatchCounts
  <2>12. CASE Pass
    BY <2>12, PassInv
  <2>13. CASE Flush
    BY <2>13, FlushInv
  <2> QED BY <2>2, <2>3, <2>4, <2>5, <2>6, <2>7, <2>8, <2>9, <2>10, <2>11, <2>12, <2>13 DEF Next
<1> QED BY <1>1, <1>2, NextWatch DEF Inv

\* Every state the cache can reach satisfies the invariant.
THEOREM SmartCacheInvariant == Spec => []Inv
<1>1. CacheAssumption
  BY CacheAssumption
<1>2. Init => Inv
  BY <1>1, InitInv
<1>3. ASSUME Inv, [Next]_vars PROVE Inv'
  <2>1. CASE Next
    BY <1>1, <1>3, <2>1, NextInv
  <2>2. CASE UNCHANGED vars
    <3>1. UNCHANGED <<file, reservations, late, cached, doomed, objects, room, pass, outbox, queued, flush, nonces, faults,
                      uncounted, overtaken, score, preference, watching, marks>> /\ Aside
      BY <2>2 DEF vars, local, watcher, server, rules, desktop, ghosts, Aside
    <3>2. /\ BackedInv /\ WatchInv /\ ReportInv /\ QuotaInv /\ score' \in [Paths -> Nat] /\ preference' \in [Paths -> SUBSET Preferences]
          /\ file' \in [Paths -> Versions \cup {Removed}]
      BY <1>3, <3>1 DEF Inv, BackedInv, TypeInv
    <3>3. Quiet
      BY <3>1 DEF Quiet
    <3>4. BackedInv'
      BY <3>1, <3>2, <3>3, UserKeeps
    <3>5. Calm
      BY <3>1, QuietCalm DEF Onward
    <3>6. WatchInv'
      BY <3>1, <3>2 DEF WatchInv, Aside
    <3> QED BY <1>1, <3>2, <3>4, <3>5, <3>6, CalmKeeps DEF Inv
  <2> QED BY <1>3, <2>1, <2>2
<1> QED BY <1>2, <1>3, PTL DEF Spec

\* What the phone can download is in the store and nobody is going to delete it, whatever was evicted,
\* removed, cancelled or reserved again (complete, submit, the worker's deletion jobs).
THEOREM SmartCacheBacked == Spec => []AvailableIsBacked
<1>1. Inv => AvailableIsBacked
  BY DEF Inv, BackedInv
<1> QED BY <1>1, SmartCacheInvariant, PTL

\* Copies and reservations that have not run out exceed the quota of the room by no more than the
\* completions that no sum of submit or of updatePolicy has counted since.
THEOREM SmartCacheQuota == Spec => []QuotaIsKept
<1>1. Inv => QuotaIsKept
  BY DEF Inv, QuotaInv
<1> QED BY <1>1, SmartCacheInvariant, PTL

\* A copy of a version that was overwritten is not presented as current unless its mark is still on its
\* way, with the watcher or in the outbox (start_root_watcher, enqueue_smart_cache_stale); or the edit came
\* before the completion; or its mark was lost with the watcher and nothing made up for it.
THEOREM SmartCacheReported == Spec => []OverwrittenIsReported
<1>1. Inv => OverwrittenIsReported
  BY AvailableIs DEF Inv, ReportInv, Reported, Unmarked, Marked, Excused, OverwrittenIsReported
<1> QED BY <1>1, SmartCacheInvariant, PTL

\* The state is well typed.
THEOREM SmartCacheTypeOK == Spec => []TypeOK
<1>1. Inv => TypeOK
  <2> SUFFICES ASSUME Inv PROVE TypeOK
    OBVIOUS
  <2>1. TypeInv /\ ReservationInv /\ ItemInv /\ WatchInv /\ SettingInv
    BY DEF Inv, BackedInv, QuotaInv
  <2>2. \A r \in Ids : FileOf(r) \in Files /\ reservations[r].status \in {"RESERVED", "COMPLETED", "CANCELLED", "EXPIRED"}
    BY <2>1, RowFields DEF Statuses
  <2>3. objects \in [Ids -> Contents]
    <3>1. objects \in Seq(Contents) /\ DOMAIN objects = Ids
      BY <2>1, IdsAre DEF TypeInv
    <3> QED BY <3>1
  <2>4. ASSUME NEW f \in Files, cached[f] # NoFile
        PROVE  /\ cached[f].status \in {"AVAILABLE", "INVALIDATED"} /\ cached[f].fresh \in {"VERIFIED_CURRENT", "STALE"}
               /\ cached[f].key \in Ids /\ cached[f].upload \in Contents
    BY <2>1, <2>4, CachedFields DEF ReservationInv, Completed
  <2>5. pass.upload \in Contents
    BY <2>1, PassFields DEF TypeInv
  <2>6. flush.pc = "idle" <=> flush.item = NoItem
    <3>1. \A i : SendableItem(i) => i # NoItem
      BY DEF SendableItem, NoItem
    <3> QED BY <2>1, <3>1 DEF ItemInv
  <2> QED BY <2>1, <2>2, <2>3, <2>4, <2>5, <2>6 DEF TypeOK, TypeInv, WatchInv, SettingInv
<1> QED BY <1>1, SmartCacheInvariant, PTL
=============================================================================
