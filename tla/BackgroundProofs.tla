--------------------------- MODULE BackgroundProofs ---------------------------
(***************************************************************************)
(* Proofs about Background for every set of rooms, every page size and any *)
(* number of events, pairings, requests and faults: the log and its reader *)
(* implement EventLog, and the work of a tick is current.                  *)
(***************************************************************************)
EXTENDS Background, FiniteSetTheorems, TLAPS

\* S is numbered from a + 1 to a + n without gaps.
Numbered(S, a, n) ==
    /\ \A e \in S : e.seq \in (a + 1)..(a + n)
    /\ \A k \in (a + 1)..(a + n) : \E e \in S : e.seq = k
    /\ \A e, f \in S : e.seq = f.seq => e = f

Steps == {"idle", "first", "heartbeat", "rooms", "replay", "read", "apply", "advance", "remember"} \cup
         {"cleanup", "commands", "decisions", "index", "browse", "transfers", "cache", "flush"}
Kinds == {"rule", "removed", "revoked", "paired"}
EventRecord == [seq : Nat, kind : Kinds, of : Rooms \cup Devices]
TxRecord == [pc : {"idle", "begun", "appended"}, kind : Kinds \cup {"none"}, of : Rooms \cup Devices \cup {0},
             events : SUBSET EventRecord]
OpRecord == [pc : Steps, mode : {"none", "wake", "full", "fast", "beat"}, device : {0} \cup Devices,
             upTo : Nat, page : Seq(EventRecord), more : BOOLEAN, seen : Nat]

TypeInv ==
    /\ rows \subseteq EventRecord /\ tx \in [Writers -> TxRecord] /\ open \subseteq Rooms
    /\ device \in {0} \cup Devices /\ paired \in Devices /\ credential \in {0} \cup Devices
    /\ cursor \in [Devices -> Nat] /\ saved \in [Devices -> Nat]
    /\ op \in [Threads -> OpRecord] /\ acted \in Seq(EventRecord)

\* The committed events are numbered without gaps; at most one transaction has appended, and
\* its events follow them.
TxOK(x, n) ==
    /\ x.pc = "appended" => \E k \in Nat \ {0} : Numbered(x.events, n, k)
    /\ x.pc = "begun" => x.kind = "rule" /\ x.of \in Rooms
    /\ x.kind = "paired" => x.of \in Devices
ServerInv ==
    /\ Latest \in Nat /\ Numbered(rows, 0, Latest)
    /\ \A w \in Writers : TxOK(tx[w], Latest)
    /\ \A v, w \in Writers : tx[v].pc = "appended" /\ tx[w].pc = "appended" => v = w

\* A page of the rows R follows what was acted on, n events; so does the cursor.
PageOK(x, R, n) ==
    /\ x.page \in Seq(R) /\ Len(x.page) > 0
    /\ \A i \in 1..Len(x.page) : x.page[i].seq = x.upTo - Len(x.page) + i
    /\ x.upTo - Len(x.page) <= n
ThreadOK(x, R, n) ==
    /\ x.pc = "apply" => PageOK(x, R, n)
    /\ x.pc \in {"read", "advance", "remember"} => x.upTo <= n
    /\ x.pc \in {"apply", "advance", "remember"} /\ ~x.more => x.seen <= x.upTo
    /\ x.pc = "cleanup" /\ ~x.more => x.seen <= n
    /\ x.pc \in {"heartbeat", "rooms"} => x.seen = 0
    /\ x.pc \in {"index", "transfers", "cache"} => x.mode # "fast"
ReaderInv ==
    /\ \A i \in 1..Len(acted) : acted[i] \in rows /\ acted[i].seq = i
    /\ \A d \in Devices : cursor[d] <= Len(acted) /\ saved[d] <= Len(acted)
    /\ \A t \in Threads : ThreadOK(op[t], rows, Len(acted))
    /\ \A i \in 1..Len(acted) : acted[i].kind = "removed" => acted[i].of \notin bound

Inv == TypeInv /\ ServerInv /\ ReaderInv

-----------------------------------------------------------------------------
(* Sets of numbered events.                                                *)

LEMMA Counted ==
    ASSUME NEW S, NEW a \in Nat, NEW n \in Nat, Numbered(S, a, n)
    PROVE  IsFiniteSet(S) /\ Cardinality(S) = n
<1> DEFINE g == [k \in 1..n |-> CHOOSE e \in S : e.seq = a + k]
<1>1. \A k \in 1..n : g[k] \in S /\ g[k].seq = a + k
  BY DEF Numbered
<1>2. ASSUME NEW e \in S PROVE \E k \in 1..n : g[k] = e
  <2>1. e.seq \in Int /\ e.seq - a \in 1..n /\ a + (e.seq - a) = e.seq
    BY DEF Numbered
  <2>2. g[e.seq - a] \in S /\ g[e.seq - a].seq = e.seq
    BY <1>1, <2>1
  <2> QED
    BY <2>1, <2>2 DEF Numbered
<1>3. \A j, k \in 1..n : g[j] = g[k] => j = k
  BY <1>1
<1>4. g \in [1..n -> S]
  BY <1>1
<1> HIDE DEF g
<1>5. g \in Bijection(1..n, S)
  BY <1>2, <1>3, <1>4 DEF Bijection, Injection, Surjection, IsInjective
<1>6. ExistsBijection(1..n, S)
  BY <1>5 DEF ExistsBijection
<1> QED
  BY <1>6, FS_NatBijection, FS_CountingElements

LEMMA Ordered ==
    ASSUME NEW S, NEW a \in Nat, NEW n \in Nat, Numbered(S, a, n)
    PROVE  /\ Len(InOrder(S)) = n /\ InOrder(S) \in Seq(S)
           /\ \A i \in 1..n : InOrder(S)[i] \in S /\ InOrder(S)[i].seq = a + i
<1>1. Cardinality(S) = n
  BY Counted
<1>2. ASSUME NEW e \in S PROVE Cardinality({f \in S : f.seq <= e.seq}) = e.seq - a
  <2>1. e.seq \in Int /\ e.seq - a \in Nat /\ a + (e.seq - a) = e.seq /\ e.seq <= a + n
    BY DEF Numbered
  <2>2. Numbered({f \in S : f.seq <= e.seq}, a, e.seq - a)
    <3>1. \A f \in S : f.seq \in Int
      BY DEF Numbered
    <3> QED
      BY <2>1, <3>1 DEF Numbered
  <2> QED
    BY <2>1, <2>2, Counted
<1>3. ASSUME NEW i \in 1..n
      PROVE  LET x == CHOOSE e \in S : Cardinality({f \in S : f.seq <= e.seq}) = i
             IN  x \in S /\ x.seq = a + i
  <2>1. PICK e \in S : e.seq = a + i
    BY DEF Numbered
  <2>2. Cardinality({f \in S : f.seq <= e.seq}) = i
    BY <1>2, <2>1
  <2> DEFINE x == CHOOSE y \in S : Cardinality({f \in S : f.seq <= y.seq}) = i
  <2>3. x \in S /\ Cardinality({f \in S : f.seq <= x.seq}) = i
    BY <2>2
  <2> HIDE DEF x
  <2>4. x.seq \in Int /\ x.seq - a = i
    BY <1>2, <2>3 DEF Numbered
  <2>5. x.seq = a + i
    BY <2>4
  <2> QED
    BY <2>3, <2>5 DEF x
<1>4. InOrder(S) = [i \in 1..n |-> CHOOSE e \in S : Cardinality({f \in S : f.seq <= e.seq}) = i]
  BY <1>1 DEF InOrder
<1>5. \A i \in 1..n : InOrder(S)[i] \in S /\ InOrder(S)[i].seq = a + i
  BY <1>3, <1>4
<1>6. InOrder(S) \in [1..n -> S]
  BY <1>3, <1>4
<1>7. \A s \in [1..n -> S] : s \in Seq(S) /\ Len(s) = n
  OBVIOUS
<1> QED
  BY <1>5, <1>6, <1>7

LEMMA Joined ==
    ASSUME NEW S, NEW T, NEW n \in Nat, NEW k \in Nat, Numbered(S, 0, n), Numbered(T, n, k)
    PROVE  Numbered(S \cup T, 0, n + k)
<1>1. \A e \in S : e.seq \in 1..n
  BY DEF Numbered
<1>2. \A e \in T : e.seq \in (n + 1)..(n + k)
  BY DEF Numbered
<1>3. \A i \in 1..n : \E e \in S : e.seq = i
  BY DEF Numbered
<1>4. \A i \in (n + 1)..(n + k) : \E e \in T : e.seq = i
  BY DEF Numbered
<1>5. \A e, f \in S \cup T : e.seq = f.seq => e = f
  BY <1>1, <1>2 DEF Numbered
<1>6. \A e \in S \cup T : e.seq \in (0 + 1)..(0 + (n + k))
  BY <1>1, <1>2
<1>7. \A i \in (0 + 1)..(0 + (n + k)) : \E e \in S \cup T : e.seq = i
  BY <1>3, <1>4
<1> QED
  BY <1>5, <1>6, <1>7 DEF Numbered

LatestOf(S) == IF S = {} THEN 0 ELSE (CHOOSE e \in S : \A f \in S : f.seq <= e.seq).seq

LEMMA LatestFact ==
    ASSUME NEW S, NEW n \in Nat, Numbered(S, 0, n)
    PROVE  LatestOf(S) = n
<1>0. \A e \in S : e.seq \in 1..n
  BY DEF Numbered
<1>1. CASE n = 0
  <2>1. S = {}
    BY <1>0, <1>1
  <2> QED
    BY <1>1, <2>1 DEF LatestOf
<1>2. CASE n # 0
  <2>1. PICK e \in S : e.seq = n
    BY <1>2 DEF Numbered
  <2> DEFINE x == CHOOSE y \in S : \A f \in S : f.seq <= y.seq
  <2>2. x \in S /\ \A f \in S : f.seq <= x.seq
    BY <1>0, <2>1
  <2> HIDE DEF x
  <2>3. x.seq = n
    BY <1>0, <2>1, <2>2
  <2> QED
    BY <2>1, <2>3 DEF LatestOf, x
<1> QED
  BY <1>1, <1>2

LEMMA SeqOfSet ==
    ASSUME NEW S, IsFiniteSet(S)
    PROVE  /\ Cardinality(S) \in Nat /\ SetToSeq(S) \in Seq(S) /\ Len(SetToSeq(S)) = Cardinality(S)
           /\ DOMAIN SetToSeq(S) = 1..Cardinality(S)
           /\ \A i \in 1..Cardinality(S) : SetToSeq(S)[i] \in S
<1> DEFINE c == Cardinality(S)
<1>1. c \in Nat /\ ExistsBijection(1..c, S)
  BY FS_CardinalityType
<1>2. PICK g : g \in Bijection(1..c, S)
  BY <1>1 DEF ExistsBijection
<1>3. g \in [1..c -> S] /\ IsInjective(g)
  BY <1>2 DEF Bijection, Injection, IsInjective
<1>4. SetToSeq(S) \in [1..c -> S]
  BY <1>3 DEF SetToSeq
<1> HIDE DEF c
<1>5. \A s \in [1..c -> S] : s \in Seq(S) /\ Len(s) = c /\ DOMAIN s = 1..c /\ \A i \in 1..c : s[i] \in S
  BY <1>1
<1> QED
  BY <1>1, <1>4, <1>5 DEF c

\* What a transaction appends follows the last number it saw.
LEMMA AppendedFacts ==
    ASSUME open \subseteq Rooms, NEW kind \in Kinds, NEW of \in Rooms \cup Devices, NEW m \in Nat
    PROVE  /\ Appended(kind, of, m + 1) \subseteq EventRecord
           /\ \E k \in Nat \ {0} : Numbered(Appended(kind, of, m + 1), m, k)
<1>1. CASE kind # "revoked"
  <2> DEFINE e == Event(m + 1, kind, of)
  <2>1. e \in EventRecord /\ e.seq = m + 1
    BY DEF Event, EventRecord
  <2>2. Appended(kind, of, m + 1) = {e}
    BY <1>1 DEF Appended
  <2> HIDE DEF e
  <2>3. Numbered({e}, m, 1)
    BY <2>1 DEF Numbered
  <2> QED
    BY <2>1, <2>2, <2>3
<1>2. CASE kind = "revoked"
  <2> DEFINE s == SetToSeq(open)
             c == Cardinality(open)
             E(i) == Event(m + 1 + i - 1, "removed", s[i])
             z == Event(m + 1 + c, "revoked", of)
  <2>1. IsFiniteSet(open)
    BY BackgroundAssumption, FS_Subset
  <2>2. c \in Nat /\ Len(s) = c /\ DOMAIN s = 1..c /\ \A i \in 1..c : s[i] \in open
    BY <2>1, SeqOfSet
  <2>3. Appended(kind, of, m + 1) = {E(i) : i \in 1..c} \cup {z}
    BY <1>2, <2>2 DEF Appended
  <2> HIDE DEF s, c
  <2>4. \A i \in 1..c : E(i) \in EventRecord /\ E(i).seq = m + i
    BY <2>2 DEF Event, EventRecord, Kinds
  <2>5. z \in EventRecord /\ z.seq = m + 1 + c
    BY <1>2, <2>2 DEF Event, EventRecord
  <2> HIDE DEF E, z
  <2> DEFINE S == {E(i) : i \in 1..c} \cup {z}
  <2>6. \A e \in S : e.seq \in (m + 1)..(m + (c + 1))
    BY <2>2, <2>4, <2>5
  <2>7. ASSUME NEW j \in (m + 1)..(m + (c + 1)) PROVE \E e \in S : e.seq = j
    <3>1. CASE j = m + 1 + c
      BY <2>5, <3>1
    <3>2. CASE j # m + 1 + c
      <4>1. j - m \in 1..c /\ m + (j - m) = j
        BY <2>2, <3>2
      <4>2. E(j - m) \in S /\ E(j - m).seq = j
        BY <2>4, <4>1
      <4> QED
        BY <4>2
    <3> QED
      BY <3>1, <3>2
  <2>8. ASSUME NEW e \in S, NEW f \in S, e.seq = f.seq PROVE e = f
    <3>1. \A i, j \in 1..c : E(i).seq = E(j).seq => i = j
      BY <2>2, <2>4
    <3>2. \A i \in 1..c : E(i).seq # z.seq
      BY <2>2, <2>4, <2>5
    <3> QED
      BY <2>8, <3>1, <3>2
  <2>9. Numbered(S, m, c + 1) /\ c + 1 \in Nat \ {0}
    BY <2>2, <2>6, <2>7, <2>8 DEF Numbered
  <2> QED
    BY <2>3, <2>4, <2>5, <2>9
<1> QED
  BY <1>1, <1>2

-----------------------------------------------------------------------------
(* The server.                                                             *)

LEMMA TxStep ==
    ASSUME TypeInv, ServerInv, NEW w \in Writers, NEW x \in TxRecord, TxOK(x, Latest),
           tx' = [tx EXCEPT ![w] = x], UNCHANGED rows,
           x.pc = "appended" => \A v \in Writers \ {w} : tx[v].pc # "appended"
    PROVE  ServerInv' /\ tx' \in [Writers -> TxRecord]
<1>1. tx \in [Writers -> TxRecord]
  BY DEF TypeInv
<1>2. tx' \in [Writers -> TxRecord] /\ \A v \in Writers : tx'[v] = IF v = w THEN x ELSE tx[v]
  BY <1>1
<1>3. Latest' = Latest
  BY DEF Latest
<1>4. \A v \in Writers : TxOK(tx'[v], Latest)
  BY <1>2 DEF ServerInv
<1>5. \A u, v \in Writers : tx'[u].pc = "appended" /\ tx'[v].pc = "appended" => u = v
  BY <1>2 DEF ServerInv
<1> QED
  BY <1>2, <1>3, <1>4, <1>5 DEF ServerInv

LEMMA NoTxOK == NoTx \in TxRecord /\ \A n : TxOK(NoTx, n)
BY DEF NoTx, TxRecord, TxOK, Kinds

LEMMA AppendEventsInv ==
    ASSUME TypeInv, ServerInv, NEW w \in Writers, NEW kind \in Kinds, NEW of \in Rooms \cup Devices,
           kind = "paired" => of \in Devices, AppendEvents(w, kind, of)
    PROVE  ServerInv' /\ tx' \in [Writers -> TxRecord]
<1>1. PICK n \in FirstSequence(w) :
         tx' = [tx EXCEPT ![w] = [pc |-> "appended", kind |-> kind, of |-> of,
                                  events |-> Appended(kind, of, n)]]
  BY DEF AppendEvents
<1>2. n = Latest + 1 /\ \A v \in Writers \ {w} : tx[v].pc # "appended"
  BY <1>1 DEF FirstSequence
<1> DEFINE A == Appended(kind, of, Latest + 1)
           x == [pc |-> "appended", kind |-> kind, of |-> of, events |-> A]
<1>3. A \subseteq EventRecord /\ \E k \in Nat \ {0} : Numbered(A, Latest, k)
  BY AppendedFacts DEF TypeInv, ServerInv
<1> HIDE DEF A
<1>4. x \in TxRecord /\ TxOK(x, Latest)
  BY <1>3 DEF TxRecord, TxOK
<1>5. tx' = [tx EXCEPT ![w] = x] /\ UNCHANGED rows
  BY <1>1, <1>2 DEF A, AppendEvents
<1> HIDE DEF x
<1> QED
  BY <1>2, <1>4, <1>5, TxStep

\* A commit extends the log at its end.
LEMMA CommitInv ==
    ASSUME TypeInv, ServerInv, NEW w \in Writers, Commit(w)
    PROVE  /\ ServerInv' /\ tx' \in [Writers -> TxRecord] /\ rows' \subseteq EventRecord
           /\ open' \subseteq Rooms /\ device' \in {0} \cup Devices /\ paired' \in Devices
           /\ rows \subseteq rows' /\ Latest' > Latest
<1>1. tx[w] \in TxRecord /\ tx[w].pc = "appended" /\ TxOK(tx[w], Latest)
  BY DEF TypeInv, ServerInv, Commit, RealtimeSignal
<1>2. PICK k \in Nat \ {0} : Numbered(tx[w].events, Latest, k)
  BY <1>1 DEF TxOK
<1>3. rows' = rows \cup tx[w].events /\ tx' = [tx EXCEPT ![w] = NoTx]
  BY DEF Commit, RealtimeSignal
<1>4. Numbered(rows', 0, Latest + k)
  BY <1>2, <1>3, Joined DEF ServerInv
<1>5. Latest' = Latest + k
  <2>1. Latest' = LatestOf(rows')
    BY DEF Latest, LatestOf
  <2>2. Latest + k \in Nat
    BY DEF ServerInv
  <2> QED
    BY <1>4, <2>1, <2>2, LatestFact
<1>6. tx' \in [Writers -> TxRecord] /\ \A v \in Writers : tx'[v] = IF v = w THEN NoTx ELSE tx[v]
  BY <1>3, NoTxOK DEF TypeInv
<1>7. \A v \in Writers : tx'[v].pc # "appended"
  BY <1>1, <1>6 DEF ServerInv, NoTx
<1>8. \A v \in Writers : TxOK(tx'[v], Latest')
  BY <1>6, <1>7, NoTxOK DEF ServerInv, TxOK
<1>9. ServerInv'
  BY <1>4, <1>5, <1>7, <1>8 DEF ServerInv
<1>10. rows' \subseteq EventRecord
  BY <1>1, <1>3 DEF TypeInv, TxRecord
<1>11. open' \subseteq Rooms
  BY DEF Commit, RealtimeSignal, TypeInv
<1>12. tx[w].kind = "paired" => tx[w].of \in Devices
  BY <1>1 DEF TxOK
<1>13. device' \in {0} \cup Devices
  BY <1>12 DEF Commit, RealtimeSignal, TypeInv
<1>14. paired' \in Devices
  BY <1>12 DEF Commit, RealtimeSignal, TypeInv
<1> QED
  BY <1>3, <1>5, <1>6, <1>9, <1>10, <1>11, <1>13, <1>14 DEF ServerInv

\* Every step of the server keeps the numbering.
LEMMA ServerStepInv ==
    ASSUME TypeInv, ServerInv, ServerStep
    PROVE  /\ ServerInv' /\ tx' \in [Writers -> TxRecord] /\ rows' \subseteq EventRecord
           /\ open' \subseteq Rooms /\ device' \in {0} \cup Devices /\ paired' \in Devices
           /\ (UNCHANGED rows) \/ \E w \in Writers : Commit(w)
           /\ UNCHANGED <<credential, cursor, saved, bound, op, acted>>
<1>1. PICK w \in Writers : \/ \E r \in Rooms : CreateRule(w, r)
                           \/ AppendRule(w) \/ AppendAsked(w) \/ Commit(w) \/ Abort(w)
  BY DEF ServerStep
<1>2. UNCHANGED <<rows, open, device, paired>> =>
         /\ rows' \subseteq EventRecord /\ open' \subseteq Rooms /\ device' \in {0} \cup Devices
         /\ paired' \in Devices
  BY DEF TypeInv
<1>3. ASSUME NEW r \in Rooms, CreateRule(w, r) PROVE ServerInv' /\ tx' \in [Writers -> TxRecord]
  <2> DEFINE x == [NoTx EXCEPT !.pc = "begun", !.kind = "rule", !.of = r]
  <2>1. x \in TxRecord /\ TxOK(x, Latest) /\ x.pc # "appended"
    BY DEF NoTx, TxRecord, TxOK, Kinds
  <2>2. tx' = [tx EXCEPT ![w] = x] /\ UNCHANGED rows
    BY <1>3 DEF CreateRule
  <2> HIDE DEF x
  <2> QED
    BY <2>1, <2>2, TxStep
<1>4. ASSUME AppendRule(w) PROVE ServerInv' /\ tx' \in [Writers -> TxRecord]
  <2>1. tx[w].kind = "rule" /\ tx[w].of \in Rooms /\ AppendEvents(w, tx[w].kind, tx[w].of)
    BY <1>4 DEF AppendRule, ServerInv, TxOK
  <2> QED
    BY <2>1, AppendEventsInv DEF Kinds
<1>5. ASSUME AppendAsked(w) PROVE ServerInv' /\ tx' \in [Writers -> TxRecord]
  <2>1. PICK a \in Asked : AppendEvents(w, a[1], a[2])
    BY <1>5 DEF AppendAsked
  <2>2. a[1] \in Kinds /\ a[2] \in Rooms \cup Devices /\ (a[1] = "paired" => a[2] \in Devices)
    <3>1. CASE \E r \in open : a = <<"removed", r>>
      BY <3>1 DEF Kinds, TypeInv
    <3>2. CASE \E d \in {device} \ {0} : a = <<"revoked", d>>
      BY <3>2 DEF Kinds, TypeInv
    <3>3. CASE paired < MaxDevices /\ a = <<"paired", paired + 1>>
      BY <3>3, BackgroundAssumption DEF Kinds, TypeInv, Devices
    <3> QED
      BY <2>1, <3>1, <3>2, <3>3 DEF Asked
  <2> QED
    BY <2>1, <2>2, AppendEventsInv
<1>6. ASSUME Abort(w) PROVE ServerInv' /\ tx' \in [Writers -> TxRecord]
  BY <1>6, NoTxOK, TxStep DEF Abort, NoTx
<1>7. CASE Commit(w)
  BY <1>7, CommitInv DEF Commit, RealtimeSignal, agent, store
<1>8. CASE (\E r \in Rooms : CreateRule(w, r)) \/ AppendRule(w) \/ AppendAsked(w) \/ Abort(w)
  <2>1. UNCHANGED <<rows, open, device, paired, credential, cursor, saved, bound, op, acted>>
    BY <1>8 DEF CreateRule, AppendRule, AppendAsked, AppendEvents, Abort, agent, store
  <2> QED
    BY <1>2, <1>3, <1>4, <1>5, <1>6, <1>8, <2>1
<1> QED
  BY <1>1, <1>7, <1>8

LEMMA ServerRests ==
    ASSUME TypeInv, ServerInv, UNCHANGED server
    PROVE  /\ ServerInv' /\ tx' \in [Writers -> TxRecord] /\ rows' \subseteq EventRecord
           /\ open' \subseteq Rooms /\ device' \in {0} \cup Devices /\ paired' \in Devices
BY DEF TypeInv, ServerInv, server, Latest

-----------------------------------------------------------------------------
(* The reader.                                                             *)

\* What holds of a thread goes on to hold when events are committed or acted on.
LEMMA ThreadGrows ==
    ASSUME NEW x \in OpRecord, NEW R, NEW R2, R \subseteq R2, NEW n \in Nat, NEW n2 \in Nat, n <= n2,
           ThreadOK(x, R, n)
    PROVE  ThreadOK(x, R2, n2)
<1>1. x.upTo \in Nat /\ x.seen \in Nat /\ Len(x.page) \in Nat
  BY DEF OpRecord
<1>2. PageOK(x, R, n) => PageOK(x, R2, n2)
  <2>1. x.page \in Seq(R) => x.page \in Seq(R2)
    OBVIOUS
  <2> QED
    BY <1>1, <2>1 DEF PageOK
<1> QED
  BY <1>1, <1>2 DEF ThreadOK

\* Where a thread rests, begins, or goes on with the work of a tick.
LEMMA IdleOK ==
    ASSUME NEW n \in Nat, NEW R
    PROVE  /\ Resting \in OpRecord /\ ThreadOK(Resting, R, n)
           /\ \A pc \in Steps \ {"apply"}, mode \in {"none", "wake", "full", "fast", "beat"} :
                 LET x == [Resting EXCEPT !.pc = pc, !.mode = mode] IN
                 /\ x \in OpRecord
                 /\ (mode = "fast" => pc \notin {"index", "transfers", "cache"}) => ThreadOK(x, R, n)
<1>1. Resting \in OpRecord
  <2>1. <<>> \in Seq(EventRecord)
    OBVIOUS
  <2> QED
    BY <2>1 DEF Resting, OpRecord, Steps
<1>2. ThreadOK(Resting, R, n)
  BY DEF Resting, ThreadOK
<1>3. ASSUME NEW pc \in Steps \ {"apply"}, NEW mode \in {"none", "wake", "full", "fast", "beat"}
      PROVE  LET x == [Resting EXCEPT !.pc = pc, !.mode = mode] IN
             /\ x \in OpRecord
             /\ (mode = "fast" => pc \notin {"index", "transfers", "cache"}) => ThreadOK(x, R, n)
  <2> DEFINE x == [Resting EXCEPT !.pc = pc, !.mode = mode]
  <2>1. x \in OpRecord
    BY <1>1 DEF OpRecord
  <2>2. x.pc = pc /\ x.mode = mode /\ x.upTo = 0 /\ x.seen = 0
    BY DEF Resting
  <2> HIDE DEF x
  <2>3. (mode = "fast" => pc \notin {"index", "transfers", "cache"}) => ThreadOK(x, R, n)
    BY <2>2 DEF ThreadOK
  <2> QED
    BY <2>1, <2>3 DEF x
<1> QED
  BY <1>1, <1>2, <1>3

LEMMA ToWorkOK ==
    ASSUME NEW row \in OpRecord, NEW n \in Nat, NEW R, ~row.more => row.seen <= n
    PROVE  ToWork(row) \in OpRecord /\ ThreadOK(ToWork(row), R, n)
<1>1. ToWork(row) = [Resting EXCEPT !.pc = "cleanup", !.mode = row.mode, !.more = row.more, !.seen = row.seen]
  BY DEF ToWork
<1>2. Resting \in OpRecord
  BY IdleOK
<1>3. row.mode \in {"none", "wake", "full", "fast", "beat"} /\ row.more \in BOOLEAN /\ row.seen \in Nat
  BY DEF OpRecord
<1>4. ToWork(row) \in OpRecord
  BY <1>1, <1>2, <1>3 DEF OpRecord, Steps
<1>5. ToWork(row).pc = "cleanup" /\ ToWork(row).more = row.more /\ ToWork(row).seen = row.seen
  BY <1>1 DEF Resting
<1> QED
  BY <1>4, <1>5 DEF ThreadOK

\* One thread goes on.
LEMMA OpSet ==
    ASSUME TypeInv, NEW t \in Threads, NEW x \in OpRecord, NEW n, ThreadOK(x, rows, n),
           op' = [op EXCEPT ![t] = x]
    PROVE  /\ op' \in [Threads -> OpRecord]
           /\ \A s \in Threads : op'[s] = op[s] \/ ThreadOK(op'[s], rows, n)
BY DEF TypeInv

LEMMA OpRests ==
    ASSUME TypeInv, UNCHANGED op
    PROVE  /\ op' \in [Threads -> OpRecord]
           /\ \A n : \A s \in Threads : op'[s] = op[s] \/ ThreadOK(op'[s], rows, n)
BY DEF TypeInv

\* A step of the desktop: at most one more event was acted on, the next one.
LEMMA Moved ==
    ASSUME Inv, UNCHANGED server, bound' \subseteq bound, credential' \in {0} \cup Devices,
           cursor' \in [Devices -> Nat], saved' \in [Devices -> Nat],
           \A d \in Devices : cursor'[d] <= Len(acted) /\ saved'[d] <= Len(acted),
           \/ UNCHANGED acted
           \/ \E e \in rows : /\ e.seq = Len(acted) + 1 /\ acted' = Append(acted, e)
                              /\ (e.kind = "removed" => e.of \notin bound'),
           op' \in [Threads -> OpRecord],
           \A s \in Threads : op'[s] = op[s] \/ ThreadOK(op'[s], rows, Len(acted'))
    PROVE  Inv'
<1>1. ServerInv' /\ tx' \in [Writers -> TxRecord] /\ rows' \subseteq EventRecord
      /\ open' \subseteq Rooms /\ device' \in {0} \cup Devices /\ paired' \in Devices /\ rows' = rows
  BY ServerRests DEF Inv, server
<1>2. acted \in Seq(EventRecord) /\ Len(acted) \in Nat /\ rows \subseteq EventRecord
  BY DEF Inv, TypeInv
<1>3. /\ acted' \in Seq(EventRecord) /\ Len(acted') \in Nat /\ Len(acted) <= Len(acted')
      /\ \A i \in 1..Len(acted') : /\ acted'[i] \in rows /\ acted'[i].seq = i
                                   /\ (acted'[i].kind = "removed" => acted'[i].of \notin bound')
  <2>0. \A i \in 1..Len(acted) : /\ acted[i] \in rows /\ acted[i].seq = i
                                 /\ (acted[i].kind = "removed" => acted[i].of \notin bound')
    BY DEF Inv, ReaderInv
  <2>1. CASE UNCHANGED acted
    BY <1>2, <2>0, <2>1
  <2>2. CASE \E e \in rows : /\ e.seq = Len(acted) + 1 /\ acted' = Append(acted, e)
                             /\ (e.kind = "removed" => e.of \notin bound')
    <3>0. PICK e \in rows : /\ e.seq = Len(acted) + 1 /\ acted' = Append(acted, e)
                            /\ (e.kind = "removed" => e.of \notin bound')
      BY <2>2
    <3>1. acted' \in Seq(EventRecord) /\ Len(acted') = Len(acted) + 1
      BY <1>2, <3>0
    <3>2. \A i \in 1..Len(acted') : acted'[i] = IF i = Len(acted) + 1 THEN e ELSE acted[i]
      BY <1>2, <3>0
    <3>3. ASSUME NEW i \in 1..Len(acted')
          PROVE  /\ acted'[i] \in rows /\ acted'[i].seq = i
                 /\ (acted'[i].kind = "removed" => acted'[i].of \notin bound')
      <4>1. CASE i = Len(acted) + 1
        BY <3>0, <3>2, <4>1
      <4>2. CASE i # Len(acted) + 1
        <5>1. i \in 1..Len(acted) /\ acted'[i] = acted[i]
          BY <1>2, <3>1, <3>2, <4>2
        <5> QED
          BY <2>0, <5>1
      <4> QED
        BY <4>1, <4>2
    <3> QED
      BY <1>2, <3>1, <3>3
  <2> QED
    BY <2>1, <2>2
<1>4. \A d \in Devices : cursor'[d] <= Len(acted') /\ saved'[d] <= Len(acted')
  BY <1>2, <1>3
<1>5. ASSUME NEW s \in Threads PROVE ThreadOK(op'[s], rows, Len(acted'))
  <2>1. op[s] \in OpRecord /\ ThreadOK(op[s], rows, Len(acted))
    BY DEF Inv, TypeInv, ReaderInv
  <2>2. ThreadOK(op[s], rows, Len(acted'))
    BY <1>2, <1>3, <2>1, ThreadGrows
  <2> QED
    BY <2>2
<1>6. TypeInv'
  BY <1>1, <1>3 DEF TypeInv
<1>7. ReaderInv'
  BY <1>1, <1>3, <1>4, <1>5 DEF ReaderInv
<1> QED
  BY <1>1, <1>6, <1>7 DEF Inv

\* The same for a step that acts on no event.
LEMMA Kept ==
    ASSUME Inv, UNCHANGED <<server, acted>>, bound' \subseteq bound, credential' \in {0} \cup Devices,
           cursor' \in [Devices -> Nat], saved' \in [Devices -> Nat],
           \A d \in Devices : cursor'[d] <= Len(acted) /\ saved'[d] <= Len(acted),
           op' \in [Threads -> OpRecord],
           \A s \in Threads : op'[s] = op[s] \/ ThreadOK(op'[s], rows, Len(acted))
    PROVE  Inv'
BY Moved DEF server

\* The same for a step that leaves the cursor alone, too.
LEMMA Waited ==
    ASSUME Inv, UNCHANGED <<server, store, acted>>, bound' \subseteq bound, credential' \in {0} \cup Devices,
           op' \in [Threads -> OpRecord],
           \A s \in Threads : op'[s] = op[s] \/ ThreadOK(op'[s], rows, Len(acted))
    PROVE  Inv'
<1>1. /\ cursor' \in [Devices -> Nat] /\ saved' \in [Devices -> Nat]
      /\ \A d \in Devices : cursor'[d] <= Len(acted) /\ saved'[d] <= Len(acted)
  BY DEF Inv, TypeInv, ReaderInv, store
<1> QED
  BY <1>1, Kept

LEMMA Forgets ==
    ASSUME Inv, NEW d \in Devices, ForgetDevice(d)
    PROVE  /\ bound' \subseteq bound /\ credential' \in {0} \cup Devices
           /\ cursor' \in [Devices -> Nat] /\ saved' \in [Devices -> Nat]
           /\ \A c \in Devices : cursor'[c] <= Len(acted) /\ saved'[c] <= Len(acted)
<1>1. cursor \in [Devices -> Nat] /\ saved \in [Devices -> Nat] /\ Len(acted) \in Nat
  BY DEF Inv, TypeInv
<1>2. \A c \in Devices : cursor[c] <= Len(acted) /\ saved[c] <= Len(acted)
  BY DEF Inv, ReaderInv
<1> QED
  BY <1>1, <1>2 DEF ForgetDevice

-----------------------------------------------------------------------------
(* The replay.                                                             *)

\* What was acted on is a beginning of the log, number by number.
LEMMA ActedFacts ==
    ASSUME Inv
    PROVE  /\ Len(acted) \in Nat /\ Latest \in Nat /\ Len(acted) <= Latest
           /\ \A e \in rows : /\ e.seq \in 1..Latest
                              /\ (e.seq <= Len(acted) => acted[e.seq] = e)
                              /\ (Contains(acted, e) <=> e.seq <= Len(acted))
<1>1. Len(acted) \in Nat /\ Latest \in Nat /\ Numbered(rows, 0, Latest)
  BY DEF Inv, TypeInv, ServerInv
<1>2. \A i \in 1..Len(acted) : acted[i] \in rows /\ acted[i].seq = i
  BY DEF Inv, ReaderInv
<1>3. \A e \in rows : e.seq \in 1..Latest
  BY <1>1 DEF Numbered
<1>4. \A e, f \in rows : e.seq = f.seq => e = f
  BY <1>1 DEF Numbered
<1>5. Len(acted) <= Latest
  <2>1. CASE Len(acted) = 0
    BY <1>1, <2>1
  <2>2. CASE Len(acted) # 0
    <3>1. Len(acted) \in 1..Len(acted)
      BY <1>1, <2>2
    <3> QED
      BY <1>1, <1>2, <1>3, <3>1
  <2> QED
    BY <2>1, <2>2
<1>6. ASSUME NEW e \in rows, e.seq <= Len(acted) PROVE acted[e.seq] = e /\ Contains(acted, e)
  <2>1. e.seq \in 1..Len(acted)
    BY <1>1, <1>3, <1>6
  <2>2. acted[e.seq] = e
    BY <1>2, <1>4, <2>1
  <2> QED
    BY <2>1, <2>2 DEF Contains
<1>7. ASSUME NEW e \in rows, Contains(acted, e) PROVE e.seq <= Len(acted)
  <2>1. PICK i \in 1..Len(acted) : acted[i] = e
    BY <1>7 DEF Contains
  <2> QED
    BY <1>1, <1>2, <2>1
<1> QED
  BY <1>1, <1>3, <1>5, <1>6, <1>7

\* A page holds the events that follow the cursor; it is empty only at the end of the log.
LEMMA PageFacts ==
    ASSUME Inv, NEW after \in Nat, after <= Len(acted)
    PROVE  /\ Page(after) \in Seq(rows) /\ Len(Page(after)) \in Nat
           /\ \A i \in 1..Len(Page(after)) : Page(after)[i].seq = after + i
           /\ (Page(after) = <<>> => Latest <= after)
<1> DEFINE S == {e \in rows : e.seq > after}
           later == InOrder(S)
           k == Latest - after
           m == IF Len(later) < PageSize THEN Len(later) ELSE PageSize
<1>1. Len(acted) \in Nat /\ Latest \in Nat /\ after <= Latest /\ Numbered(rows, 0, Latest)
  BY ActedFacts DEF Inv, ServerInv
<1>2. k \in Nat /\ after + k = Latest
  BY <1>1
<1>3. Numbered(S, after, k)
  <2>1. \A e \in rows : e.seq \in 1..Latest
    BY <1>1 DEF Numbered
  <2>2. \A j \in 1..Latest : \E e \in rows : e.seq = j
    BY <1>1 DEF Numbered
  <2>3. \A e, f \in rows : e.seq = f.seq => e = f
    BY <1>1 DEF Numbered
  <2>4. \A e \in S : e.seq \in (after + 1)..(after + k)
    BY <1>1, <2>1
  <2>5. \A j \in (after + 1)..(after + k) : \E e \in S : e.seq = j
    BY <1>1, <2>2
  <2> QED
    BY <2>3, <2>4, <2>5 DEF Numbered
<1> HIDE DEF k
<1>4. /\ Len(later) = k /\ later \in Seq(S)
      /\ \A i \in 1..k : later[i] \in S /\ later[i].seq = after + i
  BY <1>2, <1>3, Ordered
<1>5. Page(after) = SubSeq(later, 1, m)
  BY DEF Page
<1> HIDE DEF later
<1>6. m \in Nat /\ m <= k /\ (m = 0 => k = 0)
  BY <1>2, <1>4, BackgroundAssumption
<1> HIDE DEF m
<1>7. \A s \in Seq(S) : m <= Len(s) =>
         /\ SubSeq(s, 1, m) \in Seq(S) /\ Len(SubSeq(s, 1, m)) = m
         /\ \A i \in 1..m : SubSeq(s, 1, m)[i] = s[i]
  BY <1>6
<1>8. /\ Page(after) \in Seq(S) /\ Len(Page(after)) = m
      /\ \A i \in 1..m : Page(after)[i] = later[i]
  BY <1>4, <1>5, <1>6, <1>7
<1>9. \A s \in Seq(S) : s \in Seq(rows)
  OBVIOUS
<1>10. \A i \in 1..m : Page(after)[i].seq = after + i
  BY <1>2, <1>4, <1>6, <1>8
<1>11. Page(after) = <<>> => Latest <= after
  <2> SUFFICES ASSUME Page(after) = <<>> PROVE Latest <= after
    OBVIOUS
  <2>1. m = 0
    BY <1>8
  <2> QED
    BY <1>1, <1>2, <1>6, <2>1
<1> QED
  BY <1>6, <1>8, <1>9, <1>10, <1>11

LEMMA ReadPageInv ==
    ASSUME Inv, NEW t \in Threads, ReadPage(t)
    PROVE  Inv'
<1> DEFINE p == Page(op[t].upTo)
           n == Len(acted)
<1>1. op[t] \in OpRecord /\ op[t].pc = "read" /\ ThreadOK(op[t], rows, n)
  BY DEF Inv, TypeInv, ReaderInv, ReadPage, At
<1>2. op[t].upTo \in Nat /\ op[t].upTo <= n
  BY <1>1 DEF OpRecord, ThreadOK
<1>3. n \in Nat /\ Latest \in Nat
  BY ActedFacts
<1>4. /\ p \in Seq(rows) /\ Len(p) \in Nat
      /\ \A i \in 1..Len(p) : p[i].seq = op[t].upTo + i
      /\ (p = <<>> => Latest <= op[t].upTo)
  BY <1>2, PageFacts
<1>5. UNCHANGED <<server, store, acted>> /\ bound' \subseteq bound /\ credential' \in {0} \cup Devices
  BY DEF ReadPage, Inv, TypeInv
<1>6. IF p = <<>>
      THEN IF t = "window" THEN Rest(t)
           ELSE op' = [op EXCEPT ![t] = ToWork([op[t] EXCEPT !.seen = Latest])]
      ELSE op' = [op EXCEPT ![t] = [op[t] EXCEPT !.pc = "apply", !.page = p, !.upTo = Last(p).seq,
                             !.more = (Last(p).seq < Latest), !.seen = Latest]]
  BY <1>1 DEF ReadPage, Inv, TypeInv
<1> HIDE DEF p
<1>7. CASE p = <<>> /\ t = "window"
  BY <1>3, <1>5, <1>6, <1>7, IdleOK, OpSet, Waited DEF Rest, Inv
<1>8. CASE p = <<>> /\ t # "window"
  <2> DEFINE row == [op[t] EXCEPT !.seen = Latest]
  <2>1. row \in OpRecord /\ row.seen = Latest
    BY <1>1, <1>3 DEF OpRecord
  <2>2. Latest <= n
    BY <1>2, <1>3, <1>4, <1>8
  <2>3. op' = [op EXCEPT ![t] = ToWork(row)]
    BY <1>6, <1>8
  <2> HIDE DEF row
  <2> DEFINE x == ToWork(row)
  <2>4. x \in OpRecord /\ ThreadOK(x, rows, n)
    BY <1>3, <2>1, <2>2, ToWorkOK
  <2> HIDE DEF x
  <2>5. op' = [op EXCEPT ![t] = x]
    BY <2>3 DEF x
  <2> QED
    BY <1>5, <2>4, <2>5, OpSet, Waited DEF Inv
<1>9. CASE p # <<>>
  <2>1. Len(p) > 0
    BY <1>4, <1>9
  <2>2. Last(p).seq = op[t].upTo + Len(p)
    <3>1. Len(p) \in 1..Len(p) /\ Last(p) = p[Len(p)]
      BY <1>4, <2>1 DEF Last
    <3> QED
      BY <1>4, <3>1
  <2> DEFINE u == op[t].upTo + Len(p)
             x == [op[t] EXCEPT !.pc = "apply", !.page = p, !.upTo = u, !.more = (u < Latest), !.seen = Latest]
  <2>3. op' = [op EXCEPT ![t] = x]
    BY <1>6, <1>9, <2>2
  <2>4. p \in Seq(EventRecord)
    BY <1>4 DEF Inv, TypeInv
  <2>5. u \in Nat /\ (u < Latest) \in BOOLEAN
    BY <1>2, <1>4
  <2>6. x \in OpRecord
    BY <1>1, <1>3, <2>4, <2>5 DEF OpRecord, Steps
  <2>7. x.pc = "apply" /\ x.page = p /\ x.upTo = u /\ x.more = (u < Latest) /\ x.seen = Latest
    BY <1>1 DEF OpRecord
  <2> HIDE DEF x
  <2>8. PageOK(x, rows, n)
    <3>1. u - Len(p) = op[t].upTo
      BY <1>2, <1>4
    <3> QED
      BY <1>2, <1>4, <2>1, <2>7, <3>1 DEF PageOK
  <2>9. ~x.more => x.seen <= x.upTo
    <3>1. ~x.more => ~(u < Latest)
      BY <2>7
    <3>2. ~(u < Latest) => Latest <= u
      BY <1>3, <2>5
    <3> QED
      BY <2>7, <3>1, <3>2
  <2>10. ThreadOK(x, rows, n)
    BY <2>7, <2>8, <2>9 DEF ThreadOK
  <2> QED
    BY <1>5, <2>3, <2>6, <2>10, OpSet, Waited DEF Inv
<1> QED
  BY <1>7, <1>8, <1>9

\* The first event of a page is the next one to act on, or was acted on before.
LEMMA EventFacts ==
    ASSUME Inv, NEW t \in Threads, At(t, "apply")
    PROVE  /\ Event1(t) \in rows /\ Event1(t).seq \in Nat
           /\ Event1(t).seq = op[t].upTo - Len(op[t].page) + 1
           /\ Event1(t).seq <= Len(acted) + 1
<1>1. op[t] \in OpRecord /\ PageOK(op[t], rows, Len(acted))
  BY DEF Inv, TypeInv, ReaderInv, At, ThreadOK
<1>2. /\ op[t].page \in Seq(rows) /\ Len(op[t].page) > 0 /\ Len(op[t].page) \in Nat
      /\ op[t].upTo \in Nat /\ 1 \in 1..Len(op[t].page)
  BY <1>1 DEF PageOK, OpRecord
<1>3. Event1(t) = op[t].page[1] /\ Event1(t) \in rows
  BY <1>2 DEF Event1
<1>4. Event1(t).seq = op[t].upTo - Len(op[t].page) + 1
  BY <1>1, <1>2, <1>3 DEF PageOK
<1>5. Event1(t).seq \in Nat
  BY <1>3, ActedFacts
<1>6. Event1(t).seq <= Len(acted) + 1
  BY <1>1, <1>2, <1>4, ActedFacts DEF PageOK
<1> QED
  BY <1>3, <1>4, <1>5, <1>6

\* The event is noted exactly when it is the next one of the log.
LEMMA NotedFacts ==
    ASSUME Inv, NEW t \in Threads, At(t, "apply"), Noted(Event1(t))
    PROVE  /\ Len(acted') \in Nat /\ Event1(t).seq <= Len(acted')
           /\ \/ UNCHANGED acted
              \/ Event1(t).seq = Len(acted) + 1 /\ acted' = Append(acted, Event1(t))
<1>1. Event1(t) \in rows /\ Event1(t).seq \in Nat /\ Event1(t).seq <= Len(acted) + 1 /\ Len(acted) \in Nat
  BY EventFacts, ActedFacts
<1>2. Contains(acted, Event1(t)) <=> Event1(t).seq <= Len(acted)
  BY <1>1, ActedFacts
<1>3. acted' = IF Contains(acted, Event1(t)) THEN acted ELSE Append(acted, Event1(t))
  BY DEF Noted
<1>4. CASE Contains(acted, Event1(t))
  BY <1>1, <1>2, <1>3, <1>4
<1>5. CASE ~Contains(acted, Event1(t))
  <2>1. Event1(t).seq = Len(acted) + 1
    BY <1>1, <1>2, <1>5
  <2>2. acted \in Seq(EventRecord) /\ Event1(t) \in EventRecord
    BY <1>1 DEF Inv, TypeInv
  <2>3. acted' = Append(acted, Event1(t)) /\ Len(acted') = Len(acted) + 1
    BY <1>3, <1>5, <2>2
  <2> QED
    BY <1>1, <2>1, <2>3
<1> QED
  BY <1>4, <1>5

LEMMA NextEventFacts ==
    ASSUME Inv, NEW t \in Threads, At(t, "apply"), Noted(Event1(t)), NextEvent(t)
    PROVE  /\ op' \in [Threads -> OpRecord]
           /\ \A s \in Threads : op'[s] = op[s] \/ ThreadOK(op'[s], rows, Len(acted'))
<1> DEFINE n == Len(acted')
           p == op[t].page
           x == [op[t] EXCEPT !.page = Tail(p), !.pc = IF Len(p) = 1 THEN "advance" ELSE op[t].pc]
<1>1. op[t] \in OpRecord /\ op[t].pc = "apply" /\ ThreadOK(op[t], rows, Len(acted))
  BY DEF Inv, TypeInv, ReaderInv, At
<1>2. PageOK(op[t], rows, Len(acted)) /\ p \in Seq(EventRecord) /\ Len(p) \in Nat /\ op[t].upTo \in Nat
  BY <1>1 DEF ThreadOK, OpRecord
<1>3. n \in Nat /\ op[t].upTo - Len(p) + 1 <= n
  BY EventFacts, NotedFacts
<1>4. op' = [op EXCEPT ![t] = x]
  BY <1>1 DEF NextEvent, Inv, TypeInv
<1>5. Tail(p) \in Seq(EventRecord) /\ Len(Tail(p)) = Len(p) - 1
      /\ \A i \in 1..Len(Tail(p)) : Tail(p)[i] = p[i + 1]
  BY <1>2 DEF PageOK
<1>6. x \in OpRecord
  BY <1>1, <1>5 DEF OpRecord, Steps
<1>7. x.page = Tail(p) /\ x.upTo = op[t].upTo /\ x.more = op[t].more /\ x.seen = op[t].seen
      /\ x.pc = IF Len(p) = 1 THEN "advance" ELSE "apply"
  BY <1>1 DEF OpRecord
<1>8. ~op[t].more => op[t].seen <= op[t].upTo
  BY <1>1 DEF ThreadOK
<1> HIDE DEF x, n
<1>9. CASE Len(p) = 1
  <2>1. x.pc = "advance" /\ x.upTo <= n
    BY <1>2, <1>3, <1>7, <1>9
  <2> QED
    BY <1>4, <1>6, <1>7, <1>8, <2>1, OpSet DEF ThreadOK, Inv, n
<1>10. CASE Len(p) # 1
  <2>0. Len(p) > 0
    BY <1>2 DEF PageOK
  <2>1. x.pc = "apply" /\ Len(x.page) > 0
    <3>1. x.pc = "apply"
      BY <1>7, <1>10
    <3>2. Len(x.page) = Len(p) - 1
      BY <1>5, <1>7
    <3>3. \A m \in Nat : m > 0 /\ m # 1 => m - 1 > 0
      OBVIOUS
    <3>4. Len(p) - 1 > 0
      BY <1>2, <1>10, <2>0, <3>3
    <3> QED
      BY <3>1, <3>2, <3>4
  <2>2. x.page \in Seq(rows)
    BY <1>2, <1>7 DEF PageOK
  <2>3. ASSUME NEW i \in 1..Len(x.page) PROVE x.page[i].seq = x.upTo - Len(x.page) + i
    <3>1. i + 1 \in 1..Len(p) /\ x.page[i] = p[i + 1]
      BY <1>2, <1>5, <1>7
    <3>2. p[i + 1].seq = op[t].upTo - Len(p) + (i + 1)
      BY <1>2, <3>1 DEF PageOK
    <3> QED
      BY <1>2, <1>5, <1>7, <3>1, <3>2
  <2>4. x.upTo - Len(x.page) <= n
    BY <1>2, <1>3, <1>5, <1>7
  <2>5. PageOK(x, rows, n)
    BY <2>1, <2>2, <2>3, <2>4 DEF PageOK
  <2> QED
    BY <1>4, <1>6, <1>7, <1>8, <2>1, <2>5, OpSet DEF ThreadOK, Inv, n
<1> QED
  BY <1>9, <1>10

\* The steps of a replay, one by one.
LEMMA ReplayStepInv ==
    ASSUME Inv, NEW t \in Threads, ReplayStep(t)
    PROVE  Inv'
<1> USE DEF Inv
<1>1. op[t] \in OpRecord /\ ThreadOK(op[t], rows, Len(acted)) /\ Len(acted) \in Nat
  BY DEF TypeInv, ReaderInv
<1>2. credential \in {0} \cup Devices /\ cursor \in [Devices -> Nat] /\ saved \in [Devices -> Nat]
      /\ \A d \in Devices : cursor[d] <= Len(acted) /\ saved[d] <= Len(acted)
  BY DEF TypeInv, ReaderInv
<1>3. ASSUME Rest(t), NEW n \in Nat
      PROVE  op' \in [Threads -> OpRecord] /\ \A s \in Threads : op'[s] = op[s] \/ ThreadOK(op'[s], rows, n)
  BY <1>3, IdleOK, OpSet DEF Rest
<1>4. CASE Replay(t)
  <2>1. credential \in Devices
    BY <1>2, <1>4 DEF Replay, Reached
  <2> DEFINE x == [op[t] EXCEPT !.pc = "read", !.device = credential, !.upTo = cursor[credential]]
  <2>2. op' = [op EXCEPT ![t] = x]
    BY <1>1, <1>4 DEF Replay, TypeInv
  <2>3. x \in OpRecord
    BY <1>1, <1>2, <2>1 DEF OpRecord, Steps
  <2>4. x.pc = "read" /\ x.upTo <= Len(acted)
    BY <1>1, <1>2, <2>1 DEF OpRecord
  <2> HIDE DEF x
  <2>5. ThreadOK(x, rows, Len(acted))
    BY <2>4 DEF ThreadOK
  <2> QED
    BY <1>2, <1>4, <2>2, <2>3, <2>5, OpSet, Waited DEF Replay, agent
<1>5. CASE ReplayRefused(t)
  BY <1>1, <1>3, <1>5, Waited DEF ReplayRefused, AfterError, Verdict
<1>6. CASE ReplayFails(t)
  BY <1>1, <1>2, <1>3, <1>6, Waited DEF ReplayFails, AfterError
<1>7. CASE ReadPage(t)
  BY <1>7, ReadPageInv
<1>8. CASE ApplyEvent(t)
  <2>1. At(t, "apply") /\ Noted(Event1(t)) /\ NextEvent(t)
    BY <1>8 DEF ApplyEvent
  <2>2. bound' \subseteq bound /\ (Event1(t).kind = "removed" => Event1(t).of \notin bound')
    BY <1>8 DEF ApplyEvent
  <2>3. /\ op' \in [Threads -> OpRecord]
        /\ \A s \in Threads : op'[s] = op[s] \/ ThreadOK(op'[s], rows, Len(acted'))
    BY <2>1, NextEventFacts
  <2>4. \/ UNCHANGED acted
        \/ \E e \in rows : /\ e.seq = Len(acted) + 1 /\ acted' = Append(acted, e)
                           /\ (e.kind = "removed" => e.of \notin bound')
    BY <2>1, <2>2, EventFacts, NotedFacts
  <2>5. UNCHANGED <<server, credential, cursor, saved>>
    BY <1>8 DEF ApplyEvent, store
  <2> QED
    BY <1>2, <2>2, <2>3, <2>4, <2>5, Moved
<1>9. CASE ApplyRevoked(t)
  <2>1. At(t, "apply") /\ Noted(Event1(t)) /\ UNCHANGED server /\ Rest(t)
    BY <1>9 DEF ApplyRevoked, Stop, Threads
  <2>2. bound' = {}
    BY <1>9 DEF ApplyRevoked, ForgetDevice
  <2>3. \/ UNCHANGED acted
        \/ \E e \in rows : /\ e.seq = Len(acted) + 1 /\ acted' = Append(acted, e)
                           /\ (e.kind = "removed" => e.of \notin bound')
    BY <2>1, <2>2, EventFacts, NotedFacts
  <2>4. /\ op' \in [Threads -> OpRecord]
        /\ \A s \in Threads : op'[s] = op[s] \/ ThreadOK(op'[s], rows, Len(acted'))
    BY <1>3, <2>1, NotedFacts
  <2>5. /\ credential' \in {0} \cup Devices /\ cursor' \in [Devices -> Nat] /\ saved' \in [Devices -> Nat]
        /\ \A d \in Devices : cursor'[d] <= Len(acted) /\ saved'[d] <= Len(acted)
    <3>1. CASE credential = 0
      BY <1>2, <1>9, <3>1 DEF ApplyRevoked
    <3>2. CASE credential # 0
      BY <1>2, <1>9, <3>2, Forgets DEF ApplyRevoked
    <3> QED
      BY <3>1, <3>2
  <2> QED
    BY <2>1, <2>2, <2>3, <2>4, <2>5, Moved
<1>10. CASE ApplyRefused(t)
  BY <1>1, <1>2, <1>3, <1>10, Waited DEF ApplyRefused, AfterError, Verdict, agent
<1>11. CASE ApplyFails(t)
  BY <1>1, <1>2, <1>3, <1>11, Waited DEF ApplyFails, AfterError, agent
<1>12. CASE AdvanceRow(t)
  <2>1. op[t].pc = "advance" /\ op[t].upTo \in Nat /\ op[t].upTo <= Len(acted)
    BY <1>1, <1>12 DEF AdvanceRow, At, ThreadOK, OpRecord
  <2>2. /\ saved' \in [Devices -> Nat] /\ \A d \in Devices : saved'[d] <= Len(acted)
    BY <1>1, <1>2, <1>12, <2>1 DEF AdvanceRow
  <2>3. UNCHANGED <<server, acted, bound, credential, cursor>>
    BY <1>12 DEF AdvanceRow, agent
  <2>4. /\ op' \in [Threads -> OpRecord]
        /\ \A s \in Threads : op'[s] = op[s] \/ ThreadOK(op'[s], rows, Len(acted))
    <3>1. CASE Rest(t)
      BY <1>1, <1>3, <3>1
    <3>2. CASE Goto(t, "remember")
      <4> DEFINE x == [op[t] EXCEPT !.pc = "remember"]
      <4>1. op' = [op EXCEPT ![t] = x]
        BY <1>1, <3>2 DEF Goto, TypeInv
      <4>2. x \in OpRecord
        BY <1>1 DEF OpRecord, Steps
      <4>3. x.pc = "remember" /\ x.upTo = op[t].upTo /\ x.more = op[t].more /\ x.seen = op[t].seen
        BY <1>1 DEF OpRecord
      <4> HIDE DEF x
      <4>4. ThreadOK(x, rows, Len(acted))
        BY <1>1, <2>1, <4>3 DEF ThreadOK
      <4> QED
        BY <4>1, <4>2, <4>4, OpSet
    <3> QED
      BY <1>12, <3>1, <3>2 DEF AdvanceRow, AfterError
  <2> QED
    BY <1>2, <2>2, <2>3, <2>4, Kept
<1>13. CASE AdvanceFails(t)
  BY <1>1, <1>2, <1>3, <1>13, Waited DEF AdvanceFails, AfterError, agent
<1>14. CASE AdvanceMemory(t)
  <2>1. op[t].pc = "remember" /\ op[t].upTo \in Nat /\ op[t].upTo <= Len(acted) /\ op[t].seen \in Nat
    BY <1>1, <1>14 DEF AdvanceMemory, At, ThreadOK, OpRecord
  <2>2. cursor' \in [Devices -> Nat] /\ \A d \in Devices : cursor'[d] <= Len(acted)
    BY <1>2, <1>14, <2>1 DEF AdvanceMemory
  <2>3. UNCHANGED <<server, acted, bound, credential, saved>>
    BY <1>14 DEF AdvanceMemory, agent
  <2>4. /\ op' \in [Threads -> OpRecord]
        /\ \A s \in Threads : op'[s] = op[s] \/ ThreadOK(op'[s], rows, Len(acted))
    <3>1. CASE Rest(t)
      BY <1>1, <1>3, <3>1
    <3>2. CASE op' = [op EXCEPT ![t] = ToWork(op[t])]
      <4>1. ~op[t].more => op[t].seen <= Len(acted)
        BY <1>1, <2>1 DEF ThreadOK
      <4> DEFINE x == ToWork(op[t])
      <4>2. x \in OpRecord /\ ThreadOK(x, rows, Len(acted))
        BY <1>1, <4>1, ToWorkOK
      <4>3. op' = [op EXCEPT ![t] = x]
        BY <3>2
      <4> HIDE DEF x
      <4> QED
        BY <4>2, <4>3, OpSet
    <3> QED
      BY <1>14, <3>1, <3>2 DEF AdvanceMemory, AfterReplay, Stop, Threads
  <2> QED
    BY <1>2, <2>2, <2>3, <2>4, Kept
<1> QED
  BY <1>4, <1>5, <1>6, <1>7, <1>8, <1>9, <1>10, <1>11, <1>12, <1>13, <1>14 DEF ReplayStep

-----------------------------------------------------------------------------
(* The tick and its phases.                                                *)

LEMMA FollowingFacts ==
    ASSUME NEW phase \in Steps, NEW mode,
           phase \in {"cleanup", "commands", "decisions", "index", "browse", "transfers", "cache", "flush"},
           phase \in {"index", "transfers", "cache"} => mode # "fast"
    PROVE  /\ Following(phase, mode) \in Steps \ {"apply"}
           /\ mode = "fast" => Following(phase, mode) \notin {"index", "transfers", "cache"}
<1> DEFINE order == IF mode = "fast" THEN Light ELSE Heavy
           i == CHOOSE j \in DOMAIN order : order[j] = phase
<1>0. Following(phase, mode) = IF i = Len(order) THEN "idle" ELSE order[i + 1]
  BY DEF Following
<1>1. CASE mode = "fast"
  <2>1. Len(Light) = 5 /\ DOMAIN Light = 1..5
    BY DEF Light
  <2>2. \E j \in 1..5 : Light[j] = phase
    <3>1. Light[1] = "cleanup" /\ Light[2] = "commands" /\ Light[3] = "decisions" /\ Light[4] = "browse"
          /\ Light[5] = "flush"
      BY DEF Light
    <3> QED
      BY <1>1, <3>1
  <2>3. order = Light
    BY <1>1
  <2> HIDE DEF order
  <2>4. i \in 1..5
    BY <2>1, <2>2, <2>3
  <2> HIDE DEF i
  <2>5. i # 5 => order[i + 1] \in {"commands", "decisions", "browse", "flush"}
    BY <2>3, <2>4 DEF Light
  <2> QED
    BY <1>0, <2>1, <2>3, <2>5 DEF Steps
<1>2. CASE mode # "fast"
  <2>1. Len(Heavy) = 8 /\ DOMAIN Heavy = 1..8
    BY DEF Heavy
  <2>2. \E j \in 1..8 : Heavy[j] = phase
    <3>1. Heavy[1] = "cleanup" /\ Heavy[2] = "commands" /\ Heavy[3] = "decisions" /\ Heavy[4] = "index"
          /\ Heavy[5] = "browse" /\ Heavy[6] = "transfers" /\ Heavy[7] = "cache" /\ Heavy[8] = "flush"
      BY DEF Heavy
    <3> QED
      BY <3>1
  <2>3. order = Heavy
    BY <1>2
  <2> HIDE DEF order
  <2>4. i \in 1..8
    BY <2>1, <2>2, <2>3
  <2> HIDE DEF i
  <2>5. i # 8 => order[i + 1] \in {"commands", "decisions", "index", "browse", "transfers", "cache", "flush"}
    BY <2>3, <2>4 DEF Heavy
  <2> QED
    BY <1>0, <1>2, <2>1, <2>3, <2>5 DEF Steps
<1> QED
  BY <1>1, <1>2

LEMMA PhaseInv ==
    ASSUME Inv, NEW checked \in BOOLEAN,
           NEW p \in {"cleanup", "commands", "decisions", "index", "browse", "transfers", "cache", "flush"},
           Phase(p, checked)
    PROVE  Inv'
<1> DEFINE mode == op["loop"].mode
           next == Following(p, mode)
<1>1. "loop" \in Threads /\ op["loop"] \in OpRecord /\ op["loop"].pc = p
      /\ ThreadOK(op["loop"], rows, Len(acted)) /\ Len(acted) \in Nat
  BY DEF Inv, TypeInv, ReaderInv, Phase, At, Threads
<1>2. mode \in {"none", "wake", "full", "fast", "beat"} /\ (p \in {"index", "transfers", "cache"} => mode # "fast")
  BY <1>1 DEF OpRecord, ThreadOK
<1>3. next \in Steps \ {"apply"} /\ (mode = "fast" => next \notin {"index", "transfers", "cache"})
  BY <1>2, FollowingFacts DEF Steps
<1>4. UNCHANGED <<server, store, bound, acted>> /\ credential' \in {0} \cup Devices
  BY DEF Phase, Verdict, agent, Inv, TypeInv
<1>5. \/ op' = [op EXCEPT !["loop"] = Resting]
      \/ op' = [op EXCEPT !["loop"] = [Resting EXCEPT !.pc = next, !.mode = mode]]
  <2>1. CASE checked /\ absent'
    BY <2>1 DEF Phase, Stop, Rest
  <2>2. CASE ~(checked /\ absent')
    BY <2>2 DEF Phase
  <2> QED
    BY <2>1, <2>2
<1> HIDE DEF mode, next
<1> DEFINE x == [Resting EXCEPT !.pc = next, !.mode = mode]
<1>6. /\ Resting \in OpRecord /\ ThreadOK(Resting, rows, Len(acted))
      /\ x \in OpRecord /\ ThreadOK(x, rows, Len(acted))
  BY <1>1, <1>2, <1>3, IdleOK
<1>7. \E y \in OpRecord : ThreadOK(y, rows, Len(acted)) /\ op' = [op EXCEPT !["loop"] = y]
  BY <1>5, <1>6
<1>8. /\ op' \in [Threads -> OpRecord]
      /\ \A s \in Threads : op'[s] = op[s] \/ ThreadOK(op'[s], rows, Len(acted))
  BY <1>1, <1>7, OpSet DEF Inv
<1> QED
  BY <1>4, <1>8, Waited

LEMMA BeginFacts ==
    ASSUME Inv, NEW mode \in {"wake", "full", "fast", "beat"}, Begin(mode)
    PROVE  /\ op' \in [Threads -> OpRecord]
           /\ \A s \in Threads : op'[s] = op[s] \/ ThreadOK(op'[s], rows, Len(acted))
<1>1. Len(acted) \in Nat /\ "loop" \in Threads
  BY DEF Inv, TypeInv, Threads
<1> DEFINE pc == IF mode = "wake" THEN "rooms" ELSE "heartbeat"
           x == [Resting EXCEPT !.pc = pc, !.mode = mode]
<1>2. op' = [op EXCEPT !["loop"] = Resting] \/ op' = [op EXCEPT !["loop"] = x]
  BY DEF Begin
<1>3. pc \in Steps \ {"apply"} /\ pc \notin {"index", "transfers", "cache"}
  BY DEF Steps
<1> HIDE DEF pc
<1>4. x \in OpRecord /\ ThreadOK(x, rows, Len(acted))
  BY <1>1, <1>3, IdleOK
<1> HIDE DEF x
<1>5. \E y \in OpRecord : ThreadOK(y, rows, Len(acted)) /\ op' = [op EXCEPT !["loop"] = y]
  BY <1>1, <1>2, <1>4, IdleOK
<1> QED
  BY <1>1, <1>5, OpSet DEF Inv

LEMMA FirstOK ==
    ASSUME NEW n \in Nat, NEW R
    PROVE  [Resting EXCEPT !.pc = "first"] \in OpRecord /\ ThreadOK([Resting EXCEPT !.pc = "first"], R, n)
<1> DEFINE x == [Resting EXCEPT !.pc = "first"]
<1>1. Resting \in OpRecord
  BY IdleOK
<1>2. x \in OpRecord /\ x.pc = "first"
  BY <1>1 DEF OpRecord, Steps
<1> HIDE DEF x
<1>3. ThreadOK(x, R, n)
  BY <1>2 DEF ThreadOK
<1> QED
  BY <1>2, <1>3 DEF x

LEMMA LoopStepInv ==
    ASSUME Inv, LoopStep
    PROVE  Inv'
<1>1. "loop" \in Threads /\ op["loop"] \in OpRecord /\ ThreadOK(op["loop"], rows, Len(acted))
      /\ Len(acted) \in Nat /\ credential \in {0} \cup Devices
  BY DEF Inv, TypeInv, ReaderInv, Threads
<1>2. ASSUME Rest("loop")
      PROVE  /\ op' \in [Threads -> OpRecord]
             /\ \A s \in Threads : op'[s] = op[s] \/ ThreadOK(op'[s], rows, Len(acted))
  BY <1>1, <1>2, IdleOK, OpSet DEF Rest, Inv
<1>3. ASSUME NEW pc \in {"rooms", "replay", "cleanup"}, Goto("loop", pc),
             op["loop"].pc \in {"heartbeat", "rooms"}
      PROVE  /\ op' \in [Threads -> OpRecord]
             /\ \A s \in Threads : op'[s] = op[s] \/ ThreadOK(op'[s], rows, Len(acted))
  <2> DEFINE x == [op["loop"] EXCEPT !.pc = pc]
  <2>1. op' = [op EXCEPT !["loop"] = x]
    BY <1>1, <1>3 DEF Goto, Inv, TypeInv
  <2>2. x \in OpRecord
    BY <1>1, <1>3 DEF OpRecord, Steps
  <2>3. x.pc = pc /\ x.seen = 0
    BY <1>1, <1>3 DEF OpRecord, ThreadOK
  <2> HIDE DEF x
  <2>4. ThreadOK(x, rows, Len(acted))
    BY <1>1, <1>3, <2>3 DEF ThreadOK
  <2> QED
    BY <1>1, <2>1, <2>2, <2>4, OpSet DEF Inv
<1>4. CASE FirstTick
  BY <1>1, <1>4, BeginFacts, Waited DEF FirstTick, agent
<1>5. CASE ScheduledTick
  <2>1. ScheduledTickMode(tick + 1) \in {"wake", "full", "fast", "beat"}
    BY DEF ScheduledTickMode
  <2> QED
    BY <1>1, <1>5, <2>1, BeginFacts, Waited DEF ScheduledTick, agent
<1>6. CASE WakeTick
  BY <1>1, <1>6, BeginFacts, Waited DEF WakeTick, agent
<1>7. CASE Heartbeat
  BY <1>1, <1>2, <1>3, <1>7, Waited DEF Heartbeat, At, agent
<1>8. CASE HeartbeatFails
  BY <1>1, <1>2, <1>8, Waited DEF HeartbeatFails, agent
<1>9. CASE HeartbeatRefused
  <2>1. credential \in Devices /\ ForgetDevice(credential) /\ Rest("loop") /\ UNCHANGED <<server, acted>>
    BY <1>1, <1>9 DEF HeartbeatRefused, Refused, Stop
  <2> QED
    BY <1>2, <2>1, Forgets, Kept
<1>10. CASE SyncRooms
  <2>1. Goto("loop", "cleanup") \/ Goto("loop", "replay")
    BY <1>10 DEF SyncRooms
  <2>2. op["loop"].pc = "rooms" /\ UNCHANGED <<server, store, bound, acted>> /\ credential' \in {0} \cup Devices
    BY <1>1, <1>10 DEF SyncRooms, At, Verdict, agent
  <2> QED
    BY <1>3, <2>1, <2>2, Waited
<1>11. CASE ReplayStep("loop")
  BY <1>1, <1>11, ReplayStepInv
<1>12. CASE \/ AutoCleanup \/ PendingCommands \/ PendingDecisions \/ ReconcileIndexes \/ FileBrowse
            \/ FileTransfers \/ SmartCacheRooms \/ FlushOutbox
  BY <1>12, PhaseInv DEF AutoCleanup, PendingCommands, PendingDecisions, ReconcileIndexes, FileBrowse,
                         FileTransfers, SmartCacheRooms, FlushOutbox
<1> QED
  BY <1>4, <1>5, <1>6, <1>7, <1>8, <1>9, <1>10, <1>11, <1>12 DEF LoopStep

LEMMA WindowStepInv ==
    ASSUME Inv, WindowStep
    PROVE  Inv'
<1>1. "loop" \in Threads /\ "window" \in Threads /\ Len(acted) \in Nat /\ credential \in {0} \cup Devices
      /\ device \in {0} \cup Devices /\ op["window"] \in OpRecord
  BY DEF Inv, TypeInv, Threads
<1>2. ASSUME Rest("loop")
      PROVE  /\ op' \in [Threads -> OpRecord]
             /\ \A s \in Threads : op'[s] = op[s] \/ ThreadOK(op'[s], rows, Len(acted))
  BY <1>1, <1>2, IdleOK, OpSet DEF Rest, Inv
<1>3. CASE ReplayStep("window")
  BY <1>1, <1>3, ReplayStepInv
<1>4. CASE Start
  <2> DEFINE x == [Resting EXCEPT !.pc = "first"]
  <2>1. UNCHANGED op \/ op' = [op EXCEPT !["loop"] = x]
    BY <1>4 DEF Start
  <2>2. x \in OpRecord /\ ThreadOK(x, rows, Len(acted))
    BY <1>1, FirstOK
  <2> HIDE DEF x
  <2>3. /\ op' \in [Threads -> OpRecord]
        /\ \A s \in Threads : op'[s] = op[s] \/ ThreadOK(op'[s], rows, Len(acted))
    BY <1>1, <2>1, <2>2, OpSet, OpRests DEF Inv
  <2> QED
    BY <1>1, <1>4, <2>3, Waited DEF Start, agent
<1>5. CASE StartStatus
  BY <1>1, <1>5, OpRests, Waited DEF StartStatus, agent, Inv
<1>6. CASE Pause
  BY <1>1, <1>2, <1>6, Waited DEF Pause, Suspend, agent
<1>7. CASE ReplayAgentEvents
  <2> DEFINE x == [op["window"] EXCEPT !.pc = "replay"]
  <2>1. op' = [op EXCEPT !["window"] = x]
    BY <1>1, <1>7 DEF ReplayAgentEvents, Goto, Inv, TypeInv
  <2>2. x \in OpRecord /\ x.pc = "replay"
    BY <1>1 DEF OpRecord, Steps
  <2> HIDE DEF x
  <2>3. ThreadOK(x, rows, Len(acted))
    BY <2>2 DEF ThreadOK
  <2> QED
    BY <1>1, <1>7, <2>1, <2>2, <2>3, OpSet, Waited DEF ReplayAgentEvents, agent, Inv
<1>8. CASE RevokeAgentDevice
  <2>1. credential \in Devices /\ ForgetDevice(credential) /\ Rest("loop") /\ UNCHANGED <<server, acted>>
    BY <1>1, <1>8 DEF RevokeAgentDevice, Refused, Suspend
  <2> QED
    BY <1>2, <2>1, Forgets, Kept
<1>9. CASE StartPairing
  BY <1>1, <1>9, OpRests, Waited DEF StartPairing, Inv
<1>10. CASE PollPairing
  BY <1>1, <1>10, OpRests, Waited DEF PollPairing, Inv
<1> QED
  BY <1>3, <1>4, <1>5, <1>6, <1>7, <1>8, <1>9, <1>10 DEF WindowStep

LEMMA RestartInv ==
    ASSUME Inv, Restart
    PROVE  Inv'
<1> DEFINE x == [Resting EXCEPT !.pc = "first"]
<1>1. Len(acted) \in Nat
  BY DEF Inv, TypeInv
<1>2. /\ x \in OpRecord /\ ThreadOK(x, rows, Len(acted))
      /\ Resting \in OpRecord /\ ThreadOK(Resting, rows, Len(acted))
  BY <1>1, FirstOK, IdleOK
<1>3. op' = [t \in Threads |-> IF t = "loop" THEN x ELSE Resting]
  BY DEF Restart
<1> HIDE DEF x
<1>4. /\ op' \in [Threads -> OpRecord]
      /\ \A s \in Threads : op'[s] = op[s] \/ ThreadOK(op'[s], rows, Len(acted))
  BY <1>2, <1>3
<1>5. /\ cursor' \in [Devices -> Nat] /\ saved' \in [Devices -> Nat]
      /\ \A d \in Devices : cursor'[d] <= Len(acted) /\ saved'[d] <= Len(acted)
  BY DEF Restart, Inv, TypeInv, ReaderInv
<1>6. UNCHANGED <<server, acted>> /\ bound' \subseteq bound /\ credential' \in {0} \cup Devices
  BY DEF Restart, Inv, TypeInv
<1> QED
  BY <1>4, <1>5, <1>6, Kept

-----------------------------------------------------------------------------
(* The theorems.                                                           *)

LEMMA InitInv == Init => Inv
<1> SUFFICES ASSUME Init PROVE Inv
  OBVIOUS
<1>1. rows = {} /\ acted = <<>> /\ Latest = 0
  BY DEF Init, Latest
<1>2. MaxDevices \in Nat \ {0} /\ 1 \in Devices
  BY BackgroundAssumption DEF Devices
<1>3. \A w \in Writers : tx[w] = NoTx
  BY DEF Init
<1>4. tx \in [Writers -> TxRecord] /\ ServerInv
  <2>1. Numbered(rows, 0, 0)
    BY <1>1 DEF Numbered
  <2>2. \A w \in Writers : tx[w].pc # "appended"
    BY <1>3 DEF NoTx
  <2>3. tx \in [Writers -> TxRecord]
    BY NoTxOK DEF Init
  <2>4. \A w \in Writers : TxOK(tx[w], Latest)
    BY <1>3, NoTxOK
  <2> QED
    BY <1>1, <2>1, <2>2, <2>3, <2>4 DEF ServerInv
<1>5. op \in [Threads -> OpRecord] /\ \A t \in Threads : ThreadOK(op[t], rows, 0)
  <2> DEFINE x == [Resting EXCEPT !.pc = "first"]
  <2>1. /\ x \in OpRecord /\ ThreadOK(x, rows, 0)
        /\ Resting \in OpRecord /\ ThreadOK(Resting, rows, 0)
    BY FirstOK, IdleOK
  <2>2. op = [t \in Threads |-> IF t = "loop" THEN x ELSE Resting]
    BY DEF Init
  <2> HIDE DEF x
  <2> QED
    BY <2>1, <2>2
<1>6. acted \in Seq(EventRecord) /\ Len(acted) = 0
  BY <1>1
<1>7. TypeInv
  BY <1>1, <1>2, <1>4, <1>5, <1>6 DEF Init, TypeInv
<1>8. ReaderInv
  BY <1>1, <1>5, <1>6 DEF Init, ReaderInv
<1> QED
  BY <1>4, <1>7, <1>8 DEF Inv

\* A commit leaves the desktop where it was.
LEMMA ServerKeepsReader ==
    ASSUME Inv, ServerStep
    PROVE  Inv' /\ UNCHANGED acted /\ rows \subseteq rows'
<1>1. /\ ServerInv' /\ tx' \in [Writers -> TxRecord] /\ rows' \subseteq EventRecord
      /\ open' \subseteq Rooms /\ device' \in {0} \cup Devices /\ paired' \in Devices
      /\ (UNCHANGED rows) \/ \E w \in Writers : Commit(w)
      /\ UNCHANGED <<credential, cursor, saved, bound, op, acted>>
  BY ServerStepInv DEF Inv
<1>2. rows \subseteq rows'
  BY <1>1 DEF Commit, RealtimeSignal
<1>3. TypeInv'
  BY <1>1 DEF Inv, TypeInv
<1>4. \A t \in Threads : ThreadOK(op[t], rows', Len(acted))
  <2>1. \A t \in Threads : op[t] \in OpRecord /\ ThreadOK(op[t], rows, Len(acted))
    BY DEF Inv, TypeInv, ReaderInv
  <2>2. Len(acted) \in Nat /\ Len(acted) <= Len(acted)
    BY DEF Inv, TypeInv
  <2> QED
    BY <1>2, <2>1, <2>2, ThreadGrows
<1>5. ReaderInv'
  BY <1>1, <1>2, <1>4 DEF Inv, ReaderInv
<1> QED
  BY <1>1, <1>2, <1>3, <1>5 DEF Inv

LEMMA StepInv == Inv /\ [Next]_vars => Inv'
<1> SUFFICES ASSUME Inv, [Next]_vars PROVE Inv'
  OBVIOUS
<1>1. CASE ServerStep
  BY <1>1, ServerKeepsReader
<1>2. CASE LoopStep
  BY <1>2, LoopStepInv
<1>3. CASE WindowStep
  BY <1>3, WindowStepInv
<1>4. CASE Restart
  BY <1>4, RestartInv
<1>5. CASE UNCHANGED vars
  BY <1>5, OpRests, Waited DEF vars, server, store, Inv, TypeInv
<1> QED
  BY <1>1, <1>2, <1>3, <1>4, <1>5 DEF Next

\* The numbers of the log have no gaps and only one transaction is about to extend it; pages and
\* cursors of both replays follow what was acted on; an event acted on is the one of its number.
THEOREM BackgroundInvariant == Spec => []Inv
BY InitInv, StepInv, PTL DEF Spec

\* The work of a tick starts only after every removal the replay had seen was carried out.
LEMMA InvIsCurrent == Inv => WorkIsCurrent
<1> SUFFICES ASSUME Inv, op["loop"].pc = "cleanup", ~op["loop"].more, NEW e \in rows,
                    e.kind = "removed", e.seq <= op["loop"].seen, e.of \in bound
             PROVE  FALSE
  BY DEF WorkIsCurrent, Outdated
<1>1. op["loop"].seen <= Len(acted) /\ op["loop"].seen \in Nat
  BY DEF Inv, TypeInv, ReaderInv, ThreadOK, Threads, OpRecord
<1>2. Len(acted) \in Nat /\ e.seq \in 1..Latest /\ Latest \in Nat
  BY ActedFacts
<1>3. e.seq \in 1..Len(acted)
  BY <1>1, <1>2
<1>4. acted[e.seq] = e
  BY <1>2, <1>3, ActedFacts
<1> QED
  BY <1>3, <1>4 DEF Inv, ReaderInv

\* WorkIsCurrent for every set of rooms and every page size: work after a complete replay never
\* runs for a room whose removal the replay had seen (background.rs, fail closed).
THEOREM BackgroundWorkIsCurrent == Spec => []WorkIsCurrent
BY BackgroundInvariant, InvIsCurrent, PTL

-----------------------------------------------------------------------------
(* The refinement.                                                         *)

\* Only the replays act on events.
LEMMA ActedRests ==
    ASSUME Inv, Next, ~ServerStep
    PROVE  /\ UNCHANGED rows
           /\ \/ UNCHANGED acted
              \/ \E t \in Threads : At(t, "apply") /\ Noted(Event1(t))
<1>1. ASSUME NEW t \in Threads, ReplayStep(t)
      PROVE  UNCHANGED rows /\ (UNCHANGED acted \/ (At(t, "apply") /\ Noted(Event1(t))))
  BY <1>1 DEF ReplayStep, Replay, ReplayRefused, ReplayFails, ReadPage, ApplyEvent, ApplyRevoked,
              ApplyRefused, ApplyFails, AdvanceRow, AdvanceFails, AdvanceMemory, server
<1>2. CASE LoopStep
  BY <1>1, <1>2 DEF LoopStep, FirstTick, ScheduledTick, WakeTick, Heartbeat, HeartbeatFails,
                    HeartbeatRefused, SyncRooms, AutoCleanup, PendingCommands, PendingDecisions,
                    ReconcileIndexes, FileBrowse, FileTransfers, SmartCacheRooms, FlushOutbox, Phase,
                    server, Threads
<1>3. CASE WindowStep
  BY <1>1, <1>3 DEF WindowStep, Start, StartStatus, Pause, ReplayAgentEvents, RevokeAgentDevice,
                    StartPairing, PollPairing, server, Threads
<1>4. CASE Restart
  BY <1>4 DEF Restart, server
<1> QED
  BY <1>2, <1>3, <1>4 DEF Next

LEMMA LogOrdered ==
    ASSUME Inv
    PROVE  /\ Len(InOrder(rows)) = Latest /\ InOrder(rows) \in Seq(rows)
           /\ \A i \in 1..Latest : InOrder(rows)[i] \in rows /\ InOrder(rows)[i].seq = i
<1>1. Latest \in Nat /\ Numbered(rows, 0, Latest)
  BY DEF Inv, ServerInv
<1> QED
  BY <1>1, Ordered

\* A commit publishes.
LEMMA CommitPublishes ==
    ASSUME Inv, NEW w \in Writers, Commit(w)
    PROVE  Log!Publish
<1> DEFINE a == InOrder(rows)
           b == InOrder(rows')
           m == Latest
           n == Latest'
<1>1. Inv' /\ UNCHANGED acted /\ rows \subseteq rows'
  BY ServerKeepsReader DEF ServerStep
<1>2. Latest' > Latest
  BY CommitInv DEF Inv
<1>3. /\ Len(a) = m /\ a \in Seq(rows)
      /\ \A i \in 1..m : a[i] \in rows /\ a[i].seq = i
  BY LogOrdered
<1>4. n \in Nat /\ m \in Nat /\ Numbered(rows', 0, n)
  BY <1>1 DEF Inv, ServerInv
<1> HIDE DEF a, n, m
<1>5. /\ Len(b) = n /\ b \in Seq(rows')
      /\ \A i \in 1..n : b[i] \in rows' /\ b[i].seq = i
  BY <1>4, Ordered
<1>6. \A e, f \in rows' : e.seq = f.seq => e = f
  BY <1>4 DEF Numbered
<1> HIDE DEF b
<1>7. m <= n
  BY <1>2, <1>4 DEF m, n
<1>8. \A i \in 1..m : b[i] = a[i]
  BY <1>1, <1>3, <1>4, <1>5, <1>6, <1>7
<1>9. SubSeq(b, 1, m) = a
  BY <1>3, <1>4, <1>5, <1>7, <1>8
<1>10. Len(b) > Len(a)
  BY <1>2, <1>3, <1>5 DEF m, n
<1>11. Len(InOrder(rows)') > Len(InOrder(rows))
       /\ SubSeq(InOrder(rows)', 1, Len(InOrder(rows))) = InOrder(rows)
  BY <1>3, <1>9, <1>10 DEF a, b
<1> QED
  BY <1>1, <1>11 DEF Log!Publish

\* An event that is noted is the first one of the log not acted on.
LEMMA NotedActs ==
    ASSUME Inv, NEW t \in Threads, At(t, "apply"), Noted(Event1(t)), UNCHANGED rows
    PROVE  Log!Act \/ UNCHANGED acted
<1> DEFINE e == Event1(t)
           n == Len(acted)
<1>1. CASE UNCHANGED acted
  BY <1>1
<1>2. CASE e.seq = n + 1 /\ acted' = Append(acted, e)
  <2>1. e \in rows /\ n \in Nat /\ Latest \in Nat /\ e.seq \in 1..Latest
    BY EventFacts, ActedFacts
  <2>2. n + 1 \in 1..Latest
    BY <1>2, <2>1
  <2>3. Len(InOrder(rows)) = Latest /\ InOrder(rows)[n + 1] \in rows /\ InOrder(rows)[n + 1].seq = n + 1
    BY <2>2, LogOrdered
  <2>4. InOrder(rows)[n + 1] = e
    BY <1>2, <2>1, <2>3 DEF Inv, ServerInv, Numbered
  <2>5. n < Len(InOrder(rows))
    BY <2>1, <2>2, <2>3
  <2>6. UNCHANGED InOrder(rows)
    OBVIOUS
  <2> QED
    BY <1>2, <2>4, <2>5, <2>6 DEF Log!Act
<1> QED
  BY <1>1, <1>2, NotedFacts

LEMMA StepRefines == Inv /\ [Next]_vars => [Log!Next]_Log!vars
<1> SUFFICES ASSUME Inv, [Next]_vars PROVE Log!Publish \/ Log!Act \/ UNCHANGED Log!vars
  BY DEF Log!Next
<1>1. UNCHANGED <<rows, acted>> => UNCHANGED Log!vars
  BY DEF Log!vars
<1>2. CASE ServerStep
  <2>1. (UNCHANGED rows) \/ \E w \in Writers : Commit(w)
    BY <1>2, ServerStepInv DEF Inv
  <2>2. UNCHANGED acted
    BY <1>2, ServerKeepsReader
  <2> QED
    BY <1>1, <2>1, <2>2, CommitPublishes
<1>3. CASE Next /\ ~ServerStep
  BY <1>1, <1>3, ActedRests, NotedActs
<1>4. CASE UNCHANGED vars
  BY <1>1, <1>4 DEF vars
<1> QED
  BY <1>2, <1>3, <1>4

LEMMA InitRefines == Init => Log!Init
<1> SUFFICES ASSUME Init PROVE InOrder(rows) = <<>> /\ acted = <<>>
  BY DEF Log!Init
<1>1. Numbered({}, 0, 0)
  BY DEF Numbered
<1>2. Len(InOrder({})) = 0 /\ InOrder({}) \in Seq({})
  BY <1>1, Ordered
<1>3. InOrder({}) = <<>>
  BY <1>2
<1> QED
  BY <1>3 DEF Init

\* The refinement, for every page size and any number of events, pairings and faults: numbering
\* under the user's lock, paged replays of two threads, the stored cursor, restarts and new
\* pairings implement EventLog (sync.service.ts append and replay, background.rs replay_events).
THEOREM BackgroundEventsInOrder == Spec => EventsInOrder
<1>1. Init => Log!Init
  BY InitRefines
<1>2. Inv /\ [Next]_vars => [Log!Next]_Log!vars
  BY StepRefines
<1>3. Spec => []Inv
  BY BackgroundInvariant
<1> QED
  BY <1>1, <1>2, <1>3, PTL DEF Spec, EventsInOrder, Log!Spec
=============================================================================
