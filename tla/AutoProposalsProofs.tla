------------------------- MODULE AutoProposalsProofs -------------------------
(***************************************************************************)
(* Proofs about module AutoProposals, for any number of findings, edits,   *)
(* losses and crashes: the tables, the outbox and the threads are well     *)
(* typed, an offered proposal is never an empty one, and as long as every  *)
(* request is answered a room has at most one open proposal and a plan     *)
(* that was turned down is not offered again.                              *)
(*                                                                         *)
(* While nothing is lost (extras = 0) the tick is alone: the command it    *)
(* has created is the only one that is pending, and it counted the open    *)
(* proposals after the last one that could have been opened.               *)
(***************************************************************************)
EXTENDS AutoProposals, FiniteSetTheorems, TLAPS

Passing == {"work", "lookup"}
Submitting == {"count", "create", "submit", "insert"}
Flushing == {"deliver", "store"}
Steps == {"idle", "claim", "poll", "flush"} \cup Passing \cup Submitting \cup Flushing
Kinds == {"proposal", "SUCCEEDED", "FAILED"}

OpRecord == [pc : Steps, auto : BOOLEAN, of : Contents, id : Contents, st : Statuses,
             todo : SUBSET (Contents \X (Pollable \cup Kinds))]

ServerTypes ==
    /\ folder \in Contents \cup {Clean} /\ command \in [Contents -> Statuses]
    /\ status \in [Proposal -> {"none", "OPEN", "APPROVED", "REJECTED", "DONE"}]
    /\ offered \in [Proposal -> Contents \cup {Clean}]
    /\ edits \in Nat /\ extras \in Nat
OutboxTypes ==
    /\ outbox \in [Report -> {"none", "pending", "sent", "failed"}]
    /\ queued \in [Contents -> Contents \cup {Clean}]
OpTypes == op \in [Threads -> OpRecord]

\* What a thread at x has yet to do: commands in the pass, rows that exist in the flush.
TodoFits(t, x, box) ==
    /\ x.pc \in Passing \cup {"claim"} => x.todo \subseteq Contents \X Pollable
    /\ x.pc \in Flushing => x.todo \subseteq Report /\ \A r \in x.todo : box[r] # "none"
    /\ x.pc = "store" => box[<<x.id, "proposal">>] # "none"
    /\ x.pc \in Submitting => x.auto
    /\ x.auto => t = "tick" /\ x.todo = {}
TodoInv == \A t \in Threads : TodoFits(t, op[t], outbox)

\* No proposal is empty, queued or offered.
OfferInv ==
    /\ \A p \in Proposal : status[p] # "none" => offered[p] # Clean
    /\ \A c \in Contents : outbox[<<c, "proposal">>] # "none" => queued[c] # Clean

TypeInv == ServerTypes /\ OutboxTypes /\ OpTypes /\ TodoInv /\ OfferInv

-----------------------------------------------------------------------------
(* The tick by itself, at x.                                               *)

\* Nothing was ever queued, and the pass finds nothing to do.
Alone(x) ==
    /\ \A r \in Report : outbox[r] = "none"
    /\ x.pc \in {"work", "deliver"} => x.todo = {}
    /\ x.pc \notin {"lookup", "store"}
    /\ x.pc = "claim" => x.auto
\* The submission holds a finding nobody has been asked about.
Submission(x) ==
    /\ x.pc \in Submitting \cup {"claim"} => x.id = x.of
    /\ x.pc \in {"create", "claim", "submit", "insert"} => Open = {}
    /\ x.pc = "claim" => command[x.id] = x.st /\ x.st \in Pollable
    /\ x.pc \in {"submit", "insert"} => command[x.id] = "ANALYZING"
\* A command is pending only in the hands of the tick, and has no proposal yet; a proposal
\* offers what its command's key stands for.
Offers(x) ==
    /\ \A c \in Contents :
         /\ command[c] \in Pollable => x.pc \in {"claim", "submit", "insert"} /\ x.id = c
         /\ command[c] \in Pollable \cup {"none"} => status[<<c, "auto">>] = "none"
         /\ status[<<c, "outbox">>] = "none"
         /\ status[<<c, "auto">>] # "none" => offered[<<c, "auto">>] = c
    /\ \A p, q \in Open : p = q
Quiet == op["window"] = Idle /\ Alone(op["tick"]) /\ Submission(op["tick"]) /\ Offers(op["tick"])
QuietInv == extras = 0 => Quiet

Inv == TypeInv /\ QuietInv

-----------------------------------------------------------------------------
(* Records of the threads.                                                 *)

LEMMA NobodyIsSome == Nobody \in Contents
  BY AutoProposalsAssumption DEF Nobody

LEMMA OpFields ==
  ASSUME NEW x \in OpRecord
  PROVE  /\ x.pc \in Steps /\ x.auto \in BOOLEAN /\ x.of \in Contents /\ x.id \in Contents /\ x.st \in Statuses
         /\ x.todo \subseteq Contents \X (Pollable \cup Kinds)
  BY DEF OpRecord

LEMMA IdleFields ==
  Idle \in OpRecord /\ Idle.pc = "idle" /\ Idle.auto = FALSE /\ Idle.todo = {}
  BY NobodyIsSome DEF Idle, OpRecord, Steps, Statuses

LEMMA IdleAt ==
  ASSUME NEW pc \in Steps
  PROVE  LET q == [Idle EXCEPT !.pc = pc] IN
         q \in OpRecord /\ q.pc = pc /\ q.auto = FALSE /\ q.todo = {}
  BY NobodyIsSome DEF Idle, OpRecord, Steps, Statuses

LEMMA IdleWith ==
  ASSUME NEW pc \in Steps, NEW T \in SUBSET (Contents \X (Pollable \cup Kinds))
  PROVE  LET q == [Idle EXCEPT !.pc = pc, !.todo = T] IN
         q \in OpRecord /\ q.pc = pc /\ q.auto = FALSE /\ q.todo = T
  BY NobodyIsSome DEF Idle, OpRecord, Steps, Statuses

LEMMA GoneTo ==
  ASSUME NEW x \in OpRecord, NEW pc \in Steps
  PROVE  LET q == [x EXCEPT !.pc = pc] IN
         /\ q \in OpRecord /\ q.pc = pc /\ q.auto = x.auto /\ q.todo = x.todo /\ q.id = x.id
         /\ q.of = x.of /\ q.st = x.st
  BY DEF OpRecord

-----------------------------------------------------------------------------
(* A thread moves to x.                                                    *)

LEMMA ThreadMoves ==
  ASSUME TypeInv, NEW t \in Threads, NEW x \in OpRecord, op' = [op EXCEPT ![t] = x],
         ServerTypes', OutboxTypes', OfferInv', TodoFits(t, x, outbox'),
         \A r \in Report : outbox[r] # "none" => outbox'[r] # "none"
  PROVE  TypeInv'
<1>1. /\ op' \in [Threads -> OpRecord] /\ op'[t] = x
      /\ \A u \in Threads : u # t => op'[u] = op[u]
  BY DEF TypeInv, OpTypes
<1>2. ASSUME NEW u \in Threads, u # t PROVE TodoFits(u, op[u], outbox')
  <2>1. op[u] \in OpRecord /\ op[u].id \in Contents /\ TodoFits(u, op[u], outbox)
    BY OpFields DEF TypeInv, OpTypes, TodoInv
  <2> QED BY <2>1 DEF TodoFits, Report
<1>3. TodoInv'
  BY <1>1, <1>2 DEF TodoInv
<1> QED BY <1>1, <1>3 DEF TypeInv, OpTypes

\* A step that touches neither the server nor the outbox.
LEMMA MoveKeepsTypes ==
  ASSUME TypeInv, NEW t \in Threads, NEW x \in OpRecord, op' = [op EXCEPT ![t] = x],
         UNCHANGED <<folder, server, rows, edits>>, extras' \in Nat, TodoFits(t, x, outbox)
  PROVE  TypeInv'
<1>1. ServerTypes' /\ OutboxTypes' /\ OfferInv' /\ UNCHANGED outbox
  BY DEF TypeInv, ServerTypes, OutboxTypes, OfferInv, server, rows
<1> QED BY <1>1, ThreadMoves

LEMMA MoveKeepsQuiet ==
  ASSUME TypeInv, Quiet, NEW x \in OpRecord, op' = [op EXCEPT !["tick"] = x],
         UNCHANGED <<server, rows>>, Alone(x), Submission(x), Offers(x)
  PROVE  Quiet'
<1>1. op'["tick"] = x /\ op'["window"] = op["window"]
  BY DEF TypeInv, OpTypes, Threads
<1> QED BY <1>1 DEF Quiet, Alone, Submission, Offers, Open, server, rows

LEMMA ExtraCounts ==
  ASSUME TypeInv, Extra \/ UNCHANGED extras PROVE extras' \in Nat /\ (extras' = 0 => extras = 0 /\ ~Extra)
  BY DEF Extra, TypeInv, ServerTypes

LEMMA MoveInv ==
  ASSUME Inv, NEW t \in Threads, NEW x \in OpRecord, op' = [op EXCEPT ![t] = x],
         UNCHANGED <<folder, server, rows, edits>>, Extra \/ UNCHANGED extras, TodoFits(t, x, outbox),
         UNCHANGED extras /\ Quiet => t = "tick" /\ Alone(x) /\ Submission(x) /\ Offers(x)
  PROVE  Inv'
<1>1. extras' \in Nat /\ (extras' = 0 => extras = 0 /\ UNCHANGED extras)
  BY ExtraCounts DEF Inv
<1>2. TypeInv'
  BY <1>1, MoveKeepsTypes DEF Inv
<1>3. QuietInv'
  BY <1>1, MoveKeepsQuiet DEF Inv, QuietInv
<1> QED BY <1>2, <1>3 DEF Inv

\* Only the tick is at work while nothing is lost.
LEMMA QuietTick ==
  ASSUME Quiet, NEW t \in Threads, op[t].pc # "idle" PROVE t = "tick"
  BY IdleFields DEF Quiet, Threads

\* Between its parts the tick has nothing in hand, and nothing is pending.
LEMMA RestIsQuiet ==
  ASSUME Quiet, NEW x \in OpRecord, x.pc \in {"idle", "poll", "flush", "work", "deliver"}, x.todo = {},
         op["tick"].pc \notin {"claim", "submit", "insert"}
  PROVE  Alone(x) /\ Submission(x) /\ Offers(x)
<1>1. Alone(x)
  BY DEF Quiet, Alone
<1>2. Submission(x)
  BY DEF Submission, Submitting
<1>3. Offers(x)
  BY DEF Quiet, Offers
<1> QED BY <1>1, <1>2, <1>3

LEMMA TickRecord == ASSUME Inv, NEW t \in Threads
  PROVE op[t] \in OpRecord /\ TodoFits(t, op[t], outbox) /\ "tick" \in Threads /\ "window" \in Threads
  BY DEF Inv, TypeInv, OpTypes, TodoInv, Threads

-----------------------------------------------------------------------------
(* The initial states, the scan and the submission.                        *)

LEMMA InitInv == Init => Inv
<1> SUFFICES ASSUME Init PROVE Inv
  OBVIOUS
<1>1. ServerTypes /\ OutboxTypes
  BY DEF Init, ServerTypes, OutboxTypes, Statuses
<1>2. OpTypes /\ \A t \in Threads : op[t] = Idle
  BY IdleFields DEF Init, OpTypes
<1>3. \A t \in Threads : TodoFits(t, Idle, outbox)
  BY IdleFields DEF TodoFits, Passing, Flushing, Submitting
<1>4. OfferInv
  BY DEF Init, OfferInv, Report
<1>5. Open = {}
  BY DEF Init, Open
<1>6. Quiet
  BY <1>5, IdleFields DEF Init, Quiet, Alone, Submission, Offers, Threads, Submitting, Proposal, Keys, Pollable
<1> QED BY <1>1, <1>2, <1>3, <1>4, <1>6 DEF Inv, TypeInv, QuietInv, TodoInv

LEMMA ScanInv == ASSUME Inv, Scan PROVE Inv'
<1> UNCHANGED <<folder, server, rows, edits, extras>> /\ op["tick"].pc = "idle" /\ "tick" \in Threads
  BY DEF Scan, At, Threads
<1>1. CASE folder = Clean
  <2> DEFINE x == [Idle EXCEPT !.pc = "poll"]
  <2>1. x \in OpRecord /\ x.pc = "poll" /\ x.auto = FALSE /\ x.todo = {}
    BY IdleAt DEF Steps
  <2>2. op' = [op EXCEPT !["tick"] = x]
    BY <1>1 DEF Scan
  <2> HIDE DEF x
  <2>3. TodoFits("tick", x, outbox)
    BY <2>1 DEF TodoFits, Passing, Flushing, Submitting
  <2>4. UNCHANGED extras /\ Quiet => Alone(x) /\ Submission(x) /\ Offers(x)
    BY <2>1, RestIsQuiet
  <2> QED BY <2>1, <2>2, <2>3, <2>4, MoveInv
<1>2. CASE folder # Clean
  <2> DEFINE x == [Idle EXCEPT !.pc = "count", !.auto = TRUE, !.of = folder, !.id = folder]
  <2>1. x \in OpRecord /\ x.pc = "count" /\ x.auto = TRUE /\ x.todo = {} /\ x.id = x.of
    BY <1>2, NobodyIsSome DEF Idle, OpRecord, Steps, Submitting, Statuses, Inv, TypeInv, ServerTypes
  <2>2. op' = [op EXCEPT !["tick"] = x]
    BY <1>2 DEF Scan, Fingerprint
  <2> HIDE DEF x
  <2>3. TodoFits("tick", x, outbox)
    BY <2>1 DEF TodoFits, Passing, Flushing
  <2>4. Quiet => Alone(x) /\ Submission(x) /\ Offers(x)
    BY <2>1 DEF Quiet, Alone, Submission, Offers
  <2> QED BY <2>1, <2>2, <2>3, <2>4, MoveInv
<1> QED BY <1>1, <1>2

LEMMA ScanSkippedInv == ASSUME Inv, ScanSkipped PROVE Inv'
<1> UNCHANGED <<folder, server, rows, edits>> /\ op["tick"].pc = "idle" /\ "tick" \in Threads /\ Extra
  BY DEF ScanSkipped, At, Threads
<1> DEFINE x == [op["tick"] EXCEPT !.pc = "poll"]
<1>1. x \in OpRecord /\ x.pc = "poll" /\ x.auto = op["tick"].auto /\ x.todo = op["tick"].todo
  BY TickRecord, GoneTo DEF Steps
<1>2. op' = [op EXCEPT !["tick"] = x]
  BY DEF ScanSkipped
<1> HIDE DEF x
<1>3. TodoFits("tick", x, outbox)
  BY <1>1, TickRecord DEF TodoFits, Passing, Flushing, Submitting
<1>4. ~UNCHANGED extras
  BY DEF Extra, Inv, TypeInv, ServerTypes
<1> QED BY <1>1, <1>2, <1>3, <1>4, MoveInv

\* The submission is over.
LEMMA LeaveInv ==
  ASSUME Inv, Leave, op["tick"].pc # "idle", UNCHANGED <<folder, server, rows, edits>>, Extra \/ UNCHANGED extras,
         UNCHANGED extras /\ Quiet => op["tick"].pc \notin {"claim", "submit", "insert"}
  PROVE  Inv'
<1> DEFINE x == [Idle EXCEPT !.pc = "poll"]
<1>1. x \in OpRecord /\ x.pc = "poll" /\ x.auto = FALSE /\ x.todo = {}
  BY IdleAt DEF Steps
<1>2. op' = [op EXCEPT !["tick"] = x] /\ "tick" \in Threads
  BY DEF Leave, Threads
<1> HIDE DEF x
<1>3. TodoFits("tick", x, outbox)
  BY <1>1 DEF TodoFits, Passing, Flushing, Submitting
<1>4. UNCHANGED extras /\ Quiet => Alone(x) /\ Submission(x) /\ Offers(x)
  BY <1>1, RestIsQuiet
<1> QED BY <1>1, <1>2, <1>3, <1>4, MoveInv

LEMMA CountInv == ASSUME Inv, Count PROVE Inv'
<1> UNCHANGED <<folder, server, rows, edits, extras>> /\ op["tick"].pc = "count" /\ "tick" \in Threads
  BY DEF Count, SkipWhenOpen, At, Threads
<1>1. CASE Open = {}
  <2> DEFINE x == [op["tick"] EXCEPT !.pc = "create"]
  <2>1. /\ x \in OpRecord /\ x.pc = "create" /\ x.auto = op["tick"].auto /\ x.todo = op["tick"].todo
        /\ x.id = op["tick"].id /\ x.of = op["tick"].of
    BY TickRecord, GoneTo DEF Steps, Submitting
  <2>2. op' = [op EXCEPT !["tick"] = x]
    BY <1>1 DEF Count, SkipWhenOpen, Goto
  <2> HIDE DEF x
  <2>3. TodoFits("tick", x, outbox)
    BY <2>1, TickRecord DEF TodoFits, Passing, Flushing, Submitting
  <2>4. Quiet => Alone(x) /\ Submission(x) /\ Offers(x)
    BY <1>1, <2>1 DEF Quiet, Alone, Submission, Offers, Submitting
  <2> QED BY <2>1, <2>2, <2>3, <2>4, MoveInv
<1>2. CASE Open # {}
  BY <1>2, LeaveInv DEF Count, SkipWhenOpen
<1> QED BY <1>1, <1>2

LEMMA SubmitInv == ASSUME Inv, Submit PROVE Inv'
<1> DEFINE c == op["tick"].id
<1> UNCHANGED <<folder, server, rows, edits, extras>> /\ op["tick"].pc = "submit" /\ "tick" \in Threads
  BY DEF Submit, At, Threads
<1>0. c \in Contents
  BY TickRecord, OpFields
<1>1. CASE Replayed(c, "auto") \/ ~Acceptable(c)
  <2>1. ~Quiet
    BY <1>0, <1>1 DEF Quiet, Submission, Offers, Replayed, Acceptable, Pollable
  <2> QED BY <1>1, <2>1, LeaveInv DEF Submit
<1>2. CASE ~(Replayed(c, "auto") \/ ~Acceptable(c))
  <2> DEFINE x == [op["tick"] EXCEPT !.pc = "insert"]
  <2>1. /\ x \in OpRecord /\ x.pc = "insert" /\ x.auto = op["tick"].auto /\ x.todo = op["tick"].todo
        /\ x.id = op["tick"].id /\ x.of = op["tick"].of
    BY TickRecord, GoneTo DEF Steps, Submitting
  <2>2. op' = [op EXCEPT !["tick"] = x]
    BY <1>2 DEF Submit, Goto
  <2> HIDE DEF x
  <2>3. TodoFits("tick", x, outbox)
    BY <2>1, TickRecord DEF TodoFits, Passing, Flushing, Submitting
  <2>4. Quiet => Alone(x) /\ Submission(x) /\ Offers(x)
    BY <2>1 DEF Quiet, Alone, Submission, Offers, Submitting
  <2> QED BY <2>1, <2>2, <2>3, <2>4, MoveInv
<1> QED BY <1>1, <1>2

\* The tick opens, moves or leaves a command.
LEMMA TickMoves ==
  ASSUME Inv, NEW x \in OpRecord, op' = [op EXCEPT !["tick"] = x]
  PROVE  op'["tick"] = x /\ op'["window"] = op["window"]
  BY DEF Inv, TypeInv, OpTypes, Threads

\* A creation that finds the command past its analysis, or is lost, ends the submission.
LEMMA CreateInv == ASSUME Inv, Create PROVE Inv'
<1> DEFINE c == op["tick"].id
           st == command'[c]
<1>0. /\ UNCHANGED <<folder, status, offered, rows, edits>> /\ op["tick"].pc = "create" /\ "tick" \in Threads
      /\ c \in Contents /\ op["tick"] \in OpRecord /\ TodoFits("tick", op["tick"], outbox)
  BY TickRecord, OpFields DEF Create, At, Threads
<1>1. /\ command' = [command EXCEPT ![c] = IF command[c] = "none" THEN "QUEUED" ELSE command[c]]
      /\ command \in [Contents -> Statuses] /\ command' \in [Contents -> Statuses]
  BY <1>0 DEF Create, CreateCommand, Inv, TypeInv, ServerTypes, Statuses, Pollable
<1>2. extras' \in Nat /\ (extras' = 0 => extras = 0 /\ ~Extra)
  BY ExtraCounts DEF Create, Inv
<1>3. ServerTypes' /\ OutboxTypes' /\ OfferInv' /\ outbox' = outbox
  BY <1>0, <1>1, <1>2 DEF Inv, TypeInv, ServerTypes, OutboxTypes, OfferInv, rows
<1>4. extras' = 0 => Quiet /\ command[c] \notin Pollable /\ Open' = {}
  <2> SUFFICES ASSUME extras' = 0 PROVE Quiet /\ command[c] \notin Pollable /\ Open' = {}
    OBVIOUS
  <2>1. Quiet
    BY <1>2 DEF Inv, QuietInv
  <2> QED BY <1>0, <2>1 DEF Quiet, Offers, Submission, Open
<1>5. CASE st \in Pollable /\ UNCHANGED extras /\ op' = [op EXCEPT !["tick"].pc = "claim", !["tick"].st = st]
  <2> DEFINE x == [op["tick"] EXCEPT !.pc = "claim", !.st = st]
  <2>1. "claim" \in Steps /\ st \in Statuses
    BY <1>0, <1>1 DEF Steps
  <2>2. /\ x \in OpRecord /\ x.pc = "claim" /\ x.auto = op["tick"].auto /\ x.todo = op["tick"].todo
        /\ x.id = c /\ x.of = op["tick"].of /\ x.st = st
    BY <1>0, <2>1 DEF OpRecord
  <2>3. op' = [op EXCEPT !["tick"] = x] /\ op["tick"].auto
    BY <1>0, <1>5 DEF TodoFits, Submitting
  <2> HIDE DEF x
  <2>4. TodoFits("tick", x, outbox)
    BY <1>0, <2>2, <2>3 DEF TodoFits, Flushing, Submitting
  <2>5. TypeInv'
    BY <1>0, <1>3, <2>2, <2>3, <2>4, ThreadMoves DEF Inv
  <2>6. ASSUME extras' = 0 PROVE Quiet'
    <3>1. command[c] = "none" /\ st = "QUEUED" /\ Quiet /\ Open' = {}
      BY <1>0, <1>1, <1>4, <1>5, <2>6
    <3>2. op'["tick"] = x /\ op'["window"] = op["window"] /\ UNCHANGED <<outbox, status, offered>>
      BY <1>0, <1>3, <2>2, <2>3, TickMoves
    <3>3. Alone(op["tick"])'
      BY <2>2, <2>3, <3>1, <3>2 DEF Quiet, Alone
    <3>4. Submission(op["tick"])'
      BY <1>0, <1>5, <2>2, <3>1, <3>2 DEF Quiet, Submission, Submitting
    <3>5. Offers(op["tick"])'
      BY <1>0, <1>1, <2>2, <3>1, <3>2 DEF Quiet, Offers
    <3> QED BY <3>1, <3>2, <3>3, <3>4, <3>5 DEF Quiet
  <2> QED BY <2>5, <2>6 DEF Inv, QuietInv
<1>6. CASE Leave /\ (Extra \/ st \notin Pollable)
  <2> DEFINE x == [Idle EXCEPT !.pc = "poll"]
  <2>1. x \in OpRecord /\ x.pc = "poll" /\ x.auto = FALSE /\ x.todo = {}
    BY IdleAt DEF Steps
  <2>2. op' = [op EXCEPT !["tick"] = x]
    BY <1>6 DEF Leave
  <2> HIDE DEF x
  <2>3. TodoFits("tick", x, outbox)
    BY <2>1 DEF TodoFits, Passing, Flushing, Submitting
  <2>4. TypeInv'
    BY <1>0, <1>3, <2>1, <2>2, <2>3, ThreadMoves DEF Inv
  <2>5. ASSUME extras' = 0 PROVE Quiet'
    <3>1. command' = command /\ Quiet
      BY <1>0, <1>1, <1>2, <1>4, <1>6, <2>5 DEF Pollable
    <3>2. UNCHANGED <<server, rows>>
      BY <1>0, <3>1 DEF server
    <3>3. Alone(x) /\ Submission(x) /\ Offers(x)
      BY <1>0, <2>1, <3>1, RestIsQuiet
    <3> QED BY <2>1, <2>2, <3>1, <3>2, <3>3, MoveKeepsQuiet DEF Inv
  <2> QED BY <2>4, <2>5 DEF Inv, QuietInv
<1> QED BY <1>5, <1>6 DEF Create

\* What an insertion does, replayed or not.
LEMMA InsertMoves ==
  ASSUME TypeInv, NEW c \in Contents, NEW key \in Keys, NEW of \in Contents, InsertProposal(c, key, of),
         UNCHANGED <<folder, edits>>, extras' \in Nat
  PROVE  ServerTypes' /\ \A p \in Proposal : status'[p] # "none" => offered'[p] # Clean
<1>1. <<c, key>> \in Proposal /\ of # Clean
  BY AutoProposalsAssumption DEF Proposal
<1>2. CASE UNCHANGED server
  BY <1>2 DEF server, TypeInv, ServerTypes, OfferInv
<1>3. CASE /\ status' = [status EXCEPT ![<<c, key>>] = "OPEN"] /\ offered' = [offered EXCEPT ![<<c, key>>] = of]
           /\ command' = [command EXCEPT ![c] = "WAITING_APPROVAL"]
  <2>1. command' \in [Contents -> Statuses]
    BY <1>3 DEF TypeInv, ServerTypes, Statuses
  <2> QED BY <1>1, <1>3, <2>1 DEF TypeInv, ServerTypes, OfferInv
<1> QED BY <1>2, <1>3 DEF InsertProposal

LEMMA InsertInv == ASSUME Inv, Insert PROVE Inv'
<1> DEFINE c == op["tick"].id
           of == op["tick"].of
           x == [Idle EXCEPT !.pc = "poll"]
<1>0. /\ UNCHANGED <<folder, rows, edits, extras>> /\ op["tick"].pc = "insert" /\ "tick" \in Threads
      /\ c \in Contents /\ of \in Contents /\ InsertProposal(c, "auto", of) /\ op' = [op EXCEPT !["tick"] = x]
  BY TickRecord, OpFields DEF Insert, At, Threads, Leave
<1>1. x \in OpRecord /\ x.pc = "poll" /\ x.auto = FALSE /\ x.todo = {}
  BY IdleAt DEF Steps
<1> HIDE DEF x
<1>2. extras \in Nat /\ UNCHANGED <<outbox, queued>> /\ OfferInv
  BY <1>0 DEF Inv, TypeInv, ServerTypes, rows
<1>3. ServerTypes' /\ OutboxTypes' /\ OfferInv'
  <2>1. ServerTypes' /\ \A p \in Proposal : status'[p] # "none" => offered'[p] # Clean
    BY <1>0, <1>2, InsertMoves DEF Keys, Inv
  <2> QED BY <1>2, <2>1 DEF OfferInv, Inv, TypeInv, OutboxTypes
<1>4. TodoFits("tick", x, outbox)
  BY <1>1 DEF TodoFits, Passing, Flushing, Submitting
<1>5. TypeInv'
  BY <1>0, <1>1, <1>2, <1>3, <1>4, ThreadMoves DEF Inv
<1>6. ASSUME extras' = 0 PROVE Quiet'
  <2>1. Quiet
    BY <1>0, <1>6 DEF Inv, QuietInv
  <2>2. command[c] = "ANALYZING" /\ c = of /\ Open = {} /\ status[<<c, "auto">>] = "none"
    BY <1>0, <2>1 DEF Quiet, Submission, Offers, Submitting, Pollable
  <2>3. /\ status' = [status EXCEPT ![<<c, "auto">>] = "OPEN"] /\ offered' = [offered EXCEPT ![<<c, "auto">>] = c]
        /\ command' = [command EXCEPT ![c] = "WAITING_APPROVAL"]
    BY <1>0, <2>2 DEF InsertProposal, Replayed
  <2>4. /\ status \in [Proposal -> {"none", "OPEN", "APPROVED", "REJECTED", "DONE"}]
        /\ offered \in [Proposal -> Contents \cup {Clean}] /\ command \in [Contents -> Statuses]
        /\ \A d \in Contents, k \in Keys : <<d, k>> \in Proposal
    BY DEF Inv, TypeInv, ServerTypes, Proposal
  <2>5. op'["tick"] = x /\ op'["window"] = op["window"]
    BY <1>0, <1>1, TickMoves
  <2>6. Alone(op["tick"])' /\ Submission(op["tick"])'
    BY <1>1, <1>2, <2>1, <2>5 DEF Quiet, Alone, Submission, Submitting
  <2>7. \A p \in Open' : p = <<c, "auto">>
    BY <2>2, <2>3, <2>4 DEF Open
  <2>8. \A d \in Contents :
          /\ command'[d] \notin Pollable /\ status'[<<d, "outbox">>] = "none"
          /\ command'[d] \in Pollable \cup {"none"} => status'[<<d, "auto">>] = "none"
          /\ status'[<<d, "auto">>] # "none" => offered'[<<d, "auto">>] = d
    <3> SUFFICES ASSUME NEW d \in Contents
                 PROVE  /\ command'[d] \notin Pollable /\ status'[<<d, "outbox">>] = "none"
                        /\ command'[d] \in Pollable \cup {"none"} => status'[<<d, "auto">>] = "none"
                        /\ status'[<<d, "auto">>] # "none" => offered'[<<d, "auto">>] = d
      OBVIOUS
    <3>1. /\ command[d] \in Pollable => d = c
          /\ command[d] \in Pollable \cup {"none"} => status[<<d, "auto">>] = "none"
          /\ status[<<d, "outbox">>] = "none"
          /\ status[<<d, "auto">>] # "none" => offered[<<d, "auto">>] = d
      BY <2>1 DEF Quiet, Offers
    <3>2. <<d, "auto">> \in Proposal /\ <<d, "outbox">> \in Proposal /\ <<d, "outbox">> # <<c, "auto">>
      BY <2>4 DEF Keys
    <3>3. CASE d = c
      BY <2>3, <2>4, <3>1, <3>2, <3>3 DEF Pollable
    <3>4. CASE d # c
      BY <2>3, <2>4, <3>1, <3>2, <3>4, <<d, "auto">> # <<c, "auto">>
    <3> QED BY <3>3, <3>4
  <2>9. Offers(op["tick"])'
    BY <2>7, <2>8 DEF Offers
  <2> QED BY <2>1, <2>5, <2>6, <2>9 DEF Quiet
<1> QED BY <1>5, <1>6 DEF Inv, QuietInv

-----------------------------------------------------------------------------
(* The pass over pending commands.                                         *)

LEMMA EnqueueMoves ==
  ASSUME TypeInv, NEW c \in Contents, NEW kind \in Kinds, NEW of \in Contents \cup {Clean},
         kind = "proposal" => of # Clean, Enqueue(c, kind, of)
  PROVE  /\ OutboxTypes' /\ \A r \in Report : outbox[r] # "none" => outbox'[r] # "none"
         /\ \A d \in Contents : outbox'[<<d, "proposal">>] # "none" => queued'[d] # Clean
<1>1. /\ <<c, kind>> \in Report /\ \A d \in Contents : <<d, "proposal">> \in Report
      /\ OutboxTypes /\ \A d \in Contents : outbox[<<d, "proposal">>] # "none" => queued[d] # Clean
  BY DEF Report, Kinds, TypeInv, OfferInv
<1>2. CASE UNCHANGED rows
  BY <1>1, <1>2 DEF rows, OutboxTypes
<1>3. CASE /\ outbox' = [outbox EXCEPT ![<<c, kind>>] = "pending"]
           /\ queued' = IF kind = "proposal" THEN [queued EXCEPT ![c] = of] ELSE queued
  <2>1. OutboxTypes' /\ \A r \in Report : outbox[r] # "none" => outbox'[r] # "none"
    BY <1>1, <1>3 DEF OutboxTypes
  <2>2. ASSUME NEW d \in Contents, outbox'[<<d, "proposal">>] # "none" PROVE queued'[d] # Clean
    <3>1. CASE d = c /\ kind = "proposal"
      BY <1>1, <1>3, <3>1 DEF OutboxTypes
    <3>2. CASE ~(d = c /\ kind = "proposal")
      <4>1. <<d, "proposal">> # <<c, kind>> /\ queued'[d] = queued[d]
        BY <1>1, <1>3, <3>2 DEF OutboxTypes
      <4> QED BY <1>1, <1>3, <2>2, <4>1 DEF OutboxTypes
    <3> QED BY <3>1, <3>2
  <2> QED BY <2>1, <2>2
<1> QED BY <1>2, <1>3 DEF Enqueue

\* The next command of a pass, after one that may have been reported.
LEMMA NextCommandTypes ==
  ASSUME Inv, NEW t \in Threads, op[t].pc \in {"claim", "lookup"}, NextCommand(t), ServerTypes', OutboxTypes',
         OfferInv', \A r \in Report : outbox[r] # "none" => outbox'[r] # "none"
  PROVE  TypeInv'
<1> DEFINE T == op[t].todo
           x == [Idle EXCEPT !.pc = "work", !.todo = T]
<1>1. T \subseteq Contents \X Pollable
  BY TickRecord DEF TodoFits, Passing
<1>2. x \in OpRecord /\ x.pc = "work" /\ x.auto = FALSE /\ x.todo = T
  <2>1. "work" \in Steps /\ T \in SUBSET (Contents \X (Pollable \cup Kinds))
    BY <1>1 DEF Steps, Passing
  <2> HIDE DEF T
  <2> QED BY <2>1, NobodyIsSome DEF Idle, OpRecord, Statuses
<1>3. op' = [op EXCEPT ![t] = x]
  BY DEF NextCommand
<1> HIDE DEF x
<1>4. TodoFits(t, x, outbox')
  BY <1>1, <1>2 DEF TodoFits, Passing, Flushing, Submitting
<1> QED BY <1>2, <1>3, <1>4, ThreadMoves DEF Inv

LEMMA GiveUpInv ==
  ASSUME Inv, NEW t \in Threads, op[t].pc \in {"count", "create", "claim", "submit", "lookup"}, GiveUp(t),
         UNCHANGED <<folder, status, offered, edits>>, command' \in [Contents -> Statuses],
         extras' \in Nat, extras' # 0
  PROVE  Inv'
<1>1. /\ ServerTypes' /\ \A p \in Proposal : status'[p] # "none" => offered'[p] # Clean
      /\ op[t] \in OpRecord /\ op[t].id \in Contents /\ TodoFits(t, op[t], outbox)
  BY TickRecord, OpFields DEF Inv, TypeInv, ServerTypes, OfferInv
<1>2. CASE op[t].auto
  <2> DEFINE x == [Idle EXCEPT !.pc = "poll"]
  <2>1. x \in OpRecord /\ x.pc = "poll" /\ x.auto = FALSE /\ x.todo = {}
    BY IdleAt DEF Steps
  <2>2. op' = [op EXCEPT !["tick"] = x] /\ UNCHANGED <<outbox, queued>> /\ t = "tick"
    BY <1>1, <1>2 DEF GiveUp, Leave, rows, TodoFits
  <2> HIDE DEF x
  <2>3. TodoFits("tick", x, outbox) /\ OutboxTypes' /\ OfferInv'
    BY <1>1, <2>1, <2>2 DEF TodoFits, Passing, Flushing, Submitting, Inv, TypeInv, OutboxTypes, OfferInv
  <2> QED BY <1>1, <2>1, <2>2, <2>3, ThreadMoves DEF Inv, QuietInv
<1>3. CASE ~op[t].auto
  <2>1. NextCommand(t) /\ Enqueue(op[t].id, "FAILED", Clean) /\ op[t].pc \in {"claim", "lookup"}
    BY <1>1, <1>3 DEF GiveUp, TodoFits, Submitting
  <2>2. /\ OutboxTypes' /\ \A r \in Report : outbox[r] # "none" => outbox'[r] # "none"
        /\ \A d \in Contents : outbox'[<<d, "proposal">>] # "none" => queued'[d] # Clean
    BY <1>1, <2>1, EnqueueMoves DEF Kinds, Inv
  <2>3. OfferInv'
    BY <1>1, <2>2 DEF OfferInv
  <2> QED BY <1>1, <2>1, <2>2, <2>3, NextCommandTypes DEF Inv, QuietInv
<1> QED BY <1>2, <1>3

LEMMA PollInv == ASSUME Inv, NEW t \in Threads, Poll(t) PROVE Inv'
<1> DEFINE T == {<<c, command[c]>> : c \in Pending}
           pc == IF t = "tick" THEN "flush" ELSE "idle"
<1>0. /\ UNCHANGED <<folder, server, rows, edits>> /\ (Extra \/ UNCHANGED extras)
      /\ UNCHANGED extras /\ Quiet => t = "tick" /\ op["tick"].pc = "poll"
  <2>1. ~(Extra /\ UNCHANGED extras)
    BY DEF Extra, Inv, TypeInv, ServerTypes
  <2> QED BY <2>1 DEF Poll, At
<1>1. T \subseteq Contents \X Pollable
  BY DEF Pending
<1>2. UNCHANGED extras /\ Quiet => T = {}
  BY <1>0 DEF Quiet, Offers, Pending
<1>3. CASE \E u \in Threads : Working(u)
  <2> DEFINE x == [Idle EXCEPT !.pc = pc]
  <2>1. x \in OpRecord /\ x.pc = pc /\ x.auto = FALSE /\ x.todo = {} /\ op' = [op EXCEPT ![t] = x]
    BY <1>3, IdleAt DEF Steps, Poll
  <2> HIDE DEF x
  <2>2. TodoFits(t, x, outbox)
    BY <2>1 DEF TodoFits, Passing, Flushing, Submitting
  <2>3. UNCHANGED extras /\ Quiet => Alone(x) /\ Submission(x) /\ Offers(x)
    BY <1>0, <2>1, RestIsQuiet
  <2> QED BY <1>0, <2>1, <2>2, <2>3, MoveInv
<1>4. CASE ~\E u \in Threads : Working(u)
  <2> DEFINE x == [Idle EXCEPT !.pc = "work", !.todo = T]
  <2>0. "work" \in Steps /\ T \in SUBSET (Contents \X (Pollable \cup Kinds))
    BY <1>1 DEF Steps, Passing
  <2>1. x \in OpRecord /\ x.pc = "work" /\ x.auto = FALSE /\ x.todo = T
    <3> HIDE DEF T
    <3> QED BY <2>0, IdleWith
  <2>2. op' = [op EXCEPT ![t] = x]
    BY <1>4 DEF Poll
  <2> HIDE DEF x
  <2>3. TodoFits(t, x, outbox)
    BY <1>1, <2>1 DEF TodoFits, Flushing, Submitting
  <2>4. UNCHANGED extras /\ Quiet => Alone(x) /\ Submission(x) /\ Offers(x)
    BY <1>0, <1>2, <2>1, RestIsQuiet
  <2> QED BY <1>0, <2>1, <2>2, <2>3, <2>4, MoveInv
<1> QED BY <1>3, <1>4

LEMMA TakeInv == ASSUME Inv, NEW t \in Threads, Take(t) PROVE Inv'
<1> DEFINE pc == IF t = "tick" THEN "flush" ELSE "idle"
<1>0. /\ UNCHANGED <<folder, server, rows, edits, extras>> /\ op[t].pc = "work"
      /\ op[t] \in OpRecord /\ TodoFits(t, op[t], outbox) /\ (Quiet => t = "tick" /\ op[t].todo = {})
  BY TickRecord, QuietTick DEF Take, At, Quiet, Alone
<1>1. ASSUME NEW y \in op[t].todo,
             op' = [op EXCEPT ![t].pc = "claim", ![t].id = y[1], ![t].st = y[2], ![t].todo = @ \ {y}]
      PROVE  Inv'
  <2> DEFINE x == [op[t] EXCEPT !.pc = "claim", !.id = y[1], !.st = y[2], !.todo = op[t].todo \ {y}]
  <2>1. op' = [op EXCEPT ![t] = x]
    BY <1>1
  <2>2. y[1] \in Contents /\ y[2] \in Statuses /\ op[t].todo \subseteq Contents \X Pollable /\ "claim" \in Steps
    BY <1>0, <1>1 DEF TodoFits, Passing, Statuses, Steps
  <2>3. x \in OpRecord /\ x.pc = "claim" /\ x.auto = op[t].auto /\ x.todo = op[t].todo \ {y}
    BY <1>0, <2>2 DEF OpRecord
  <2> HIDE DEF x
  <2>4. TodoFits(t, x, outbox)
    BY <1>0, <2>2, <2>3 DEF TodoFits, Passing, Flushing, Submitting
  <2> QED BY <1>0, <1>1, <2>1, <2>3, <2>4, MoveInv
<1>2. CASE op[t].todo = {} /\ op' = [op EXCEPT ![t] = [Idle EXCEPT !.pc = pc]]
  <2> DEFINE x == [Idle EXCEPT !.pc = pc]
  <2>1. x \in OpRecord /\ x.pc = pc /\ x.auto = FALSE /\ x.todo = {} /\ op' = [op EXCEPT ![t] = x]
    BY <1>2, IdleAt DEF Steps
  <2> HIDE DEF x
  <2>2. TodoFits(t, x, outbox)
    BY <2>1 DEF TodoFits, Passing, Flushing, Submitting
  <2>3. Quiet => Alone(x) /\ Submission(x) /\ Offers(x)
    BY <1>0, <2>1, RestIsQuiet
  <2> QED BY <1>0, <2>1, <2>2, <2>3, MoveInv
<1> QED BY <1>1, <1>2 DEF Take

LEMMA ClaimInv == ASSUME Inv, NEW t \in Threads, Claim(t) PROVE Inv'
<1> DEFINE c == op[t].id
           next == Claimed(op[t].st)
<1>0. /\ UNCHANGED <<folder, status, offered, edits>> /\ op[t].pc = "claim"
      /\ op[t] \in OpRecord /\ c \in Contents /\ TodoFits(t, op[t], outbox) /\ (Quiet => t = "tick" /\ op[t].auto)
  BY TickRecord, OpFields, QuietTick DEF Claim, At, Quiet, Alone
<1>1. /\ command \in [Contents -> Statuses] /\ next \in Pollable /\ next \in Statuses
      /\ Quiet => command[c] = op[t].st
  BY <1>0 DEF Inv, TypeInv, ServerTypes, Claimed, Pollable, Statuses, Quiet, Submission
<1>2. CASE /\ op[t].st = "ANALYZING" /\ Goto(t, IF op[t].auto THEN "submit" ELSE "lookup")
           /\ UNCHANGED <<command, rows, extras>>
  <2> DEFINE pc == IF op[t].auto THEN "submit" ELSE "lookup"
             x == [op[t] EXCEPT !.pc = pc]
  <2>1. /\ x \in OpRecord /\ x.pc = pc /\ x.auto = op[t].auto /\ x.todo = op[t].todo /\ x.id = op[t].id
        /\ x.of = op[t].of
    BY <1>0, GoneTo DEF Steps, Passing, Submitting
  <2>2. op' = [op EXCEPT ![t] = x] /\ UNCHANGED server
    BY <1>0, <1>2 DEF Goto, server
  <2> HIDE DEF x
  <2>3. TodoFits(t, x, outbox)
    BY <1>0, <2>1 DEF TodoFits, Passing, Flushing, Submitting
  <2>4. Quiet => Alone(x) /\ Submission(x) /\ Offers(x)
    BY <1>0, <1>1, <1>2, <2>1 DEF Quiet, Alone, Submission, Offers, Submitting
  <2> QED BY <1>0, <1>2, <2>1, <2>2, <2>3, <2>4, MoveInv
<1>3. CASE /\ op[t].st # "ANALYZING" /\ command[c] = op[t].st /\ command' = [command EXCEPT ![c] = next]
           /\ op' = [op EXCEPT ![t].st = next] /\ UNCHANGED <<rows, extras>>
  <2> DEFINE x == [op[t] EXCEPT !.st = next]
  <2>1. /\ x \in OpRecord /\ x.pc = "claim" /\ x.auto = op[t].auto /\ x.todo = op[t].todo /\ x.id = c
        /\ x.of = op[t].of /\ x.st = next
    BY <1>0, <1>1 DEF OpRecord
  <2>2. op' = [op EXCEPT ![t] = x] /\ UNCHANGED <<outbox, queued>>
    BY <1>3 DEF rows
  <2> HIDE DEF x
  <2>3. TodoFits(t, x, outbox)
    BY <1>0, <2>1 DEF TodoFits, Passing, Flushing, Submitting
  <2>4. ServerTypes' /\ OutboxTypes' /\ OfferInv'
    BY <1>0, <1>1, <1>3, <2>2 DEF Inv, TypeInv, ServerTypes, OutboxTypes, OfferInv
  <2>5. TypeInv'
    BY <1>0, <2>1, <2>2, <2>3, <2>4, ThreadMoves DEF Inv
  <2>6. ASSUME extras' = 0 PROVE Quiet'
    <3>1. Quiet /\ t = "tick" /\ op[t].auto /\ Open' = Open
      BY <1>0, <1>3, <2>6 DEF Inv, QuietInv, Open
    <3>2. op'["tick"] = x /\ op'["window"] = op["window"]
      BY <2>1, <2>2, <3>1, TickMoves
    <3>3. Alone(op["tick"])'
      BY <2>1, <2>2, <3>1, <3>2 DEF Quiet, Alone
    <3>4. Submission(op["tick"])'
      BY <1>0, <1>1, <1>3, <2>1, <3>1, <3>2 DEF Quiet, Submission, Submitting
    <3>5. Offers(op["tick"])'
      BY <1>0, <1>1, <1>3, <2>1, <3>1, <3>2 DEF Quiet, Offers, Submission
    <3> QED BY <3>1, <3>2, <3>3, <3>4, <3>5 DEF Quiet
  <2> QED BY <2>5, <2>6 DEF Inv, QuietInv
<1>4. CASE command' = [command EXCEPT ![c] = next] /\ Extra /\ GiveUp(t)
  <2>1. command' \in [Contents -> Statuses] /\ extras' \in Nat /\ extras' # 0
    BY <1>0, <1>1, <1>4 DEF Extra, Inv, TypeInv, ServerTypes
  <2> QED BY <1>0, <1>4, <2>1, GiveUpInv
<1>5. CASE command[c] # op[t].st /\ GiveUp(t) /\ UNCHANGED <<command, extras>>
  <2>1. extras' \in Nat /\ extras' # 0
    BY <1>1, <1>5 DEF Inv, TypeInv, ServerTypes, QuietInv
  <2> QED BY <1>0, <1>1, <1>5, <2>1, GiveUpInv
<1> QED BY <1>2, <1>3, <1>4, <1>5 DEF Claim

LEMMA AnalyseInv == ASSUME Inv, NEW t \in Threads, Analyse(t) PROVE Inv'
<1>0. /\ UNCHANGED <<folder, command, status, offered, edits, extras>> /\ op[t].pc = "lookup" /\ NextCommand(t)
      /\ Enqueue(op[t].id, Found, folder) /\ op[t].id \in Contents
  BY TickRecord, OpFields DEF Analyse, At, server
<1>1. ~Quiet
  BY <1>0, QuietTick DEF Quiet, Alone
<1>2. /\ folder \in Contents \cup {Clean} /\ Found \in Kinds /\ (Found = "proposal" => folder # Clean)
  BY DEF Inv, TypeInv, ServerTypes, Found, Kinds
<1>3. /\ OutboxTypes' /\ \A r \in Report : outbox[r] # "none" => outbox'[r] # "none"
      /\ \A d \in Contents : outbox'[<<d, "proposal">>] # "none" => queued'[d] # Clean
  BY <1>0, <1>2, EnqueueMoves DEF Inv
<1>4. ServerTypes' /\ OfferInv'
  BY <1>0, <1>3 DEF Inv, TypeInv, ServerTypes, OfferInv
<1>5. TypeInv'
  BY <1>0, <1>3, <1>4, NextCommandTypes
<1> QED BY <1>0, <1>1, <1>5 DEF Inv, QuietInv

LEMMA FailInv == ASSUME Inv, NEW t \in Threads, Fail(t) PROVE Inv'
<1>1. extras' \in Nat /\ extras' # 0 /\ command' \in [Contents -> Statuses] /\ UNCHANGED <<folder, status, offered, edits>>
  BY DEF Fail, Extra, Inv, TypeInv, ServerTypes, server
<1> QED BY <1>1, GiveUpInv DEF Fail

-----------------------------------------------------------------------------
(* The flush of the outbox.                                                *)

LEMMA StartFlushInv == ASSUME Inv, NEW t \in Threads, StartFlush(t) PROVE Inv'
<1> DEFINE T == {r \in Report : outbox[r] = "pending"}
           x == [Idle EXCEPT !.pc = "deliver", !.todo = T]
<1>0. /\ UNCHANGED <<folder, server, rows, edits>> /\ (Extra \/ UNCHANGED extras)
      /\ UNCHANGED extras /\ Quiet => t = "tick" /\ op["tick"].pc = "flush"
      /\ op' = [op EXCEPT ![t] = x]
  <2>1. ~(Extra /\ UNCHANGED extras)
    BY DEF Extra, Inv, TypeInv, ServerTypes
  <2> QED BY <2>1 DEF StartFlush, At
<1>1. T \in SUBSET (Contents \X (Pollable \cup Kinds)) /\ "deliver" \in Steps
  BY DEF Report, Kinds, Steps, Flushing
<1>2. x \in OpRecord /\ x.pc = "deliver" /\ x.auto = FALSE /\ x.todo = T
  <2> HIDE DEF T
  <2> QED BY <1>1, NobodyIsSome DEF Idle, OpRecord, Statuses
<1>3. (Quiet => T = {}) /\ T \subseteq Report /\ \A r \in T : outbox[r] # "none"
  BY DEF Quiet, Alone
<1> HIDE DEF x, T
<1>4. TodoFits(t, x, outbox)
  BY <1>2, <1>3 DEF TodoFits, Passing, Submitting
<1>5. UNCHANGED extras /\ Quiet => Alone(x) /\ Submission(x) /\ Offers(x)
  BY <1>0, <1>2, <1>3, RestIsQuiet
<1> QED BY <1>0, <1>2, <1>4, <1>5, MoveInv

\* A flush that delivers something does not happen while nothing is lost.
LEMMA DeliveringIsNotQuiet ==
  ASSUME Inv, NEW t \in Threads, op[t].pc = "store" \/ (op[t].pc = "deliver" /\ op[t].todo # {})
  PROVE  extras # 0
  BY QuietTick DEF Inv, QuietInv, Quiet, Alone

\* A row that was sent: nothing but its state changes.
LEMMA MarkMoves ==
  ASSUME TypeInv, NEW r \in Report, NEW state \in {"sent", "failed"}, Mark(r, state), UNCHANGED queued
  PROVE  /\ OutboxTypes' /\ \A s \in Report : outbox[s] # "none" <=> outbox'[s] # "none"
         /\ \A d \in Contents : outbox'[<<d, "proposal">>] # "none" => queued'[d] # Clean
<1>1. OutboxTypes' /\ \A s \in Report : outbox[s] # "none" <=> outbox'[s] # "none"
  BY DEF Mark, TypeInv, OutboxTypes
<1> QED BY <1>1 DEF TypeInv, OfferInv, Report

LEMMA SettleTypes ==
  ASSUME Inv, NEW t \in Threads, NEW r \in op[t].todo, NEW state \in {"sent", "failed"}, Settle(t, r, state),
         op[t].pc = "deliver", ServerTypes', UNCHANGED <<status, offered, queued>>
  PROVE  TypeInv'
<1> DEFINE x == [op[t] EXCEPT !.todo = op[t].todo \ {r}]
<1>0. op[t] \in OpRecord /\ TodoFits(t, op[t], outbox) /\ op' = [op EXCEPT ![t] = x] /\ Mark(r, state)
  BY TickRecord DEF Settle
<1>1. x \in OpRecord /\ x.pc = "deliver" /\ x.auto = op[t].auto /\ x.todo = op[t].todo \ {r}
  BY <1>0 DEF OpRecord
<1>2. r \in Report
  BY <1>0 DEF TodoFits, Flushing
<1>3. /\ OutboxTypes' /\ \A s \in Report : outbox[s] # "none" <=> outbox'[s] # "none"
      /\ \A d \in Contents : outbox'[<<d, "proposal">>] # "none" => queued'[d] # Clean
  BY <1>0, <1>2, MarkMoves DEF Inv
<1>4. OfferInv'
  BY <1>3 DEF OfferInv, Inv, TypeInv
<1> HIDE DEF x
<1>5. TodoFits(t, x, outbox')
  BY <1>0, <1>1, <1>3 DEF TodoFits, Passing, Flushing, Submitting
<1> QED BY <1>0, <1>1, <1>3, <1>4, <1>5, ThreadMoves DEF Inv

LEMMA DeliverStatusInv ==
  ASSUME Inv, NEW t \in Threads, NEW c \in Contents, NEW kind \in {"SUCCEEDED", "FAILED"}, DeliverStatus(t, c, kind)
  PROVE  Inv'
<1>0. /\ UNCHANGED <<folder, status, offered, queued, edits, extras>> /\ op[t].pc = "deliver"
      /\ <<c, kind>> \in op[t].todo /\ \E s \in {"sent", "failed"} : Settle(t, <<c, kind>>, s)
      /\ command' \in {command, [command EXCEPT ![c] = "FAILED"]}
  BY DEF DeliverStatus, At
<1>1. ServerTypes'
  BY <1>0 DEF Inv, TypeInv, ServerTypes, Statuses, Outcomes
<1> QED BY <1>0, <1>1, SettleTypes, DeliveringIsNotQuiet DEF Inv, QuietInv

LEMMA DeliverProposalInv ==
  ASSUME Inv, NEW t \in Threads, NEW c \in Contents, DeliverProposal(t, c) PROVE Inv'
<1> DEFINE r == <<c, "proposal">>
<1>0. /\ UNCHANGED <<folder, command, status, offered, queued, edits, extras>> /\ op[t].pc = "deliver"
      /\ r \in op[t].todo /\ op[t] \in OpRecord /\ TodoFits(t, op[t], outbox)
  BY TickRecord DEF DeliverProposal, At, server
<1>1. ServerTypes' /\ extras' # 0
  BY <1>0, DeliveringIsNotQuiet DEF Inv, TypeInv, ServerTypes
<1>2. CASE \E s \in {"sent", "failed"} : Settle(t, r, s)
  BY <1>0, <1>1, <1>2, SettleTypes DEF Inv, QuietInv
<1>3. CASE op' = [op EXCEPT ![t].pc = "store", ![t].id = c] /\ UNCHANGED outbox
  <2> DEFINE x == [op[t] EXCEPT !.pc = "store", !.id = c]
  <2>1. "store" \in Steps /\ op' = [op EXCEPT ![t] = x]
    BY <1>3 DEF Steps, Flushing
  <2>2. x \in OpRecord /\ x.pc = "store" /\ x.auto = op[t].auto /\ x.todo = op[t].todo /\ x.id = c
    BY <1>0, <2>1 DEF OpRecord
  <2> HIDE DEF x
  <2>3. TodoFits(t, x, outbox)
    BY <1>0, <2>2 DEF TodoFits, Passing, Flushing, Submitting
  <2>4. OutboxTypes' /\ OfferInv'
    BY <1>0, <1>3 DEF Inv, TypeInv, OutboxTypes, OfferInv
  <2> QED BY <1>1, <1>3, <2>1, <2>2, <2>3, <2>4, ThreadMoves DEF Inv, QuietInv
<1> QED BY <1>2, <1>3 DEF DeliverProposal

LEMMA StoreProposalInv == ASSUME Inv, NEW t \in Threads, StoreProposal(t) PROVE Inv'
<1> DEFINE c == op[t].id
           r == <<c, "proposal">>
           T == op[t].todo \ {r}
           x == [Idle EXCEPT !.pc = "deliver", !.todo = T]
<1>0. /\ UNCHANGED <<folder, queued, edits>> /\ op[t].pc = "store" /\ InsertProposal(c, "outbox", queued[c])
      /\ op' = [op EXCEPT ![t] = x] /\ (UNCHANGED extras \/ Extra) /\ (Mark(r, "sent") \/ UNCHANGED outbox)
      /\ op[t] \in OpRecord /\ TodoFits(t, op[t], outbox) /\ c \in Contents
  BY TickRecord, OpFields DEF StoreProposal, At
<1>1. r \in Report /\ queued[c] \in Contents /\ op[t].todo \subseteq Report /\ \A s \in op[t].todo : outbox[s] # "none"
  BY <1>0 DEF Report, TodoFits, Flushing, Inv, TypeInv, OutboxTypes, OfferInv
<1>2. extras' \in Nat /\ extras' # 0
  BY <1>0, DeliveringIsNotQuiet DEF Extra, Inv, TypeInv, ServerTypes
<1>3. ServerTypes' /\ \A p \in Proposal : status'[p] # "none" => offered'[p] # Clean
  BY <1>0, <1>1, <1>2, InsertMoves DEF Keys, Inv
<1>4. /\ OutboxTypes' /\ \A s \in Report : outbox[s] # "none" <=> outbox'[s] # "none"
      /\ \A d \in Contents : outbox'[<<d, "proposal">>] # "none" => queued'[d] # Clean
  <2>1. CASE Mark(r, "sent")
    BY <1>0, <1>1, <2>1, MarkMoves DEF Inv
  <2>2. CASE UNCHANGED outbox
    BY <1>0, <2>2 DEF Inv, TypeInv, OutboxTypes, OfferInv
  <2> QED BY <1>0, <2>1, <2>2
<1>5. OfferInv'
  BY <1>3, <1>4 DEF OfferInv
<1>6. T \in SUBSET (Contents \X (Pollable \cup Kinds)) /\ "deliver" \in Steps
  BY <1>1 DEF Report, Kinds, Steps, Flushing
<1>7. x \in OpRecord /\ x.pc = "deliver" /\ x.auto = FALSE /\ x.todo = T
  <2> HIDE DEF T
  <2> QED BY <1>6, NobodyIsSome DEF Idle, OpRecord, Statuses
<1> HIDE DEF x
<1>8. TodoFits(t, x, outbox')
  BY <1>1, <1>4, <1>7 DEF TodoFits, Passing, Flushing, Submitting
<1> QED BY <1>0, <1>2, <1>3, <1>4, <1>5, <1>7, <1>8, ThreadMoves DEF Inv, QuietInv

LEMMA DeliveryFailsInv == ASSUME Inv, NEW t \in Threads, DeliveryFails(t) PROVE Inv'
<1>0. /\ UNCHANGED <<folder, server, rows, edits>> /\ op[t].pc = "deliver" /\ Extra
      /\ op[t] \in OpRecord /\ TodoFits(t, op[t], outbox)
  BY TickRecord DEF DeliveryFails, At
<1>1. PICK r \in op[t].todo : op' = [op EXCEPT ![t].todo = @ \ {r}]
  BY DEF DeliveryFails
<1> DEFINE x == [op[t] EXCEPT !.todo = op[t].todo \ {r}]
<1>2. op' = [op EXCEPT ![t] = x] /\ x \in OpRecord /\ x.pc = "deliver" /\ x.auto = op[t].auto /\ x.todo = op[t].todo \ {r}
  BY <1>0, <1>1 DEF OpRecord
<1> HIDE DEF x
<1>3. TodoFits(t, x, outbox)
  BY <1>0, <1>2 DEF TodoFits, Passing, Flushing, Submitting
<1>4. ~UNCHANGED extras
  BY <1>0 DEF Extra, Inv, TypeInv, ServerTypes
<1> QED BY <1>0, <1>2, <1>3, <1>4, MoveInv

LEMMA EndFlushInv == ASSUME Inv, NEW t \in Threads, EndFlush(t) PROVE Inv'
<1>0. /\ UNCHANGED <<folder, server, rows, edits, extras>> /\ op[t].pc = "deliver" /\ op' = [op EXCEPT ![t] = Idle]
      /\ (Quiet => t = "tick")
  BY QuietTick DEF EndFlush, At
<1>1. TodoFits(t, Idle, outbox)
  BY IdleFields DEF TodoFits, Passing, Flushing, Submitting
<1>2. Quiet => Alone(Idle) /\ Submission(Idle) /\ Offers(Idle)
  BY <1>0, IdleFields, RestIsQuiet
<1> QED BY <1>0, <1>1, <1>2, IdleFields, MoveInv

-----------------------------------------------------------------------------
(* Users and the process.                                                  *)

\* Decisions and executions take a proposal and its command out of the open ones.
LEMMA DecisionInv ==
  ASSUME Inv, NEW p \in Proposal, status[p] \notin {"none"}, NEW s \in {"APPROVED", "REJECTED", "DONE"},
         NEW v \in {"APPROVED", "REJECTED", "SUCCEEDED", "STALE"},
         status' = [status EXCEPT ![p] = s], command' = [command EXCEPT ![p[1]] = v],
         folder' \in Contents \cup {Clean}, UNCHANGED <<offered, rows, op, edits, extras>>
  PROVE  Inv'
<1> DEFINE c == p[1]
<1>0. c \in Contents /\ p[2] \in Keys /\ p = <<c, p[2]>> /\ UNCHANGED <<outbox, queued>>
  BY DEF Proposal, rows
<1>1. /\ status \in [Proposal -> {"none", "OPEN", "APPROVED", "REJECTED", "DONE"}]
      /\ command \in [Contents -> Statuses] /\ v \in Statuses /\ v \notin Pollable \cup {"none"}
  BY DEF Inv, TypeInv, ServerTypes, Statuses, Outcomes, Pollable
<1>2. TypeInv'
  BY <1>0, <1>1 DEF Inv, TypeInv, ServerTypes, OutboxTypes, OpTypes, TodoInv, OfferInv
<1>3. ASSUME extras' = 0 PROVE Quiet'
  <2>1. Quiet
    BY <1>3 DEF Inv, QuietInv
  <2>2. Open' \subseteq Open
    BY <1>1 DEF Open
  <2>3. Alone(op["tick"])'
    BY <1>0, <2>1 DEF Quiet, Alone
  <2>4. command[c] \notin Pollable
    <3>1. status[<<c, "outbox">>] = "none" /\ (command[c] \in Pollable => status[<<c, "auto">>] = "none")
      BY <1>0, <2>1 DEF Quiet, Offers
    <3>2. p = <<c, "auto">> \/ p = <<c, "outbox">>
      BY <1>0 DEF Keys
    <3> QED BY <3>1, <3>2
  <2>5. Submission(op["tick"])'
    BY <1>0, <1>1, <2>1, <2>2, <2>4 DEF Quiet, Submission, Pollable
  <2>6. \A d \in Contents :
          /\ command'[d] \in Pollable \cup {"none"} => command'[d] = command[d] /\ d # c
          /\ \A k \in Keys : <<d, k>> # p => status'[<<d, k>>] = status[<<d, k>>]
    BY <1>0, <1>1 DEF Proposal
  <2>7. Offers(op["tick"])'
    <3> SUFFICES ASSUME NEW d \in Contents
                 PROVE  /\ command'[d] \in Pollable => op["tick"].pc \in {"claim", "submit", "insert"} /\ op["tick"].id = d
                        /\ command'[d] \in Pollable \cup {"none"} => status'[<<d, "auto">>] = "none"
                        /\ status'[<<d, "outbox">>] = "none"
                        /\ status'[<<d, "auto">>] # "none" => offered[<<d, "auto">>] = d
      BY <2>1, <2>2 DEF Offers, Quiet
    <3>1. /\ command[d] \in Pollable => op["tick"].pc \in {"claim", "submit", "insert"} /\ op["tick"].id = d
          /\ command[d] \in Pollable \cup {"none"} => status[<<d, "auto">>] = "none"
          /\ status[<<d, "outbox">>] = "none"
          /\ status[<<d, "auto">>] # "none" => offered[<<d, "auto">>] = d
      BY <2>1 DEF Quiet, Offers
    <3>2. d # c => <<d, "auto">> # p
      BY <1>0
    <3>3. <<d, "outbox">> # p
      BY <3>1
    <3>4. status'[<<d, "auto">>] # "none" => status[<<d, "auto">>] # "none"
      BY <1>1 DEF Proposal, Keys
    <3> QED BY <2>6, <3>1, <3>2, <3>3, <3>4 DEF Keys
  <2> QED BY <2>1, <2>3, <2>5, <2>7 DEF Quiet
<1> QED BY <1>2, <1>3 DEF Inv, QuietInv

LEMMA DecideInv ==
  ASSUME Inv, NEW p \in Proposal, NEW v \in {"APPROVED", "REJECTED"}, Decide(p, v) PROVE Inv'
  BY DecisionInv DEF Decide, Inv, TypeInv, ServerTypes

LEMMA ExecuteInv == ASSUME Inv, NEW p \in Proposal, Execute(p) PROVE Inv'
<1>1. folder' \in Contents \cup {Clean}
  BY DEF Execute, Inv, TypeInv, ServerTypes
<1> QED BY <1>1, DecisionInv DEF Execute

LEMMA EditInv == ASSUME Inv, Edit PROVE Inv'
<1> /\ folder' \in Contents \cup {Clean} /\ edits' = edits + 1
    /\ UNCHANGED <<command, status, offered, outbox, queued, op, extras>>
  BY DEF Edit, server, rows
<1>1. TypeInv'
  BY DEF Inv, TypeInv, ServerTypes, OutboxTypes, OpTypes, TodoInv, OfferInv
<1>2. QuietInv'
  BY DEF Inv, QuietInv, Quiet, Alone, Submission, Offers, Open
<1> QED BY <1>1, <1>2 DEF Inv

LEMMA CrashInv == ASSUME Inv, Crash PROVE Inv'
<1>1. /\ UNCHANGED <<folder, command, status, offered, outbox, queued, edits>> /\ extras' \in Nat /\ extras' # 0
      /\ op' = [t \in Threads |-> Idle]
  BY DEF Crash, Extra, Inv, TypeInv, ServerTypes, server, rows
<1>2. \A t \in Threads : TodoFits(t, Idle, outbox)
  BY IdleFields DEF TodoFits, Passing, Flushing, Submitting
<1>3. TypeInv'
  BY <1>1, <1>2, IdleFields DEF Inv, TypeInv, ServerTypes, OutboxTypes, OpTypes, TodoInv, OfferInv
<1> QED BY <1>1, <1>3 DEF Inv, QuietInv

-----------------------------------------------------------------------------
LEMMA WorkInv == ASSUME Inv, NEW t \in Threads, Work(t) PROVE Inv'
  BY TakeInv, ClaimInv, AnalyseInv, FailInv, DeliverProposalInv, DeliverStatusInv, StoreProposalInv,
     DeliveryFailsInv, EndFlushInv DEF Work

\* Every step of the specification keeps the invariant.
LEMMA NextInv == ASSUME Inv, [Next]_vars PROVE Inv'
<1>0. "tick" \in Threads /\ "window" \in Threads
  BY DEF Threads
<1>1. CASE UNCHANGED vars
  BY <1>1 DEF vars, Inv, TypeInv, ServerTypes, OutboxTypes, OpTypes, TodoInv, OfferInv, QuietInv, Quiet, Alone,
              Submission, Offers, Open
<1>2. CASE TickStep
  BY <1>0, <1>2, ScanInv, ScanSkippedInv, CountInv, CreateInv, SubmitInv, InsertInv, PollInv, StartFlushInv, WorkInv
     DEF TickStep
<1>3. CASE WindowStep
  BY <1>0, <1>3, PollInv, StartFlushInv, WorkInv DEF WindowStep
<1>4. CASE UserStep
  BY <1>4, EditInv, ExecuteInv, DecideInv DEF UserStep
<1>5. CASE Crash
  BY <1>5, CrashInv
<1> QED BY <1>1, <1>2, <1>3, <1>4, <1>5 DEF Next

\* The invariant holds in every reachable state, for any set of findings and any number of
\* edits, losses, crashes and passes of the window.
THEOREM AutoProposalsInvariant == Spec => []Inv
<1>1. Init => Inv
  BY InitInv
<1>2. Inv /\ [Next]_vars => Inv'
  BY NextInv
<1> QED BY <1>1, <1>2, PTL DEF Spec

\* The tables, the outbox and the threads are well typed, and no proposal offers to do
\* nothing: a clean folder is reported as SUCCEEDED, never proposed.
THEOREM AutoProposalsTypeOK == Spec => []TypeOK
<1>1. Inv => TypeOK
  BY OpFields DEF Inv, TypeInv, ServerTypes, OutboxTypes, OpTypes, OfferInv, TypeOK
<1> QED BY <1>1, AutoProposalsInvariant, PTL

\* While every request is answered a room has at most one open proposal, however often the
\* folder changes between the scan, the count and the insertion.
THEOREM AutoProposalsOneAtATime == Spec => []OneAtATime
<1>1. Inv => OneAtATime
  <2> SUFFICES ASSUME Inv, extras = 0 PROVE Cardinality(Open) <= 1
    BY DEF OneAtATime
  <2>1. \A p, q \in Open : p = q
    BY DEF Inv, QuietInv, Quiet, Offers
  <2>2. CASE Open = {}
    BY <2>2, FS_EmptySet
  <2>3. CASE Open # {}
    <3>1. PICK p : p \in Open
      BY <2>3
    <3>2. Open = {p}
      BY <2>1, <3>1
    <3> QED BY <3>2, FS_Singleton
  <2> QED BY <2>2, <2>3
<1> QED BY <1>1, AutoProposalsInvariant, PTL

\* While every request is answered a plan that was turned down is not offered again: the
\* idempotency key of the command is the fingerprint of the plan.
THEOREM AutoProposalsNotOfferedAgain == Spec => []NotOfferedAgain
<1>1. Inv => NotOfferedAgain
  <2> SUFFICES ASSUME Inv, extras = 0, NEW p \in Open, NEW q \in Proposal, status[q] = "REJECTED",
                      offered[p] = offered[q]
               PROVE  FALSE
    BY DEF NotOfferedAgain
  <2>1. /\ p \in Proposal /\ status[p] = "OPEN"
        /\ \A c \in Contents : /\ status[<<c, "outbox">>] = "none"
                               /\ status[<<c, "auto">>] # "none" => offered[<<c, "auto">>] = c
    BY DEF Inv, QuietInv, Quiet, Offers, Open
  <2>2. PICK c \in Contents, k \in Keys : p = <<c, k>>
    BY <2>1 DEF Proposal
  <2>3. PICK d \in Contents, l \in Keys : q = <<d, l>>
    BY DEF Proposal
  <2>4. k = "auto" /\ l = "auto"
    BY <2>1, <2>2, <2>3 DEF Keys
  <2>5. offered[p] = c /\ offered[q] = d
    BY <2>1, <2>2, <2>3, <2>4
  <2> QED BY <2>1, <2>2, <2>3, <2>4, <2>5
<1> QED BY <1>1, AutoProposalsInvariant, PTL
=============================================================================
