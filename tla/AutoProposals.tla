---------------------------- MODULE AutoProposals ----------------------------
(***************************************************************************)
(* Clean-ups that the desktop proposes on its own: the background scan     *)
(* (auto_cleanup_processor.rs), the submission of what it found            *)
(* (auto_proposal.rs), the pass over pending commands                      *)
(* (command_processor.rs), which takes up commands the submission left     *)
(* behind, and the flush of the outbox; on the server the creation of      *)
(* commands and proposals, which meet here under two different keys.       *)
(*                                                                         *)
(* One managed root bound to one room.  The folder is what                 *)
(* propose_for_root finds in it, source versions included.  The commands   *)
(* of the phone, executions and late service of lost requests are in       *)
(* module Delegation, the closing of rooms in Background.                  *)
(***************************************************************************)
EXTENDS Naturals, FiniteSets

CONSTANTS
    Contents,     \* states of the folder that call for a clean-up
    Clean,        \* the folder with nothing to propose
    MaxEdits,     \* changes of the folder by its user
    MaxExtras     \* lost requests, skipped scans, crashes and passes of the window

ASSUME AutoProposalsAssumption ==
    Clean \notin Contents /\ Contents # {} /\ MaxEdits \in Nat /\ MaxExtras \in Nat

Threads == {"tick", "window"}
Pollable == {"QUEUED", "DELIVERED", "ANALYZING"}
Outcomes == {"REJECTED", "SUCCEEDED", "STALE", "FAILED"}
Statuses == Pollable \cup {"none", "WAITING_APPROVAL", "APPROVED"} \cup Outcomes
\* Idempotency keys of a command's proposals: autoprop-<fingerprint>, and its id in the outbox.
Keys == {"auto", "outbox"}
Proposal == Contents \X Keys
Report == Contents \X {"proposal", "SUCCEEDED", "FAILED"}
Nobody == CHOOSE c \in Contents : TRUE
Idle == [pc |-> "idle", auto |-> FALSE, of |-> Nobody, id |-> Nobody, st |-> "none", todo |-> {}]

VARIABLES
    folder,       \* Contents or Clean
    command,      \* commands.status of the ANALYZE command with the key of a fingerprint
    status,       \* proposals.status, "none" where there is no row, and DONE after its execution
    offered,      \* what each proposal offers to do
    outbox,       \* state of each row of the outbox, or "none"
    queued,       \* the analysis in a queued proposal
    op,           \* what the tick and a command of the window are doing
    edits, extras

server == <<command, status, offered>>
rows == <<outbox, queued>>
vars == <<folder, command, status, offered, outbox, queued, op, edits, extras>>

Init ==
    /\ folder \in Contents \cup {Clean}
    /\ command = [c \in Contents |-> "none"]
    /\ status = [p \in Proposal |-> "none"] /\ offered = [p \in Proposal |-> Clean]
    /\ outbox = [r \in Report |-> "none"] /\ queued = [c \in Contents |-> Clean]
    /\ op = [t \in Threads |-> Idle] /\ edits = 0 /\ extras = 0

Extra == extras < MaxExtras /\ extras' = extras + 1
At(t, pc) == op[t].pc = pc
Goto(t, pc) == op' = [op EXCEPT ![t].pc = pc]
\* The submission ends, whatever came of it, and the tick goes on.
Leave == op' = [op EXCEPT !["tick"] = [Idle EXCEPT !.pc = "poll"]]
Open == {p \in Proposal : status[p] = "OPEN"}

-----------------------------------------------------------------------------
(* Server.                                                                 *)

\* One key for everything that the root ever finds.
FingerprintOfRoot(of) == Nobody
\* proposal_fingerprint: a hash of all proposed operations with their source versions.
Fingerprint(of) == of

\* A repeated creation starts the command afresh.
CreateResets(c) == command' = [command EXCEPT ![c] = IF @ \in Pollable THEN @ ELSE "QUEUED"]
\* CommandsService.create: the key of an existing command returns it as it is.
CreateCommand(c) == command' = [command EXCEPT ![c] = IF @ = "none" THEN "QUEUED" ELSE @]

\* ProposalsService.create looks for the key and the command's status without a lock ...
Replayed(c, key) == status[<<c, key>>] # "none"
Acceptable(c) == command[c] = "ANALYZING"
\* ... and then inserts under the key, the only unique index of proposals.
InsertProposal(c, key, of) ==
    IF Replayed(c, key) THEN UNCHANGED server
    ELSE /\ status' = [status EXCEPT ![<<c, key>>] = "OPEN"]
         /\ offered' = [offered EXCEPT ![<<c, key>>] = of]
         /\ command' = [command EXCEPT ![c] = "WAITING_APPROVAL"]

-----------------------------------------------------------------------------
(* The scan and the submission of the tick.                                *)

\* process_auto_cleanup looks at the folder; submit_autonomous_proposals goes on with a finding.
Scan ==
    /\ At("tick", "idle")
    /\ op' = [op EXCEPT !["tick"] =
                 IF folder = Clean THEN [Idle EXCEPT !.pc = "poll"]
                 ELSE [Idle EXCEPT !.pc = "count", !.auto = TRUE, !.of = folder, !.id = Fingerprint(folder)]]
    /\ UNCHANGED <<folder, server, rows, edits, extras>>
\* The scan is not due, its permit is taken or the analysis fails.
ScanSkipped ==
    /\ At("tick", "idle") /\ Extra /\ op' = [op EXCEPT !["tick"].pc = "poll"]
    /\ UNCHANGED <<folder, server, rows, edits>>

\* The number of open proposals is not asked for.
StackProposals == At("tick", "count") /\ Goto("tick", "create")
\* open_proposal_count_for_room.
SkipWhenOpen ==
    At("tick", "count") /\ IF Open = {} THEN Goto("tick", "create") ELSE Leave
Count == SkipWhenOpen /\ UNCHANGED <<folder, server, rows, edits, extras>>

\* submit_one goes on with a command that is not past its analysis.
Create ==
    /\ At("tick", "create") /\ CreateCommand(op["tick"].id)
    /\ \/ /\ LET st == command'[op["tick"].id] IN
             IF st \in Pollable THEN op' = [op EXCEPT !["tick"].pc = "claim", !["tick"].st = st] ELSE Leave
          /\ UNCHANGED extras
       \/ Extra /\ Leave
    /\ UNCHANGED <<folder, status, offered, rows, edits>>

\* The answer of submit_proposal makes no difference to the tick.
Submit ==
    /\ At("tick", "submit")
    /\ IF Replayed(op["tick"].id, "auto") \/ ~Acceptable(op["tick"].id) THEN Leave ELSE Goto("tick", "insert")
    /\ UNCHANGED <<folder, server, rows, edits, extras>>
Insert ==
    /\ At("tick", "insert") /\ InsertProposal(op["tick"].id, "auto", op["tick"].of) /\ Leave
    /\ UNCHANGED <<folder, rows, edits, extras>>

-----------------------------------------------------------------------------
(* The pass over pending commands: process_pending_commands, by the tick   *)
(* or by process_agent_commands of the window, one at a time (try_scan).   *)

Working(t) == op[t].pc \in {"work", "lookup"} \/ (op[t].pc = "claim" /\ ~op[t].auto)
\* Only commands that nobody has begun to analyse.
PendingUnclaimed == {c \in Contents : command[c] \in Pollable \ {"ANALYZING"}}
\* CommandsService.pending.
Pending == {c \in Contents : command[c] \in Pollable}
Poll(t) ==
    /\ \/ t = "tick" /\ At(t, "poll") /\ UNCHANGED extras
       \/ t = "window" /\ At(t, "idle") /\ Extra
    /\ op' = [op EXCEPT ![t] =
                 IF \E u \in Threads : Working(u)
                 THEN [Idle EXCEPT !.pc = IF t = "tick" THEN "flush" ELSE "idle"]
                 ELSE [Idle EXCEPT !.pc = "work", !.todo = {<<c, command[c]>> : c \in Pending}]]
    /\ UNCHANGED <<folder, server, rows, edits>>
Take(t) ==
    /\ At(t, "work")
    /\ \/ \E x \in op[t].todo :
            op' = [op EXCEPT ![t].pc = "claim", ![t].id = x[1], ![t].st = x[2], ![t].todo = @ \ {x}]
       \/ op[t].todo = {} /\ op' = [op EXCEPT ![t] = [Idle EXCEPT !.pc = IF t = "tick" THEN "flush" ELSE "idle"]]
    /\ UNCHANGED <<folder, server, rows, edits, extras>>

\* OutboxStore.enqueue: a row with this key in any state stays as it is.
Enqueue(c, kind, of) ==
    IF outbox[<<c, kind>>] # "none" THEN UNCHANGED rows
    ELSE /\ outbox' = [outbox EXCEPT ![<<c, kind>>] = "pending"]
         /\ queued' = IF kind = "proposal" THEN [queued EXCEPT ![c] = of] ELSE queued

NextCommand(t) == op' = [op EXCEPT ![t] = [Idle EXCEPT !.pc = "work", !.todo = op[t].todo]]
\* An error ends submit_one, or is reported as a failure of the command.
GiveUp(t) ==
    IF op[t].auto THEN Leave /\ UNCHANGED rows
    ELSE NextCommand(t) /\ Enqueue(op[t].id, "FAILED", Clean)
\* claim_command_for_analysis: the requests that the status seen calls for.
Claimed(st) == CASE st = "QUEUED" -> "DELIVERED" [] OTHER -> "ANALYZING"
Claim(t) ==
    /\ At(t, "claim") /\ LET c == op[t].id next == Claimed(op[t].st) IN
       \/ /\ op[t].st = "ANALYZING" /\ Goto(t, IF op[t].auto THEN "submit" ELSE "lookup")
          /\ UNCHANGED <<command, rows, extras>>
       \/ /\ op[t].st # "ANALYZING" /\ command[c] = op[t].st
          /\ command' = [command EXCEPT ![c] = next]
          /\ \/ op' = [op EXCEPT ![t].st = next] /\ UNCHANGED <<rows, extras>>
             \/ Extra /\ GiveUp(t)
       \/ /\ op[t].st # "ANALYZING" /\ command[c] # op[t].st /\ GiveUp(t)
          /\ UNCHANGED <<command, extras>>
    /\ UNCHANGED <<folder, status, offered, edits>>

\* resolve_proposal applies the rules of the root; without items there is nothing to submit.
Found == IF folder = Clean THEN "SUCCEEDED" ELSE "proposal"
\* process_organize_command looks the room up and analyses the folder as it is by now.
Analyse(t) ==
    /\ At(t, "lookup") /\ NextCommand(t)
    /\ Enqueue(op[t].id, Found, folder)
    /\ UNCHANGED <<folder, server, edits, extras>>

\* A request does not reach the server, or the folder cannot be read.
Fail(t) ==
    /\ op[t].pc \in {"count", "create", "claim", "submit", "lookup"} /\ Extra /\ GiveUp(t)
    /\ UNCHANGED <<folder, server, edits>>

-----------------------------------------------------------------------------
(* flush_outbox, at the end of the tick or by flush_agent_outbox.          *)

StartFlush(t) ==
    /\ \/ t = "tick" /\ At(t, "flush") /\ UNCHANGED extras
       \/ t = "window" /\ At(t, "idle") /\ Extra
    /\ op' = [op EXCEPT ![t] = [Idle EXCEPT !.pc = "deliver", !.todo = {r \in Report : outbox[r] = "pending"}]]
    /\ UNCHANGED <<folder, server, rows, edits>>
\* update_state: only a pending row changes.
Mark(r, state) ==
    outbox' = IF outbox[r] = "pending" THEN [outbox EXCEPT ![r] = state] ELSE outbox
Settle(t, r, state) == Mark(r, state) /\ op' = [op EXCEPT ![t].todo = @ \ {r}]
\* SUCCEEDED is refused before it is sent, FAILED after the transition table is consulted.
DeliverStatus(t, c, kind) ==
    /\ At(t, "deliver") /\ <<c, kind>> \in op[t].todo /\ kind # "proposal"
    /\ LET taken == kind = "FAILED" /\ command[c] = "ANALYZING" IN
       /\ command' = IF taken THEN [command EXCEPT ![c] = "FAILED"] ELSE command
       /\ Settle(t, <<c, kind>>, IF taken THEN "sent" ELSE "failed")
    /\ UNCHANGED <<folder, status, offered, queued, edits, extras>>
DeliverProposal(t, c) ==
    /\ At(t, "deliver") /\ <<c, "proposal">> \in op[t].todo
    /\ \/ Replayed(c, "outbox") /\ Settle(t, <<c, "proposal">>, "sent")
       \/ ~Replayed(c, "outbox") /\ ~Acceptable(c) /\ Settle(t, <<c, "proposal">>, "failed")
       \/ /\ ~Replayed(c, "outbox") /\ Acceptable(c)
          /\ op' = [op EXCEPT ![t].pc = "store", ![t].id = c] /\ UNCHANGED outbox
    /\ UNCHANGED <<folder, server, queued, edits, extras>>
StoreProposal(t) ==
    /\ At(t, "store") /\ LET c == op[t].id IN
       /\ InsertProposal(c, "outbox", queued[c])
       /\ op' = [op EXCEPT ![t] = [Idle EXCEPT !.pc = "deliver", !.todo = op[t].todo \ {<<c, "proposal">>}]]
       /\ \/ Mark(<<c, "proposal">>, "sent") /\ UNCHANGED extras
          \/ Extra /\ UNCHANGED outbox
    /\ UNCHANGED <<folder, queued, edits>>
\* A row whose request was lost stays pending.
DeliveryFails(t) ==
    /\ At(t, "deliver") /\ Extra /\ \E r \in op[t].todo : op' = [op EXCEPT ![t].todo = @ \ {r}]
    /\ UNCHANGED <<folder, server, rows, edits>>
EndFlush(t) ==
    /\ At(t, "deliver") /\ op[t].todo = {} /\ op' = [op EXCEPT ![t] = Idle]
    /\ UNCHANGED <<folder, server, rows, edits, extras>>

-----------------------------------------------------------------------------
(* Users and the process.                                                  *)

\* DecisionsService.create.
Decide(p, verdict) ==
    /\ status[p] = "OPEN" /\ status' = [status EXCEPT ![p] = verdict]
    /\ command' = [command EXCEPT ![p[1]] = verdict]
    /\ UNCHANGED <<folder, offered, rows, op, edits, extras>>
\* The approved plan is executed where it still fits the folder (Delegation, FileEngine).
Execute(p) ==
    /\ status[p] = "APPROVED" /\ status' = [status EXCEPT ![p] = "DONE"]
    /\ \/ /\ offered[p] = folder /\ folder' = Clean
          /\ command' = [command EXCEPT ![p[1]] = "SUCCEEDED"]
       \/ /\ offered[p] # folder /\ UNCHANGED folder
          /\ command' = [command EXCEPT ![p[1]] = "STALE"]
    /\ UNCHANGED <<offered, rows, op, edits, extras>>
Edit ==
    /\ edits < MaxEdits /\ edits' = edits + 1
    /\ folder' \in (Contents \cup {Clean}) \ {folder}
    /\ UNCHANGED <<server, rows, op, extras>>
Crash ==
    /\ Extra /\ op # [t \in Threads |-> Idle] /\ op' = [t \in Threads |-> Idle]
    /\ UNCHANGED <<folder, server, rows, edits>>

Work(t) ==
    \/ Take(t) \/ Claim(t) \/ Analyse(t) \/ Fail(t)
    \/ (\E c \in Contents : DeliverProposal(t, c) \/ \E k \in {"SUCCEEDED", "FAILED"} : DeliverStatus(t, c, k))
    \/ StoreProposal(t) \/ DeliveryFails(t) \/ EndFlush(t)
TickStep ==
    Scan \/ ScanSkipped \/ Count \/ Create \/ Submit \/ Insert \/ Poll("tick") \/ StartFlush("tick") \/ Work("tick")
WindowStep == Poll("window") \/ StartFlush("window") \/ Work("window")
UserStep ==
    Edit \/ \E p \in Proposal : Execute(p) \/ \E v \in {"APPROVED", "REJECTED"} : Decide(p, v)

Next == TickStep \/ WindowStep \/ UserStep \/ Crash

\* The timer of the background loop fires, and a command of the window that was begun goes on.
Spec == Init /\ [][Next]_vars /\ WF_vars(TickStep) /\ WF_vars(Work("window"))

-----------------------------------------------------------------------------
(* Properties.                                                             *)

\* Types of the folder, the tables, the outbox and the two threads.
TypeOK ==
    /\ folder \in Contents \cup {Clean}
    /\ command \in [Contents -> Statuses]
    /\ status \in [Proposal -> {"none", "OPEN", "APPROVED", "REJECTED", "DONE"}]
    /\ offered \in [Proposal -> Contents \cup {Clean}]
    /\ \A p \in Proposal : status[p] # "none" => offered[p] # Clean
    /\ outbox \in [Report -> {"none", "pending", "sent", "failed"}]
    /\ queued \in [Contents -> Contents \cup {Clean}]
    /\ \A t \in Threads : op[t].id \in Contents /\ op[t].of \in Contents /\ op[t].st \in Statuses

\* With every request answered, no crash and nobody at the window, the check for open proposals
\* and the passes that follow it in the tick keep a room to one open proposal, however the folder
\* changes in between.
OneAtATime == extras = 0 => Cardinality(Open) <= 1

\* Under the same condition a plan that was turned down is not offered again as long as the same
\* operations on the same source versions are what the scan finds.
NotOfferedAgain ==
    extras = 0 => \A p \in Open, q \in Proposal : status[q] = "REJECTED" => offered[p] # offered[q]

\* Commands that a lost request or a crash left behind are taken up again and leave the analysis
\* ("a timeout can resume the same server workflow instead of accumulating orphan commands"),
\* unless the folder has become clean: then the answer is refused locally (command_processor.rs).
OrphansSettle == []<>(folder = Clean \/ \A c \in Contents : command[c] \notin Pollable)

\* A folder that calls for a clean-up is offered, whatever was lost: a proposal is open, or the
\* command of just this finding is past its analysis.
FindingsAreOffered ==
    []<>(folder = Clean \/ Open # {} \/ (folder # Clean /\ command[folder] \notin Pollable \cup {"none"}))
=============================================================================
