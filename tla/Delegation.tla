------------------------------ MODULE Delegation ------------------------------
(***************************************************************************)
(* Delegated file work: a command travels from the phone (or from a chat   *)
(* draft) through the server to the desktop, comes back as a proposal,     *)
(* is approved or rejected, is executed by the desktop's file engine and   *)
(* its result is reported.                                                 *)
(*                                                                         *)
(* The server is a set of PostgreSQL transactions over the tables          *)
(* commands, proposals, decisions and executions (each command has at most *)
(* one row in each: the schema's unique indexes, and the command's id as   *)
(* the key of its proposal; the desktop's own clean-ups have a second key, *)
(* module AutoProposals).  The desktop is a set of                         *)
(* workers, the background tick and the calls of the UI, that run passes   *)
(* concurrently: a scan pass turns commands into proposals, a write pass   *)
(* executes approved decisions, a flush pass delivers the durable outbox.  *)
(* Scan and write passes hold a permit of WorkLimiter; flush passes do     *)
(* not.  A request may time out at the client and still be served later;   *)
(* the desktop may crash, and only the outbox survives.                    *)
(***************************************************************************)
EXTENDS Naturals, Sequences, FiniteSets

CONSTANTS
    Command,      \* the commands of one device
    Worker,       \* the background tick and the UI's concurrent calls
    Tick,         \* the background tick
    FromChat,     \* commands made by confirming a chat draft on the desktop
    Malformed,    \* commands whose payload the desktop cannot parse
    Unhandled,    \* commands whose intent the desktop has no handler for
    Analyses,     \* what analysing a folder may give: items, none, error
    Results,      \* the results an execution may have
    FlushBatch,   \* OUTBOX_FLUSH_BATCH
    MayTimeOut,   \* the passes in which a request may time out
    MaxTimeout,   \* bound: requests that time out
    MaxCrash      \* bound: crashes of the desktop

Pollable == {"QUEUED", "DELIVERED", "ANALYZING"}
CommandStatus == Pollable \cup
    {"PROPOSAL_READY", "WAITING_APPROVAL", "APPROVED", "REJECTED", "EXPIRED",
     "EXECUTING", "SUCCEEDED", "PARTIALLY_SUCCEEDED", "FAILED", "STALE"}
ExecutionResult == {"SUCCEEDED", "PARTIALLY_SUCCEEDED", "FAILED", "STALE"}

\* command-state.ts: the statuses a device may move a command through.
Transitions ==
    {<<"QUEUED", "DELIVERED">>, <<"DELIVERED", "ANALYZING">>,
     <<"ANALYZING", "PROPOSAL_READY">>, <<"ANALYZING", "FAILED">>,
     <<"PROPOSAL_READY", "WAITING_APPROVAL">>,
     <<"APPROVED", "EXECUTING">>}
    \cup ({"WAITING_APPROVAL"} \X {"APPROVED", "REJECTED", "EXPIRED"})
    \cup ({"EXECUTING"} \X ExecutionResult)
CanTransition(from, to) == <<from, to>> \in Transitions

Pass == {"idle", "draft", "scan", "write", "flush"}
Value == CommandStatus \cup {"OPEN"}
Op == {"status", "proposal", "claim", "result"}
\* A request: sent, being served (its transaction has read but not written),
\* answered, or given up by the client.  "run" is no request: it stands for
\* the result of an execution that is not in the outbox yet.
Request == [op: Op \cup {"run"}, c: Command, v: Value,
            st: {"sent", "read", "ok", "rejected", "lost"}]
NoCall == [op |-> "none", c |-> "none", v |-> "none", st |-> "none"]
Req(op, c, v, st) == [op |-> op, c |-> c, v |-> v, st |-> st]
Row == [kind: {"proposal", "status", "result"}, c: Command, v: Value,
        state: {"pending", "sent", "failed"}]

ASSUME DelegationAssumption ==
    /\ "none" \notin Command /\ Tick \in Worker
    /\ FromChat \subseteq Command
    /\ Malformed \subseteq Command /\ Unhandled \subseteq Command \ Malformed
    /\ Analyses \subseteq {"items", "none", "error"}
    /\ Results \subseteq ExecutionResult
    /\ FlushBatch \in Nat \ {0} /\ MaxTimeout \in Nat /\ MaxCrash \in Nat
    /\ MayTimeOut \subseteq Pass

VARIABLES
    cmd,        \* commands.status, or "none"
    proposal,   \* proposals.status, or "none"
    decision,   \* decisions.decision_type, or "none"
    execution,  \* executions.status, or "none"
    outbox,     \* the desktop_outbox table in id order
    pass,       \* what each worker is doing
    todo,       \* scan, write: the polled <<command, status>> not yet taken
    batch,      \* flush: the outbox rows still to deliver
    call,       \* the request that each worker is waiting for
    late,       \* requests given up by the client that the server may serve
    timeouts, crashes,  \* the bounds' counters
    runs        \* history: the results of a command's executions

server == <<cmd, proposal, decision, execution>>
workers == <<pass, todo, batch, call>>
bounds == <<timeouts, crashes>>
vars == <<server, outbox, workers, late, bounds, runs>>

TypeOK ==
    /\ cmd \in [Command -> CommandStatus \cup {"none"}]
    /\ proposal \in [Command -> {"none", "OPEN", "APPROVED", "REJECTED"}]
    /\ decision \in [Command -> {"none", "APPROVE", "REJECT"}]
    /\ execution \in [Command -> {"none", "EXECUTING"} \cup ExecutionResult]
    /\ outbox \in Seq(Row)
    /\ pass \in [Worker -> Pass]
    /\ todo \in [Worker -> SUBSET (Command \X CommandStatus)]
    /\ batch \in [Worker -> SUBSET Nat]
    /\ call \in [Worker -> Request \cup {NoCall}]
    /\ late \subseteq Request
    /\ timeouts \in 0..MaxTimeout /\ crashes \in 0..MaxCrash
    /\ runs \in [Command -> Seq(ExecutionResult)]

Init ==
    /\ cmd = [c \in Command |-> "none"]
    /\ proposal = [c \in Command |-> "none"]
    /\ decision = [c \in Command |-> "none"]
    /\ execution = [c \in Command |-> "none"]
    /\ outbox = <<>>
    /\ pass = [w \in Worker |-> "idle"]
    /\ todo = [w \in Worker |-> {}] /\ batch = [w \in Worker |-> {}]
    /\ call = [w \in Worker |-> NoCall] /\ late = {}
    /\ timeouts = 0 /\ crashes = 0
    /\ runs = [c \in Command |-> <<>>]

-----------------------------------------------------------------------------
(* The server's transactions.  Each handler serves a request r and says    *)
(* what becomes of it (st).                                                *)

\* Mutant: a report of failure is taken whatever the command's status.
UpdateStatusUnchecked(r, st) ==
    /\ r.op = "status" /\ r.st = "sent"
    /\ UNCHANGED <<proposal, decision, execution>>
    /\ IF CanTransition(cmd[r.c], r.v) \/ r.v = "FAILED"
       THEN st = "ok" /\ cmd' = [cmd EXCEPT ![r.c] = r.v]
       ELSE st = "rejected" /\ UNCHANGED cmd

\* CommandsService.update: the row is locked, the transition table decides.
UpdateStatus(r, st) ==
    /\ r.op = "status" /\ r.st = "sent"
    /\ UNCHANGED <<proposal, decision, execution>>
    /\ IF CanTransition(cmd[r.c], r.v)
       THEN st = "ok" /\ cmd' = [cmd EXCEPT ![r.c] = r.v]
       ELSE st = "rejected" /\ UNCHANGED cmd

\* ProposalsService.create reads the command without a lock.  A proposal with
\* this key (the command's id) is replayed.
ReadForProposal(r, st) ==
    /\ r.op = "proposal" /\ r.st = "sent"
    /\ st = IF proposal[r.c] # "none" THEN "ok"
            ELSE IF cmd[r.c] = "ANALYZING" THEN "read" ELSE "rejected"
    /\ UNCHANGED server

\* Mutant: the command's status is set although the insert found a row.
InsertProposalReopens(r, st) ==
    /\ r.op = "proposal" /\ r.st = "read"
    /\ st = "ok"
    /\ UNCHANGED <<decision, execution>>
    /\ proposal' = IF proposal[r.c] = "none" THEN [proposal EXCEPT ![r.c] = "OPEN"]
                   ELSE proposal
    /\ cmd' = [cmd EXCEPT ![r.c] = "WAITING_APPROVAL"]

\* It inserts unless another transaction has, and sets the command's status.
InsertProposal(r, st) ==
    /\ r.op = "proposal" /\ r.st = "read"
    /\ st = "ok"
    /\ UNCHANGED <<decision, execution>>
    /\ IF proposal[r.c] = "none"
       THEN /\ proposal' = [proposal EXCEPT ![r.c] = "OPEN"]
            /\ cmd' = [cmd EXCEPT ![r.c] = "WAITING_APPROVAL"]
       ELSE UNCHANGED <<proposal, cmd>>

\* ExecutionsService.create: the key is the decision's id, a second claim
\* gets the execution that is there, whatever its status.
CreateExecution(r, st) ==
    /\ r.op = "claim" /\ r.st = "sent"
    /\ UNCHANGED <<proposal, decision>>
    /\ IF decision[r.c] = "APPROVE" /\ proposal[r.c] = "APPROVED"
       THEN /\ st = "ok"
            /\ IF execution[r.c] = "none"
               THEN /\ execution' = [execution EXCEPT ![r.c] = "EXECUTING"]
                    /\ cmd' = [cmd EXCEPT ![r.c] = "EXECUTING"]
               ELSE UNCHANGED <<execution, cmd>>
       ELSE st = "rejected" /\ UNCHANGED <<execution, cmd>>

\* ExecutionsService.update: the key is the execution's id; the same result
\* again is a replay, another one a conflict.
UpdateExecution(r, st) ==
    /\ r.op = "result" /\ r.st = "sent"
    /\ UNCHANGED <<proposal, decision>>
    /\ IF execution[r.c] = "EXECUTING"
       THEN /\ st = "ok"
            /\ execution' = [execution EXCEPT ![r.c] = r.v]
            /\ cmd' = [cmd EXCEPT ![r.c] = r.v]
       ELSE /\ st = IF execution[r.c] = r.v THEN "ok" ELSE "rejected"
            /\ UNCHANGED <<execution, cmd>>

Handle(r, st) ==
    \/ UpdateStatus(r, st) \/ ReadForProposal(r, st) \/ InsertProposal(r, st)
    \/ CreateExecution(r, st) \/ UpdateExecution(r, st)

Serve(w) ==
    /\ \E st \in {"read", "ok", "rejected"} :
          Handle(call[w], st) /\ call' = [call EXCEPT ![w].st = st]
    /\ UNCHANGED <<outbox, pass, todo, batch, late, bounds, runs>>

\* A request whose client has given up is served all the same.
ServeLate(r) ==
    /\ \E st \in {"read", "ok", "rejected"} :
          /\ Handle(r, st)
          /\ late' = (late \ {r}) \cup (IF st = "read" THEN {[r EXCEPT !.st = st]} ELSE {})
    /\ UNCHANGED <<outbox, workers, bounds, runs>>

\* CommandsService.create, called by the phone.
CreateCommand(c) ==
    /\ c \notin FromChat /\ cmd[c] = "none"
    /\ cmd' = [cmd EXCEPT ![c] = "QUEUED"]
    /\ UNCHANGED <<proposal, decision, execution, outbox, workers, late, bounds, runs>>

\* DecisionsService.create: a decided proposal is only replayed or refused.
Decide(c, type) ==
    /\ proposal[c] = "OPEN"
    /\ decision' = [decision EXCEPT ![c] = type]
    /\ LET final == IF type = "APPROVE" THEN "APPROVED" ELSE "REJECTED"
       IN /\ proposal' = [proposal EXCEPT ![c] = final]
          /\ cmd' = [cmd EXCEPT ![c] = final]
    /\ UNCHANGED <<execution, outbox, workers, late, bounds, runs>>

-----------------------------------------------------------------------------
(* The desktop: shapes shared by the passes.                               *)

\* The outbox refuses a second row with the same kind and key in any state.
\* The key is the command's id, with the status for a status report, or the
\* execution's id.
Enqueue(kind, c, v) ==
    LET known == \E i \in 1..Len(outbox) :
                    /\ outbox[i].kind = kind /\ outbox[i].c = c
                    /\ kind = "status" => outbox[i].v = v
    IN outbox' = IF known THEN outbox
                 ELSE Append(outbox, [kind |-> kind, c |-> c, v |-> v, state |-> "pending"])

\* WorkLimiter: a pass starts only if no worker is in one of its kind.
PermitFree(kind) == \A w \in Worker : pass[w] # kind

Begin(w, kind) == pass[w] = "idle" /\ pass' = [pass EXCEPT ![w] = kind]
Between(w, kind) == pass[w] = kind /\ call[w] = NoCall
Answered(w, kind, op, st) ==
    pass[w] = kind /\ call[w].op = op /\ call[w].st \in st
Hang(w) == call' = [call EXCEPT ![w] = NoCall]

-----------------------------------------------------------------------------
(* Scan passes: process_commands.                                          *)

\* CommandsService.pending: commands being analysed are polled again.
PendingCommands == {<<c, cmd[c]>> : c \in {x \in Command : cmd[x] \in Pollable}}

StartScan(w) ==
    /\ Begin(w, "scan") /\ PermitFree("scan")
    /\ PendingCommands # {}
    /\ todo' = [todo EXCEPT ![w] = PendingCommands]
    /\ UNCHANGED <<server, outbox, batch, call, late, bounds, runs>>

\* approve_agent_command_draft_and_execute: confirming the draft creates the
\* command or replays it; the answer is processed once the permit is free,
\* and dropped if it is not.
ConfirmDraft(w, c) ==
    /\ c \in FromChat /\ Begin(w, "draft")
    /\ cmd' = IF cmd[c] = "none" THEN [cmd EXCEPT ![c] = "QUEUED"] ELSE cmd
    /\ todo' = [todo EXCEPT ![w] = {<<c, cmd'[c]>>}]
    /\ UNCHANGED <<proposal, decision, execution, outbox, batch, call, late, bounds, runs>>

ScanDraft(w) ==
    /\ pass[w] = "draft"
    /\ IF PermitFree("scan")
       THEN pass' = [pass EXCEPT ![w] = "scan"] /\ UNCHANGED todo
       ELSE pass' = [pass EXCEPT ![w] = "idle"] /\ todo' = [todo EXCEPT ![w] = {}]
    /\ UNCHANGED <<server, outbox, batch, call, late, bounds, runs>>

\* claim_command_for_analysis: the request that the polled status calls for;
\* a command that is already being analysed counts as claimed.
ClaimRequest(c, seen) ==
    CASE seen = "QUEUED" -> Req("status", c, "DELIVERED", "sent")
      [] seen = "DELIVERED" -> Req("status", c, "ANALYZING", "sent")
      [] OTHER -> Req("status", c, "ANALYZING", "ok")

TakeCommand(w) ==
    /\ Between(w, "scan")
    /\ \E x \in todo[w] :
          /\ todo' = [todo EXCEPT ![w] = @ \ {x}]
          /\ IF x[2] \notin Pollable
             THEN UNCHANGED <<call, outbox>>
             ELSE IF x[1] \in Malformed
             THEN Enqueue("status", x[1], "FAILED") /\ UNCHANGED call
             ELSE /\ call' = [call EXCEPT ![w] = ClaimRequest(x[1], x[2])]
                  /\ UNCHANGED outbox
    /\ UNCHANGED <<server, pass, batch, late, bounds, runs>>

ClaimDelivered(w) ==
    /\ Answered(w, "scan", "status", {"ok"}) /\ call[w].v = "DELIVERED"
    /\ call' = [call EXCEPT ![w] = Req("status", call[w].c, "ANALYZING", "sent")]
    /\ UNCHANGED <<server, outbox, pass, todo, batch, late, bounds, runs>>

\* A claim that fails is reported as a failure of the command.
ClaimFails(w) ==
    /\ Answered(w, "scan", "status", {"rejected", "lost"})
    /\ IF call[w].c \in Unhandled THEN UNCHANGED outbox
       ELSE Enqueue("status", call[w].c, "FAILED")
    /\ Hang(w)
    /\ UNCHANGED <<server, pass, todo, batch, late, bounds, runs>>

\* The folder is analysed and the outcome goes to the outbox.
Analyse(w) ==
    /\ Answered(w, "scan", "status", {"ok"}) /\ call[w].v = "ANALYZING"
    /\ \E a \in IF call[w].c \in Unhandled THEN {"error"} ELSE Analyses :
          CASE a = "items" -> Enqueue("proposal", call[w].c, "OPEN")
            [] a = "none"  -> Enqueue("status", call[w].c, "SUCCEEDED")
            [] a = "error" -> Enqueue("status", call[w].c, "FAILED")
    /\ Hang(w)
    /\ UNCHANGED <<server, pass, todo, batch, late, bounds, runs>>

-----------------------------------------------------------------------------
(* Write passes: process_pending_decisions.                                *)

\* DecisionsService.pending: approved, and no execution yet.
PendingDecisions ==
    {<<c, "APPROVED">> :
        c \in {x \in Command : decision[x] = "APPROVE" /\ execution[x] = "none"}}

\* Mutant: the write permit is not taken.
StartWriteUnlimited(w) ==
    /\ Begin(w, "write")
    /\ PendingDecisions # {}
    /\ todo' = [todo EXCEPT ![w] = PendingDecisions]
    /\ UNCHANGED <<server, outbox, batch, call, late, bounds, runs>>

StartWrite(w) ==
    /\ Begin(w, "write") /\ PermitFree("write")
    /\ PendingDecisions # {}
    /\ todo' = [todo EXCEPT ![w] = PendingDecisions]
    /\ UNCHANGED <<server, outbox, batch, call, late, bounds, runs>>

TakeDecision(w) ==
    /\ Between(w, "write")
    /\ \E x \in todo[w] :
          /\ todo' = [todo EXCEPT ![w] = @ \ {x}]
          /\ call' = [call EXCEPT ![w] = Req("claim", x[1], "EXECUTING", "sent")]
    /\ UNCHANGED <<server, outbox, pass, batch, late, bounds, runs>>

\* Mutant: a claim without an answer is reported as a failed execution.
ExecutionRefusedReports(w) ==
    /\ Answered(w, "write", "claim", {"rejected", "lost"})
    /\ Enqueue("result", call[w].c, "FAILED")
    /\ Hang(w)
    /\ UNCHANGED <<server, pass, todo, batch, late, bounds, runs>>

\* No file is touched without the server's answer to the claim.
ExecutionRefused(w) ==
    /\ Answered(w, "write", "claim", {"rejected", "lost"})
    /\ Hang(w)
    /\ UNCHANGED <<server, outbox, pass, todo, batch, late, bounds, runs>>

\* The file engine runs (module FileEngine) ...
ExecuteDecision(w) ==
    /\ Answered(w, "write", "claim", {"ok"})
    /\ \E v \in Results :
          /\ call' = [call EXCEPT ![w] = Req("run", call[w].c, v, "ok")]
          /\ runs' = [runs EXCEPT ![call[w].c] = Append(@, v)]
    /\ UNCHANGED <<server, outbox, pass, todo, batch, late, bounds>>

\* ... and only then its result is made durable.
ReportResult(w) ==
    /\ Answered(w, "write", "run", {"ok"})
    /\ Enqueue("result", call[w].c, call[w].v)
    /\ Hang(w)
    /\ UNCHANGED <<server, pass, todo, batch, late, bounds, runs>>

-----------------------------------------------------------------------------
(* Flush passes: flush_outbox.  No permit: several may run at a time.      *)

Pending == {i \in 1..Len(outbox) : outbox[i].state = "pending"}

\* pending_batch: the oldest pending rows.
PendingBatch == {i \in Pending : Cardinality({j \in Pending : j < i}) < FlushBatch}

StartFlush(w) ==
    /\ Begin(w, "flush")
    /\ Pending # {}
    /\ batch' = [batch EXCEPT ![w] = PendingBatch]
    /\ UNCHANGED <<server, outbox, todo, call, late, bounds, runs>>

\* The row a flush pass is at.
Current(w, i) == i \in batch[w] /\ \A j \in batch[w] : i <= j

\* update_state: only a pending row changes.
Mark(i, state) ==
    outbox' = IF outbox[i].state = "pending" THEN [outbox EXCEPT ![i].state = state]
              ELSE outbox

\* dispatch: update_command_status accepts only DELIVERED, ANALYZING and
\* FAILED; another status is a terminal error that never reaches the server.
TakeRow(w) ==
    /\ Between(w, "flush")
    /\ \E i \in batch[w] :
          /\ Current(w, i)
          /\ IF outbox[i].kind = "status" /\ outbox[i].v = "SUCCEEDED"
             THEN /\ Mark(i, "failed")
                  /\ batch' = [batch EXCEPT ![w] = @ \ {i}]
                  /\ UNCHANGED call
             ELSE /\ call' = [call EXCEPT ![w] =
                                 Req(outbox[i].kind, outbox[i].c, outbox[i].v, "sent")]
                  /\ UNCHANGED <<outbox, batch>>
    /\ UNCHANGED <<server, pass, todo, late, bounds, runs>>

\* Mutant: a timeout is taken for a refusal.
DeliveryVerdictHasty(st) == IF st = "ok" THEN "sent" ELSE "failed"

\* Mutant: a timeout moves the row to a state that pending_batch does not read.
DeliveryVerdictRetry(st) ==
    CASE st = "ok" -> "sent" [] st = "lost" -> "retry" [] OTHER -> "failed"

\* classify: a timeout leaves the row pending, a refusal makes it dead.
DeliveryVerdict(st) ==
    CASE st = "ok" -> "sent" [] st = "lost" -> "pending" [] OTHER -> "failed"

SettleRow(w) ==
    /\ pass[w] = "flush" /\ call[w].st \in {"ok", "rejected", "lost"}
    /\ \E i \in batch[w] :
          /\ Current(w, i)
          /\ Mark(i, DeliveryVerdict(call[w].st))
          /\ batch' = [batch EXCEPT ![w] = @ \ {i}]
    /\ Hang(w)
    /\ UNCHANGED <<server, pass, todo, late, bounds, runs>>

EndPass(w) ==
    /\ pass[w] \in {"scan", "write", "flush"} /\ call[w] = NoCall
    /\ todo[w] = {} /\ batch[w] = {}
    /\ pass' = [pass EXCEPT ![w] = "idle"]
    /\ UNCHANGED <<server, outbox, todo, batch, call, late, bounds, runs>>

-----------------------------------------------------------------------------
(* The network and the process.                                            *)

Unserved(r) == r.st \in {"sent", "read"}

\* The client gives up: the request, or its answer, is lost to it.
TimeOut(w) ==
    /\ pass[w] \in MayTimeOut /\ timeouts < MaxTimeout
    /\ call[w].op \in Op /\ call[w].st # "lost"
    /\ timeouts' = timeouts + 1
    /\ late' = IF Unserved(call[w]) THEN late \cup {call[w]} ELSE late
    /\ call' = [call EXCEPT ![w].st = "lost"]
    /\ UNCHANGED <<server, outbox, pass, todo, batch, crashes, runs>>

Crash ==
    /\ \E w \in Worker : pass[w] # "idle"
    /\ crashes < MaxCrash
    /\ crashes' = crashes + 1
    /\ late' = late \cup {call[w] : w \in {x \in Worker : Unserved(call[x])}}
    /\ pass' = [w \in Worker |-> "idle"]
    /\ todo' = [w \in Worker |-> {}] /\ batch' = [w \in Worker |-> {}]
    /\ call' = [w \in Worker |-> NoCall]
    /\ UNCHANGED <<server, outbox, timeouts, runs>>

-----------------------------------------------------------------------------

Step(w) ==
    \/ Serve(w)
    \/ ScanDraft(w) \/ TakeCommand(w) \/ ClaimDelivered(w) \/ ClaimFails(w) \/ Analyse(w)
    \/ TakeDecision(w) \/ ExecutionRefused(w) \/ ExecuteDecision(w) \/ ReportResult(w)
    \/ TakeRow(w) \/ SettleRow(w)
    \/ EndPass(w)

User ==
    \/ \E c \in Command : CreateCommand(c) \/ \E t \in {"APPROVE", "REJECT"} : Decide(c, t)
    \/ \E w \in Worker, c \in Command : ConfirmDraft(w, c)

Next ==
    \/ User
    \/ \E w \in Worker : Step(w) \/ StartScan(w) \/ StartWrite(w) \/ StartFlush(w) \/ TimeOut(w)
    \/ \E r \in late : ServeLate(r)
    \/ Crash

Spec == Init /\ [][Next]_vars

\* A pass that has begun goes on (the runtime polls its future); the tick
\* begins each kind of pass again and again (background.rs), and a permit held
\* by another worker is held for one pass only.  The user need not do anything.
Fairness ==
    /\ \A w \in Worker : WF_vars(Step(w))
    /\ SF_vars(StartScan(Tick)) /\ SF_vars(StartWrite(Tick)) /\ SF_vars(StartFlush(Tick))

FairSpec == Spec /\ Fairness

-----------------------------------------------------------------------------
(* Properties.                                                             *)

\* No file is changed without an APPROVE decision in the database, and an
\* approved decision is executed at most once, whatever passes run at the same
\* time, time out or die, and although a claim that is repeated is answered
\* with the execution that is already there (docs/e2e-scenarios.md, "No file
\* changes occur before approval", "Duplicate approval with the same
\* idempotency key does not execute twice").
RunsOnceApproved ==
    \A c \in Command : Len(runs[c]) <= 1 /\ (runs[c] # <<>> => decision[c] = "APPROVE")

\* What the phone shows as an execution's result is what the file engine did.
ReportIsTrue ==
    \A c \in Command : execution[c] \in ExecutionResult => runs[c] = <<execution[c]>>

\* The four tables agree: a proposal is open exactly while its command waits
\* for approval, a decision fits its proposal, and from the approval on the
\* command's status is the execution's.  Only CommandsService.update checks the
\* transition table; all the other handlers overwrite the command's status.
\* (A late report that the analysis failed may fail a command that is being
\* executed: the exception.)
TablesAgree ==
    \A c \in Command :
        /\ proposal[c] = "OPEN" <=> cmd[c] = "WAITING_APPROVAL"
        /\ proposal[c] = "REJECTED" <=> cmd[c] = "REJECTED"
        /\ decision[c] = "APPROVE" <=> proposal[c] = "APPROVED"
        /\ decision[c] = "REJECT" <=> proposal[c] = "REJECTED"
        /\ execution[c] # "none" => 
              /\ proposal[c] = "APPROVED"
              /\ cmd[c] = execution[c] \/ (execution[c] = "EXECUTING" /\ cmd[c] = "FAILED")
        /\ proposal[c] = "APPROVED" /\ execution[c] = "none" => cmd[c] = "APPROVED"

\* What the user was shown as the end stays: a rejected command and one whose
\* execution has a result change no more, whatever stale reports, repeated
\* results and late requests still arrive (command-state.spec.ts: "rejects
\* skipped approval and terminal replay").  FAILED without a result is not such
\* an end: InsertProposal and UpdateExecution write over it.
FinalIsFinal ==
    [][\A c \in Command :
          cmd[c] = "REJECTED" \/ execution[c] \in ExecutionResult =>
              cmd'[c] = cmd[c] /\ execution'[c] = execution[c]]_vars

\* Every approved decision gets a final result at the server.
ApprovedIsSettled ==
    \A c \in Command : decision[c] = "APPROVE" ~> execution[c] \in ExecutionResult

\* Every command leaves the polled statuses: it gets a proposal or fails.
CommandSettles ==
    \A c \in Command : cmd[c] = "QUEUED" ~> cmd[c] \notin Pollable
====
