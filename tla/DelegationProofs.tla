--------------------------- MODULE DelegationProofs ---------------------------
(***************************************************************************)
(* Proofs about module Delegation: for every set of commands and workers   *)
(* and any number of timeouts and crashes, the state is well typed, the    *)
(* four tables of the server agree, an approved decision is executed at    *)
(* most once and nothing else is executed, and a reported result is what   *)
(* the file engine did.                                                    *)
(*                                                                         *)
(* The inductive invariant Inv has one part per place a fact can hide in:  *)
(* the tables, the outbox, the requests under way, the requests given up,  *)
(* and the write pass.                                                     *)
(***************************************************************************)
EXTENDS Delegation, TLAPS

ServerType ==
    /\ cmd \in [Command -> CommandStatus \cup {"none"}]
    /\ proposal \in [Command -> {"none", "OPEN", "APPROVED", "REJECTED"}]
    /\ decision \in [Command -> {"none", "APPROVE", "REJECT"}]
    /\ execution \in [Command -> {"none", "EXECUTING"} \cup ExecutionResult]

\* A result on its way to the server is the result of the only execution.
IsTrue(c, v) == v \in ExecutionResult /\ runs[c] = <<v>>

RowInv(row) ==
    /\ row \in Row
    /\ row.kind = "status" => row.v \in {"SUCCEEDED", "FAILED"}
    /\ row.kind = "result" => IsTrue(row.c, row.v)

RequestInv(r) ==
    /\ r \in Request
    /\ r.op = "status" => r.v \in {"DELIVERED", "ANALYZING", "FAILED"}
    /\ r.op \in {"result", "run"} => IsTrue(r.c, r.v)

OutboxInv ==
    /\ outbox \in Seq(Row)
    /\ \A i \in 1..Len(outbox) : RowInv(outbox[i])

LateInv == \A r \in late : RequestInv(r)

CallInv ==
    /\ call \in [Worker -> Request \cup {NoCall}]
    /\ \A w \in Worker : call[w] = NoCall \/ RequestInv(call[w])

PassInv ==
    /\ pass \in [Worker -> Pass]
    /\ todo \in [Worker -> SUBSET (Command \X CommandStatus)]

BatchInv ==
    /\ batch \in [Worker -> SUBSET Nat]
    /\ \A w \in Worker : batch[w] \subseteq 1..Len(outbox)

CountInv ==
    /\ timeouts \in 0..MaxTimeout /\ crashes \in 0..MaxCrash

RunsInv ==
    /\ runs \in [Command -> Seq(ExecutionResult)]
    /\ \A c \in Command : Len(runs[c]) <= 1
    /\ \A c \in Command : runs[c] # <<>> => execution[c] # "none"

\* There is one write pass at a time, and neither the decision it is claiming
\* nor those it has polled have been executed.
WriteInv ==
    /\ \A w, x \in Worker : pass[w] = "write" /\ pass[x] = "write" => w = x
    /\ \A w \in Worker : pass[w] = "write" =>
          \A t \in todo[w] : t[2] = "APPROVED" /\ runs[t[1]] = <<>>
    /\ \A w \in Worker : call[w].op = "claim" =>
          /\ pass[w] = "write"
          /\ runs[call[w].c] = <<>>
          /\ \A t \in todo[w] : t[1] # call[w].c
          /\ call[w].st = "ok" => execution[call[w].c] # "none"

Inv ==
    /\ ServerType /\ TablesAgree /\ ReportIsTrue
    /\ OutboxInv /\ LateInv /\ CallInv /\ PassInv /\ BatchInv /\ CountInv
    /\ RunsInv /\ WriteInv

-----------------------------------------------------------------------------
(* The server's transactions keep the tables in agreement.                 *)

LEMMA UpdateStatusKeeps ==
    ASSUME ServerType, TablesAgree, NEW r, RequestInv(r), NEW st, UpdateStatus(r, st)
    PROVE  ServerType' /\ TablesAgree' /\ execution' = execution
<1>1. /\ r.c \in Command /\ r.v \in {"DELIVERED", "ANALYZING", "FAILED"}
      /\ UNCHANGED <<proposal, decision, execution>>
      /\ \/ CanTransition(cmd[r.c], r.v) /\ cmd' = [cmd EXCEPT ![r.c] = r.v]
         \/ cmd' = cmd
  BY DEF UpdateStatus, RequestInv, Request
<1>2. CASE cmd' = cmd
  BY <1>1, <1>2 DEF ServerType, TablesAgree
<1>3. CASE CanTransition(cmd[r.c], r.v) /\ cmd' = [cmd EXCEPT ![r.c] = r.v]
  <2>1. \/ cmd[r.c] \in Pollable
        \/ cmd[r.c] = "EXECUTING" /\ r.v = "FAILED"
    BY <1>1, <1>3 DEF CanTransition, Transitions, ExecutionResult, Pollable
  <2>2. ServerType'
    BY <1>1, <1>3 DEF ServerType, CommandStatus, Pollable
  <2>3. ASSUME NEW c \in Command, c # r.c PROVE cmd'[c] = cmd[c]
    BY <1>1, <1>3, <2>3 DEF ServerType
  <2>4. cmd'[r.c] = r.v
    BY <1>1, <1>3 DEF ServerType
  <2>5. TablesAgree'
    BY <1>1, <2>1, <2>3, <2>4 DEF ServerType, TablesAgree, Pollable, ExecutionResult
  <2> QED
    BY <1>1, <2>2, <2>5
<1> QED
  BY <1>1, <1>2, <1>3

LEMMA InsertProposalKeeps ==
    ASSUME ServerType, TablesAgree, NEW r, RequestInv(r), NEW st, InsertProposal(r, st)
    PROVE  ServerType' /\ TablesAgree' /\ execution' = execution
<1>1. r.c \in Command /\ UNCHANGED <<decision, execution>>
  BY DEF InsertProposal, RequestInv, Request
<1>2. CASE proposal[r.c] = "none"
  <2>1. /\ proposal' = [proposal EXCEPT ![r.c] = "OPEN"]
        /\ cmd' = [cmd EXCEPT ![r.c] = "WAITING_APPROVAL"]
    BY <1>2 DEF InsertProposal
  <2>2. ServerType'
    BY <1>1, <2>1 DEF ServerType, CommandStatus
  <2>3. TablesAgree'
    BY <1>1, <1>2, <2>1 DEF ServerType, TablesAgree, ExecutionResult
  <2> QED
    BY <1>1, <2>2, <2>3
<1>3. CASE proposal[r.c] # "none"
  BY <1>1, <1>3 DEF InsertProposal, ServerType, TablesAgree
<1> QED
  BY <1>2, <1>3

LEMMA CreateExecutionKeeps ==
    ASSUME ServerType, TablesAgree, NEW r, RequestInv(r), NEW st, CreateExecution(r, st)
    PROVE  /\ ServerType' /\ TablesAgree'
           /\ \A c \in Command : \/ execution'[c] = execution[c]
                                 \/ execution[c] = "none" /\ execution'[c] = "EXECUTING"
           /\ st = "ok" => execution'[r.c] # "none"
<1>1. r.c \in Command /\ UNCHANGED <<proposal, decision>>
  BY DEF CreateExecution, RequestInv, Request
<1>2. CASE /\ decision[r.c] = "APPROVE" /\ proposal[r.c] = "APPROVED"
           /\ execution[r.c] = "none"
  <2>1. /\ execution' = [execution EXCEPT ![r.c] = "EXECUTING"]
        /\ cmd' = [cmd EXCEPT ![r.c] = "EXECUTING"]
    BY <1>2 DEF CreateExecution
  <2>2. ServerType'
    BY <1>1, <2>1 DEF ServerType, CommandStatus
  <2>3. TablesAgree'
    BY <1>1, <1>2, <2>1 DEF ServerType, TablesAgree, ExecutionResult
  <2> QED
    BY <1>1, <1>2, <2>1, <2>2, <2>3 DEF ServerType
<1>3. CASE ~(/\ decision[r.c] = "APPROVE" /\ proposal[r.c] = "APPROVED"
             /\ execution[r.c] = "none")
  <2>1. UNCHANGED <<execution, cmd>> /\ (st = "ok" => execution[r.c] # "none")
    BY <1>3 DEF CreateExecution
  <2> QED
    BY <1>1, <2>1 DEF ServerType, TablesAgree
<1> QED
  BY <1>2, <1>3

LEMMA UpdateExecutionKeeps ==
    ASSUME ServerType, TablesAgree, NEW r, RequestInv(r), NEW st, UpdateExecution(r, st)
    PROVE  /\ ServerType' /\ TablesAgree'
           /\ \A c \in Command :
                 \/ execution'[c] = execution[c]
                 \/ execution[c] = "EXECUTING" /\ IsTrue(c, execution'[c])
<1>1. /\ r.c \in Command /\ IsTrue(r.c, r.v) /\ r.v \in ExecutionResult
      /\ UNCHANGED <<proposal, decision>>
  BY DEF UpdateExecution, RequestInv, Request, IsTrue
<1>2. CASE execution[r.c] = "EXECUTING"
  <2>1. /\ execution' = [execution EXCEPT ![r.c] = r.v]
        /\ cmd' = [cmd EXCEPT ![r.c] = r.v]
    BY <1>2 DEF UpdateExecution
  <2>2. ServerType'
    BY <1>1, <2>1 DEF ServerType, CommandStatus, ExecutionResult
  <2>3. TablesAgree'
    BY <1>1, <1>2, <2>1 DEF ServerType, TablesAgree, ExecutionResult
  <2>4. \A c \in Command : execution'[c] = IF c = r.c THEN r.v ELSE execution[c]
    BY <1>1, <2>1 DEF ServerType
  <2> QED
    BY <1>1, <1>2, <2>2, <2>3, <2>4
<1>3. CASE execution[r.c] # "EXECUTING"
  <2>1. UNCHANGED <<execution, cmd>>
    BY <1>3 DEF UpdateExecution
  <2> QED
    BY <1>1, <2>1 DEF ServerType, TablesAgree
<1> QED
  BY <1>2, <1>3

\* What every transaction does to the executions: they are created once, and
\* finished once, with the result of the file engine's run.
ExecutionStep ==
    \A c \in Command :
        \/ execution'[c] = execution[c]
        \/ execution[c] = "none" /\ execution'[c] = "EXECUTING"
        \/ execution[c] = "EXECUTING" /\ IsTrue(c, execution'[c])

LEMMA HandleKeeps ==
    ASSUME ServerType, TablesAgree, NEW r, RequestInv(r), NEW st, Handle(r, st)
    PROVE  /\ ServerType' /\ TablesAgree' /\ ExecutionStep
           /\ r.op = "claim" /\ st = "ok" => execution'[r.c] # "none"
           /\ r.op \in Op
<1>1. CASE UpdateStatus(r, st)
  <2>1. r.op = "status"
    BY <1>1 DEF UpdateStatus
  <2> QED
    BY <1>1, <2>1, UpdateStatusKeeps DEF ExecutionStep, Op
<1>2. CASE ReadForProposal(r, st)
  BY <1>2 DEF ReadForProposal, ExecutionStep, Op, server, ServerType, TablesAgree
<1>3. CASE InsertProposal(r, st)
  <2>1. r.op = "proposal"
    BY <1>3 DEF InsertProposal
  <2> QED
    BY <1>3, <2>1, InsertProposalKeeps DEF ExecutionStep, Op
<1>4. CASE CreateExecution(r, st)
  <2>1. r.op = "claim"
    BY <1>4 DEF CreateExecution
  <2> QED
    BY <1>4, <2>1, CreateExecutionKeeps DEF ExecutionStep, Op
<1>5. CASE UpdateExecution(r, st)
  <2>1. r.op = "result"
    BY <1>5 DEF UpdateExecution
  <2> QED
    BY <1>5, <2>1, UpdateExecutionKeeps DEF ExecutionStep, Op
<1> QED
  BY <1>1, <1>2, <1>3, <1>4, <1>5 DEF Handle

-----------------------------------------------------------------------------
(* The outbox.                                                             *)

LEMMA EnqueueKeeps ==
    ASSUME OutboxInv, UNCHANGED runs,
           NEW kind \in {"proposal", "status", "result"}, NEW c \in Command, NEW v \in Value,
           kind = "status" => v \in {"SUCCEEDED", "FAILED"},
           kind = "result" => IsTrue(c, v),
           Enqueue(kind, c, v)
    PROVE  OutboxInv' /\ Len(outbox') >= Len(outbox)
<1> DEFINE row == [kind |-> kind, c |-> c, v |-> v, state |-> "pending"]
<1>1. row \in Row /\ RowInv(row)
  BY DEF Row, RowInv
<1>2. outbox' = outbox \/ outbox' = Append(outbox, row)
  BY DEF Enqueue
<1> HIDE DEF row
<1>3. CASE outbox' = outbox
  BY <1>3 DEF OutboxInv, RowInv, IsTrue
<1>4. CASE outbox' = Append(outbox, row)
  <2>1. /\ outbox' \in Seq(Row) /\ Len(outbox') = Len(outbox) + 1
        /\ Len(outbox) \in Nat
        /\ outbox'[Len(outbox) + 1] = row
        /\ \A i \in 1..Len(outbox) : outbox'[i] = outbox[i]
    BY <1>1, <1>4 DEF OutboxInv
  <2>2. ASSUME NEW i \in 1..Len(outbox') PROVE RowInv(outbox[i])'
    <3>1. i \in 1..Len(outbox) \/ i = Len(outbox) + 1
      BY <2>1
    <3>2. RowInv(outbox'[i])
      BY <1>1, <2>1, <3>1 DEF OutboxInv
    <3> QED
      BY <3>2 DEF RowInv, IsTrue
  <2> QED
    BY <2>1, <2>2 DEF OutboxInv
<1> QED
  BY <1>2, <1>3, <1>4

LEMMA MarkKeeps ==
    ASSUME OutboxInv, UNCHANGED runs,
           NEW i \in 1..Len(outbox), NEW s \in {"pending", "sent", "failed"}, Mark(i, s)
    PROVE  OutboxInv' /\ Len(outbox') = Len(outbox)
<1>1. outbox' = outbox \/ outbox' = [outbox EXCEPT ![i].state = s]
  BY DEF Mark
<1>2. CASE outbox' = outbox
  BY <1>2 DEF OutboxInv, RowInv, IsTrue
<1>3. CASE outbox' = [outbox EXCEPT ![i].state = s]
  <2> DEFINE row == [outbox[i] EXCEPT !.state = s]
  <2>1. outbox[i] \in Row /\ RowInv(outbox[i])
    BY DEF OutboxInv
  <2>2. /\ row \in Row /\ row.kind = outbox[i].kind
        /\ row.c = outbox[i].c /\ row.v = outbox[i].v
    BY <2>1 DEF Row
  <2>3. RowInv(row)
    BY <2>1, <2>2 DEF RowInv
  <2> HIDE DEF row
  <2>4. outbox' = [outbox EXCEPT ![i] = row]
    BY <1>3 DEF row
  <2>5. /\ outbox' \in Seq(Row) /\ Len(outbox') = Len(outbox)
        /\ \A j \in 1..Len(outbox) : outbox'[j] = IF j = i THEN row ELSE outbox[j]
    BY <2>2, <2>4 DEF OutboxInv
  <2>6. ASSUME NEW j \in 1..Len(outbox) PROVE RowInv(outbox[j])'
    <3>1. RowInv(outbox'[j])
      BY <2>3, <2>5 DEF OutboxInv
    <3> QED
      BY <3>1 DEF RowInv, IsTrue
  <2> QED
    BY <2>5, <2>6 DEF OutboxInv
<1> QED
  BY <1>1, <1>2, <1>3

\* No execution disappears.
ExecutionsKept ==
    \A c \in Command : execution[c] # "none" => execution'[c] # "none"

\* Worker w may wait for request r: a claim is the write pass's own, of a
\* decision that has not been executed.
MayWait(w, r) ==
    r.op = "claim" => /\ pass[w] = "write" /\ runs[r.c] = <<>>
                      /\ \A t \in todo[w] : t[1] # r.c

-----------------------------------------------------------------------------
(* What stays when the variables a part of the invariant speaks of stay.   *)

LEMMA ServerFrame ==
    ASSUME Inv, UNCHANGED <<server, runs>>
    PROVE  (ServerType /\ TablesAgree /\ ReportIsTrue /\ RunsInv)'
  BY DEF Inv, server, ServerType, TablesAgree, ReportIsTrue, RunsInv

LEMMA OutboxFrame == ASSUME Inv, UNCHANGED <<outbox, runs>> PROVE OutboxInv'
  BY DEF Inv, OutboxInv, RowInv, IsTrue

LEMMA LateFrame == ASSUME Inv, UNCHANGED <<late, runs>> PROVE LateInv'
  BY DEF Inv, LateInv, RequestInv, IsTrue

LEMMA CallFrame == ASSUME Inv, UNCHANGED <<call, runs>> PROVE CallInv'
  BY DEF Inv, CallInv, RequestInv, IsTrue

\* One worker's request changes.
LEMMA CallStep ==
    ASSUME Inv, UNCHANGED runs, NEW w \in Worker, NEW r,
           r = NoCall \/ RequestInv(r),
           call' = [call EXCEPT ![w] = r]
    PROVE  CallInv'
<1>1. r \in Request \cup {NoCall}
  BY DEF RequestInv
<1>2. call' \in [Worker -> Request \cup {NoCall}]
  BY <1>1 DEF Inv, CallInv
<1>3. ASSUME NEW x \in Worker PROVE (call[x] = NoCall \/ RequestInv(call[x]))'
  <2>1. call'[x] = IF x = w THEN r ELSE call[x]
    BY DEF Inv, CallInv
  <2>2. call'[x] = NoCall \/ RequestInv(call'[x])
    BY <2>1 DEF Inv, CallInv
  <2> QED
    BY <2>2 DEF RequestInv, IsTrue
<1> QED
  BY <1>2, <1>3 DEF CallInv

\* The executions take a step that the server can make.
LEMMA ExecutionStepKeeps ==
    ASSUME Inv, UNCHANGED runs, ServerType', ExecutionStep
    PROVE  ReportIsTrue' /\ RunsInv'
<1>1. ExecutionsKept
  BY DEF ExecutionStep, IsTrue, ExecutionResult, ExecutionsKept
<1>2. RunsInv'
  BY <1>1 DEF Inv, RunsInv, ExecutionsKept
<1>3. ReportIsTrue'
  BY DEF Inv, ReportIsTrue, ExecutionStep, IsTrue, ExecutionResult
<1> QED
  BY <1>2, <1>3

LEMMA BatchFrame ==
    ASSUME Inv, UNCHANGED batch, OutboxInv', Len(outbox') >= Len(outbox)
    PROVE  BatchInv'
<1>1. Len(outbox) \in Nat /\ Len(outbox') \in Nat
  BY DEF Inv, OutboxInv
<1>2. 1..Len(outbox) \subseteq 1..Len(outbox')
  BY <1>1
<1> QED
  BY <1>2 DEF Inv, BatchInv

LEMMA WriteFrame ==
    ASSUME Inv, UNCHANGED <<pass, todo, call, runs>>,
           ExecutionsKept
    PROVE  WriteInv'
<1>1. \A w \in Worker : call[w].op = "claim" => call[w].c \in Command
  BY DEF Inv, CallInv, NoCall, RequestInv, Request
<1> QED
  BY <1>1 DEF Inv, WriteInv, ExecutionsKept

\* One worker's request changes; if it is a claim, it is one the write pass
\* may make.
LEMMA WriteCall ==
    ASSUME Inv, UNCHANGED <<pass, todo, runs>>,
           ExecutionsKept,
           NEW w \in Worker, NEW r, call' = [call EXCEPT ![w] = r],
           MayWait(w, r), r.op = "claim" /\ r.st = "ok" => execution'[r.c] # "none"
    PROVE  WriteInv'
<1>1. \A x \in Worker : call'[x] = IF x = w THEN r ELSE call[x]
  BY DEF Inv, CallInv
<1>2. \A x \in Worker : call[x].op = "claim" => call[x].c \in Command
  BY DEF Inv, CallInv, NoCall, RequestInv, Request
<1> QED
  BY <1>1, <1>2 DEF Inv, WriteInv, MayWait, ExecutionsKept

\* A worker that is not claiming goes to a pass that is not a write pass.
LEMMA WritePass ==
    ASSUME Inv, UNCHANGED <<call, runs, execution>>,
           NEW w \in Worker, NEW p, p # "write", call[w].op # "claim",
           pass' = [pass EXCEPT ![w] = p],
           \A x \in Worker : x # w => todo'[x] = todo[x]
    PROVE  WriteInv'
<1>1. \A x \in Worker : pass'[x] = IF x = w THEN p ELSE pass[x]
  BY DEF Inv, PassInv
<1> QED
  BY <1>1 DEF Inv, WriteInv

LEMMA NoClaim ==
    ASSUME Inv, NEW w \in Worker, pass[w] # "write"
    PROVE  call[w].op # "claim"
  BY DEF Inv, WriteInv

LEMMA RequestOf ==
    ASSUME Inv, NEW w \in Worker, call[w].op \in Op \cup {"run"}
    PROVE  /\ RequestInv(call[w]) /\ call[w] \in Request /\ call[w].c \in Command
           /\ call[w].v \in Value
<1>1. call[w] # NoCall
  BY DEF NoCall, Op
<1>2. RequestInv(call[w])
  BY <1>1 DEF Inv, CallInv
<1> QED
  BY <1>2 DEF RequestInv, Request

\* A request keeps what it asks for when it is answered or given up.
LEMMA AnswerKeeps ==
    ASSUME NEW r, RequestInv(r), NEW st \in {"sent", "read", "ok", "rejected", "lost"}
    PROVE  /\ RequestInv([r EXCEPT !.st = st])
           /\ [r EXCEPT !.st = st].op = r.op /\ [r EXCEPT !.st = st].c = r.c
           /\ [r EXCEPT !.st = st].st = st
<1>1. r \in Request
  BY DEF RequestInv
<1>2. /\ [r EXCEPT !.st = st] \in Request
      /\ [r EXCEPT !.st = st].op = r.op /\ [r EXCEPT !.st = st].c = r.c
      /\ [r EXCEPT !.st = st].v = r.v /\ [r EXCEPT !.st = st].st = st
  BY <1>1 DEF Request
<1> QED
  BY <1>2 DEF RequestInv

\* Worker w's request gets the state st.
Answers(w, st) == call' = [call EXCEPT ![w].st = st]

LEMMA AnswerOf ==
    ASSUME NEW w \in Worker, RequestInv(call[w]),
           NEW st \in {"sent", "read", "ok", "rejected", "lost"},
           Answers(w, st)
    PROVE  \E r : /\ call' = [call EXCEPT ![w] = r] /\ RequestInv(r)
                  /\ r.op = call[w].op /\ r.c = call[w].c /\ r.st = st
<1>1. call' = [call EXCEPT ![w] = [call[w] EXCEPT !.st = st]]
  BY DEF Answers
<1>2. call[w] \in Request
  BY DEF RequestInv
<1>3. /\ [call[w] EXCEPT !.st = st] \in Request
      /\ [call[w] EXCEPT !.st = st].op = call[w].op
      /\ [call[w] EXCEPT !.st = st].c = call[w].c
      /\ [call[w] EXCEPT !.st = st].v = call[w].v
      /\ [call[w] EXCEPT !.st = st].st = st
  BY <1>2 DEF Request
<1>4. RequestInv([call[w] EXCEPT !.st = st])
  BY <1>3 DEF RequestInv
<1> QED
  BY <1>1, <1>3, <1>4

-----------------------------------------------------------------------------
(* The steps of the server and the user.                                   *)

LEMMA ExecutionsStay ==
    ASSUME ServerType, ServerType', ExecutionStep
    PROVE  ExecutionsKept
  BY DEF ExecutionStep, IsTrue, ExecutionResult, ExecutionsKept

LEMMA ServeKeeps == ASSUME Inv, NEW w \in Worker, Serve(w) PROVE Inv'
<1>1. PICK st \in {"read", "ok", "rejected"} :
         Handle(call[w], st) /\ Answers(w, st)
  BY DEF Serve, Answers
<1>2. UNCHANGED <<outbox, pass, todo, batch, late, timeouts, crashes, runs>>
  BY DEF Serve, bounds
<1>3. call[w].op \in Op
  BY <1>1 DEF Handle, UpdateStatus, ReadForProposal, InsertProposal, CreateExecution,
              UpdateExecution, Op
<1>4. RequestInv(call[w])
  BY <1>3, RequestOf
<1>5. /\ ServerType' /\ TablesAgree' /\ ExecutionStep
      /\ call[w].op = "claim" /\ st = "ok" => execution'[call[w].c] # "none"
  BY <1>1, <1>4, HandleKeeps DEF Inv
<1>6. ReportIsTrue' /\ RunsInv'
  BY <1>2, <1>5, ExecutionStepKeeps
<1>7. ExecutionsKept
  BY <1>5, ExecutionsStay DEF Inv
<1>8. PICK r : /\ call' = [call EXCEPT ![w] = r] /\ RequestInv(r)
               /\ r.op = call[w].op /\ r.c = call[w].c /\ r.st = st
  BY <1>1, <1>4, AnswerOf
<1>9. CallInv'
  BY <1>2, <1>8, CallStep
<1>10. MayWait(w, r) /\ (r.op = "claim" /\ r.st = "ok" => execution'[r.c] # "none")
  BY <1>5, <1>8 DEF Inv, WriteInv, MayWait
<1>11. WriteInv'
  BY <1>2, <1>7, <1>8, <1>10, WriteCall
<1>12. OutboxInv' /\ LateInv'
  BY <1>2, OutboxFrame, LateFrame
<1>13. PassInv' /\ BatchInv' /\ CountInv'
  BY <1>2 DEF Inv, PassInv, BatchInv, CountInv
<1> QED
  BY <1>5, <1>6, <1>9, <1>11, <1>12, <1>13 DEF Inv

LEMMA ServeLateKeeps == ASSUME Inv, NEW q \in late, ServeLate(q) PROVE Inv'
<1>1. PICK st \in {"read", "ok", "rejected"} :
         /\ Handle(q, st)
         /\ late' = (late \ {q}) \cup (IF st = "read" THEN {[q EXCEPT !.st = st]} ELSE {})
  BY DEF ServeLate
<1>2. UNCHANGED <<outbox, pass, todo, batch, call, timeouts, crashes, runs>>
  BY DEF ServeLate, bounds, workers
<1>3. RequestInv(q)
  BY DEF Inv, LateInv
<1>4. ServerType' /\ TablesAgree' /\ ExecutionStep
  BY <1>1, <1>3, HandleKeeps DEF Inv
<1>5. ReportIsTrue' /\ RunsInv'
  BY <1>2, <1>4, ExecutionStepKeeps
<1>6. WriteInv'
  BY <1>2, <1>4, ExecutionsStay, WriteFrame DEF Inv
<1>7. RequestInv([q EXCEPT !.st = st])
  BY <1>3, AnswerKeeps
<1>8. \A r \in late' : RequestInv(r)
  BY <1>1, <1>7 DEF Inv, LateInv
<1>9. LateInv'
  BY <1>2, <1>8 DEF LateInv, RequestInv, IsTrue
<1>10. OutboxInv' /\ CallInv'
  BY <1>2, OutboxFrame, CallFrame
<1>11. PassInv' /\ BatchInv' /\ CountInv'
  BY <1>2 DEF Inv, PassInv, BatchInv, CountInv
<1> QED
  BY <1>4, <1>5, <1>6, <1>9, <1>10, <1>11 DEF Inv

LEMMA NewCommandKeeps ==
    ASSUME Inv, NEW c \in Command, cmd[c] = "none", cmd' = [cmd EXCEPT ![c] = "QUEUED"],
           UNCHANGED <<proposal, decision, execution, runs>>
    PROVE  (ServerType /\ TablesAgree /\ ReportIsTrue /\ RunsInv)'
<1>1. ServerType'
  BY DEF Inv, ServerType, CommandStatus, Pollable
<1>2. TablesAgree'
  BY DEF Inv, ServerType, TablesAgree, ExecutionResult
<1>3. ReportIsTrue' /\ RunsInv'
  BY DEF Inv, ReportIsTrue, RunsInv
<1> QED
  BY <1>1, <1>2, <1>3

LEMMA CreateCommandKeeps == ASSUME Inv, NEW c \in Command, CreateCommand(c) PROVE Inv'
<1>1. /\ cmd[c] = "none" /\ cmd' = [cmd EXCEPT ![c] = "QUEUED"]
      /\ UNCHANGED <<proposal, decision, execution, outbox, pass, todo, batch, call, late,
                     timeouts, crashes, runs>>
  BY DEF CreateCommand, workers, bounds
<1>2. (ServerType /\ TablesAgree /\ ReportIsTrue /\ RunsInv)'
  BY <1>1, NewCommandKeeps
<1>3. OutboxInv' /\ LateInv' /\ CallInv' /\ WriteInv'
  BY <1>1, OutboxFrame, LateFrame, CallFrame, WriteFrame DEF ExecutionsKept
<1>4. PassInv' /\ BatchInv' /\ CountInv'
  BY <1>1 DEF Inv, PassInv, BatchInv, CountInv
<1> QED
  BY <1>2, <1>3, <1>4 DEF Inv

LEMMA DecideKeeps ==
    ASSUME Inv, NEW c \in Command, NEW type \in {"APPROVE", "REJECT"}, Decide(c, type)
    PROVE  Inv'
<1> DEFINE final == IF type = "APPROVE" THEN "APPROVED" ELSE "REJECTED"
<1>1. /\ proposal[c] = "OPEN"
      /\ decision' = [decision EXCEPT ![c] = type]
      /\ proposal' = [proposal EXCEPT ![c] = final]
      /\ cmd' = [cmd EXCEPT ![c] = final]
      /\ UNCHANGED <<execution, outbox, pass, todo, batch, call, late, timeouts, crashes, runs>>
  BY DEF Decide, workers, bounds
<1>2. ServerType'
  BY <1>1 DEF Inv, ServerType, CommandStatus
<1>3. TablesAgree'
  BY <1>1 DEF Inv, ServerType, TablesAgree, ExecutionResult
<1>4. ReportIsTrue' /\ RunsInv'
  BY <1>1 DEF Inv, ReportIsTrue, RunsInv
<1>5. OutboxInv' /\ LateInv' /\ CallInv' /\ WriteInv'
  BY <1>1, OutboxFrame, LateFrame, CallFrame, WriteFrame DEF ExecutionsKept
<1>6. PassInv' /\ BatchInv' /\ CountInv'
  BY <1>1 DEF Inv, PassInv, BatchInv, CountInv
<1> QED
  BY <1>2, <1>3, <1>4, <1>5, <1>6 DEF Inv

LEMMA ConfirmDraftKeeps ==
    ASSUME Inv, NEW w \in Worker, NEW c \in Command, ConfirmDraft(w, c) PROVE Inv'
<1>1. /\ pass[w] = "idle" /\ pass' = [pass EXCEPT ![w] = "draft"]
      /\ cmd' = IF cmd[c] = "none" THEN [cmd EXCEPT ![c] = "QUEUED"] ELSE cmd
      /\ todo' = [todo EXCEPT ![w] = {<<c, cmd'[c]>>}]
      /\ UNCHANGED <<proposal, decision, execution, outbox, batch, call, late,
                     timeouts, crashes, runs>>
  BY DEF ConfirmDraft, Begin, bounds
<1>2. (ServerType /\ TablesAgree /\ ReportIsTrue /\ RunsInv)'
  <2>1. CASE cmd[c] = "none"
    BY <1>1, <2>1, NewCommandKeeps
  <2>2. CASE cmd[c] # "none"
    BY <1>1, <2>2, ServerFrame DEF server
  <2> QED
    BY <2>1, <2>2
<1>3. cmd'[c] \in CommandStatus
  BY <1>1 DEF Inv, ServerType, CommandStatus, Pollable
<1>4. PassInv'
  BY <1>1, <1>3 DEF Inv, PassInv, Pass
<1>5. call[w].op # "claim"
  BY <1>1, NoClaim
<1>6. \A x \in Worker : x # w => todo'[x] = todo[x]
  BY <1>1 DEF Inv, PassInv
<1>7. WriteInv'
  BY <1>1, <1>5, <1>6, WritePass
<1>8. OutboxInv' /\ LateInv' /\ CallInv'
  BY <1>1, OutboxFrame, LateFrame, CallFrame
<1>9. BatchInv' /\ CountInv'
  BY <1>1 DEF Inv, BatchInv, CountInv
<1> QED
  BY <1>2, <1>4, <1>7, <1>8, <1>9 DEF Inv

-----------------------------------------------------------------------------
(* The steps of the desktop.                                               *)

\* A step of a pass: the worker's request, what it still has to do and the
\* outbox may change.
LEMMA DesktopStep ==
    ASSUME Inv, UNCHANGED <<server, pass, late, timeouts, crashes, runs>>,
           NEW w \in Worker, NEW r, call' = [call EXCEPT ![w] = r],
           r = NoCall \/ RequestInv(r),
           MayWait(w, r)', r.op = "claim" => r.st # "ok",
           todo' \in [Worker -> SUBSET (Command \X CommandStatus)],
           \A x \in Worker : todo'[x] \subseteq todo[x],
           OutboxInv', BatchInv'
    PROVE  Inv'
<1>1. (ServerType /\ TablesAgree /\ ReportIsTrue /\ RunsInv)'
  BY ServerFrame
<1>2. LateInv' /\ CallInv'
  BY LateFrame, CallStep
<1>3. PassInv' /\ CountInv'
  BY DEF Inv, PassInv, CountInv
<1>4. \A x \in Worker : call'[x] = IF x = w THEN r ELSE call[x]
  BY DEF Inv, CallInv
<1>5. WriteInv'
  BY <1>4 DEF Inv, WriteInv, MayWait, server
<1> QED
  BY <1>1, <1>2, <1>3, <1>5 DEF Inv

\* The same when nothing is claimed and the polled items stay.
LEMMA PlainStep ==
    ASSUME Inv, UNCHANGED <<server, pass, todo, late, timeouts, crashes, runs>>,
           NEW w \in Worker, NEW r, call' = [call EXCEPT ![w] = r],
           r = NoCall \/ RequestInv(r), r.op # "claim",
           OutboxInv', BatchInv'
    PROVE  Inv'
<1>1. MayWait(w, r)'
  BY DEF MayWait
<1>2. todo' \in [Worker -> SUBSET (Command \X CommandStatus)]
  BY DEF Inv, PassInv
<1>3. \A x \in Worker : todo'[x] \subseteq todo[x]
  OBVIOUS
<1> QED
  BY <1>1, <1>2, <1>3, DesktopStep

\* A worker in another pass than a write pass begins, changes or ends it.
LEMMA PassStep ==
    ASSUME Inv, UNCHANGED <<server, call, outbox, late, timeouts, crashes, runs>>,
           NEW w \in Worker, NEW p \in Pass \ {"write"}, NEW T \in SUBSET (Command \X CommandStatus),
           call[w].op # "claim",
           pass' = [pass EXCEPT ![w] = p], todo' = [todo EXCEPT ![w] = T],
           BatchInv'
    PROVE  Inv'
<1>1. (ServerType /\ TablesAgree /\ ReportIsTrue /\ RunsInv)'
  BY ServerFrame
<1>2. OutboxInv' /\ LateInv' /\ CallInv'
  BY OutboxFrame, LateFrame, CallFrame
<1>3. PassInv' /\ CountInv'
  BY DEF Inv, PassInv, CountInv
<1>4. \A x \in Worker : x # w => todo'[x] = todo[x]
  BY DEF Inv, PassInv
<1>5. WriteInv'
  BY <1>4, WritePass DEF server
<1> QED
  BY <1>1, <1>2, <1>3, <1>5 DEF Inv

LEMMA StartScanKeeps == ASSUME Inv, NEW w \in Worker, StartScan(w) PROVE Inv'
<1>1. /\ pass[w] = "idle" /\ pass' = [pass EXCEPT ![w] = "scan"]
      /\ todo' = [todo EXCEPT ![w] = PendingCommands]
      /\ UNCHANGED <<server, call, outbox, batch, late, timeouts, crashes, runs>>
  BY DEF StartScan, Begin, bounds
<1>2. PendingCommands \subseteq Command \X CommandStatus
  BY DEF PendingCommands, CommandStatus
<1>3. call[w].op # "claim"
  BY <1>1, NoClaim
<1>4. BatchInv'
  BY <1>1 DEF Inv, BatchInv
<1> QED
  BY <1>1, <1>2, <1>3, <1>4, PassStep DEF Pass

LEMMA ScanDraftKeeps == ASSUME Inv, NEW w \in Worker, ScanDraft(w) PROVE Inv'
<1>1. /\ pass[w] = "draft"
      /\ UNCHANGED <<server, call, outbox, batch, late, timeouts, crashes, runs>>
  BY DEF ScanDraft, bounds
<1>2. PICK p \in {"scan", "idle"}, T \in {todo[w], {}} :
         pass' = [pass EXCEPT ![w] = p] /\ todo' = [todo EXCEPT ![w] = T]
  BY DEF ScanDraft, Inv, PassInv
<1>3. T \in SUBSET (Command \X CommandStatus)
  BY <1>2 DEF Inv, PassInv
<1>4. call[w].op # "claim"
  BY <1>1, NoClaim
<1>5. BatchInv'
  BY <1>1 DEF Inv, BatchInv
<1> QED
  BY <1>1, <1>2, <1>3, <1>4, <1>5, PassStep DEF Pass

LEMMA EndPassKeeps == ASSUME Inv, NEW w \in Worker, EndPass(w) PROVE Inv'
<1>1. /\ call[w] = NoCall /\ pass' = [pass EXCEPT ![w] = "idle"]
      /\ UNCHANGED <<server, call, outbox, todo, batch, late, timeouts, crashes, runs>>
  BY DEF EndPass, bounds
<1>2. todo' = [todo EXCEPT ![w] = todo[w]] /\ todo[w] \in SUBSET (Command \X CommandStatus)
  BY <1>1 DEF Inv, PassInv
<1>3. call[w].op # "claim"
  BY <1>1 DEF NoCall
<1>4. BatchInv'
  BY <1>1 DEF Inv, BatchInv
<1> QED
  BY <1>1, <1>2, <1>3, <1>4, PassStep DEF Pass

LEMMA StartFlushKeeps == ASSUME Inv, NEW w \in Worker, StartFlush(w) PROVE Inv'
<1>1. /\ pass[w] = "idle" /\ pass' = [pass EXCEPT ![w] = "flush"]
      /\ batch' = [batch EXCEPT ![w] = PendingBatch]
      /\ UNCHANGED <<server, call, outbox, todo, late, timeouts, crashes, runs>>
  BY DEF StartFlush, Begin, bounds
<1>2. todo' = [todo EXCEPT ![w] = todo[w]] /\ todo[w] \in SUBSET (Command \X CommandStatus)
  BY <1>1 DEF Inv, PassInv
<1>3. call[w].op # "claim"
  BY <1>1, NoClaim
<1>4. PendingBatch \subseteq 1..Len(outbox) /\ PendingBatch \subseteq Nat
  BY DEF PendingBatch, Pending, Inv, OutboxInv
<1>5. BatchInv'
  BY <1>1, <1>4 DEF Inv, BatchInv
<1> QED
  BY <1>1, <1>2, <1>3, <1>5, PassStep DEF Pass

LEMMA StartWriteKeeps == ASSUME Inv, NEW w \in Worker, StartWrite(w) PROVE Inv'
<1>1. /\ pass[w] = "idle" /\ pass' = [pass EXCEPT ![w] = "write"]
      /\ \A x \in Worker : pass[x] # "write"
      /\ todo' = [todo EXCEPT ![w] = PendingDecisions]
      /\ UNCHANGED <<server, call, outbox, batch, late, timeouts, crashes, runs>>
  BY DEF StartWrite, Begin, PermitFree, bounds
<1>2. /\ PendingDecisions \subseteq Command \X CommandStatus
      /\ \A t \in PendingDecisions : t[2] = "APPROVED" /\ execution[t[1]] = "none" /\ t[1] \in Command
  BY DEF PendingDecisions, CommandStatus
<1>3. \A t \in PendingDecisions : t[2] = "APPROVED" /\ runs[t[1]] = <<>>
  BY <1>2 DEF Inv, RunsInv
<1>4. /\ \A x \in Worker : pass'[x] = IF x = w THEN "write" ELSE pass[x]
      /\ todo'[w] = PendingDecisions
  BY <1>1 DEF Inv, PassInv
<1>5. \A x \in Worker : call[x].op # "claim"
  BY <1>1, NoClaim
<1>6. WriteInv'
  BY <1>1, <1>3, <1>4, <1>5 DEF WriteInv
<1>7. (ServerType /\ TablesAgree /\ ReportIsTrue /\ RunsInv)'
  BY <1>1, ServerFrame
<1>8. OutboxInv' /\ LateInv' /\ CallInv'
  BY <1>1, OutboxFrame, LateFrame, CallFrame
<1>9. PassInv' /\ BatchInv' /\ CountInv'
  BY <1>1, <1>2 DEF Inv, PassInv, BatchInv, CountInv, Pass
<1> QED
  BY <1>6, <1>7, <1>8, <1>9 DEF Inv

LEMMA NewRequest ==
    ASSUME NEW op \in {"status", "proposal", "claim"}, NEW c \in Command, NEW v \in Value,
           NEW st \in {"sent", "ok"},
           op = "status" => v \in {"DELIVERED", "ANALYZING", "FAILED"}
    PROVE  /\ RequestInv(Req(op, c, v, st))
           /\ Req(op, c, v, st).op = op /\ Req(op, c, v, st).c = c /\ Req(op, c, v, st).st = st
<1>1. Req(op, c, v, st) \in Request
  BY DEF Req, Request, Op
<1> QED
  BY <1>1 DEF Req, RequestInv

LEMMA ClaimRequestKeeps ==
    ASSUME NEW c \in Command, NEW s
    PROVE  RequestInv(ClaimRequest(c, s)) /\ ClaimRequest(c, s).op = "status"
<1>1. "DELIVERED" \in Value /\ "ANALYZING" \in Value
  BY DEF Value, CommandStatus, Pollable
<1>2. /\ RequestInv(Req("status", c, "DELIVERED", "sent"))
      /\ Req("status", c, "DELIVERED", "sent").op = "status"
      /\ RequestInv(Req("status", c, "ANALYZING", "sent"))
      /\ Req("status", c, "ANALYZING", "sent").op = "status"
      /\ RequestInv(Req("status", c, "ANALYZING", "ok"))
      /\ Req("status", c, "ANALYZING", "ok").op = "status"
  BY <1>1, NewRequest
<1> QED
  BY <1>2 DEF ClaimRequest

LEMMA ValueFacts ==
    /\ {"SUCCEEDED", "FAILED", "OPEN", "EXECUTING", "DELIVERED", "ANALYZING"} \subseteq Value
    /\ ExecutionResult \subseteq Value
  BY DEF Value, CommandStatus, Pollable, ExecutionResult

\* The outbox has got a row: the batches still point into it.
LEMMA EnqueueStep ==
    ASSUME Inv, UNCHANGED <<runs, batch>>,
           NEW kind \in {"proposal", "status", "result"}, NEW c \in Command, NEW v \in Value,
           kind = "status" => v \in {"SUCCEEDED", "FAILED"},
           kind = "result" => IsTrue(c, v),
           Enqueue(kind, c, v)
    PROVE  OutboxInv' /\ BatchInv'
<1>1. OutboxInv' /\ Len(outbox') >= Len(outbox)
  BY EnqueueKeeps DEF Inv
<1> QED
  BY <1>1, BatchFrame

LEMMA OutboxStays ==
    ASSUME Inv, UNCHANGED <<runs, batch, outbox>>
    PROVE  OutboxInv' /\ BatchInv'
  BY OutboxFrame DEF Inv, BatchInv

LEMMA TakeCommandKeeps == ASSUME Inv, NEW w \in Worker, TakeCommand(w) PROVE Inv'
<1>1. PICK x \in todo[w] :
         /\ todo' = [todo EXCEPT ![w] = @ \ {x}]
         /\ \/ UNCHANGED <<call, outbox>>
            \/ Enqueue("status", x[1], "FAILED") /\ UNCHANGED call
            \/ call' = [call EXCEPT ![w] = ClaimRequest(x[1], x[2])] /\ UNCHANGED outbox
  BY DEF TakeCommand
<1>2. /\ call[w] = NoCall
      /\ UNCHANGED <<server, pass, batch, late, timeouts, crashes, runs>>
  BY DEF TakeCommand, Between, bounds
<1>3. /\ todo' \in [Worker -> SUBSET (Command \X CommandStatus)]
      /\ \A y \in Worker : todo'[y] \subseteq todo[y]
  BY <1>1 DEF Inv, PassInv
<1>4. x[1] \in Command
  BY <1>1 DEF Inv, PassInv
<1>5. PICK r : /\ call' = [call EXCEPT ![w] = r] /\ r.op # "claim"
               /\ r = NoCall \/ RequestInv(r)
  <2>1. CASE UNCHANGED call
    <3>1. call' = [call EXCEPT ![w] = NoCall]
      BY <1>2, <2>1 DEF Inv, CallInv
    <3> QED
      BY <3>1 DEF NoCall
  <2>2. CASE call' = [call EXCEPT ![w] = ClaimRequest(x[1], x[2])]
    BY <1>4, <2>2, ClaimRequestKeeps
  <2> QED
    BY <1>1, <2>1, <2>2
<1>6. OutboxInv' /\ BatchInv'
  BY <1>1, <1>2, <1>4, EnqueueStep, OutboxStays, ValueFacts
<1>7. MayWait(w, r)'
  BY <1>5 DEF MayWait
<1> QED
  BY <1>2, <1>3, <1>5, <1>6, <1>7, DesktopStep

LEMMA HangStep ==
    ASSUME Inv, NEW w \in Worker, Hang(w),
           UNCHANGED <<server, pass, todo, late, timeouts, crashes, runs>>, OutboxInv', BatchInv'
    PROVE  Inv'
<1>1. call' = [call EXCEPT ![w] = NoCall] /\ NoCall.op # "claim"
  BY DEF Hang, NoCall
<1> QED
  BY <1>1, PlainStep

LEMMA ClaimDeliveredKeeps == ASSUME Inv, NEW w \in Worker, ClaimDelivered(w) PROVE Inv'
<1>1. /\ call[w].op = "status"
      /\ call' = [call EXCEPT ![w] = Req("status", call[w].c, "ANALYZING", "sent")]
      /\ UNCHANGED <<server, outbox, pass, todo, batch, late, timeouts, crashes, runs>>
  BY DEF ClaimDelivered, Answered, bounds
<1>2. call[w].c \in Command
  BY <1>1, RequestOf DEF Op
<1>3. /\ RequestInv(Req("status", call[w].c, "ANALYZING", "sent"))
      /\ Req("status", call[w].c, "ANALYZING", "sent").op # "claim"
  BY <1>2, NewRequest, ValueFacts
<1>4. OutboxInv' /\ BatchInv'
  BY <1>1, OutboxStays
<1> QED
  BY <1>1, <1>3, <1>4, PlainStep

LEMMA ClaimFailsKeeps == ASSUME Inv, NEW w \in Worker, ClaimFails(w) PROVE Inv'
<1>1. /\ call[w].op = "status" /\ Hang(w)
      /\ UNCHANGED outbox \/ Enqueue("status", call[w].c, "FAILED")
      /\ UNCHANGED <<server, pass, todo, batch, late, timeouts, crashes, runs>>
  BY DEF ClaimFails, Answered, bounds
<1>2. call[w].c \in Command
  BY <1>1, RequestOf DEF Op
<1>3. OutboxInv' /\ BatchInv'
  BY <1>1, <1>2, EnqueueStep, OutboxStays, ValueFacts
<1> QED
  BY <1>1, <1>3, HangStep

LEMMA AnalyseKeeps == ASSUME Inv, NEW w \in Worker, Analyse(w) PROVE Inv'
<1>1. /\ call[w].op = "status" /\ Hang(w)
      /\ UNCHANGED <<server, pass, todo, batch, late, timeouts, crashes, runs>>
  BY DEF Analyse, Answered, bounds
<1>2. \/ Enqueue("proposal", call[w].c, "OPEN")
      \/ Enqueue("status", call[w].c, "SUCCEEDED")
      \/ Enqueue("status", call[w].c, "FAILED")
  <2>1. PICK a \in {"items", "none", "error"} :
           CASE a = "items" -> Enqueue("proposal", call[w].c, "OPEN")
             [] a = "none"  -> Enqueue("status", call[w].c, "SUCCEEDED")
             [] a = "error" -> Enqueue("status", call[w].c, "FAILED")
    BY DelegationAssumption DEF Analyse
  <2> QED
    BY <2>1
<1>3. call[w].c \in Command
  BY <1>1, RequestOf DEF Op
<1>4. OutboxInv' /\ BatchInv'
  BY <1>1, <1>2, <1>3, EnqueueStep, ValueFacts
<1> QED
  BY <1>1, <1>4, HangStep

LEMMA TakeDecisionKeeps == ASSUME Inv, NEW w \in Worker, TakeDecision(w) PROVE Inv'
<1>1. PICK x \in todo[w] :
         /\ todo' = [todo EXCEPT ![w] = @ \ {x}]
         /\ call' = [call EXCEPT ![w] = Req("claim", x[1], "EXECUTING", "sent")]
  BY DEF TakeDecision
<1>2. /\ pass[w] = "write"
      /\ UNCHANGED <<server, outbox, pass, batch, late, timeouts, crashes, runs>>
  BY DEF TakeDecision, Between, bounds
<1>3. /\ todo' \in [Worker -> SUBSET (Command \X CommandStatus)]
      /\ \A y \in Worker : todo'[y] \subseteq todo[y]
      /\ todo'[w] = todo[w] \ {x}
      /\ todo[w] \subseteq Command \X CommandStatus
  BY <1>1 DEF Inv, PassInv
<1>4. x[1] \in Command
  BY <1>1, <1>3
<1>5. PICK r : /\ call' = [call EXCEPT ![w] = r] /\ RequestInv(r)
               /\ r.c = x[1] /\ r.st = "sent"
  <2>1. /\ RequestInv(Req("claim", x[1], "EXECUTING", "sent"))
        /\ Req("claim", x[1], "EXECUTING", "sent").c = x[1]
        /\ Req("claim", x[1], "EXECUTING", "sent").st = "sent"
    BY <1>4, NewRequest, ValueFacts
  <2> QED
    BY <1>1, <2>1
<1>6. \A t \in todo[w] : t[2] = "APPROVED" /\ runs[t[1]] = <<>>
  BY <1>2 DEF Inv, WriteInv
<1>7. \A t \in todo'[w] : t[1] # x[1]
  BY <1>1, <1>3, <1>6
<1>8. MayWait(w, r)'
  BY <1>1, <1>2, <1>5, <1>6, <1>7 DEF MayWait
<1>9. OutboxInv' /\ BatchInv'
  BY <1>2, OutboxStays
<1> QED
  BY <1>2, <1>3, <1>5, <1>8, <1>9, DesktopStep

LEMMA ExecutionRefusedKeeps == ASSUME Inv, NEW w \in Worker, ExecutionRefused(w) PROVE Inv'
<1>1. /\ Hang(w)
      /\ UNCHANGED <<server, outbox, pass, todo, batch, late, timeouts, crashes, runs>>
  BY DEF ExecutionRefused, bounds
<1>2. OutboxInv' /\ BatchInv'
  BY <1>1, OutboxStays
<1> QED
  BY <1>1, <1>2, HangStep

LEMMA ReportResultKeeps == ASSUME Inv, NEW w \in Worker, ReportResult(w) PROVE Inv'
<1>1. /\ call[w].op = "run" /\ Hang(w) /\ Enqueue("result", call[w].c, call[w].v)
      /\ UNCHANGED <<server, pass, todo, batch, late, timeouts, crashes, runs>>
  BY DEF ReportResult, Answered, bounds
<1>2. RequestInv(call[w]) /\ call[w].c \in Command /\ call[w].v \in Value
  BY <1>1, RequestOf
<1>3. IsTrue(call[w].c, call[w].v)
  BY <1>1, <1>2 DEF RequestInv
<1>4. OutboxInv' /\ BatchInv'
  BY <1>1, <1>2, <1>3, EnqueueStep
<1> QED
  BY <1>1, <1>4, HangStep

\* The heart of the argument: when the file engine runs for a decision, no
\* result of that decision exists anywhere yet.
LEMMA ExecuteDecisionKeeps == ASSUME Inv, NEW w \in Worker, ExecuteDecision(w) PROVE Inv'
<1>1. PICK v \in Results :
         /\ call' = [call EXCEPT ![w] = Req("run", call[w].c, v, "ok")]
         /\ runs' = [runs EXCEPT ![call[w].c] = Append(@, v)]
  BY DEF ExecuteDecision
<1>2. /\ pass[w] = "write" /\ call[w].op = "claim" /\ call[w].st = "ok"
      /\ UNCHANGED <<server, outbox, pass, todo, batch, late, timeouts, crashes>>
  BY DEF ExecuteDecision, Answered, bounds
<1>3. PICK c \in Command : c = call[w].c
  BY <1>2, RequestOf DEF Op
<1>4. /\ runs[c] = <<>> /\ execution[c] # "none"
      /\ \A t \in todo[w] : t[1] # c
  BY <1>2, <1>3 DEF Inv, WriteInv
<1>5. v \in ExecutionResult
  BY DelegationAssumption
<1>6. /\ runs'[c] = <<v>>
      /\ \A d \in Command : d # c => runs'[d] = runs[d]
  BY <1>1, <1>3, <1>4 DEF Inv, RunsInv
<1>7. ASSUME NEW d \in Command, NEW u, IsTrue(d, u) PROVE IsTrue(d, u)'
  <2>1. <<u>> # <<>>
    OBVIOUS
  <2>2. d # c
    BY <1>4, <1>7, <2>1 DEF IsTrue
  <2> QED
    BY <1>6, <1>7, <2>2 DEF IsTrue
<1>8. ServerType' /\ TablesAgree'
  BY <1>2 DEF Inv, server, ServerType, TablesAgree
<1>9. ReportIsTrue'
  <2>1. ASSUME NEW d \in Command, execution[d] \in ExecutionResult
        PROVE  runs'[d] = <<execution[d]>>
    <3>1. IsTrue(d, execution[d])
      BY <2>1 DEF Inv, ReportIsTrue, IsTrue
    <3> QED
      BY <1>7, <3>1 DEF IsTrue
  <2> QED
    BY <1>2, <2>1 DEF ReportIsTrue, server
<1>10. RunsInv'
  <2>1. <<v>> \in Seq(ExecutionResult) /\ Len(<<v>>) <= 1
    BY <1>5
  <2>2. ASSUME NEW d \in Command
        PROVE  /\ runs'[d] \in Seq(ExecutionResult) /\ Len(runs'[d]) <= 1
               /\ runs'[d] # <<>> => execution[d] # "none"
    <3>1. CASE d = c
      <4>1. runs'[d] = <<v>> /\ execution[d] # "none"
        BY <1>4, <1>6, <3>1
      <4> QED
        BY <2>1, <4>1
    <3>2. CASE d # c
      BY <1>6, <3>2 DEF Inv, RunsInv
    <3> QED
      BY <3>1, <3>2
  <2>3. runs' \in [Command -> Seq(ExecutionResult)]
    <3>1. runs' = [d \in Command |-> IF d = c THEN Append(runs[c], v) ELSE runs[d]]
      BY <1>1, <1>3 DEF Inv, RunsInv
    <3>2. Append(runs[c], v) \in Seq(ExecutionResult)
      BY <1>5 DEF Inv, RunsInv
    <3> QED
      BY <3>1, <3>2 DEF Inv, RunsInv
  <2> QED
    BY <1>2, <2>2, <2>3 DEF RunsInv, server
<1>11. OutboxInv'
  <2>1. ASSUME NEW i \in 1..Len(outbox) PROVE RowInv(outbox[i])'
    <3>1. RowInv(outbox[i]) /\ outbox[i].c \in Command
      BY DEF Inv, OutboxInv, RowInv, Row
    <3> QED
      BY <1>2, <1>7, <3>1 DEF RowInv
  <2> QED
    BY <1>2, <2>1 DEF Inv, OutboxInv
<1>12. ASSUME NEW r, RequestInv(r) PROVE RequestInv(r)'
  BY <1>7, <1>12 DEF RequestInv, Request
<1>13. LateInv'
  BY <1>2, <1>12 DEF Inv, LateInv
<1>14. CallInv'
  <2>1. Req("run", c, v, "ok") \in Request
    BY <1>5, ValueFacts DEF Req, Request
  <2>2. RequestInv(Req("run", c, v, "ok"))'
    BY <1>5, <1>6, <2>1 DEF RequestInv, Req, IsTrue
  <2>3. PICK q : /\ q = Req("run", c, v, "ok") /\ q \in Request
                 /\ RequestInv(q)' /\ call' = [call EXCEPT ![w] = q]
    BY <1>1, <1>3, <2>1, <2>2
  <2>4. /\ call' \in [Worker -> Request \cup {NoCall}]
        /\ \A x \in Worker : call'[x] = IF x = w THEN q ELSE call[x]
    BY <2>3 DEF Inv, CallInv
  <2>5. ASSUME NEW x \in Worker PROVE call'[x] = NoCall \/ RequestInv(call[x])'
    <3>1. CASE x = w
      BY <2>3, <2>4, <3>1
    <3>2. CASE x # w
      <4>1. call[x] = NoCall \/ RequestInv(call[x])
        BY DEF Inv, CallInv
      <4> QED
        BY <1>12, <2>4, <3>2, <4>1 DEF RequestInv, IsTrue
    <3> QED
      BY <3>1, <3>2
  <2> QED
    BY <2>4, <2>5 DEF CallInv
<1>15. WriteInv'
  <2>1. call'[w].op = "run" /\ \A x \in Worker : x # w => call'[x] = call[x]
    BY <1>1 DEF Inv, CallInv, Req
  <2>2. \A x \in Worker : x # w => pass[x] # "write" /\ call[x].op # "claim"
    BY <1>2 DEF Inv, WriteInv
  <2>3. \A t \in todo[w] : t[1] \in Command /\ t[1] # c
    BY <1>4 DEF Inv, PassInv
  <2>4. \A t \in todo[w] : t[2] = "APPROVED" /\ runs'[t[1]] = <<>>
    BY <1>2, <1>6, <2>3 DEF Inv, WriteInv
  <2> QED
    BY <1>2, <2>1, <2>2, <2>4 DEF Inv, WriteInv
<1>16. PassInv' /\ BatchInv' /\ CountInv'
  BY <1>2 DEF Inv, PassInv, BatchInv, CountInv
<1> QED
  BY <1>8, <1>9, <1>10, <1>11, <1>13, <1>14, <1>15, <1>16 DEF Inv

LEMMA TakeRowKeeps == ASSUME Inv, NEW w \in Worker, TakeRow(w) PROVE Inv'
<1>1. PICK i \in batch[w] :
         \/ /\ Mark(i, "failed")
            /\ batch' = [batch EXCEPT ![w] = @ \ {i}]
            /\ UNCHANGED call
         \/ /\ ~(outbox[i].kind = "status" /\ outbox[i].v = "SUCCEEDED")
            /\ call' = [call EXCEPT ![w] =
                          Req(outbox[i].kind, outbox[i].c, outbox[i].v, "sent")]
            /\ UNCHANGED <<outbox, batch>>
  BY DEF TakeRow
<1>2. /\ call[w] = NoCall
      /\ UNCHANGED <<server, pass, todo, late, timeouts, crashes, runs>>
  BY DEF TakeRow, Between, bounds
<1>3. i \in 1..Len(outbox)
  BY <1>1 DEF Inv, BatchInv
<1>4. CASE /\ Mark(i, "failed") /\ batch' = [batch EXCEPT ![w] = @ \ {i}]
           /\ UNCHANGED call
  <2>1. OutboxInv' /\ Len(outbox') = Len(outbox)
    BY <1>2, <1>3, <1>4, MarkKeeps DEF Inv
  <2>2. BatchInv'
    BY <1>4, <2>1 DEF Inv, BatchInv
  <2>3. Hang(w)
    BY <1>2, <1>4 DEF Hang, Inv, CallInv
  <2> QED
    BY <1>2, <2>1, <2>2, <2>3, HangStep
<1>5. CASE /\ ~(outbox[i].kind = "status" /\ outbox[i].v = "SUCCEEDED")
           /\ call' = [call EXCEPT ![w] =
                          Req(outbox[i].kind, outbox[i].c, outbox[i].v, "sent")]
           /\ UNCHANGED <<outbox, batch>>
  <2>1. RowInv(outbox[i]) /\ outbox[i] \in Row
    BY <1>3 DEF Inv, OutboxInv
  <2>2. PICK r : /\ r = Req(outbox[i].kind, outbox[i].c, outbox[i].v, "sent")
                 /\ call' = [call EXCEPT ![w] = r]
    BY <1>5
  <2>3. /\ r \in Request /\ r.op = outbox[i].kind /\ r.c = outbox[i].c /\ r.v = outbox[i].v
        /\ r.op # "claim" /\ r.op # "run"
    BY <2>1, <2>2 DEF Row, Req, Request, Op
  <2>4. RequestInv(r)
    BY <1>5, <2>1, <2>3 DEF RowInv, RequestInv
  <2>5. OutboxInv' /\ BatchInv'
    BY <1>2, <1>5, OutboxStays
  <2> QED
    BY <1>2, <2>2, <2>3, <2>4, <2>5, PlainStep
<1> QED
  BY <1>1, <1>4, <1>5

LEMMA SettleRowKeeps == ASSUME Inv, NEW w \in Worker, SettleRow(w) PROVE Inv'
<1>1. PICK i \in batch[w] :
         /\ Mark(i, DeliveryVerdict(call[w].st))
         /\ batch' = [batch EXCEPT ![w] = @ \ {i}]
  BY DEF SettleRow
<1>2. /\ Hang(w)
      /\ UNCHANGED <<server, pass, todo, late, timeouts, crashes, runs>>
  BY DEF SettleRow, bounds
<1>3. i \in 1..Len(outbox)
  BY <1>1 DEF Inv, BatchInv
<1>4. DeliveryVerdict(call[w].st) \in {"pending", "sent", "failed"}
  BY DEF DeliveryVerdict
<1>5. OutboxInv' /\ Len(outbox') = Len(outbox)
  BY <1>1, <1>2, <1>3, <1>4, MarkKeeps DEF Inv
<1>6. BatchInv'
  BY <1>1, <1>5 DEF Inv, BatchInv
<1> QED
  BY <1>2, <1>5, <1>6, HangStep

LEMMA TimeOutKeeps == ASSUME Inv, NEW w \in Worker, TimeOut(w) PROVE Inv'
<1>1. /\ timeouts < MaxTimeout /\ call[w].op \in Op /\ timeouts' = timeouts + 1
      /\ late' = late \cup {call[w]} \/ late' = late
      /\ Answers(w, "lost")
      /\ UNCHANGED <<server, outbox, pass, todo, batch, crashes, runs>>
  BY DEF TimeOut, Answers
<1>2. RequestInv(call[w])
  BY <1>1, RequestOf
<1>3. PICK r : /\ call' = [call EXCEPT ![w] = r] /\ RequestInv(r)
               /\ r.op = call[w].op /\ r.c = call[w].c /\ r.st = "lost"
  BY <1>1, <1>2, AnswerOf
<1>4. CallInv'
  BY <1>1, <1>3, CallStep
<1>5. MayWait(w, r) /\ ExecutionsKept
  BY <1>1, <1>3 DEF Inv, WriteInv, MayWait, ExecutionsKept, server
<1>6. WriteInv'
  BY <1>1, <1>3, <1>5, WriteCall
<1>7. \A q \in late' : RequestInv(q)
  BY <1>1, <1>2 DEF Inv, LateInv
<1>8. LateInv'
  BY <1>1, <1>7 DEF LateInv, RequestInv, IsTrue
<1>9. (ServerType /\ TablesAgree /\ ReportIsTrue /\ RunsInv)'
  BY <1>1, ServerFrame
<1>10. OutboxInv' /\ BatchInv'
  BY <1>1, OutboxStays
<1>11. PassInv'
  BY <1>1 DEF Inv, PassInv
<1>12. CountInv'
  BY <1>1, DelegationAssumption DEF Inv, CountInv
<1> QED
  BY <1>4, <1>6, <1>8, <1>9, <1>10, <1>11, <1>12 DEF Inv

LEMMA CrashKeeps == ASSUME Inv, Crash PROVE Inv'
<1>1. /\ crashes < MaxCrash /\ crashes' = crashes + 1
      /\ late' = late \cup {call[w] : w \in {x \in Worker : Unserved(call[x])}}
      /\ pass' = [w \in Worker |-> "idle"]
      /\ todo' = [w \in Worker |-> {}] /\ batch' = [w \in Worker |-> {}]
      /\ call' = [w \in Worker |-> NoCall]
      /\ UNCHANGED <<server, outbox, timeouts, runs>>
  BY DEF Crash
<1>2. \A w \in Worker : Unserved(call[w]) => RequestInv(call[w])
  BY DEF Inv, CallInv, Unserved, NoCall
<1>3. \A q \in late' : RequestInv(q)
  BY <1>1, <1>2 DEF Inv, LateInv
<1>4. LateInv'
  BY <1>1, <1>3 DEF LateInv, RequestInv, IsTrue
<1>5. CallInv' /\ PassInv' /\ BatchInv'
  BY <1>1 DEF CallInv, PassInv, BatchInv, Pass
<1>6. WriteInv'
  BY <1>1 DEF WriteInv, NoCall
<1>7. (ServerType /\ TablesAgree /\ ReportIsTrue /\ RunsInv)'
  BY <1>1, ServerFrame
<1>8. OutboxInv'
  BY <1>1, OutboxFrame
<1>9. CountInv'
  BY <1>1, DelegationAssumption DEF Inv, CountInv
<1> QED
  BY <1>4, <1>5, <1>6, <1>7, <1>8, <1>9 DEF Inv

-----------------------------------------------------------------------------
(* Inv is an inductive invariant.                                          *)

LEMMA InitInv == Init => Inv
<1> SUFFICES ASSUME Init PROVE Inv
  OBVIOUS
<1>1. ServerType /\ TablesAgree /\ ReportIsTrue
  BY DEF Init, ServerType, TablesAgree, ReportIsTrue, ExecutionResult
<1>2. OutboxInv /\ LateInv
  BY DEF Init, OutboxInv, LateInv
<1>3. CallInv /\ PassInv /\ BatchInv
  BY DEF Init, CallInv, PassInv, BatchInv, Pass
<1>4. CountInv
  BY DelegationAssumption DEF Init, CountInv
<1>5. RunsInv
  <2>1. <<>> \in Seq(ExecutionResult) /\ Len(<<>>) <= 1
    OBVIOUS
  <2> QED
    BY <2>1 DEF Init, RunsInv
<1>6. WriteInv
  BY DEF Init, WriteInv, NoCall
<1> QED
  BY <1>1, <1>2, <1>3, <1>4, <1>5, <1>6 DEF Inv

LEMMA StutterKeeps == Inv /\ UNCHANGED vars => Inv'
<1> SUFFICES ASSUME Inv, UNCHANGED vars PROVE Inv'
  OBVIOUS
<1>1. UNCHANGED <<server, outbox, pass, todo, batch, call, late, timeouts, crashes, runs>>
  BY DEF vars, workers, bounds
<1>2. (ServerType /\ TablesAgree /\ ReportIsTrue /\ RunsInv)'
  BY <1>1, ServerFrame
<1>3. OutboxInv' /\ BatchInv' /\ LateInv' /\ CallInv'
  BY <1>1, OutboxStays, LateFrame, CallFrame
<1>4. ExecutionsKept
  BY <1>1 DEF server, ExecutionsKept
<1>5. WriteInv'
  BY <1>1, <1>4, WriteFrame
<1>6. PassInv' /\ CountInv'
  BY <1>1 DEF Inv, PassInv, CountInv
<1> QED
  BY <1>2, <1>3, <1>5, <1>6 DEF Inv

LEMMA StepKeeps == ASSUME Inv, NEW w \in Worker, Step(w) PROVE Inv'
  BY ServeKeeps, ScanDraftKeeps, TakeCommandKeeps, ClaimDeliveredKeeps, ClaimFailsKeeps,
     AnalyseKeeps, TakeDecisionKeeps, ExecutionRefusedKeeps, ExecuteDecisionKeeps,
     ReportResultKeeps, TakeRowKeeps, SettleRowKeeps, EndPassKeeps DEF Step

LEMMA NextKeeps == Inv /\ [Next]_vars => Inv'
<1> SUFFICES ASSUME Inv, [Next]_vars PROVE Inv'
  OBVIOUS
<1>1. CASE User
  BY <1>1, CreateCommandKeeps, DecideKeeps, ConfirmDraftKeeps DEF User
<1>2. ASSUME NEW w \in Worker,
             Step(w) \/ StartScan(w) \/ StartWrite(w) \/ StartFlush(w) \/ TimeOut(w)
      PROVE  Inv'
  BY <1>2, StepKeeps, StartScanKeeps, StartWriteKeeps, StartFlushKeeps, TimeOutKeeps
<1>3. ASSUME NEW r \in late, ServeLate(r) PROVE Inv'
  BY <1>3, ServeLateKeeps
<1>4. CASE Crash
  BY <1>4, CrashKeeps
<1>5. CASE UNCHANGED vars
  BY <1>5, StutterKeeps
<1> QED
  BY <1>1, <1>2, <1>3, <1>4, <1>5 DEF Next

\* Inv holds in every reachable state: whatever the workers, the server's
\* handlers, requests served late and crashes do, the tables, the outbox and the
\* requests under way tell the same story about each command.
THEOREM Invariance == Spec => []Inv
  BY InitInv, NextKeeps, PTL DEF Spec

-----------------------------------------------------------------------------
(* What follows from it.                                                   *)

\* Every variable has its type in every reachable state: in particular a
\* delivered result is one of the results of an execution, and a flush pass
\* never points past the end of the outbox.
THEOREM TypeCorrect == Spec => []TypeOK
<1>1. Inv => TypeOK
  <2> SUFFICES ASSUME Inv PROVE TypeOK
    OBVIOUS
  <2>1. late \subseteq Request
    BY DEF Inv, LateInv, RequestInv
  <2> QED
    BY <2>1 DEF Inv, TypeOK, ServerType, OutboxInv, CallInv, PassInv, BatchInv, CountInv, RunsInv
<1> QED
  BY <1>1, Invariance, PTL

\* The status columns of commands, proposals, decisions and executions agree
\* in every reachable state, although only CommandsService.update consults the
\* transition table.
THEOREM TablesAlwaysAgree == Spec => []TablesAgree
<1>1. Inv => TablesAgree
  BY DEF Inv
<1> QED
  BY <1>1, Invariance, PTL

\* process_pending_decisions executes an approved decision at most once and
\* nothing else, for any number of concurrent callers, timeouts and crashes.
THEOREM ExecutedOnceApproved == Spec => []RunsOnceApproved
<1>1. Inv => RunsOnceApproved
  <2> SUFFICES ASSUME Inv, NEW c \in Command
               PROVE  Len(runs[c]) <= 1 /\ (runs[c] # <<>> => decision[c] = "APPROVE")
    BY DEF RunsOnceApproved
  <2>1. Len(runs[c]) <= 1 /\ (runs[c] # <<>> => execution[c] # "none")
    BY DEF Inv, RunsInv
  <2>2. execution[c] # "none" => decision[c] = "APPROVE"
    BY DEF Inv, TablesAgree
  <2> QED
    BY <2>1, <2>2
<1> QED
  BY <1>1, Invariance, PTL

\* The result that ExecutionsService.update stores is the result of the file
\* engine's only run, however the outbox repeats or delays its delivery.
THEOREM ReportsAreTrue == Spec => []ReportIsTrue
<1>1. Inv => ReportIsTrue
  BY DEF Inv
<1> QED
  BY <1>1, Invariance, PTL

\* One step leaves a rejected or finished command as it is.
SettledStays ==
    \A c \in Command :
        cmd[c] = "REJECTED" \/ execution[c] \in ExecutionResult =>
            cmd'[c] = cmd[c] /\ execution'[c] = execution[c]

LEMMA HandleSettled ==
    ASSUME ServerType, TablesAgree, NEW r, RequestInv(r), NEW st, Handle(r, st)
    PROVE  SettledStays
<1>1. r.c \in Command
  BY DEF RequestInv, Request
<1>2. CASE UpdateStatus(r, st)
  <2>1. /\ execution' = execution
        /\ \/ CanTransition(cmd[r.c], r.v) /\ cmd' = [cmd EXCEPT ![r.c] = r.v]
           \/ cmd' = cmd
        /\ r.v \in {"DELIVERED", "ANALYZING", "FAILED"}
    BY <1>2 DEF UpdateStatus, RequestInv
  <2>2. CASE CanTransition(cmd[r.c], r.v) /\ cmd' = [cmd EXCEPT ![r.c] = r.v]
    <3>1. cmd[r.c] \in {"QUEUED", "DELIVERED", "ANALYZING", "EXECUTING"}
      BY <2>1, <2>2 DEF CanTransition, Transitions, ExecutionResult
    <3>2. execution[r.c] \notin ExecutionResult /\ cmd[r.c] # "REJECTED"
      BY <1>1, <3>1 DEF TablesAgree, ExecutionResult
    <3> QED
      BY <1>1, <2>1, <2>2, <3>2 DEF SettledStays, ServerType
  <2> QED
    BY <2>1, <2>2 DEF SettledStays
<1>3. CASE ReadForProposal(r, st)
  BY <1>3 DEF ReadForProposal, server, SettledStays
<1>4. CASE InsertProposal(r, st)
  <2>1. CASE proposal[r.c] = "none"
    <3>1. /\ cmd' = [cmd EXCEPT ![r.c] = "WAITING_APPROVAL"] /\ execution' = execution
      BY <1>4, <2>1 DEF InsertProposal
    <3>2. execution[r.c] \notin ExecutionResult /\ cmd[r.c] # "REJECTED"
      BY <1>1, <2>1 DEF TablesAgree, ExecutionResult
    <3> QED
      BY <1>1, <3>1, <3>2 DEF SettledStays, ServerType
  <2>2. CASE proposal[r.c] # "none"
    BY <1>4, <2>2 DEF InsertProposal, SettledStays
  <2> QED
    BY <2>1, <2>2
<1>5. CASE CreateExecution(r, st)
  <2>1. CASE proposal[r.c] = "APPROVED" /\ execution[r.c] = "none" /\ decision[r.c] = "APPROVE"
    <3>1. /\ cmd' = [cmd EXCEPT ![r.c] = "EXECUTING"]
          /\ execution' = [execution EXCEPT ![r.c] = "EXECUTING"]
      BY <1>5, <2>1 DEF CreateExecution
    <3>2. execution[r.c] \notin ExecutionResult /\ cmd[r.c] # "REJECTED"
      BY <1>1, <2>1 DEF TablesAgree, ExecutionResult
    <3> QED
      BY <1>1, <3>1, <3>2 DEF SettledStays, ServerType
  <2>2. CASE ~(proposal[r.c] = "APPROVED" /\ execution[r.c] = "none" /\ decision[r.c] = "APPROVE")
    BY <1>5, <2>2 DEF CreateExecution, SettledStays
  <2> QED
    BY <2>1, <2>2
<1>6. CASE UpdateExecution(r, st)
  <2>1. CASE execution[r.c] = "EXECUTING"
    <3>1. /\ cmd' = [cmd EXCEPT ![r.c] = r.v]
          /\ execution' = [execution EXCEPT ![r.c] = r.v]
      BY <1>6, <2>1 DEF UpdateExecution
    <3>2. execution[r.c] \notin ExecutionResult /\ cmd[r.c] # "REJECTED"
      BY <1>1, <2>1 DEF TablesAgree, ExecutionResult
    <3> QED
      BY <1>1, <3>1, <3>2 DEF SettledStays, ServerType
  <2>2. CASE execution[r.c] # "EXECUTING"
    BY <1>6, <2>2 DEF UpdateExecution, SettledStays
  <2> QED
    BY <2>1, <2>2
<1> QED
  BY <1>2, <1>3, <1>4, <1>5, <1>6 DEF Handle

LEMMA NewCommandSettled ==
    ASSUME Inv, NEW c \in Command, cmd[c] = "none", cmd' = [cmd EXCEPT ![c] = "QUEUED"],
           UNCHANGED execution
    PROVE  SettledStays
<1>1. execution[c] \notin ExecutionResult
  BY DEF Inv, TablesAgree, ExecutionResult
<1> QED
  BY <1>1 DEF Inv, ServerType, SettledStays

LEMMA NextSettled == Inv /\ [Next]_vars => SettledStays
<1> SUFFICES ASSUME Inv, [Next]_vars PROVE SettledStays
  OBVIOUS
<1>1. CASE UNCHANGED server
  BY <1>1 DEF server, SettledStays
<1>2. ASSUME NEW w \in Worker, Serve(w) PROVE SettledStays
  <2>1. PICK st : Handle(call[w], st)
    BY <1>2 DEF Serve
  <2>2. call[w].op \in Op
    BY <2>1 DEF Handle, UpdateStatus, ReadForProposal, InsertProposal, CreateExecution,
                UpdateExecution, Op
  <2> QED
    BY <2>1, <2>2, RequestOf, HandleSettled DEF Inv
<1>3. ASSUME NEW q \in late, ServeLate(q) PROVE SettledStays
  BY <1>3, HandleSettled DEF ServeLate, Inv, LateInv
<1>4. ASSUME NEW c \in Command, CreateCommand(c) PROVE SettledStays
  BY <1>4, NewCommandSettled DEF CreateCommand
<1>5. ASSUME NEW c \in Command, NEW w \in Worker, ConfirmDraft(w, c) PROVE SettledStays
  <2>1. CASE cmd[c] = "none"
    BY <1>5, <2>1, NewCommandSettled DEF ConfirmDraft
  <2>2. CASE cmd[c] # "none"
    BY <1>5, <2>2 DEF ConfirmDraft, SettledStays
  <2> QED
    BY <2>1, <2>2
<1>6. ASSUME NEW c \in Command, NEW type \in {"APPROVE", "REJECT"}, Decide(c, type)
      PROVE  SettledStays
  <2>1. /\ proposal[c] = "OPEN" /\ UNCHANGED execution
        /\ \E final : cmd' = [cmd EXCEPT ![c] = final]
    BY <1>6 DEF Decide
  <2>2. execution[c] \notin ExecutionResult /\ cmd[c] # "REJECTED"
    BY <2>1 DEF Inv, TablesAgree, ExecutionResult
  <2> QED
    BY <2>1, <2>2 DEF Inv, ServerType, SettledStays
<1>7. ASSUME NEW w \in Worker, Step(w), ~Serve(w) PROVE UNCHANGED server
  BY <1>7 DEF Step, ScanDraft, TakeCommand, ClaimDelivered, ClaimFails, Analyse, TakeDecision,
              ExecutionRefused, ExecuteDecision, ReportResult, TakeRow, SettleRow, EndPass
<1>8. ASSUME NEW w \in Worker, StartScan(w) \/ StartWrite(w) \/ StartFlush(w) \/ TimeOut(w)
      PROVE  UNCHANGED server
  BY <1>8 DEF StartScan, StartWrite, StartFlush, TimeOut
<1>9. CASE Crash
  BY <1>1, <1>9 DEF Crash
<1>10. CASE UNCHANGED vars
  BY <1>1, <1>10 DEF vars
<1>11. CASE User
  BY <1>4, <1>5, <1>6, <1>11 DEF User
<1> QED
  BY <1>1, <1>2, <1>3, <1>7, <1>8, <1>9, <1>10, <1>11 DEF Next

\* A rejected command and a command whose execution has a result never change
\* again: CommandsService.update, the unconditional writes of the other
\* handlers and requests served late all leave them alone.
THEOREM FinalStaysFinal == Spec => FinalIsFinal
<1>1. Inv /\ [Next]_vars => [SettledStays]_vars
  BY NextSettled
<1> QED
  BY <1>1, Invariance, PTL DEF Spec, FinalIsFinal, SettledStays
====
