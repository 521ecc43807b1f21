------------------------------ MODULE EventLog ------------------------------
(***************************************************************************)
(* What the sync log of a user promises to a desktop that reads it: the    *)
(* events form one list that only grows at its end, and the desktop acts   *)
(* on them in the order of that list, none left out.  How long it takes,   *)
(* and how often an event is handled again, is not part of the promise.    *)
(* Module Background shows that the numbering of sync.service.ts, the      *)
(* paged replay and the stored cursor keep it.                             *)
(***************************************************************************)
EXTENDS Naturals, Sequences

VARIABLES
    log,      \* the events of the user
    acted     \* the events the desktop acted on, in the order it first did so

vars == <<log, acted>>

Init == log = <<>> /\ acted = <<>>

\* A transaction commits one or more events.
Publish ==
    /\ Len(log') > Len(log) /\ SubSeq(log', 1, Len(log)) = log
    /\ UNCHANGED acted

\* The desktop acts on the first event it has not acted on.
Act ==
    /\ Len(acted) < Len(log)
    /\ acted' = Append(acted, log[Len(acted) + 1])
    /\ UNCHANGED log

Next == Publish \/ Act

Spec == Init /\ [][Next]_vars
=============================================================================
