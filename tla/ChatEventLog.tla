---------------------------- MODULE ChatEventLog ----------------------------
(***************************************************************************)
(* What the event buffer of one chat run (ChatTask.events, ChatTask.status *)
(* in datus/api/services/chat_task_manager.py) promises to those who read  *)
(* it by index: it only grows, event number i carries id i, and it ends    *)
(* with the one event that tells how the run ended.  ChatTaskManager is    *)
(* shown to implement this; ChatEventStream reads such a buffer.           *)
(***************************************************************************)
EXTENDS Integers, Sequences

CONSTANT Kinds      \* what a run may stream before its end

VARIABLES events, status

Outcomes == {"completed", "error", "cancelled"}

\* The events a run closes with; a cancelled run says nothing.
Last == [completed |-> <<"end">>, error |-> <<"error">>, cancelled |-> <<>>]

\* The buffer grew by events of these kinds, numbered on from the last.
Appended(kinds) ==
    /\ Len(events') = Len(events) + Len(kinds)
    /\ \A i \in 1..Len(events) : events'[i] = events[i]
    /\ \A i \in 1..Len(kinds) :
           events'[Len(events) + i] = [id |-> Len(events) + i - 1, kind |-> kinds[i]]

Added == [i \in 1..(Len(events') - Len(events)) |-> events'[Len(events) + i].kind]

Init == events = <<>> /\ status = "running"

\* A live run streams on.
Stream ==
    /\ status = "running" /\ status' = "running"
    /\ Appended(Added)
    /\ \A i \in DOMAIN Added : Added[i] \in Kinds

\* It ends once, and says how.
Close(outcome) ==
    /\ status = "running" /\ status' = outcome
    /\ Appended(Last[outcome])

Next == Stream \/ \E outcome \in Outcomes : Close(outcome)

Spec == Init /\ [][Next]_<<events, status>>
=============================================================================
