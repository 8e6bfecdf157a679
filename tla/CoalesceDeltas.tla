--------------------------- MODULE CoalesceDeltas ---------------------------
(***************************************************************************)
(* _coalesce_deltas of datus/api/services/chat_task_manager.py: thinking   *)
(* deltas of one message that follow each other travel as a single event.  *)
(* An event is only told apart by the message it is a delta of, Whole when *)
(* it is no delta.  A merged event is the pair <<first, last>> of the      *)
(* positions whose text it carries; it keeps the id of the first.          *)
(***************************************************************************)
EXTENDS Integers, Sequences, FiniteSets

CONSTANTS Messages,   \* message ids of the deltas
          Whole       \* an event that is not a delta

ASSUME WholeAssumption == Whole \notin Messages

Kinds == Messages \cup {Whole}

\* The loop's state: finished events, the position where the run of deltas
\* being collected starts (0 for None) and the message it belongs to.
Fresh == [result |-> <<>>, run_start |-> 0, run_msg_id |-> Whole]

Flushed(acc, next) ==
    IF acc.run_start = 0 THEN acc.result
    ELSE Append(acc.result, <<acc.run_start, next - 1>>)

\* Mutant: the message a delta belongs to is not looked at.
CollectAnyMessage(evs, acc, i) ==
    CASE evs[i] = Whole ->
             [acc EXCEPT !.result = Append(Flushed(acc, i), <<i, i>>), !.run_start = 0]
      [] evs[i] # Whole /\ acc.run_start = 0 ->
             [acc EXCEPT !.run_start = i, !.run_msg_id = evs[i]]
      [] OTHER -> acc

\* One turn of the loop, at position i of the events.
Collect(evs, acc, i) ==
    CASE evs[i] = Whole ->
             [acc EXCEPT !.result = Append(Flushed(acc, i), <<i, i>>), !.run_start = 0]
      [] evs[i] # Whole /\ acc.run_start = 0 ->
             [acc EXCEPT !.run_start = i, !.run_msg_id = evs[i]]
      [] evs[i] # Whole /\ acc.run_start # 0 /\ evs[i] # acc.run_msg_id ->
             [result |-> Flushed(acc, i), run_start |-> i, run_msg_id |-> evs[i]]
      [] OTHER -> acc

\* The loop's state after all its turns.
Collected(evs) ==
    LET after[i \in 0..Len(evs)] == IF i = 0 THEN Fresh ELSE Collect(evs, after[i - 1], i)
    IN  after[Len(evs)]

Coalesce(evs) == Flushed(Collected(evs), Len(evs) + 1)

-----------------------------------------------------------------------------
\* Reference: position i and the next one are deltas of the same message.
Joined(evs, i) == evs[i] # Whole /\ evs[i + 1] = evs[i]

\* Reference: the last position of the event that starts at lo when the
\* positions up to hi are available.
RunEnd(evs, lo, hi) ==
    CHOOSE e \in lo..hi :
        /\ \A i \in lo..(e - 1) : Joined(evs, i)
        /\ e < hi => ~Joined(evs, e)

\* Reference: the pieces lie end to end over all of evs, and each is as long as it can be.
Tiles(out, evs) ==
    /\ out = <<>> <=> evs = <<>>
    /\ out # <<>> => out[1][1] = 1 /\ out[Len(out)][2] = Len(evs)
    /\ \A j \in 1..(Len(out) - 1) : out[j + 1][1] = out[j][2] + 1
    /\ \A j \in DOMAIN out : out[j][2] = RunEnd(evs, out[j][1], Len(evs))
=============================================================================
