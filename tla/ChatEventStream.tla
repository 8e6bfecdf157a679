-------------------------- MODULE ChatEventStream --------------------------
(***************************************************************************)
(* Clients reading the event buffer of one chat run: consume_events of     *)
(* datus/api/services/chat_task_manager.py, as POST /chat/stream and POST  *)
(* /chat/resume drive it.  The run appends events and ends (ChatEventLog); *)
(* an event is told apart by the message it is a delta of (CoalesceDeltas) *)
(* and its id is its index.                                                *)
(*                                                                         *)
(* consume_events is an async generator.  The buffer's lock is never held  *)
(* across an await, so an action is one turn of the generator between two  *)
(* suspensions: condition.wait(), or a yield, which resumes when the       *)
(* server could hand the event on and wants the next one.                  *)
(***************************************************************************)
EXTENDS CoalesceDeltas

CONSTANTS
    Clients,        \* each has at most one connection at a time
    Resumes,        \* how they reconnect, a subset of
                    \*   "auto": without from_event_id
                    \*   "next": from the id after the last one received
    Window,         \* events on the wire, yielded and not yet received
    MaxEvents,      \* bound: length of the buffer
    MaxConnects     \* bound: connections of a client

ASSUME StreamAssumption ==
    /\ Resumes \subseteq {"auto", "next"}
    /\ Window \in Nat \ {0}
    /\ MaxEvents \in Nat /\ MaxConnects \in Nat

VARIABLES
    events,             \* task.events
    status,             \* task.status # "running" is "ended"
    consumer_offset,    \* task.consumer_offset, shared by all connections
    phase,              \* where the client's generator is suspended
    cursor,             \* its local cursor
    upto,               \* cursor + len(new_events)
    pos,                \* new_events are yielded up to here
    is_done,            \* its local is_done
    sent,               \* pieces of text yielded on its connection
    read,               \* how many of them the client received
    got,                \* history: pieces it received on all its connections
    from,               \* history: cursor it connected with
    connects            \* connections made

source == <<events, status>>
gen    == <<phase, cursor, upto, pos, is_done>>
client == <<sent, read, got, from, connects>>
vars   == <<source, consumer_offset, gen, client>>

Piece == [lo : 1..MaxEvents, hi : 1..MaxEvents]

TypeOK ==
    /\ events \in Seq(Kinds) /\ Len(events) <= MaxEvents
    /\ status \in {"running", "ended"}
    /\ consumer_offset \in 0..MaxEvents
    /\ phase \in [Clients -> {"closed", "waiting", "notified", "sending", "over"}]
    /\ cursor \in [Clients -> 0..MaxEvents]
    /\ upto \in [Clients -> 0..MaxEvents]
    /\ pos \in [Clients -> 0..MaxEvents]
    /\ is_done \in [Clients -> BOOLEAN]
    /\ sent \in [Clients -> Seq(Piece)]
    /\ read \in [Clients -> Nat]
    /\ got \in [Clients -> Seq(Piece)]
    /\ from \in [Clients -> 0..MaxEvents]
    /\ connects \in [Clients -> 0..MaxConnects]

Init ==
    /\ events = <<>>
    /\ status = "running"
    /\ consumer_offset = 0
    /\ phase = [c \in Clients |-> "closed"]
    /\ cursor = [c \in Clients |-> 0]
    /\ upto = [c \in Clients |-> 0]
    /\ pos = [c \in Clients |-> 0]
    /\ is_done = [c \in Clients |-> FALSE]
    /\ sent = [c \in Clients |-> <<>>]
    /\ read = [c \in Clients |-> 0]
    /\ got = [c \in Clients |-> <<>>]
    /\ from = [c \in Clients |-> 0]
    /\ connects = [c \in Clients |-> 0]

-----------------------------------------------------------------------------
\* Mutant: notify instead of notify_all.
NotifiedOne ==
    LET asleep == {c \in Clients : phase[c] = "waiting"}
        first  == CHOOSE c \in asleep : TRUE
    IN  IF asleep = {} THEN phase ELSE [phase EXCEPT ![first] = "notified"]

\* notify_all
Notified == [c \in Clients |-> IF phase[c] = "waiting" THEN "notified" ELSE phase[c]]

\* _push_event
Push(kind) ==
    /\ status = "running"
    /\ Len(events) < MaxEvents
    /\ events' = Append(events, kind)
    /\ phase' = Notified
    /\ UNCHANGED <<status, consumer_offset, cursor, upto, pos, is_done, client>>

\* The run ends, with a last event or (cancelled) without one, and notifies.
End(said) ==
    /\ status = "running"
    /\ IF said THEN Len(events) < MaxEvents /\ events' = Append(events, Whole)
               ELSE UNCHANGED events
    /\ status' = "ended"
    /\ phase' = Notified
    /\ UNCHANGED <<consumer_offset, cursor, upto, pos, is_done, client>>

\* The head of the generator's loop, with its cursor at k: wait for news, or
\* take everything behind the cursor.
Poll(c, k) ==
    /\ cursor' = [cursor EXCEPT ![c] = k]
    /\ pos' = [pos EXCEPT ![c] = k]
    /\ IF k >= Len(events) /\ status = "running"
       THEN /\ phase' = [phase EXCEPT ![c] = "waiting"]
            /\ UNCHANGED <<upto, is_done>>
       ELSE /\ phase' = [phase EXCEPT ![c] = "sending"]
            /\ upto' = [upto EXCEPT ![c] = IF k < Len(events) THEN Len(events) ELSE k]
            /\ is_done' = [is_done EXCEPT ![c] = status # "running"]

\* The id a client passes to resume after the last event it received.  The id
\* of a merged event is that of its first delta.
NextId(c) == IF got[c] = <<>> THEN 0 ELSE got[c][Len(got[c])].lo

StartFrom(c, how) ==
    IF how = "next" THEN NextId(c)
    ELSE IF consumer_offset > 0 THEN consumer_offset - 1 ELSE 0

\* /chat/stream (the first connection) and /chat/resume.
Connect(c, how) ==
    /\ phase[c] = "closed"
    /\ connects[c] < MaxConnects
    /\ how \in Resumes
    /\ connects' = [connects EXCEPT ![c] = @ + 1]
    /\ from' = [from EXCEPT ![c] = StartFrom(c, how)]
    /\ Poll(c, StartFrom(c, how))
    /\ UNCHANGED <<source, consumer_offset, sent, read, got>>

\* condition.wait() returns.
Wake(c) ==
    /\ phase[c] = "notified"
    /\ Poll(c, cursor[c])
    /\ UNCHANGED <<source, consumer_offset, client>>

\* condition.wait() times out: a ping is yielded, and nothing was taken.
Heartbeat(c) ==
    /\ phase[c] = "waiting"
    /\ phase' = [phase EXCEPT ![c] = "sending"]
    /\ upto' = [upto EXCEPT ![c] = cursor[c]]
    /\ is_done' = [is_done EXCEPT ![c] = FALSE]
    /\ UNCHANGED <<source, consumer_offset, cursor, pos, client>>

\* What was yielded before and is still on the wire leaves room for more.
Ready(c) == phase[c] = "sending" /\ Len(sent[c]) - read[c] < Window

\* The next event of the coalesced batch is yielded.
Yield(c) ==
    /\ Ready(c)
    /\ pos[c] < upto[c]
    /\ LET hi == RunEnd(events, pos[c] + 1, upto[c])
       IN  /\ sent' = [sent EXCEPT ![c] = Append(@, [lo |-> pos[c] + 1, hi |-> hi])]
           /\ pos' = [pos EXCEPT ![c] = hi]
    /\ UNCHANGED <<source, consumer_offset, phase, cursor, upto, is_done, read, got,
                   from, connects>>

\* Mutant: the cursor advances by the events yielded, not by those merged in
\* them.
AdvancedByYields(c) ==
    cursor[c] + Cardinality({e \in (cursor[c] + 1)..upto[c] :
                                e = upto[c] \/ ~Joined(events, e)})

\* cursor + len(new_events)
Advanced(c) == upto[c]

\* The batch is out: record the offset for whoever resumes, then go round.
BatchDone(c) ==
    /\ Ready(c)
    /\ pos[c] = upto[c]
    /\ consumer_offset' = Advanced(c)
    /\ IF is_done[c] /\ Advanced(c) >= Len(events)
       THEN /\ phase' = [phase EXCEPT ![c] = "over"]
            /\ cursor' = [cursor EXCEPT ![c] = Advanced(c)]
            /\ UNCHANGED <<upto, pos, is_done>>
       ELSE Poll(c, Advanced(c))
    /\ UNCHANGED <<source, client>>

Receive(c) ==
    /\ phase[c] # "closed"
    /\ read[c] < Len(sent[c])
    /\ got' = [got EXCEPT ![c] = Append(@, sent[c][read[c] + 1])]
    /\ read' = [read EXCEPT ![c] = @ + 1]
    /\ UNCHANGED <<source, consumer_offset, gen, sent, from, connects>>

\* The client goes away: a generator that has not ended is closed where it is
\* suspended, and what is on the wire is lost.
Disconnect(c) ==
    /\ phase[c] # "closed"
    /\ phase' = [phase EXCEPT ![c] = "closed"]
    /\ sent' = [sent EXCEPT ![c] = <<>>]
    /\ read' = [read EXCEPT ![c] = 0]
    /\ UNCHANGED <<source, consumer_offset, cursor, upto, pos, is_done, got,
                   from, connects>>

\* Nobody is connected any more and the run is over.
Quiet ==
    /\ status = "ended"
    /\ \A c \in Clients :
           phase[c] \in {"closed", "over"} /\ read[c] = Len(sent[c])
    /\ UNCHANGED vars

Next ==
    \/ \E kind \in Kinds : Push(kind)
    \/ \E said \in BOOLEAN : End(said)
    \/ \E c \in Clients :
           \/ Wake(c) \/ Heartbeat(c) \/ Yield(c) \/ BatchDone(c)
           \/ \E how \in Resumes : Connect(c, how)
           \/ Receive(c) \/ Disconnect(c)
    \/ Quiet

Spec == Init /\ [][Next]_vars

\* A generator's ready turn is run and a connected client reads on.  No
\* fairness for timeouts (Heartbeat), for the run or for reconnecting: a waiting
\* generator is moved by notify_all alone.
FairSpec ==
    /\ Spec
    /\ \A c \in Clients :
           WF_vars(Wake(c)) /\ WF_vars(Yield(c)) /\ WF_vars(BatchDone(c)) /\ WF_vars(Receive(c))

-----------------------------------------------------------------------------
\* Whatever the other connections, the heartbeats and the batches do, the pieces
\* of one connection tile the buffer from where it connected: no text is lost,
\* repeated or reordered, and what is still to come starts where they stop.
ConnectionTiles ==
    \A c \in Clients : phase[c] # "closed" =>
        LET n == Len(sent[c])
        IN  /\ \A i \in 1..(n - 1) : sent[c][i + 1].lo = sent[c][i].hi + 1
            /\ IF n = 0 THEN pos[c] = from[c]
                        ELSE sent[c][1].lo = from[c] + 1 /\ sent[c][n].hi = pos[c]

\* What every connection has been sent and will be sent is the buffer.
ConnectionsSound == TypeOK /\ ConnectionTiles

\* A generator that ended delivered the whole buffer of an ended run, and one
\* that waits unnotified has nothing to deliver (no lost wakeup).
EndsComplete ==
    \A c \in Clients :
        /\ phase[c] = "over" => status = "ended" /\ pos[c] = Len(events)
        /\ phase[c] = "waiting" => status = "running" /\ pos[c] = Len(events)

\* A client that stays connected to an ended run gets its end of stream.
StreamEnds ==
    \A c \in Clients :
        status = "ended" /\ phase[c] # "closed" ~> phase[c] \in {"over", "closed"}

=============================================================================
