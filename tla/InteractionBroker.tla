------------------------- MODULE InteractionBroker -------------------------
(***************************************************************************)
(* The dialogue of a running node with its user: InteractionBroker         *)
(* (datus/cli/execution_state.py), and the merge of its output with the    *)
(* node's own action stream into the one stream the CLI, the web UI and    *)
(* the chat API read (ActionBus.merge in datus/schemas/action_bus.py,      *)
(* execute_stream_with_interactions in datus/agent/node/agentic_node.py).  *)
(*                                                                         *)
(* One node is reused for one pass after the other.  In a pass the primary *)
(* stream (the agent loop with its tools) is drained by one pump, the      *)
(* broker's queue by another; both feed the bus, which the merge loop      *)
(* yields from.  A question is asked by a tool or a hook of the primary    *)
(* and parks it on a future; whoever answers does so through submit(),     *)
(* which only SCHEDULES the future's result (call_soon_threadsafe).        *)
(***************************************************************************)
EXTENDS Integers, SequencesExt

CONSTANTS
    Questions,      \* action ids of InteractionBroker.request, used once each
    MaxPasses,      \* bound: passes run on the node
    MaxActions      \* bound: other actions, of either stream

ASSUME BrokerAssumption == MaxPasses \in Nat /\ MaxActions \in Nat

VARIABLES
    pass,       \* progress of execute_stream_with_interactions
    passes,     \* passes started
    primary,    \* the pump of the primary stream
    fetching,   \* the pump of broker.fetch() is alive
    interrupt,  \* interrupt_controller.is_interrupted
    closed,     \* broker._closed
    pending,    \* broker._pending
    output,     \* broker._output_queue
    bus,        \* the bus's queue
    seen,       \* sentinels the merge loop has counted
    request,    \* where the coroutine of each request() is
    future,     \* its future
    soon,       \* what call_soon_threadsafe will do to the future
    accepted,   \* history: submit() returned True
    emitted,    \* history: what the broker queued in this pass
    shown,      \* history: what the pass yielded
    actions     \* other actions so far

stream == <<pass, passes, primary, fetching, interrupt, bus, seen>>
broker == <<closed, pending, output>>
asking == <<request, future, soon>>
past   == <<accepted, emitted, shown, actions>>
vars   == <<stream, broker, asking, past>>

\* What travels: a question, its SUCCESS echo, any other action of the primary
\* or of the broker (an insert, a preview), and the sentinels.
Ask(q)   == [what |-> "ask", q |-> q]
Echo(q)  == [what |-> "answer", q |-> q]
Plain(w) == [what |-> w, q |-> "none"]
Other    == Plain("insert")
Action   == Plain("action")
Stop     == Plain("stop")
Done     == Plain("done")

Shown    == {Ask(q) : q \in Questions} \cup {Echo(q) : q \in Questions} \cup {Other, Action}
Queued   == Shown \cup {Stop, Done}

\* The sentinels of a merge: one _DONE for each of the two pumps and one _STOP.
Expected == 3

TypeOK ==
    /\ pass \in {"off", "merging", "interrupted", "raised", "over"}
    /\ passes \in 0..MaxPasses
    /\ primary \in {"off", "on", "finished", "failed"}
    /\ fetching \in BOOLEAN
    /\ interrupt \in BOOLEAN
    /\ closed \in BOOLEAN
    /\ pending \in SUBSET Questions
    /\ output \in Seq(Queued)
    /\ bus \in Seq(Queued)
    /\ seen \in 0..Expected
    /\ request \in [Questions -> {"idle", "waiting", "answered", "refused"}]
    /\ future \in [Questions -> {"none", "open", "result", "error", "cancelled"}]
    /\ soon \in [Questions -> {"none", "result", "error"}]
    /\ accepted \in SUBSET Questions
    /\ emitted \in Seq(Shown)
    /\ shown \in Seq(Shown)
    /\ actions \in 0..MaxActions

Init ==
    /\ pass = "off" /\ passes = 0
    /\ primary = "off" /\ fetching = FALSE
    /\ interrupt = FALSE
    /\ closed = FALSE /\ pending = {} /\ output = <<>>
    /\ bus = <<>> /\ seen = 0
    /\ request = [q \in Questions |-> "idle"]
    /\ future = [q \in Questions |-> "none"]
    /\ soon = [q \in Questions |-> "none"]
    /\ accepted = {} /\ emitted = <<>> /\ shown = <<>> /\ actions = 0

-----------------------------------------------------------------------------
\* A pass starts: the interrupt is reset, the bus and the broker get new queues,
\* both pumps are created.
StartPass ==
    /\ pass \in {"off", "over"}
    /\ passes < MaxPasses
    /\ passes' = passes + 1
    /\ pass' = "merging"
    /\ primary' = "on" /\ fetching' = TRUE
    /\ interrupt' = FALSE
    /\ closed' = FALSE /\ output' = <<>>
    /\ bus' = <<>> /\ seen' = 0
    /\ emitted' = <<>> /\ shown' = <<>>
    /\ UNCHANGED <<pending, asking, accepted, actions>>

\* A tool of the primary runs; one that a parallel tool's failure left behind
\* still does.
ToolRuns == primary \in {"on", "failed"}

Emit(item) ==
    /\ output' = Append(output, item)
    /\ emitted' = Append(emitted, item)

\* request(): refused once the broker is closed, else registered and queued.
Request(q) ==
    /\ ToolRuns
    /\ request[q] = "idle"
    /\ IF closed
       THEN /\ request' = [request EXCEPT ![q] = "refused"]
            /\ UNCHANGED <<pending, future, output, emitted>>
       ELSE /\ request' = [request EXCEPT ![q] = "waiting"]
            /\ future' = [future EXCEPT ![q] = "open"]
            /\ pending' = pending \cup {q}
            /\ Emit(Ask(q))
    /\ UNCHANGED <<stream, closed, soon, accepted, shown, actions>>

\* send() and emit_user_insert(): ignored once the broker is closed.
Send ==
    /\ ToolRuns /\ ~closed
    /\ actions < MaxActions
    /\ actions' = actions + 1
    /\ Emit(Other)
    /\ UNCHANGED <<stream, closed, pending, asking, accepted, shown>>

\* The primary yields an action.
Stream ==
    /\ primary = "on"
    /\ actions < MaxActions
    /\ actions' = actions + 1
    /\ bus' = Append(bus, Action)
    /\ UNCHANGED <<pass, passes, primary, fetching, interrupt, seen, broker,
                   asking, accepted, emitted, shown>>

\* Mutant: closing leaves the waiting requests alone.
ReleasedNone == soon

\* Mutant: closing resolves the waiting requests with nothing.
ReleasedEmpty ==
    [q \in Questions |->
        IF q \in pending /\ future[q] = "open" THEN "result" ELSE soon[q]]

\* close() schedules an exception for every request that is still registered.
Released ==
    [q \in Questions |->
        IF q \in pending /\ future[q] = "open" THEN "error" ELSE soon[q]]

\* Mutant: the end of the primary does not close the broker.
PrimaryEndsBrokerOpen(how) ==
    /\ primary = "on"
    /\ how = "finished" => \A q \in Questions : request[q] # "waiting"
    /\ primary' = how
    /\ bus' = bus \o <<Stop, Done>>
    /\ UNCHANGED <<pass, passes, fetching, interrupt, seen, broker, asking, past>>

\* The primary's pump ends: broker.close, bus.close, then its own sentinel.  It
\* only finishes when no tool of it is waiting.
PrimaryEnds(how) ==
    /\ primary = "on"
    /\ how = "finished" => \A q \in Questions : request[q] # "waiting"
    /\ primary' = how
    /\ closed' = TRUE
    /\ pending' = {}
    /\ soon' = Released
    /\ output' = Append(output, Stop)
    /\ bus' = bus \o <<Stop, Done>>
    /\ UNCHANGED <<pass, passes, fetching, interrupt, seen, request, future, past>>

\* Mutant: the sentinel overtakes what is queued before it.
FetchStopFirst ==
    /\ fetching /\ output # <<>>
    /\ IF Contains(output, Stop)
       THEN fetching' = FALSE /\ bus' = Append(bus, Done) /\ output' = <<>>
       ELSE bus' = Append(bus, Head(output)) /\ output' = Tail(output) /\ UNCHANGED fetching
    /\ UNCHANGED <<pass, passes, primary, interrupt, seen, closed, pending,
                   asking, past>>

\* The broker's pump: one item of fetch(), or its end at the sentinel.
Fetch ==
    /\ fetching /\ output # <<>>
    /\ output' = Tail(output)
    /\ IF Head(output) = Stop
       THEN fetching' = FALSE /\ bus' = Append(bus, Done)
       ELSE bus' = Append(bus, Head(output)) /\ UNCHANGED fetching
    /\ UNCHANGED <<pass, passes, primary, interrupt, seen, closed, pending,
                   asking, past>>

\* The merge loop takes a sentinel.  _STOP after a failed primary ends it at
\* once; the last one ends it.
Count ==
    /\ pass = "merging" /\ seen < Expected /\ bus # <<>>
    /\ Head(bus) \in {Stop, Done}
    /\ bus' = Tail(bus)
    /\ seen' = seen + 1
    /\ pass' = IF Head(bus) = Stop /\ primary = "failed" THEN "raised"
               ELSE IF seen' = Expected THEN "over" ELSE "merging"
    /\ UNCHANGED <<passes, primary, fetching, interrupt, broker, asking, past>>

\* It yields an action, which execute_stream_with_interactions hands on unless
\* the execution was interrupted.
Yield ==
    /\ pass = "merging" /\ bus # <<>>
    /\ Head(bus) \notin {Stop, Done}
    /\ bus' = Tail(bus)
    /\ IF interrupt
       THEN pass' = "interrupted" /\ UNCHANGED shown
       ELSE shown' = Append(shown, Head(bus)) /\ UNCHANGED pass
    /\ UNCHANGED <<passes, primary, fetching, interrupt, seen, broker, asking,
                   accepted, emitted, actions>>

\* The user interrupts (ESC, POST /chat/stop).
Interrupt ==
    /\ pass = "merging" /\ ~interrupt
    /\ interrupt' = TRUE
    /\ UNCHANGED <<pass, passes, primary, fetching, bus, seen, broker, asking, past>>

\* The task that reads the stream is cancelled.
Cancel ==
    /\ pass = "merging"
    /\ pass' = "interrupted"
    /\ UNCHANGED <<passes, primary, fetching, interrupt, bus, seen, broker,
                   asking, past>>

\* The finally block of merge, when it did not run to its end: the pumps are
\* cancelled.  A cancelled primary closes neither broker nor bus; the tools it
\* waits for are cancelled with it.
CleanUp ==
    /\ pass \in {"interrupted", "raised"}
    /\ pass' = "over"
    /\ primary' = IF primary = "on" THEN "off" ELSE primary
    /\ fetching' = FALSE
    /\ future' = [q \in Questions |->
           IF primary = "on" /\ request[q] = "waiting" THEN "cancelled" ELSE future[q]]
    /\ UNCHANGED <<passes, interrupt, bus, seen, broker, request, soon, past>>

-----------------------------------------------------------------------------
\* submit() of a valid answer; anything else returns False and changes nothing.
Submit(q) ==
    /\ q \in pending
    /\ accepted' = accepted \cup {q}
    /\ pending' = pending \ {q}
    /\ soon' = [soon EXCEPT ![q] = IF future[q] = "open" THEN "result" ELSE @]
    /\ IF closed THEN UNCHANGED <<output, emitted>> ELSE Emit(Echo(q))
    /\ UNCHANGED <<stream, closed, request, future, shown, actions>>

\* The scheduled callback runs; on a cancelled future it has no effect.
Settle(q) ==
    /\ soon[q] # "none"
    /\ soon' = [soon EXCEPT ![q] = "none"]
    /\ future' = [future EXCEPT ![q] = IF @ = "open" THEN soon[q] ELSE @]
    /\ UNCHANGED <<stream, broker, request, past>>

\* request() resumes: the answer is returned, or InteractionCancelled is raised;
\* a cancelled request unregisters itself.
Resume(q) ==
    /\ request[q] = "waiting"
    /\ future[q] # "open"
    /\ request' = [request EXCEPT ![q] = IF future[q] = "result" THEN "answered" ELSE "refused"]
    /\ pending' = IF future[q] = "cancelled" THEN pending \ {q} ELSE pending
    /\ UNCHANGED <<stream, closed, output, future, soon, past>>

\* Between passes, or after the last one.
Rest == pass \in {"off", "over"} /\ UNCHANGED vars

Next ==
    \/ StartPass \/ Send \/ Stream \/ Fetch \/ Count \/ Yield \/ Interrupt \/ Cancel \/ CleanUp
    \/ \E how \in {"finished", "failed"} : PrimaryEnds(how)
    \/ \E q \in Questions : Request(q) \/ Submit(q) \/ Settle(q) \/ Resume(q)
    \/ Rest

Spec == Init /\ [][Next]_vars

\* The event loop runs the pumps, the merge loop and every scheduled callback.
\* No fairness for the primary, for the user or for who interrupts.
Fairness ==
    /\ WF_vars(Fetch) /\ WF_vars(Count \/ Yield) /\ WF_vars(CleanUp)
    /\ \A q \in Questions : WF_vars(Settle(q)) /\ WF_vars(Resume(q))

FairSpec == Spec /\ Fairness

-----------------------------------------------------------------------------
\* What the user sees of the dialogue: the n-th item the pass has shown of the
\* broker is the n-th the broker queued, no question and no answer twice, and an
\* answer comes after its question.  The one answer whose question this pass never
\* showed is that of a request whose future is cancelled: its pass was cut short,
\* and until it unregisters itself the next pass still takes, and echoes, an answer
\* that nobody will get.
DialogueInOrder ==
    /\ \A i \in DOMAIN shown : shown[i] # Action =>
           LET n == Cardinality({j \in 1..i : shown[j] # Action})
           IN  n <= Len(emitted) /\ shown[i] = emitted[n]
    /\ \A i, j \in DOMAIN emitted : emitted[i] = emitted[j] /\ emitted[i] # Other => i = j
    /\ \A q \in Questions : \A i \in DOMAIN emitted :
           emitted[i] = Echo(q) =>
               \/ \E j \in 1..(i - 1) : emitted[j] = Ask(q)
               \/ future[q] = "cancelled"

\* A pass that ends without error, interrupt or cancellation has shown all of it,
\* and its own actions too.
NormalEndShowsAll ==
    pass = "over" /\ seen = Expected /\ primary = "finished" =>
        /\ Len(shown) = Len(emitted)
                        + Cardinality({i \in DOMAIN shown : shown[i] = Action})
        /\ bus = <<>> /\ output = <<>>

\* The dialogue is shown in order, and whole if nothing went wrong.
DialogueShown == DialogueInOrder /\ NormalEndShowsAll

\* A request returns an answer only if one was accepted for it, and an accepted
\* one is on its way until the request has ended.
AnswersAreAccepted ==
    \A q \in Questions :
        /\ request[q] = "answered" => q \in accepted
        /\ q \in accepted /\ request[q] = "waiting" =>
               soon[q] = "result" \/ future[q] \in {"result", "cancelled"}

\* A question that can be answered belongs to a request that still waits.
PendingWaits == \A q \in pending : request[q] = "waiting" /\ q \notin accepted

\* An answer belongs to its question, and only a question that waits takes one.
AnswersSound == TypeOK /\ AnswersAreAccepted /\ PendingWaits

\* When the primary has ended nobody is left waiting for the user, and the stream
\* ends.
NobodyLeftWaiting ==
    \A q \in Questions :
        request[q] = "waiting" /\ primary # "on" ~> request[q] # "waiting"

PassEnds == pass = "merging" /\ primary # "on" ~> pass = "over"
=============================================================================
