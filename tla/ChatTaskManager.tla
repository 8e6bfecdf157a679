-------------------------- MODULE ChatTaskManager --------------------------
(***************************************************************************)
(* The per-project manager of chat runs                                    *)
(* (datus/api/services/chat_task_manager.py) together with the two HTTP    *)
(* handlers that reach into a live run (POST /chat/stop, POST              *)
(* /chat/insert).  Everything here runs on one asyncio event loop, so an   *)
(* action is what happens between two suspension points: pc[t] names the   *)
(* await at which the coroutine _run_loop of task t is parked.             *)
(*                                                                         *)
(* Task.cancel() does not stop a coroutine at once.  It is a request       *)
(* (cancelReq) that turns the coroutine's NEXT step into a CancelledError: *)
(* other handlers may run in between.                                      *)
(***************************************************************************)
EXTENDS Integers, Sequences, FiniteSets

CONSTANTS
    Sessions,           \* session ids clients use
    Tasks,              \* ChatTask objects, each started at most once
    None,               \* "no task" in the two registries
    MaxContinuations,   \* _MAX_INSERT_CONTINUATIONS
    QueueCap,           \* maxlen of PendingInputQueue
    TTL,                \* COMPLETED_TASK_TTL
    MaxEvents,          \* bound: streamed events per task
    MaxInserts,         \* bound: task -> inserts it accepts
    MaxTime             \* bound: clock

ASSUME NoneAssumption == None \notin Tasks
ASSUME BoundsAssumption ==
    /\ MaxContinuations \in Nat
    /\ QueueCap \in Nat \ {0}
    /\ TTL \in Nat
    /\ MaxEvents \in Nat /\ MaxInserts \in [Tasks -> Nat] /\ MaxTime \in Nat

VARIABLES
    slot,           \* _tasks:           session -> task
    completed,      \* _completed_tasks: session -> task
    owner,          \* ChatTask.session_id
    pc,             \* where _run_loop of the task is parked
    status,         \* ChatTask.status
    hasNode,        \* ChatTask.node is set
    interrupted,    \* node.interrupt_controller.is_interrupted
    cancelReq,      \* asyncio_task.cancel() was called, not yet delivered
    events,         \* ChatTask.events
    nextId,         \* the local event_id of _run_loop
    queue,          \* ChatTask.pending_input_queue
    accepting,      \* ChatTask.accepting_inserts
    continuations,  \* the local continuations of _run_loop
    accepted,       \* history: inserts the client was told were accepted
    delivered,      \* history: inserts handed to the model, in order
    dropped,        \* history: inserts discarded, with the reason
    now,            \* datetime.now()
    created,        \* ChatTask.created_at
    finished,       \* history: when the run ended
    shutdown,       \* progress of shutdown()
    gathered,       \* the tasks shutdown() waits for
    late            \* history: sessions in which a run was started while
                    \* shutdown() was waiting

registry == <<slot, completed>>
run      == <<owner, pc, status, hasNode, interrupted, cancelReq>>
log      == <<events, nextId>>
inserts  == <<queue, accepting, continuations, accepted, delivered, dropped>>
clock    == <<now, created, finished>>
closing  == <<shutdown, gathered, late>>
vars     == <<registry, run, log, inserts, clock, closing>>

Statuses  == {"running", "completed", "error", "cancelled"}
Parked    == {"snapshot", "init", "resolve", "pass", "persist", "usage"}
Stages    == {"unborn", "scheduled", "done", "dead"} \cup Parked
EventKind == {"session", "warning", "action", "user_insert", "end", "error"}
Reasons   == {"overflow", "cap", "interrupt"}
Event     == [id : Nat, kind : EventKind]

TypeOK ==
    /\ slot \in [Sessions -> Tasks \cup {None}]
    /\ completed \in [Sessions -> Tasks \cup {None}]
    /\ owner \in [Tasks -> Sessions \cup {None}]
    /\ pc \in [Tasks -> Stages]
    /\ status \in [Tasks -> Statuses]
    /\ hasNode \in [Tasks -> BOOLEAN]
    /\ interrupted \in [Tasks -> BOOLEAN]
    /\ cancelReq \in [Tasks -> BOOLEAN]
    /\ events \in [Tasks -> Seq(Event)]
    /\ nextId \in [Tasks -> Nat]
    /\ queue \in [Tasks -> Seq(Nat)]
    /\ accepting \in [Tasks -> BOOLEAN]
    /\ continuations \in [Tasks -> Nat]
    /\ accepted \in [Tasks -> Nat]
    /\ delivered \in [Tasks -> Seq(Nat)]
    /\ dropped \in [Tasks -> SUBSET (Nat \X Reasons)]
    /\ now \in Nat
    /\ created \in [Tasks -> Nat]
    /\ finished \in [Tasks -> Nat]
    /\ shutdown \in {"none", "gathering", "stopped"}
    /\ gathered \in SUBSET Tasks
    /\ late \in SUBSET Sessions

Init ==
    /\ slot = [s \in Sessions |-> None]
    /\ completed = [s \in Sessions |-> None]
    /\ owner = [t \in Tasks |-> None]
    /\ pc = [t \in Tasks |-> "unborn"]
    /\ status = [t \in Tasks |-> "running"]
    /\ hasNode = [t \in Tasks |-> FALSE]
    /\ interrupted = [t \in Tasks |-> FALSE]
    /\ cancelReq = [t \in Tasks |-> FALSE]
    /\ events = [t \in Tasks |-> <<>>]
    /\ nextId = [t \in Tasks |-> 0]
    /\ queue = [t \in Tasks |-> <<>>]
    /\ accepting = [t \in Tasks |-> TRUE]
    /\ continuations = [t \in Tasks |-> 0]
    /\ accepted = [t \in Tasks |-> 0]
    /\ delivered = [t \in Tasks |-> <<>>]
    /\ dropped = [t \in Tasks |-> {}]
    /\ now = 0
    /\ created = [t \in Tasks |-> 0]
    /\ finished = [t \in Tasks |-> 0]
    /\ shutdown = "none"
    /\ gathered = {}
    /\ late = {}

-----------------------------------------------------------------------------
\* Mutant: a coroutine cancelled before its first step does not count as done.
TaskReturned(t) == pc[t] = "done"

\* asyncio_task.done(): the coroutine returned, or was cancelled unstarted.
TaskDone(t) == pc[t] \in {"done", "dead"}
Live(t)     == pc[t] \notin {"unborn", "done", "dead"}

\* get_task
GetTask(s) == IF slot[s] # None THEN slot[s] ELSE completed[s]

\* has_active_tasks
HasActiveTasks == \E s \in Sessions : slot[s] # None /\ status[slot[s]] = "running"

\* Mutant: a run exactly TTL old is expired.
PurgedAtTTL(c) ==
    [s \in Sessions |->
        IF c[s] # None /\ now - created[c[s]] >= TTL THEN None ELSE c[s]]

\* _purge_expired_completed: the age of a run counts from its creation.
Purged(c) ==
    [s \in Sessions |->
        IF c[s] # None /\ now - created[c[s]] > TTL THEN None ELSE c[s]]

\* Mutant: the local event_id counts calls, not events.
PushCountsOnce(t, kinds) ==
    /\ events' = [events EXCEPT ![t] =
           @ \o [i \in 1..Len(kinds) |-> [id |-> nextId[t] + i - 1, kind |-> kinds[i]]]]
    /\ nextId' = [nextId EXCEPT ![t] = @ + 1]

\* _push_event of n events in a row, each stamped with the local event_id.
Push(t, kinds) ==
    /\ events' = [events EXCEPT ![t] =
           @ \o [i \in 1..Len(kinds) |-> [id |-> nextId[t] + i - 1, kind |-> kinds[i]]]]
    /\ nextId' = [nextId EXCEPT ![t] = @ + Len(kinds)]

\* The coroutine's next step is normal code, not a CancelledError.
At(t, stage) == pc[t] = stage /\ ~cancelReq[t]
GoTo(t, stage) == pc' = [pc EXCEPT ![t] = stage]

\* The finally block: pop by session id, keep for resume, purge.
Finish(t, st) ==
    /\ GoTo(t, "done")
    /\ status' = [status EXCEPT ![t] = st]
    /\ slot' = [slot EXCEPT ![owner[t]] = None]
    /\ completed' = Purged([completed EXCEPT ![owner[t]] = t])
    /\ finished' = [finished EXCEPT ![t] = now]

-----------------------------------------------------------------------------
\* Mutant: a run that is being stopped no longer holds its session.
StoppingFreesSession(s) == slot[s] # None => cancelReq[slot[s]]

SessionFree(s) == slot[s] = None

\* start_chat: refused (ValueError) while the session has a slot.  Nothing in it
\* looks at shutdown(): a request that still holds the manager may start a run
\* while shutdown() waits, or after it returned.
StartChat(t, s) ==
    /\ pc[t] = "unborn"
    /\ SessionFree(s)
    /\ slot' = [slot EXCEPT ![s] = t]
    /\ owner' = [owner EXCEPT ![t] = s]
    /\ created' = [created EXCEPT ![t] = now]
    /\ late' = late \cup (IF shutdown = "gathering" THEN {s} ELSE {})
    /\ GoTo(t, "scheduled")
    /\ UNCHANGED <<completed, status, hasNode, interrupted, cancelReq, log,
                   inserts, now, finished, shutdown, gathered>>

\* First step of _run_loop, up to the await of _max_user_turn_number.
BeginRun(t) ==
    /\ At(t, "scheduled")
    /\ GoTo(t, "snapshot")
    /\ UNCHANGED <<registry, owner, status, hasNode, interrupted, cancelReq,
                   log, inserts, clock, closing>>

\* A coroutine cancelled before its first step never enters its try block:
\* neither the except clauses nor the finally block run.
CancelUnstarted(t) ==
    /\ pc[t] = "scheduled" /\ cancelReq[t]
    /\ GoTo(t, "dead")
    /\ UNCHANGED <<registry, owner, status, hasNode, interrupted, cancelReq,
                   log, inserts, clock, closing>>

SnapshotTaken(t) ==
    /\ At(t, "snapshot")
    /\ GoTo(t, "init")
    /\ UNCHANGED <<registry, owner, status, hasNode, interrupted, cancelReq,
                   log, inserts, clock, closing>>

\* The node is created; the session event and, when a capability is degraded,
\* a warning are pushed; the next await resolves the @-references.
NodeCreated(t, degraded) ==
    /\ At(t, "init")
    /\ hasNode' = [hasNode EXCEPT ![t] = TRUE]
    /\ Push(t, IF degraded THEN <<"session", "warning">> ELSE <<"session">>)
    /\ GoTo(t, "resolve")
    /\ UNCHANGED <<registry, owner, status, interrupted, cancelReq, inserts,
                   clock, closing>>

\* A pass starts with execute_stream_with_interactions resetting the
\* interrupt controller.
ContextResolved(t) ==
    /\ At(t, "resolve")
    /\ interrupted' = [interrupted EXCEPT ![t] = FALSE]
    /\ GoTo(t, "pass")
    /\ UNCHANGED <<registry, owner, status, hasNode, cancelReq, log, inserts,
                   clock, closing>>

\* One action of the node's stream becomes an SSE event.
StreamEvent(t) ==
    /\ At(t, "pass")
    /\ Len(events[t]) < MaxEvents
    /\ Push(t, <<"action">>)
    /\ UNCHANGED <<registry, run, inserts, clock, closing>>

\* call_model_input_filter, before an LLM turn of the pass: every queued
\* message is appended to the model's input.
InjectPending(t) ==
    /\ At(t, "pass")
    /\ ~interrupted[t]
    /\ queue[t] # <<>>
    /\ delivered' = [delivered EXCEPT ![t] = @ \o queue[t]]
    /\ queue' = [queue EXCEPT ![t] = <<>>]
    /\ UNCHANGED <<registry, run, log, accepting, continuations, accepted,
                   dropped, clock, closing>>

\* The pass ended and nothing is left to continue with: stop accepting inserts
\* and go on to the tail of the run.  An interrupted run clears its queue.
PassEndsRun(t) ==
    /\ At(t, "pass")
    /\ queue[t] = <<>> \/ interrupted[t]
    /\ accepting' = [accepting EXCEPT ![t] = FALSE]
    /\ dropped' = [dropped EXCEPT ![t] =
           @ \cup {<<queue[t][i], "interrupt">> : i \in DOMAIN queue[t]}]
    /\ queue' = [queue EXCEPT ![t] = <<>>]
    /\ GoTo(t, "persist")
    /\ UNCHANGED <<registry, owner, status, hasNode, interrupted, cancelReq, log,
                   continuations, accepted, delivered, clock, closing>>

\* The pass ended with residual inserts: echo each one and run a fresh pass.
PassContinues(t) ==
    /\ At(t, "pass")
    /\ queue[t] # <<>> /\ ~interrupted[t]
    /\ continuations[t] < MaxContinuations
    /\ continuations' = [continuations EXCEPT ![t] = @ + 1]
    /\ Push(t, [i \in 1..Len(queue[t]) |-> "user_insert"])
    /\ delivered' = [delivered EXCEPT ![t] = @ \o queue[t]]
    /\ queue' = [queue EXCEPT ![t] = <<>>]
    /\ interrupted' = [interrupted EXCEPT ![t] = FALSE]
    /\ UNCHANGED <<registry, owner, pc, status, hasNode, cancelReq, accepting,
                   accepted, dropped, clock, closing>>

\* The continuation cap is hit: the drained residual is logged and dropped.
PassCapped(t) ==
    /\ At(t, "pass")
    /\ queue[t] # <<>> /\ ~interrupted[t]
    /\ continuations[t] >= MaxContinuations
    /\ continuations' = [continuations EXCEPT ![t] = @ + 1]
    /\ accepting' = [accepting EXCEPT ![t] = FALSE]
    /\ dropped' = [dropped EXCEPT ![t] =
           @ \cup {<<queue[t][i], "cap">> : i \in DOMAIN queue[t]}]
    /\ queue' = [queue EXCEPT ![t] = <<>>]
    /\ GoTo(t, "persist")
    /\ UNCHANGED <<registry, owner, status, hasNode, interrupted, cancelReq, log,
                   accepted, delivered, clock, closing>>

ContextPersisted(t) ==
    /\ At(t, "persist")
    /\ GoTo(t, "usage")
    /\ UNCHANGED <<registry, owner, status, hasNode, interrupted, cancelReq,
                   log, inserts, clock, closing>>

RunCompletes(t) ==
    /\ At(t, "usage")
    /\ Push(t, <<"end">>)
    /\ Finish(t, "completed")
    /\ UNCHANGED <<owner, hasNode, interrupted, cancelReq, inserts, now,
                   created, closing>>

\* except Exception: node creation (or the permission override, after
\* task.node is set), @-reference resolution and the pass may raise.
RunFails(t, node) ==
    /\ At(t, "init") \/ At(t, "resolve") \/ At(t, "pass")
    /\ IF pc[t] = "init" THEN node \in BOOLEAN ELSE node = hasNode[t]
    /\ hasNode' = [hasNode EXCEPT ![t] = node]
    /\ Push(t, <<"error">>)
    /\ Finish(t, "error")
    /\ UNCHANGED <<owner, interrupted, cancelReq, inserts, now, created, closing>>

\* Mutant: an await outside the pass swallows the cancellation and waits on.
CancelDeliveredInPass(t) ==
    /\ pc[t] \in Parked /\ cancelReq[t]
    /\ \/ /\ pc[t] = "pass"
          /\ Finish(t, "cancelled")
          /\ UNCHANGED <<owner, hasNode, interrupted, cancelReq, log, inserts, now,
                         created, closing>>
       \/ pc[t] # "pass" /\ UNCHANGED vars

\* except asyncio.CancelledError: no event is pushed.
CancelDelivered(t) ==
    /\ pc[t] \in Parked /\ cancelReq[t]
    /\ Finish(t, "cancelled")
    /\ UNCHANGED <<owner, hasNode, interrupted, cancelReq, log, inserts, now,
                   created, closing>>

-----------------------------------------------------------------------------
\* stop_task
StopTask(s) ==
    /\ slot[s] # None
    /\ LET t == slot[s] IN
         /\ interrupted' = [interrupted EXCEPT ![t] = @ \/ hasNode[t]]
         /\ cancelReq' = [cancelReq EXCEPT ![t] = @ \/ ~TaskDone(t)]
    /\ UNCHANGED <<registry, owner, pc, status, hasNode, log, inserts, clock,
                   closing>>

\* Mutant: inserts are taken as long as the run has no outcome.
TakesInsertsToTheEnd(t) == status[t] = "running"

TakesInserts(t) == status[t] = "running" /\ accepting[t]

\* Mutant: the newest insert goes first.
QueueInFront(t, n) ==
    IF Len(queue[t]) < QueueCap
    THEN /\ queue' = [queue EXCEPT ![t] = <<n>> \o @]
         /\ UNCHANGED dropped
    ELSE /\ queue' = [queue EXCEPT ![t] = Append(Tail(@), n)]
         /\ dropped' = [dropped EXCEPT ![t] = @ \cup {<<Head(queue[t]), "overflow">>}]

\* PendingInputQueue.push: the bounded deque discards its oldest entry.
QueueInput(t, n) ==
    IF Len(queue[t]) < QueueCap
    THEN /\ queue' = [queue EXCEPT ![t] = Append(@, n)]
         /\ UNCHANGED dropped
    ELSE /\ queue' = [queue EXCEPT ![t] = Append(Tail(@), n)]
         /\ dropped' = [dropped EXCEPT ![t] = @ \cup {<<Head(queue[t]), "overflow">>}]

\* insert_message: accepted while the run is live and still draining.
InsertMessage(s) ==
    LET t == GetTask(s)
        n == accepted[t] + 1
    IN  /\ t # None
        /\ TakesInserts(t)
        /\ accepted[t] < MaxInserts[t]
        /\ accepted' = [accepted EXCEPT ![t] = n]
        /\ QueueInput(t, n)
        /\ UNCHANGED <<registry, run, log, accepting, continuations, delivered,
                       clock, closing>>

Registered == {t \in Tasks : \E s \in Sessions : slot[s] = t}
Pending    == {t \in Registered : ~TaskDone(t)}

ClearRegistries ==
    /\ slot' = [s \in Sessions |-> None]
    /\ completed' = [s \in Sessions |-> None]
    /\ shutdown' = "stopped"

\* shutdown(): cancel every registered task and gather them.
ShutdownBegin ==
    /\ shutdown = "none"
    /\ Pending # {}
    /\ cancelReq' = [t \in Tasks |-> cancelReq[t] \/ t \in Pending]
    /\ gathered' = Pending
    /\ shutdown' = "gathering"
    /\ UNCHANGED <<registry, owner, pc, status, hasNode, interrupted, log,
                   inserts, clock, late>>

\* shutdown() with nothing to wait for has no await.
ShutdownIdle ==
    /\ shutdown = "none"
    /\ Pending = {}
    /\ ClearRegistries
    /\ UNCHANGED <<run, log, inserts, clock, gathered, late>>

\* Everything gathered has ended: both registries are cleared.
ShutdownEnd ==
    /\ shutdown = "gathering"
    /\ \A t \in gathered : TaskDone(t)
    /\ ClearRegistries
    /\ UNCHANGED <<run, log, inserts, clock, gathered, late>>

Tick ==
    /\ now < MaxTime
    /\ now' = now + 1
    /\ UNCHANGED <<registry, run, log, inserts, created, finished, closing>>

\* No run is under way: only a new request could move the system.
Idle ==
    /\ \A t \in Tasks : ~Live(t)
    /\ shutdown # "gathering"
    /\ UNCHANGED vars

RunStep(t) ==
    \/ BeginRun(t) \/ CancelUnstarted(t) \/ SnapshotTaken(t)
    \/ \E degraded \in BOOLEAN : NodeCreated(t, degraded)
    \/ ContextResolved(t) \/ StreamEvent(t) \/ InjectPending(t)
    \/ PassEndsRun(t) \/ PassContinues(t) \/ PassCapped(t)
    \/ ContextPersisted(t) \/ RunCompletes(t)
    \/ \E node \in BOOLEAN : RunFails(t, node)
    \/ CancelDelivered(t)

Next ==
    \/ \E t \in Tasks : RunStep(t) \/ \E s \in Sessions : StartChat(t, s)
    \/ \E s \in Sessions : StopTask(s) \/ InsertMessage(s)
    \/ ShutdownBegin \/ ShutdownIdle \/ ShutdownEnd
    \/ Tick
    \/ Idle

Spec == Init /\ [][Next]_vars

\* The event loop runs every ready callback, worker threads and the model
\* provider answer, and a pass ends: a run left alone takes its next step.  No
\* fairness for clients (start, stop, insert), for shutdown's caller or for how
\* much a pass streams.
Progress(t) ==
    \/ BeginRun(t) \/ CancelUnstarted(t) \/ SnapshotTaken(t)
    \/ NodeCreated(t, FALSE) \/ ContextResolved(t)
    \/ PassEndsRun(t) \/ PassContinues(t) \/ PassCapped(t)
    \/ ContextPersisted(t) \/ RunCompletes(t)
    \/ CancelDelivered(t)

FairSpec ==
    /\ Spec
    /\ \A t \in Tasks : WF_vars(Progress(t))
    /\ WF_vars(ShutdownEnd)

-----------------------------------------------------------------------------
\* /chat/resume slices the buffer by event id: the id of an event must be its
\* index, on every path that pushes (session, warning, stream, echo, end, error).
EventIdsAreIndices ==
    \A t \in Tasks : \A i \in DOMAIN events[t] : events[t][i].id = i - 1

\* The buffer tells a resuming client how the run ended: a completed run's
\* last event is its only "end", a failed one's its only "error", and a live or
\* cancelled run has neither.
LogTellsOutcome ==
    \A t \in Tasks :
        LET terminal == {i \in DOMAIN events[t] : events[t][i].kind \in {"end", "error"}}
        IN  /\ terminal # {} => terminal = {Len(events[t])}
            /\ status[t] = "completed" <=>
                   \E i \in terminal : events[t][i].kind = "end"
            /\ status[t] = "error" <=>
                   \E i \in terminal : events[t][i].kind = "error"

\* The registry is exact: a live run can be reached (stopped, resumed, waited
\* for) because the slot of its session is the run itself, so no second run of the
\* session is live.  That is said of every session in which no run was started
\* while shutdown() waited: what shutdown() forgets when it clears the registries
\* is nothing but runs started in that window.
RegistrySound ==
    /\ TypeOK
    /\ \A t \in Tasks : Live(t) /\ owner[t] \notin late => slot[owner[t]] = t

\* Accepted inserts reach the model at most once and in the order they were
\* accepted, whether the input filter or a continuation hands them over.
InsertsInOrder ==
    \A t \in Tasks :
        LET s == delivered[t] \o queue[t]
        IN  \A i, j \in DOMAIN s : i < j => s[i] < s[j]

\* A run that completes strands no insert: what the client was told was
\* accepted was handed to the model, or fell to a full queue or the
\* continuation cap.  stop_task never clears the queue of a run that completes.
CompletedStrandsNothing ==
    \A t \in Tasks : status[t] = "completed" =>
        \A n \in 1..accepted[t] :
            \/ \E i \in DOMAIN delivered[t] : delivered[t][i] = n
            \/ <<n, "overflow">> \in dropped[t]
            \/ <<n, "cap">> \in dropped[t] /\ continuations[t] > MaxContinuations

\* How long /chat/resume finds the last finished run of a session: until the end
\* of a run - of any session, its own end included - that comes more than TTL after
\* the run's creation, and no longer.  Time alone removes nothing.
KeptUntilPurged ==
    \A t \in Tasks :
        (/\ pc[t] = "done"
         /\ shutdown # "stopped"
         /\ \A u \in Tasks \ {t} : owner[u] = owner[t] /\ TaskDone(u) =>
                finished[u] < finished[t])
        => (completed[owner[t]] = t <=>
               \A u \in Tasks : pc[u] = "done" => finished[u] - created[t] <= TTL)

\* The buffer of every run keeps the contract its readers rely on: it only
\* grows, an event's id is its index, the outcome is told once and last, and a
\* finished run is never reopened.
Log(t) == INSTANCE ChatEventLog
    WITH Kinds <- EventKind \ {"end", "error"},
         events <- events[t], status <- status[t]

ImplementsLog ==
    /\ \A t \in Tasks : Log(t)!Init
    /\ [][\A t \in Tasks : [Log(t)!Next]_<<events[t], status[t]>>]_vars

\* A cancelled run that had started always ends and frees its session.
StopTakesEffect ==
    \A t \in Tasks : pc[t] \in Parked /\ cancelReq[t] ~> pc[t] = "done"

\* shutdown() returns.
ShutdownReturns == shutdown = "gathering" ~> shutdown = "stopped"

-----------------------------------------------------------------------------
\* What the repository says and the code does not do; each is checked by a run
\* that shows how it fails.

\* has_active_tasks, "Return True if any task is still running."
ActiveMeansRunning == HasActiveTasks => \E t \in Tasks : Live(t)

\* start_chat, "Raises ValueError if a task is already running for the
\* session": two live runs never share a session.
OneRunPerSession ==
    \A t, u \in Tasks : Live(t) /\ Live(u) /\ owner[t] = owner[u] => t = u

\* docs/API/chat.md, "buffered events are kept for 5 minutes after completion":
\* the last finished run of a session is found for TTL from its end.
ResumableAfterCompletion ==
    \A t \in Tasks :
        (/\ pc[t] = "done"
         /\ now - finished[t] <= TTL
         /\ shutdown # "stopped"
         /\ \A u \in Tasks \ {t} : owner[u] # owner[t])
        => completed[owner[t]] = t
=============================================================================
