---------------------------- MODULE KbBootstrap ----------------------------
(***************************************************************************)
(* The bootstrap streams of the knowledge base: bootstrap_stream, which    *)
(* builds one component after the other, and bootstrap_doc_stream, which   *)
(* loads platform documentation (datus/api/services/kb_service.py, its     *)
(* routes and cancel tokens in datus/api/routes/kb_routes.py and           *)
(* datus/api/utils/stream_cancellation.py, init_platform_docs in           *)
(* datus/storage/document/doc_init.py).                                    *)
(*                                                                         *)
(* The work runs in an executor thread.  Everything that thread tells the  *)
(* event loop - its events, the sentinel of its finally block, the result  *)
(* of its future - is a callback scheduled with call_soon_threadsafe.  The *)
(* generator of the response drains the queue those callbacks fill.        *)
(***************************************************************************)
EXTENDS Integers, Sequences, FiniteSets

CONSTANTS
    Requests,       \* kinds of request: "kb", "docs"
    Components,     \* number of components of a "kb" request
    MaxItems        \* bound: item events of one component

ASSUME KbAssumption ==
    /\ Requests \subseteq {"kb", "docs"}
    /\ Components \in Nat \ {0} /\ MaxItems \in Nat

VARIABLES
    request,    \* what was asked for
    comp,       \* the component the generator is at
    gen,        \* where the generator is
    token,      \* the stream's cancel token is registered
    cancelled,  \* the token's event is set
    worker,     \* where the executor thread is
    job,        \* the component it builds
    items,      \* item events it has sent
    result,     \* what it returns
    soon,       \* callbacks it has scheduled
    queue,      \* the asyncio queue
    done,       \* the future of the thread is done
    olddata,    \* the store still holds the data of earlier runs
    sent,       \* history: events the threads have emitted
    out         \* events the client has been sent

thread == <<worker, job, items, result>>
stream == <<comp, gen, token, out>>
inbox  == <<soon, queue, done>>
vars   == <<request, stream, cancelled, thread, inbox, olddata, sent>>

LastComponent == IF request = "kb" THEN Components ELSE 1

\* An event of the component's thread, and one the generator makes itself.
Event(c, s)   == [comp |-> c, stage |-> s, by |-> "thread"]
Verdict(c, s) == [comp |-> c, stage |-> s, by |-> "stream"]
All == 0        \* the component of the last event of a "kb" stream

\* "cancelled" is a task_failed event whose error says so.
Stages   == {"started", "validated", "item", "failed", "cancelled", "completed"}
Events   == [comp : 1..Components, stage : Stages, by : {"thread"}]
Verdicts == [comp : 0..Components, stage : {"failed", "completed"}, by : {"stream"}]
Done     == [comp |-> 0, stage |-> "done", by |-> "thread"]
Returned == [comp |-> 0, stage |-> "returned", by |-> "thread"]

TypeOK ==
    /\ request \in Requests
    /\ comp \in 1..(Components + 1)
    /\ gen \in {"next", "draining", "collect", "rest", "over", "left"}
    /\ token \in BOOLEAN /\ cancelled \in BOOLEAN
    /\ worker \in {"off", "working", "open", "resolve", "delete", "process", "finally", "exit"}
    /\ job \in 1..Components /\ items \in 0..MaxItems
    /\ result \in {"none", "success", "failed", "raised"}
    /\ soon \in Seq(Events \cup {Done, Returned})
    /\ queue \in Seq(Events \cup {Done})
    /\ done \in BOOLEAN
    /\ olddata \in BOOLEAN
    /\ sent \in Seq(Events)
    /\ out \in Seq(Events \cup Verdicts)

Init ==
    /\ request \in Requests
    /\ comp = 1 /\ gen = "next"
    /\ token = TRUE /\ cancelled = FALSE
    /\ worker = "off" /\ job = 1 /\ items = 0 /\ result = "none"
    /\ soon = <<>> /\ queue = <<>> /\ done = FALSE
    /\ olddata = TRUE
    /\ sent = <<>> /\ out = <<>>

-----------------------------------------------------------------------------
\* The executor thread.

Emit(s) ==
    /\ sent' = Append(sent, Event(job, s))
    /\ soon' = Append(soon, Event(job, s))

Nothing == UNCHANGED <<sent, soon>>

Enter(w) == worker' = w /\ UNCHANGED result
Leave(r) == worker' = "finally" /\ result' = r

\* _run_component(): the init function of a component reports items, and
\* succeeds, fails or raises.
WorkComponent ==
    /\ worker = "working"
    /\ \/ /\ items < MaxItems /\ items' = items + 1
          /\ Emit("item") /\ Enter("working")
       \/ /\ \E r \in {"success", "failed", "raised"} : Leave(r)
          /\ Nothing /\ UNCHANGED items
    /\ UNCHANGED <<request, stream, cancelled, job, queue, done, olddata>>

\* init_platform_docs(), up to the first cancel check: the store cannot be
\* opened, the request only asks for statistics, or the run begins.
DocsOpen ==
    /\ worker = "open"
    /\ \/ Emit("failed") /\ Leave("success")
       \/ Nothing /\ Leave("raised")
       \/ Emit("started") /\ (Leave("success") \/ Enter("resolve"))
    /\ UNCHANGED <<request, stream, cancelled, job, items, queue, done, olddata>>

\* A cancelled run reports its failure, and an empty result, which counts as a
\* success.
GivesUp == cancelled /\ Emit("cancelled") /\ Leave("success")

\* The version is resolved and the documents listed: this may raise, or find
\* nothing.
DocsResolve ==
    /\ worker = "resolve"
    /\ \/ GivesUp
       \/ /\ ~cancelled
          /\ \/ Emit("failed") /\ Leave("failed")
             \/ Nothing /\ Leave("success")
             \/ Emit("validated") /\ Enter("delete")
    /\ UNCHANGED <<request, stream, cancelled, job, items, queue, done, olddata>>

\* Mutant of DocsDelete: the data goes before the cancel check.
DocsDeleteFirst ==
    /\ worker = "delete"
    /\ olddata' = FALSE
    /\ \/ GivesUp
       \/ ~cancelled /\ Nothing /\ Enter("process")
    /\ UNCHANGED <<request, stream, cancelled, job, items, queue, done>>

\* The last cancel check, and the deletion of what the store has.
DocsDelete ==
    /\ worker = "delete"
    /\ \/ GivesUp /\ UNCHANGED olddata
       \/ /\ ~cancelled
          /\ olddata' = FALSE
          /\ Nothing /\ Enter("process")
    /\ UNCHANGED <<request, stream, cancelled, job, items, queue, done>>

\* Every document reports its end; then the indices are built and the run is
\* reported as completed, whether or not the result is a success.
DocsProcess ==
    /\ worker = "process"
    /\ \/ /\ items < MaxItems /\ items' = items + 1
          /\ Emit("item") /\ Enter("process")
       \/ /\ UNCHANGED items
          /\ \/ Emit("failed") /\ Leave("failed")
             \/ Emit("completed") /\ \E r \in {"success", "failed"} : Leave(r)
    /\ UNCHANGED <<request, stream, cancelled, job, queue, done, olddata>>

\* The finally block sends the sentinel.
Finally ==
    /\ worker = "finally" /\ worker' = "exit"
    /\ soon' = Append(soon, Done)
    /\ UNCHANGED <<request, stream, cancelled, job, items, result, queue, done, olddata, sent>>

\* The executor sets the result of the future.
Exit ==
    /\ worker = "exit" /\ worker' = "off"
    /\ soon' = Append(soon, Returned)
    /\ UNCHANGED <<request, stream, cancelled, job, items, result, queue, done, olddata, sent>>

\* The event loop runs the next callback.
Callback ==
    /\ soon # <<>>
    /\ soon' = Tail(soon)
    /\ IF Head(soon) = Returned
       THEN done' = TRUE /\ UNCHANGED queue
       ELSE queue' = Append(queue, Head(soon)) /\ UNCHANGED done
    /\ UNCHANGED <<request, stream, cancelled, thread, olddata, sent>>

-----------------------------------------------------------------------------
\* The generator.

Begin == IF request = "kb" THEN "working" ELSE "open"

\* run_in_executor(): a thread and a new future.
Start ==
    /\ worker' = Begin /\ job' = comp /\ items' = 0 /\ result' = "none"
    /\ done' = FALSE

StreamOver == gen' = "over" /\ token' = FALSE

\* The next component is started, unless the stream was cancelled: then it
\* fails, and the stream ends like any other.
StartComponent ==
    /\ gen = "next" /\ comp <= LastComponent
    /\ \/ /\ cancelled /\ request = "kb"
          /\ out' = out \o <<Verdict(comp, "failed"), Verdict(All, "completed")>>
          /\ StreamOver
          /\ UNCHANGED <<thread, done>>
       \/ /\ ~(cancelled /\ request = "kb")
          /\ gen' = "draining"
          /\ Start
          /\ UNCHANGED <<token, out>>
    /\ UNCHANGED <<request, comp, cancelled, soon, queue, olddata, sent>>

\* The next item of the queue: an event is passed on, the sentinel ends the wait.
Drain ==
    /\ gen = "draining" /\ queue # <<>>
    /\ queue' = Tail(queue)
    /\ IF Head(queue) = Done
       THEN gen' = "collect" /\ UNCHANGED out
       ELSE out' = Append(out, [Head(queue) EXCEPT !.comp = comp]) /\ UNCHANGED gen
    /\ UNCHANGED <<request, comp, token, cancelled, thread, soon, done, olddata, sent>>

\* Nothing is left, or the wait for an item timed out, and the thread is done.
\* The time-out may come together with the thread's last callbacks.
DrainEnds ==
    /\ gen = "draining" /\ done
    /\ gen' = "collect"
    /\ UNCHANGED <<request, comp, token, out, cancelled, thread, inbox, olddata, sent>>

\* Mutant of Collect: the queue is not drained any more.
CollectOnly ==
    /\ gen = "collect"
    /\ gen' = "rest" /\ queue' = <<>>
    /\ UNCHANGED <<request, comp, token, out, cancelled, thread, soon, done, olddata, sent>>

\* The generator awaits the future.
Collect ==
    /\ gen = "collect" /\ done
    /\ gen' = "rest"
    /\ UNCHANGED <<request, comp, token, out, cancelled, thread, inbox, olddata, sent>>

\* Mutant of Rest: the sentinel is left in the queue.
RestLeavesDone ==
    /\ gen = "rest" /\ queue # <<>> /\ Head(queue) # Done
    /\ queue' = Tail(queue)
    /\ out' = Append(out, [Head(queue) EXCEPT !.comp = comp])
    /\ UNCHANGED <<request, comp, gen, token, cancelled, thread, soon, done, olddata, sent>>

\* What is left in the queue is passed on, up to the sentinel.
Rest ==
    /\ gen = "rest" /\ queue # <<>>
    /\ queue' = IF Head(queue) = Done THEN <<>> ELSE Tail(queue)
    /\ out' = IF Head(queue) = Done THEN out ELSE Append(out, [Head(queue) EXCEPT !.comp = comp])
    /\ UNCHANGED <<request, comp, gen, token, cancelled, thread, soon, done, olddata, sent>>

\* What is said of a thread that ended.
VerdictOf == IF result = "success" THEN "completed" ELSE "failed"

\* The component's verdict, from the thread's result or exception; after the
\* last component of a "kb" stream, the verdict on all.
Judge ==
    /\ gen = "rest" /\ queue = <<>>
    /\ comp' = comp + 1
    /\ LET shown == Append(out, Verdict(comp, VerdictOf)) IN
       \/ /\ comp < LastComponent
          /\ out' = shown /\ gen' = "next" /\ UNCHANGED token
       \/ /\ comp = LastComponent
          /\ out' = IF request = "kb" THEN Append(shown, Verdict(All, "completed")) ELSE shown
          /\ StreamOver
    /\ UNCHANGED <<request, cancelled, thread, inbox, olddata, sent>>

-----------------------------------------------------------------------------
\* The client.

\* The response's generator is closed: its finally block takes the token away,
\* and the thread, which nobody can cancel any more, runs on.
Disconnect ==
    /\ gen \notin {"over", "left"}
    /\ gen' = "left" /\ token' = FALSE
    /\ UNCHANGED <<request, comp, out, cancelled, thread, inbox, olddata, sent>>

\* POST .../cancel: sets the event of a token that is registered.
Cancel ==
    /\ token /\ ~cancelled
    /\ cancelled' = TRUE
    /\ UNCHANGED <<request, stream, thread, inbox, olddata, sent>>

Stopped == gen \in {"over", "left"} /\ worker = "off" /\ soon = <<>> /\ UNCHANGED vars

Thread    == WorkComponent \/ DocsOpen \/ DocsResolve \/ DocsDelete \/ DocsProcess \/ Finally \/ Exit
Generator == StartComponent \/ Drain \/ DrainEnds \/ Collect \/ Rest \/ Judge
Next      == Thread \/ Callback \/ Generator \/ Disconnect \/ Cancel \/ Stopped

Spec == Init /\ [][Next]_vars

\* The init functions return, the event loop runs its callbacks, and the server
\* pulls the response.
FairSpec == Spec /\ WF_vars(Thread) /\ WF_vars(Callback) /\ WF_vars(Generator)

-----------------------------------------------------------------------------
FromThread == {i \in DOMAIN out : out[i].by = "thread"}

\* The n-th event of the threads the client has seen is, under the name of the
\* component that sent it, the n-th they sent: nothing is skipped, repeated or
\* taken for the next component's.
EventsInOrder ==
    \A i \in FromThread :
        LET n == Cardinality({j \in FromThread : j <= i})
        IN  n <= Len(sent) /\ out[i] = sent[n]

\* Whichever of the sentinel, the time-out and the future's end the generator
\* sees first, a stream that ran to its end has shown every event.
AllShown == gen = "over" => Cardinality(FromThread) = Len(sent)

\* The verdict on a component is the last the client hears of it, and the
\* stream's end has one for every component that was started, and for all.
VerdictsClose ==
    /\ \A i \in DOMAIN out : out[i].by = "stream" =>
           \A j \in DOMAIN out : j > i => out[j].comp # out[i].comp
    /\ gen = "over" => \A c \in {sent[i].comp : i \in DOMAIN sent}
                              \cup (IF request = "kb" THEN {All} ELSE {}) :
           \E i \in DOMAIN out : out[i].comp = c /\ out[i].by = "stream"

\* The client is told everything, in order, and once and for all how it ended.
StreamSound == TypeOK /\ EventsInOrder /\ AllShown /\ VerdictsClose

\* A run that tells the client it was cancelled has deleted nothing.
CancelledKeepsData ==
    (\E i \in DOMAIN sent : sent[i].stage = "cancelled") => olddata

\* The stream ends, whatever the threads do and however they end.
StreamEnds == <>(gen \in {"over", "left"})
=============================================================================
