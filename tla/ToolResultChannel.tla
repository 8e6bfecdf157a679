------------------------- MODULE ToolResultChannel -------------------------
(***************************************************************************)
(* Proxied tools: the agent loop calls a tool, the client executes it and  *)
(* reports its result.  ToolResultChannel                                  *)
(* (datus/tools/proxy/tool_result_channel.py) joins the two on the call    *)
(* id, in whichever order they come.  Reports come over HTTP               *)
(* (submit_tool_result in datus/api/routes/chat_routes.py) or as lines on  *)
(* the standard input of print mode (datus/cli/print_mode.py), whose       *)
(* dispatch loop reads them one chunk of the pipe at a time and fails      *)
(* every waiting tool when the input or the run ends.                      *)
(***************************************************************************)
EXTENDS Integers, Sequences

CONSTANTS
    Calls,          \* ids of the proxied tool calls of one run
    MaxReports      \* bound: reports the client sends

\* What is assumed of them (ASSUMEd by ProxiedTools).
ChannelConstants == MaxReports \in Nat

VARIABLES
    tool,       \* where proxy_invoke of each call is
    future,     \* channel._futures
    running,    \* the run that calls the tools: of print mode, of the chat API, an
                \* ended one the chat API still finds, or over
    pipe,       \* lines written to stdin and not read yet
    closed,     \* the client has closed stdin
    reader,     \* the dispatch loop: reading, at a line it has read, or over
    reports,    \* reports sent so far
    accepted,   \* history: calls for which publish() returned True
    emptied,    \* history: cancel_all() has cleared the futures
    dropped     \* history: calls whose accepted report cancel_all() forgot before
                \* their tool asked for it

client == <<pipe, closed, reports>>
past   == <<accepted, emptied, dropped>>
vars   == <<tool, future, running, client, reader, past>>

Reading  == [at |-> "reading"]
Over     == [at |-> "over"]
Eof      == [at |-> "eof"]
Line(c)  == [at |-> "line", call |-> c]

\* A tool is woken when its future is settled and its task has not resumed yet.
Ended == {"value", "failed"}

TypeOK ==
    /\ tool \in [Calls -> {"idle", "waiting", "woken"} \cup Ended]
    /\ future \in [Calls -> {"absent", "pending", "result", "cancelled"}]
    /\ running \in {"stdin", "http", "kept", "over"}
    /\ pipe \in Seq(Calls)
    /\ closed \in BOOLEAN
    /\ reader \in {Reading, Over, Eof} \cup {Line(c) : c \in Calls}
    /\ reports \in 0..MaxReports
    /\ accepted \in SUBSET Calls
    /\ emptied \in BOOLEAN
    /\ dropped \in SUBSET Calls

Init ==
    /\ tool = [c \in Calls |-> "idle"]
    /\ future = [c \in Calls |-> "absent"]
    /\ running \in {"stdin", "http"}
    /\ pipe = <<>> /\ closed = FALSE
    /\ reader = IF running = "stdin" THEN Reading ELSE Over
    /\ reports = 0
    /\ accepted = {} /\ emptied = FALSE /\ dropped = {}

-----------------------------------------------------------------------------
\* The agent loop is going on: it may call tools.
Calling == running \in {"stdin", "http"}

\* Mutant of WaitFor: always a new future.
WaitForRecreates(c) ==
    /\ Calling /\ tool[c] = "idle"
    /\ future' = [future EXCEPT ![c] = "pending"]
    /\ tool' = [tool EXCEPT ![c] = "waiting"]
    /\ UNCHANGED <<running, client, reader, past>>

\* wait_for(): the call's future is found or created; a settled one is returned
\* without waiting.
WaitFor(c) ==
    /\ Calling /\ tool[c] = "idle"
    /\ \/ /\ future[c] = "absent"
          /\ future' = [future EXCEPT ![c] = "pending"]
          /\ tool' = [tool EXCEPT ![c] = "waiting"]
       \/ /\ future[c] = "result"
          /\ tool' = [tool EXCEPT ![c] = "value"]
          /\ UNCHANGED future
    /\ UNCHANGED <<running, client, reader, past>>

\* publish(): refused (False) when the future is settled.
Publish(c) ==
    IF future[c] \in {"result", "cancelled"}
    THEN UNCHANGED <<future, tool, accepted>>
    ELSE /\ future' = [future EXCEPT ![c] = "result"]
         /\ tool' = [tool EXCEPT ![c] = IF @ = "waiting" THEN "woken" ELSE @]
         /\ accepted' = accepted \cup {c}

\* cancel_all(): every pending future fails, and all of them are forgotten.
CancelAll ==
    /\ tool' = [c \in Calls |-> IF tool[c] = "waiting" THEN "failed" ELSE tool[c]]
    /\ future' = [c \in Calls |-> "absent"]
    /\ emptied' = TRUE
    /\ dropped' = dropped \cup {c \in accepted : tool[c] = "idle" /\ future[c] = "result"}

\* The woken task resumes and the tool returns what was reported.
Resume(c) ==
    /\ tool[c] = "woken"
    /\ tool' = [tool EXCEPT ![c] = "value"]
    /\ UNCHANGED <<future, running, client, reader, past>>

\* Mutants of GiveUp: the settled future is forgotten; the wait has no deadline.
GiveUpForgets(c) ==
    /\ tool[c] \in {"waiting", "woken"}
    /\ future' = [future EXCEPT ![c] = "absent"]
    /\ tool' = [tool EXCEPT ![c] = "failed"]
    /\ UNCHANGED <<running, client, reader, past>>
GiveUpNever(c) ==
    /\ tool[c] = "woken"
    /\ tool' = [tool EXCEPT ![c] = "failed"]
    /\ UNCHANGED <<future, running, client, reader, past>>

\* The deadline of the wait, or the cancellation of the run.  It cancels the
\* future, and the settled future stays.  It may also come in the turn of the
\* event loop in which the result was set: the task is cancelled although its
\* future is done.
GiveUp(c) ==
    /\ tool[c] \in {"waiting", "woken"}
    /\ future' = [future EXCEPT ![c] = IF @ = "pending" THEN "cancelled" ELSE @]
    /\ tool' = [tool EXCEPT ![c] = "failed"]
    /\ UNCHANGED <<running, client, reader, past>>

-----------------------------------------------------------------------------
\* The client posts a report, POST /tool_result, while get_task finds the run's
\* task: as long as it runs, and then until _purge_expired_completed drops it.
Post(c) ==
    /\ running \in {"http", "kept"}
    /\ reports < MaxReports /\ reports' = reports + 1
    /\ Publish(c)
    /\ UNCHANGED <<running, pipe, closed, reader, emptied, dropped>>

\* The client writes a report to the pipe.
Write(c) ==
    /\ running = "stdin" /\ ~closed
    /\ reports < MaxReports /\ reports' = reports + 1
    /\ pipe' = Append(pipe, c)
    /\ UNCHANGED <<tool, future, running, closed, reader, past>>

\* The client closes the pipe.
Close ==
    /\ running = "stdin" /\ ~closed
    /\ closed' = TRUE
    /\ UNCHANGED <<tool, future, running, pipe, reports, reader, past>>

\* _read_stdin_line(): one read takes what the pipe holds, up to its buffer.
\* The first line is returned; the bytes put back go to a list that dies with
\* the call, so the lines after the first are lost.
ReadLine ==
    /\ reader = Reading
    /\ \/ \E n \in 1..Len(pipe) :
             /\ reader' = Line(Head(pipe))
             /\ pipe' = SubSeq(pipe, n + 1, Len(pipe))
       \/ /\ pipe = <<>> /\ closed
          /\ reader' = Eof
          /\ UNCHANGED pipe
    /\ UNCHANGED <<tool, future, running, closed, reports, past>>

\* _stdin_dispatch_loop(): a line is published, the end of the input fails the
\* waiting tools and ends the loop.
Dispatch ==
    /\ \/ \E c \in Calls :
             /\ reader = Line(c)
             /\ Publish(c)
             /\ reader' = Reading
             /\ UNCHANGED <<emptied, dropped>>
       \/ /\ reader = Eof
          /\ CancelAll
          /\ reader' = Over
          /\ UNCHANGED accepted
    /\ UNCHANGED <<running, client>>

\* The run ends.  Print mode then fails what still waits and cancels the
\* dispatch loop (the finally block of _stream_chat); the chat API keeps the task,
\* and its node with the channel, for resume.
RunEnds ==
    /\ Calling
    /\ running' = IF running = "stdin" THEN "over" ELSE "kept"
    /\ reader' = Over
    /\ IF running = "stdin" THEN CancelAll ELSE UNCHANGED <<tool, future, emptied, dropped>>
    /\ UNCHANGED <<client, accepted>>

\* A later purge, or a newer run of the session, ends that.
Purge ==
    /\ running = "kept"
    /\ running' = "over"
    /\ UNCHANGED <<tool, future, client, reader, past>>

\* Nothing more need happen after the run.
Finished == ~Calling /\ UNCHANGED vars

ToolStep(c) == WaitFor(c) \/ Resume(c) \/ GiveUp(c)

Next ==
    \/ \E c \in Calls : ToolStep(c) \/ Post(c) \/ Write(c)
    \/ Close \/ ReadLine \/ Dispatch \/ RunEnds \/ Purge
    \/ Finished

\* A woken task runs, a deadline comes, and the dispatch loop goes on.
Fairness ==
    /\ \A c \in Calls : WF_vars(Resume(c)) /\ WF_vars(GiveUp(c))
    /\ WF_vars(ReadLine) /\ WF_vars(Dispatch)

Spec == Init /\ [][Next]_vars /\ Fairness

-----------------------------------------------------------------------------
\* A tool that waits can still be answered: the future the channel would settle
\* for its call is the one it waits on, also after cancel_all() has emptied the
\* channel under it.  And print mode leaves no tool waiting behind.
WaiterRegistered ==
    \A c \in Calls : tool[c] = "waiting" =>
        /\ future[c] = "pending"
        /\ running = "over" => ~emptied

\* An accepted report is there for its tool, early or not: until the tool asks for
\* it the channel holds it, and then the tool has it.  It misses its tool in two
\* cases only: cancel_all() forgot it before the tool asked, or the tool was
\* cancelled although its future holds the result.
AcceptedKept ==
    \A c \in accepted \ dropped :
        \/ tool[c] = "idle" /\ future[c] = "result"
        \/ tool[c] \in {"woken", "value"}
        \/ tool[c] = "failed" /\ (future[c] = "result" \/ emptied)

\* Tool and report meet, in whichever order they come.
ChannelSound == TypeOK /\ WaiterRegistered /\ AcceptedKept

\* A report is accepted once, and never for a call whose tool has given up or
\* returned: a late report is told from a matched one.
AcceptedInTime ==
    [][\A c \in accepted' \ accepted : tool[c] \in {"idle", "waiting"}]_vars

\* A tool that calls the client returns, whatever the client does.
ToolsReturn == \A c \in Calls : tool[c] = "waiting" ~> tool[c] \in Ended
=============================================================================
