# Datus agent: a verification of its concurrent core

TLA+ models of the parts of `src/datus` that clients, background coroutines,
threads and pumps share, TLC runs that check them on small instances, and TLAPS
proofs of their main invariants for every instance.

## 1. Inventory of the system

Datus is a data-engineering agent. A CLI, a web UI, an HTTP API and a chat
gateway all drive *nodes* (agent loops over an LLM and tools); nodes read and
write knowledge-base stores and databases. A *workflow* is a plan of nodes.

| Part | State it keeps | Operations | What makes it hard |
|---|---|---|---|
| Chat run manager (`api/services/chat_task_manager.py`) | running and finished tasks per session; per task the coroutine, status, event buffer, insert queue | start, stop, insert, resume, shutdown; one background coroutine per run | a cancel is only a request; failure at any await; registry keyed by session, not task; inserts race the end of a run |
| Event stream (`consume_events`) | per connection a cursor; per run one shared offset | connect, wait, yield, heartbeat, disconnect, resume | batches are taken under the lock and sent outside it; merged events; lost connections; wake-ups |
| Service cache (`api/services/datus_service_cache.py`) | LRU map, creation futures, background shutdowns | get_or_create, evict, drain, shutdown | many creators, config swaps against live runs, deferred shutdown, exit |
| Interaction broker and action bus (`cli/execution_state.py`, `schemas/action_bus.py`) | pending questions, output queue, bus queue, sentinels counted | request, submit, send, close, fetch, merge, interrupt | an answer is only scheduled; tools left behind by a failure; two pumps and three sentinels; objects reused by the next pass |
| Proxied tools (`tools/proxy`, `cli/print_mode.py`) | a future per tool call | wait_for, publish, cancel_all, the stdin loop | reports that race their timeout or come before the wait; the end of the input |
| Gateway bridge (`gateway/bridge.py`, adapters) | remembered message ids, texts of the bot's messages, reactions seen | message, command, reaction | redelivery, two messages of one conversation, failing platform calls, several reactions at once |
| Workflow engine (`agent/workflow*.py`, `agent/node/reflect_node.py`) | node order, current node, status, reflection round, context | run, run_stream, reflect, insert nodes | the order is edited while it is walked; bounded rounds and steps; nodes whose result is lost |
| Parallel nodes (`agent/node/parallel_node.py`, `subworkflow_node.py`, `selection_node.py`) | child nodes in threads, one shared list of SQL records | execute children, select, execute | a shallow copy of the context |
| Knowledge-base bootstrap (`api/services/kb_service.py`, `api/routes/kb_routes.py`) | event queue, worker thread, cancel token | stream, cancel, disconnect | thread, callbacks, sentinel and time-out race each other; cancel against deletion |
| Document pipeline (`storage/document/streaming_processor.py`) | visited pages, pending futures, worker pool | crawl, wait, store | work submits work; one lock shared with done-callbacks |
| Sessions (`models/session_manager.py`) | conversation databases | copy, rewind, clear | turn bookkeeping |
| Permissions, plan and todo tools, sub-agents (`tools/`) | approvals, plan life cycle | ask, approve, execute | concurrent questions |
| CLI/TUI, prompts, connectors, configuration, plugins, validation, observability | mostly none | UI, I/O, data conversion | out of scope, see section 7 |

**Interactions.** An HTTP handler asks the *service cache* for the project's
service and calls its *run manager*. `start_chat` creates a task whose coroutine
builds a node and iterates `execute_stream_with_interactions`: the node's own
stream and the *broker*'s output merged by the *action bus*. Every action
becomes an event in the task's buffer, which any number of connections read
through `consume_events`. `/chat/user_interaction` reaches into the node's
broker, `/chat/insert` into the task's queue, `/chat/tool_result` into the
node's *tool channel*, `/chat/stop` sets the interrupt and cancels the
coroutine. The *gateway bridge* is a second client of the run manager: it starts
a chat per message and forwards its events to the platform. Evicting a service,
or leaving the application, shuts its run manager down. All of that runs on one
asyncio event loop, so the models' actions are what happens between two
suspension points. The workflow engine, the document pipeline and the
bootstrap jobs run in threads; there an action is what happens between two
accesses to what the threads share.

**What makes each part correct**

* run manager: at most one live run per session and that run reachable; the
  buffer of a run is append-only, indexed by event id and tells the outcome
  exactly once; an accepted insert reaches the model once, in order, unless it is
  dropped for a stated reason; a cancelled run ends; shutdown returns; a
  finished run stays resumable. (Two of these fail in cases that section 4 names;
  what holds around those cases is checked and proved.)
* event stream: a connection carries the buffer from its start without gap,
  repeat or reordering; it ends when the run did and not before; nobody sleeps
  through the end.
* service cache: one creation at a time per project and nobody waiting for a
  creation nobody makes; never serve a service that was retired; no service left
  open at exit.
* broker: the dialogue is shown whole and in order; an answer belongs to its
  question, and comes after it; nobody waits for a user who cannot answer any more.
* proxied tools: a tool that waits can be answered; an accepted report reaches
  its tool; every tool returns.
* bridge: a message is handled once, answered and unmarked; one feedback run per
  message of the bot; what is remembered of a message is its whole text (it is
  not: section 4).
* workflow: nodes are worked off once each and in order whatever a reflection
  inserts; "completed" means all; reflections are bounded; SQL that is judged or
  handed out was executed.
* parallel nodes: what was selected is what is executed (not so with
  sub-workflows: section 4); a record does not show the result of SQL that came
  after it; an action that was not selected leaves no trace; nothing is written
  behind the join.
* bootstrap: the client sees every event in order and one verdict per component;
  a run that says it was cancelled has deleted nothing; the stream ends.
* document pipeline: no page twice, none beyond the depth; the wait ends only
  when all work is done; the crawl is closed under links.

`PROJECT.json` lists the hazards at their lines with the properties that cover
them, or the reason why none does. One more was looked at: an eviction asks a
service for its runs before a request that holds the service has started one.
The run does start on the service given up; what that does to a session is the
violation `chat_late`.

## 2. Modules

| Module | Models | Correspondence |
|---|---|---|
| `ChatEventLog` | the contract of one run's event buffer (abstract) | `events`, `status` of `ChatTask`; `Stream` and `Close(outcome)` are all that may happen to them |
| `ChatTaskManager` | `ChatTaskManager` with the stop and insert handlers | `slot`/`completed` are `_tasks`/`_completed_tasks`; `pc[t]` is the await at which `_run_loop` of task `t` is parked; `cancelReq` is a `Task.cancel()` not yet delivered; `late` is a history of sessions started while `shutdown()` waits; one action per handler and one per stretch of the coroutine between two awaits |
| `CoalesceDeltas` | `_coalesce_deltas` as a recursive function over the positions of the events, and its reference | an event is the message it is a delta of, or `Whole`; a merged event is the pair of the positions it stands for |
| `ChatEventStream` | `consume_events` and the two routes that drive it | `phase` is the suspension point of a client's generator; `cursor`, `upto`, `pos`, `is_done` its locals; `sent`/`read` the wire |
| `DatusServiceCache` | the LRU cache, the requests through it and the runs they start | `entry`+`order` are the `OrderedDict`, `futures` the creations, `state` the life of a service object, `waits` what a gather waits for |
| `InteractionBroker` | broker, bus merge and `execute_stream_with_interactions` | `output` and `bus` are the two queues, `future`/`soon` the future of a request and the callback scheduled for it, `pass` the merge loop |
| `ToolResultChannel` | the channel, `proxy_invoke`, the HTTP route and print mode's dispatch loop | `future` is `_futures`, `tool` where a call's `wait_for` is, `pipe`/`reader` the stdin and who reads it; `running` is "kept" while the ended run can still be found by the route, until `Purge` |
| `ChannelBridge` | `handle_message`, `_process_message`, `handle_reaction` and what the adapters do for them | `pc[h]` is the await of a handler, `seen`, `botMsgs`, `botText`, `reacted` the bounded dictionaries, `cards` the open streaming cards, `posts` and `marks` what the platform shows; by `adapter` a text is posted as up to `MaxChunks` messages (Slack), or the first fragment in one step and made a card in the next (Feishu) |
| `WorkflowRunner` | `run`/`run_stream`, the plan, `evaluate_result`, reflect nodes | `node_order`, `status`, `index`, `reflection_round`, `step_count` are the fields of `Workflow`; `sql` is what is known of the last SQL record |
| `ParallelNode` | the parallel, sub-workflow and selection nodes and the `execute_sql` after them | `sql_contexts` is the one list all of them append to, `at` and `input` a child's current node and what it was set up with, `last_record` the record its `execute_sql` took for the last and `written` how many of its attributes it has set since |
| `KbBootstrap` | the two bootstrap streams, their threads and cancel tokens | `soon` are the `call_soon_threadsafe` callbacks, `queue`/`done` what the generator waits on, `worker` the executor thread |
| `StreamingDocProcessor` | the crawl and the two file loops with their pool | `visited`, `depth`, `pending`, `lock` are the fields of the processor, `future`/`callback` the executor's futures, `queue` its work queue |
| `MC*` | the sites, plans and layouts of the instances, symmetry sets, for `MCChatEventStream` the enumeration of buffers, and the runs of either of two modules | |
| `ProxiedTools`, `ParallelStep` | `ToolResultChannel` and `ParallelNode` under variable names apart (INSTANCE ... WITH) | so that they can stand in one module with the broker, to which the same tools answer, and with the workflow, whose plans hold the parallel nodes |
| `*Proofs` | the proofs about the module of the name; `InteractionBrokerProofs` has those about `ProxiedTools` too, `WorkflowRunnerProofs` those about `ParallelStep` | |

`ChatTaskManager` implements `ChatEventLog` (property `ImplementsLog`, one
instance of the abstract module per task). `ChatEventStream` reads a buffer that
keeps this contract (append, then end) and uses the positions of
`CoalesceDeltas`. `DatusServiceCache` and `ChannelBridge` use of a run manager
only what its callers see: whether it has live runs, that its shutdown cancels
and gathers them, one live run per session, a start that may fail. That is what
`ChatTaskManager` models in detail. `ParallelNode`'s sub-workflows walk plans
without reflection; `WorkflowRunner` models reflection. In `WorkflowRunner` the
node types are a constant: what matters of a type is only which of a few sets it
is in, and the built-in types are given by `MCWorkflowRunner`.

Definitions that begin with the comment *Mutant* are deliberately wrong variants
of a definition that follows them; they are no part of the specifications and
show that a property can fail.

## 3. Runs

Properties are named conjunctions, defined at the end of each module with their
parts; each begins with the module's type invariant where it has one.

| Run | Instance | Checks |
|---|---|---|
| `chat_registry` | 2 sessions, 2 runs, clock 0..2, TTL 1, shutdown, requests during and after it; 240,179 states | `RegistrySound` (a live run holds its session's slot, except in sessions where a run was started while shutdown waited), `KeptUntilPurged`, `ImplementsLog` |
| `chat_inserts` | 2 runs, of one session or two, before, during or after shutdown; 3 inserts into one of them, queue of 2, 1 continuation; fair; 365,752 states | `InsertsInOrder`, `CompletedStrandsNothing`, `StopTakesEffect`, `ShutdownReturns` |
| `chat_leak` | violation: 2 runs of one session | `ActiveMeansRunning` |
| `chat_late` | violation: 3 runs of one session | `OneRunPerSession` |
| `chat_ttl` | violation: 1 run, clock 0..2 | `ResumableAfterCompletion` |
| `stream` | 2 clients connecting twice, 2 events, fair; and every buffer of up to 8 events coalesced; 519,453 states | `ConnectionsSound`, `EndsComplete`, `CoalesceTilesTheBuffer`, `StreamEnds` |
| `cache` | 2 requests, 2 projects, 2 configurations, a cache of 1, fair; 93,878 states | `OneCreation`, `CacheServesLive`, `NothingLost`, `OverfullOnlyWhenBusy`, `ShutdownsEnd` |
| `clients` | 1 question, 2 other actions, 2 passes (141,305 states); or 2 proxied calls, 3 reports, over HTTP or stdin, also after the run (3,363); fair | `DialogueShown`, `AnswersSound`, `NobodyLeftWaiting`, `PassEnds`; `ChannelSound`, `AcceptedInTime`, `ToolsReturn` |
| `bridge` | Feishu or Slack, a text as 1 or, on Slack, 2 messages; 3 messages of one conversation, 2 handlers, 2 reactors, deduplication window 1; 845,224 states | `MessagesSettled`, `FeedbackSound` |
| `engine` | the built-in plans and repairs, both modes, 0 to 4 rounds, 20 steps (32,112 states); or 3 children in 5 layouts, 3 iterations, 3 records (20,306) | `OrderSound`, `JudgedSqlWasExecuted`, `WorkCompletes`, `RepairsAreBounded`; `RecordsSound`, `RecordsOnlyGrow` |
| `kb` | 3 components of 2 items, or documentation; fair; 39,174 states | `StreamSound`, `CancelledKeepsData`, `StreamEnds` |
| `crawl` | 4 pages with a cycle and a diamond, depth 2, 1 or 2 workers; 4 files; fair; 72,977 states | `PagesSound`, `WaitEndsComplete`, `CrawlClosed`, `SiteCovered`, `ReturnsUnlessStuck` |

`clients` and `engine` each check two modules in one run (`MCAgentClients`,
`MCWorkflowEngine`): the two share no state, a behaviour is one of either from its
start and the other rests in its initial state, so nothing of either is left out
and no interleaving between them matters.

**Bounds, and why they are enough.** Two tasks suffice to contend for a session
and one each for two sessions; a third adds no new kind of conflict, since every
registry operation concerns one session, but `shutdown()`: a run that holds it
up, one it forgets and one that follows are the three of `chat_late`. Time only
matters relative to the TTL, so a TTL of 1 with a clock of 2 has before, at and
after. Three inserts into a queue of two with one continuation reach every way an
insert can end: injected, continued with, overflowed, capped, cleared by an
interrupt. Events per run, clients and connections are bounded so that a batch
can be empty, of one, and merged, and so that the other client's offset falls
before, inside and after a connection's own. Two requests are the creator and one
that joins, evicts or swaps the configuration; `MaxServices` allows a successor,
and a cache of one with two projects is over-full as soon as one of them is busy.
Two passes show what one leaves to the next. Two tool calls and three reports
allow a report for the other call, an early one and a repeated one, before or
after the end of the run. The bridge's window of one message makes redelivery
inside and outside the window both happen. The site has a page that two paths of
different length reach, which is what the depth of a page depends on. Two chunks
are a first one that is posted and a last one that is or is not. Twenty steps are
the program's default, and zero to four rounds go one past its default of three.
Three children are the least with two sub-workflows and an action; three records
let one thread append two while another writes. Bounds that cut a real counter
are named in the CONSTANTS (`Max...`) and appear as guards of the action they
bound; `MaxSteps`, `MaxIterations`, `MaxSize`, `MaxDepth` and `MaxContinuations`
are limits of the program itself.

**Fairness.** `FairSpec` (in `ToolResultChannel` and `StreamingDocProcessor` the
`Fairness` conjunct of `Spec`) assumes only what the event loop and the operating
system provide: a coroutine whose await has completed is eventually run, a
scheduled callback is called, a deadline comes, a thread that can run does, a
thread-pool or model call returns. Clients, users, the amount of streaming,
heartbeats and whoever starts a shutdown get none. In `DatusServiceCache` runs
are assumed to end; a run that waits for its user for ever would hold up the
exit, because `_deferred_shutdown` waits for runs before it cancels anything. In
`KbBootstrap` the server is assumed to pull the response until the client
disconnects. `WorkflowRunner`, `ParallelNode` and `ChannelBridge` state no
fairness; the first two have no cycles but the stuttering of a run that is over,
and what holds of a run that ended is an invariant. `crawl` checks no deadlock:
a thread can wait for a lock it holds itself (section 4), and
`ReturnsUnlessStuck` says that nothing else keeps the call from returning.

## 4. What was found

Three runs are violations: each finds a trace of the code against what its
comments or documents say.

* `chat_leak`: `/chat/stop` of a run whose coroutine has not taken its first
  step. Python does not enter the `try` of a coroutine cancelled before it
  started, so nothing removes the task: its session is refused from then on and
  `has_active_tasks` stays true, which also keeps the project's service from
  being evicted or rebuilt.
* `chat_late`: `shutdown()` waits for the runs it found and then clears the
  registries (`chat_task_manager.py:539`), also of a run started in between by a
  request that still holds the service. The forgotten run goes on, the next
  request of its session starts a second one beside it, against `:361`.
* `chat_ttl`: the age of a finished run counts from its creation (`:1045`,
  `:322`), so one that took longer than five minutes is purged in the `finally`
  block that stored it; `docs/API/chat.md:461-462` promises five minutes after
  completion. `KeptUntilPurged` says exactly how long the code does keep it.

The following were met as well. The models keep them as the code has them,
without a run of their own; the properties say what holds all the same.

* *Stream.* Resuming without an id backs up one buffered event, which is less
  than the one merged event the client may have missed (`:492`, `:486-487`), and
  the offset is shared by all connections of a run.
* *Cache.* The cache asks a service for live runs before a request that was just
  handed the same service has started one (`datus_service_cache.py:62`); a
  creator cancelled inside the factory would leave its future unresolved (`:92`),
  which the in-tree factory cannot be as it never suspends.
* *Broker.* A cancelled question raises `InteractionCancelled`, an ordinary
  exception a tool answers with a failed result (`execution_state.py:356`). A
  request whose pass was cut short is open to an answer until it unregisters
  itself, so the next pass may echo an answer nobody gets to a question it never
  showed; `DialogueInOrder` admits this case and no other.
* *Proxied tools.* The route finds an ended run while it is kept for resume, and
  `publish()` accepts the report of a call nobody has made or will make
  (`tool_result_channel.py:70`), although its docstring promises `True` only for
  a live waiter (`:65`); a call whose tool has timed out or returned is told
  apart all the same (`AcceptedInTime`). At the end of stdin `cancel_all()` drops
  reports that were accepted before their tool waited (`:92`), and the tool then
  waits out its deadline, against `:31`, "the result is never lost";
  `ChannelSound` says that nothing else loses one but a cancelled tool.
  `_read_stdin_line` drops every line after the first of what one read returned
  (`print_mode.py:276`, against `:273-274`).
* *Document pipeline.* `add_done_callback` is called under `_futures_lock`, a
  non-reentrant lock its callback takes (`streaming_processor.py:305`, `:312`,
  `:342`): on a future that is done already the thread waits for itself, and the
  caller for ever. `ReturnsUnlessStuck` names this outcome. With several workers
  the crawl may miss pages within its depth, as a page keeps the depth it was
  first found at (`:289`). No property for several workers covers this;
  `SiteCovered` is about one.
* *Bridge.* The fragments appended to a streamed card have no id of their own and
  are not recorded (`adapters/feishu.py:446`), so the text quoted to the feedback
  agent is the first fragment, where `bridge.py:281-282` means to keep the full
  reply. Slack's adapter returns the id of the last message of a long text
  (`adapters/slack.py:203-217`): a reaction to an earlier one is not recognised,
  and a chunk that fails leaves those before it posted without a record.
* *Workflow.* In `run_stream` the `date_parser` and `reasoning` nodes leave no
  result and count as failed (`date_parser_node.py:106-107`, `node.py:444-449`,
  `reason_sql_node.py:133-187`), so `metric_to_sql`, documented in
  `docs/workflow/orchestration.md:34-40`, stops there; with five reflection
  rounds twenty steps do not suffice; `COLUMN_EXPLORATION` has no branch; the
  plan `chat_agentic` cannot complete and `empty` raises; a resumed workflow has
  no `agent_config` and has lost its reflection round.
* *Parallel nodes.* `Context.copy()` is shallow, so two sub-workflows may execute
  each other's SQL, and the three attributes of one record may show the results
  of different SQL, older than the record's or its own. A selected sub-workflow's
  result carries no SQL, so `execute_sql` runs the last record, whoever appended
  it (`selection_node.py:41`, against `docs/configuration/workflow.md:65`,
  `:76-77`); `RecordsSound` promises the execution of what was selected for
  actions only, and of its own SQL to a lone sub-workflow.
* *Bootstrap.* A cancelled documentation run returns `success=True`, so the
  client hears `task_failed` and then `task_completed`; a request refused with
  422 leaves its cancel token registered (`kb_routes.py:36`).

## 5. Proofs

| Theorem | Establishes |
|---|---|
| `ChatTaskManagerProofs!EventIdsCorrect` | `Spec => []EventIdsAreIndices` |
| `...!OutcomeCorrect` | `Spec => []LogTellsOutcome` |
| `...!RegistryCorrect` | `RegistrySound`, with requests at any time, also while and after `shutdown()` runs |
| `...!BufferRefinesLog` | `Spec => ImplementsLog`: initial states map to initial states, every step to a step or a stutter of `ChatEventLog` |
| `...!InsertsCorrect`, `...!NothingStranded` | `InsertsInOrder`, `CompletedStrandsNothing` |
| `...!FinishedRunResumable` | `KeptUntilPurged` |
| `ChatEventStreamProofs!ConnectionCorrect`, `...!EndsCorrect` | `ConnectionsSound`, `EndsComplete`, for any number of clients and messages |
| `...!EveryBufferTiled`, `...!CoalesceCorrect` | what `_coalesce_deltas` makes of any list of events of any length tiles it with maximal runs; `CoalesceTilesTheBuffer` |
| `InteractionBrokerProofs!AnswersCorrect`, `...!DialogueCorrect` | `AnswersSound`, `DialogueShown`, for any number of questions, other actions and passes |
| `...!ChannelSoundCorrect`, `...!InTimeCorrect` | `ChannelSound`, `AcceptedInTime`, for any number of calls and reports, before, during and after the run |
| `DatusServiceCacheProofs!CreationShared`, `...!ServesLive`, `...!NothingLostCorrect`, `...!OverfullCorrect` | `OneCreation`, `CacheServesLive`, `NothingLost`, `OverfullOnlyWhenBusy`, for any cache size, through evictions, config swaps and the exit |
| `KbBootstrapProofs!KbStreamCorrect`, `...!KbCancelCorrect` | `StreamSound`, `CancelledKeepsData`, for any components and numbers of events |
| `ChannelBridgeProofs!BridgeMessagesCorrect`, `...!BridgeFeedbackCorrect` | `MessagesSettled`, `FeedbackSound`, for any messages, handlers, caps and numbers of chunks, with and without streamed cards |
| `StreamingDocProcessorProofs!PagesCorrect`, `...!WaitCorrect`, `...!ClosedAndBroad`, `...!SiteCorrect` | `PagesSound`, `WaitEndsComplete`, `CrawlClosed`, `SiteCovered`, for any site, depth and pool |
| `WorkflowRunnerProofs!OrderSoundCorrect`, `...!RepairsCorrect` | `OrderSound`, `RepairsAreBounded`, for any plans, repairs, rounds and steps |
| `...!JudgedCorrect` | `JudgedSqlWasExecuted`, for plans and repairs that execute SQL before they judge it (`SqlIsExecuted`) |
| `...!CompletionCorrect` | `WorkCompletes`, for plans and limits of rounds that the steps leave room for (`StepsSuffice`) |
| `...!SharingCorrect`, `...!RecordsCorrect` | `RecordsSound`, `RecordsOnlyGrow` of the parallel step, for any children and plans |

They hold for every value of the constants under the ASSUMEs of the modules, of
which two are more than shapes. The set of reactors of the bridge is finite. And
`JudgedCorrect` and `CompletionCorrect` each take one hypothesis about the
configured plans and repairs, which the built-in configuration satisfies (TLC
evaluates both ASSUMEs of `MCWorkflowRunner`) and without which they are false:
with five rounds, say, twenty steps do not suffice.

Each rests on an inductive invariant, the lemmas about which come first in the
proof module.

* *Run manager.* Event ids need *nextId = Len(events)*. The registry needs that a
  task in the slot of a session is owned by it, that a live task of a session not
  in `late` is its session's slot, and that a waiting shutdown has gathered every
  live task of those sessions, so that it clears no slot of one.
  The outcome needs that a task still under way is "running" and has no terminal
  event. Inserts need that accepted numbers split into delivered, queued and
  dropped, that numbers in the queue exceed the delivered ones, and that a closed
  window leaves the queue empty. How long a finished run is kept
  (`RecentInv`) needs that it was stored when it ended and that a newer run of
  the session, or the end of some run that finds it too old, takes it out.
* *Stream.* The pieces of a connection are related to its cursor; that a run of
  deltas has an end is proved with a least-number lemma from the finite-set
  theorems. The same lemma stands in for induction in the proof about
  `_coalesce_deltas`: that the recursive function of its loop exists, and that
  each turn keeps the loop's invariant (`LoopInv`: the finished pieces tile what
  lies before the run being collected, which is of one message).
* *Broker.* A question's life is followed: nothing is known of it before it is
  asked, a waiting request has a future, a result is due or set only for an
  accepted answer, and an error only for a question nobody can answer any more.
  The dialogue (`FlowInv`): what was shown, what the bus holds and what the
  broker's queue holds are, one after the other, what the broker emitted. This is
  said by ranks: the n-th of the broker's items in each is the one of that number
  among the emitted. `EndInv` counts the sentinels that tell a pass it is over, so
  that a pass that ends has shown what came before them; `OnceInv` says each
  question and each echo is emitted once.
* *Cache.* A request that waits for a creation wants a project; what is cached
  was created before (so that the next service is another one), and once the exit
  has emptied the cache no request is left to fill it. That nothing is lost needs
  `Accounted`: a service that lives is cached or among the last ones the exit
  shuts down, and one that was on its way out when the exit began is among those
  it waits for. That the cache is over-full only when busy needs what a pass of
  evictions leaves of the order: which services survive is told by their ranks.
* *Proxied tools.* The channel is emptied last where it is emptied, the run of the
  chat API keeps it until it is purged, and the state of a call's future tells
  where its tool is.
* *Bootstrap.* The queue and the callbacks scheduled for it are one line
  (`LineInv`): the events on their way, then what is left of the sentinel and of
  the end of the future. Where the generator is fixes what the thread may still
  do (`GenInv`). So an event shown is the next of those sent, by its rank, and a
  component's verdict comes behind all of its events. Data is deleted past the
  last look at the cancel token only (`DataInv`).
* *Bridge.* The remembered ids are the last ones admitted, so a redelivery
  inside the window finds its id (`SeenInv`). While the memory of reactions has
  room it holds exactly the messages with a feedback run, or one about to start
  (`ReactInv`). A handler that says it has answered has (`HandlerInv`), a mark has
  a handler that will clear it or a failed call (`MarkInv`), and an id waiting to
  be recorded is new and one handler's (`TrackInv`).
* *Crawl.* `Tracked`: a page submitted and not done is in the pending set, or is
  the child its finder is about to register, or is the base. A page of least
  depth among those left over would have a finder that is not done, of smaller
  depth and hence tracked; so when the set is empty there is none. Closure
  (`LinksKept`): a link of a followed page has been visited or is on the list of
  a worker at that page. Breadth (`Waves`): with one worker the queue rises in
  depth by at most one click from the page at work, so a nearer page that leads
  to a new one would have been followed before. From both, a page that a short
  enough path leads to is visited: otherwise take the first page of the path that
  is missed; the page before it was recorded no deeper than its place on the path
  (by a least counterexample again), hence above the limit, hence followed.
* *Workflow.* The rounds of the nodes' ids are past or present, and those of the
  nodes behind the current one are where the walk has its frontier; so the ids a
  reflection makes are new, and inserting right behind the current node leaves
  what is done in front of it and what is pending behind. What is judged was
  executed because of `SqlInv`: each node ahead that judges has an execution
  between the last maker in front of it and itself, or none in between and the
  record is executed already; an insertion keeps it as a repair leaves its SQL
  executed. Completion needs that a node ahead that wants SQL finds some or comes
  behind a node that makes it (`WorkInv`), and that after so many rounds the order
  is no longer than the plan and that many repairs (`SizeInv`), so that the walk
  reaches its end before the limit of steps.
* *Parallel.* An `execute_sql` was set up with SQL that was in the list by then,
  and writes to a record that is no older (`OwnInput`); hence no record shows the
  result of later SQL, however appends fall between its writes. The SQL of an
  action stays out of the list until it is selected, so a lone sub-workflow finds
  only its own, last. Once the node ended no child is at work (`Phases`).

## 6. Only model-checked

Liveness (`StopTakesEffect`, `ShutdownReturns`, `StreamEnds`, `ShutdownsEnd`,
`NobodyLeftWaiting`, `PassEnds`, `ToolsReturn`, `ReturnsUnlessStuck`) is out of
the prover's reach. The three violations are counterexamples, which need no
proof. Every other property of a run is a theorem.

## 7. Plan, and what is left out

Order of work:

1. (done) run manager, event log, event stream, service cache, broker and bus;
   their runs and proofs.
2. (done) proxied tools, gateway bridge, workflow engine, parallel nodes,
   bootstrap streams, document pipeline; their runs.
3. (done) proofs of every safety property the runs check.
4. Session manager (copy, rewind), permission hooks with concurrent questions,
   plan tools; sub-agents on their parent's broker; background drain; the rate
   limiter of the document pipeline; sign-in flows.

Not modelled: sign-in (OAuth) and credentials, the rate limiter, permission
hooks, session storage, plan and todo tools and the background drain, which are
left for item 4: they are small state machines of one actor, or a wait around one
the models already have. Prompts, templates, configuration, plugins, connectors
to databases, BI and search systems, the terminal UI, validation rules,
observability and the data conversions between them are sequential, hold no
shared state, or are I/O whose outcome the models take as a nondeterministic
choice (a pass may stream, fail or end; a factory may raise; a node may fail; a
page may be absent or unstorable). Inside the modelled parts the text of events,
prompts, answers, SQL and pages is abstracted; an answer that fails validation
changes nothing and is not an action. `InteractionBroker` ends the tools of a
cancelled pass with its pump: a tool that answers `InteractionCancelled` with a
failed result and goes on is left to the agent SDK, which is outside this
repository. `WorkflowRunner` leaves out a node constructor that raises halfway
through a reflection's repair (`reflect_node.py:172-174`): the types the repairs
and plans name are known ones, which two ASSUMEs state. A workflow that is
resumed from a checkpoint fails its first node and is not modelled further. The
components' rows in `PROJECT.json` name the files.
