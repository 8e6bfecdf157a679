------------------------- MODULE DatusServiceCache -------------------------
(***************************************************************************)
(* The LRU cache of per-project services                                   *)
(* (datus/api/services/datus_service_cache.py) with the requests that      *)
(* reach it through get_datus_service, the chat runs they start on the     *)
(* service they were handed, explicit eviction, and the application's      *)
(* exit.                                                                   *)
(*                                                                         *)
(* Nothing is awaited while the cache's lock is held, so a locked section  *)
(* is part of one action.  A service is busy while one of its chat runs is *)
(* live (ChatTaskManager): its shutdown cancels and gathers those.         *)
(***************************************************************************)
EXTENDS Integers, Sequences, FiniteSets

CONSTANTS
    Requests,       \* HTTP requests in progress, each with at most one run
    Projects,       \* cache keys
    Prints,         \* config fingerprints
    None,
    MaxSize,        \* max_size
    MaxServices     \* bound: services ever created

ASSUME CacheAssumption ==
    /\ None \notin Requests \cup Prints \cup Nat
    /\ MaxSize \in Nat \ {0} /\ MaxServices \in Nat

Services == 1..MaxServices

VARIABLES
    order,      \* the keys of _cache, least recently used first
    entry,      \* _cache: project -> service
    futures,    \* _futures: project -> the request creating its service
    made,       \* services created so far
    conf,       \* service.config_fingerprint
    state,      \* life of a service, see States
    waits,      \* runs a deferred shutdown, or a shutdown, waits for
    pc,         \* where a request is
    wants,      \* its project
    print,      \* its expected_fingerprint
    holds,      \* the service it was handed
    cancelled,  \* runs a shutdown of their service cancelled
    exit,       \* progress of the cache's own shutdown()
    drained,    \* background shutdowns drain() waits for
    lastly      \* services shutdown() still has to shut down

cache   == <<order, entry, futures>>
service == <<made, conf, state, waits>>
request == <<pc, wants, print, holds, cancelled>>
leaving == <<exit, drained, lastly>>
vars    == <<cache, service, request, leaving>>

\* "doomed": LRU-evicted, its shutdown task has not started.  "deferred": its
\* _deferred_shutdown task has not started.  "draining": wait_all_tasks.
\* "closing": shutdown gathers the runs it cancelled.
Background == {"doomed", "deferred", "draining", "closing"}
States     == {"unborn", "live", "closed"} \cup Background

TypeOK ==
    /\ order \in Seq(Projects)
    /\ entry \in [Projects -> Services \cup {None}]
    /\ futures \in [Projects -> Requests \cup {None}]
    /\ made \in 0..MaxServices
    /\ conf \in [Services -> Prints \cup {None}]
    /\ state \in [Services -> States]
    /\ waits \in [Services -> SUBSET Requests]
    /\ pc \in [Requests -> {"idle", "joined", "creating", "got", "running"}]
    /\ wants \in [Requests -> Projects \cup {None}]
    /\ print \in [Requests -> Prints \cup {None}]
    /\ holds \in [Requests -> Services \cup {None}]
    /\ cancelled \in SUBSET Requests
    /\ exit \in {"no", "draining", "closing", "out"}
    /\ drained \in SUBSET Services
    /\ lastly \in Seq(Services)

Init ==
    /\ order = <<>>
    /\ entry = [p \in Projects |-> None]
    /\ futures = [p \in Projects |-> None]
    /\ made = 0
    /\ conf = [s \in Services |-> None]
    /\ state = [s \in Services |-> "unborn"]
    /\ waits = [s \in Services |-> {}]
    /\ pc = [r \in Requests |-> "idle"]
    /\ wants = [r \in Requests |-> None]
    /\ print = [r \in Requests |-> None]
    /\ holds = [r \in Requests |-> None]
    /\ cancelled = {}
    /\ exit = "no"
    /\ drained = {}
    /\ lastly = <<>>

-----------------------------------------------------------------------------
RunsOn(s) == {r \in Requests : pc[r] = "running" /\ holds[r] = s}

\* has_active_tasks
Busy(s) == RunsOn(s) # {}

\* Mutant: a service leaves the cache only after its shutdown.
PoppedLate(p) == entry

\* _cache.pop: the service leaves the cache, and its key the order.
Popped(p)  == [entry EXCEPT ![p] = None]

\* The n-th least of a finite set of numbers.
Nth(K, n) == CHOOSE i \in K : Cardinality({k \in K : k <= i}) = n

\* What is left of keys, in its order, when those of out are gone.
Left(keys, out) ==
    LET kept == {i \in DOMAIN keys : keys[i] \notin out}
    IN  [n \in 1..Cardinality(kept) |-> keys[Nth(kept, n)]]

Without(p) == Left(order, {p})
Touched(p) == Append(Without(p), p)

\* DatusService.shutdown begins: the live runs are cancelled and gathered; with
\* none it has no await.
ShutDown(s) ==
    /\ state' = [state EXCEPT ![s] = IF Busy(s) THEN "closing" ELSE "closed"]
    /\ waits' = [waits EXCEPT ![s] = RunsOn(s)]
    /\ cancelled' = cancelled \cup RunsOn(s)

Ask(r, p, f, stage) ==
    /\ exit = "no"
    /\ pc[r] = "idle"
    /\ pc' = [pc EXCEPT ![r] = stage]
    /\ wants' = [wants EXCEPT ![r] = p]
    /\ print' = [print EXCEPT ![r] = f]

\* get_or_create, fast path: the fingerprint matches, is not asked for, or the
\* config swap is deferred because the service is busy.
Hit(r, p, f) ==
    /\ Ask(r, p, f, "got")
    /\ entry[p] # None
    /\ f = None \/ conf[entry[p]] = f \/ Busy(entry[p])
    /\ holds' = [holds EXCEPT ![r] = entry[p]]
    /\ order' = Touched(p)
    /\ UNCHANGED <<entry, futures, service, cancelled, leaving>>

\* Mutant: every request that misses creates.
StartsCreation(r, p) ==
    /\ pc' = [pc EXCEPT ![r] = "creating"]
    /\ futures' = [futures EXCEPT ![p] = r]

\* Not cached (any more): share the future of the request that is creating the
\* service, or become its creator.
JoinOrCreate(r, p) ==
    IF futures[p] # None
    THEN /\ pc' = [pc EXCEPT ![r] = "joined"]
         /\ UNCHANGED futures
    ELSE /\ pc' = [pc EXCEPT ![r] = "creating"]
         /\ futures' = [futures EXCEPT ![p] = r]

Miss(r, p, f) ==
    /\ exit = "no" /\ pc[r] = "idle"
    /\ entry[p] = None
    /\ JoinOrCreate(r, p)
    /\ wants' = [wants EXCEPT ![r] = p]
    /\ print' = [print EXCEPT ![r] = f]
    /\ UNCHANGED <<order, entry, service, holds, cancelled, leaving>>

\* The cached service is idle and has another fingerprint: it is shut down,
\* then its successor is created.
Replace(r, p, f) ==
    /\ exit = "no" /\ pc[r] = "idle"
    /\ entry[p] # None
    /\ f # None /\ conf[entry[p]] # f /\ ~Busy(entry[p])
    /\ order' = Without(p)
    /\ entry' = Popped(p)
    /\ ShutDown(entry[p])
    /\ JoinOrCreate(r, p)
    /\ wants' = [wants EXCEPT ![r] = p]
    /\ print' = [print EXCEPT ![r] = f]
    /\ UNCHANGED <<made, conf, holds, leaving>>

\* The requests a creation answers: its creator and those that joined it.
Sharing(r) == {r} \cup {q \in Requests : pc[q] = "joined" /\ wants[q] = wants[r]}

\* Mutant: room is made one entry late.
ExcessBeyondOne(keys) ==
    LET new  == Len(keys)
        idle == {i \in 1..(new - 1) : ~Busy(entry[keys[i]])}
        over == IF new > MaxSize THEN new - MaxSize - 1 ELSE 0
    IN  {p \in Projects : \E i \in idle :
           keys[i] = p /\ Cardinality({k \in idle : k <= i}) <= over}

\* The entries LRU eviction takes, oldest idle first, until the cache fits.
\* keys is the cache's order with the new entry last.
Excess(keys) ==
    LET new  == Len(keys)
        idle == {i \in 1..(new - 1) : ~Busy(entry[keys[i]])}
        over == IF new > MaxSize THEN new - MaxSize ELSE 0
    IN  {p \in Projects : \E i \in idle :
           keys[i] = p /\ Cardinality({k \in idle : k <= i}) <= over}

\* The factory returned: insert, make room, answer.
Created(r, c) ==
    LET p    == wants[r]
        s    == made + 1
        keys == Touched(p)
        out  == Excess(keys)
    IN  /\ pc[r] = "creating"
        /\ made < MaxServices
        /\ c = print[r] \/ print[r] = None
        /\ made' = s
        /\ conf' = [conf EXCEPT ![s] = c]
        /\ state' = [q \in Services |->
               IF q = s THEN "live"
               ELSE IF \E x \in out : entry[x] = q THEN "doomed" ELSE state[q]]
        /\ order' = Left(keys, out)
        /\ entry' = [x \in Projects |->
               IF x = p THEN s ELSE IF x \in out THEN None ELSE entry[x]]
        /\ futures' = [futures EXCEPT ![p] = None]
        /\ pc' = [q \in Requests |-> IF q \in Sharing(r) THEN "got" ELSE pc[q]]
        /\ holds' = [q \in Requests |-> IF q \in Sharing(r) THEN s ELSE holds[q]]
        /\ UNCHANGED <<waits, wants, print, cancelled, leaving>>

\* These requests are over.
Over(S) ==
    /\ pc' = [q \in Requests |-> IF q \in S THEN "idle" ELSE pc[q]]
    /\ wants' = [q \in Requests |-> IF q \in S THEN None ELSE wants[q]]
    /\ print' = [q \in Requests |-> IF q \in S THEN None ELSE print[q]]
    /\ holds' = [q \in Requests |-> IF q \in S THEN None ELSE holds[q]]

\* The factory raised: everyone who shares the future gets the exception.
CreationFails(r) ==
    /\ pc[r] = "creating"
    /\ futures' = [futures EXCEPT ![wants[r]] = None]
    /\ Over(Sharing(r))
    /\ UNCHANGED <<order, entry, service, cancelled, leaving>>

\* start_chat on the service the request was handed, some awaits later.
StartRun(r) ==
    /\ pc[r] = "got"
    /\ pc' = [pc EXCEPT ![r] = "running"]
    /\ UNCHANGED <<cache, service, wants, print, holds, cancelled, leaving>>

\* A request that starts no run is over.
Leave(r) ==
    /\ pc[r] = "got"
    /\ Over({r})
    /\ UNCHANGED <<cache, service, cancelled, leaving>>

RunEnds(r) ==
    /\ pc[r] = "running"
    /\ Over({r})
    /\ cancelled' = cancelled \ {r}
    /\ waits' = [s \in Services |-> waits[s] \ {r}]
    /\ UNCHANGED <<cache, made, conf, state, leaving>>

-----------------------------------------------------------------------------
\* evict: out of the cache at once; the shutdown waits for the runs.
Evict(p) ==
    /\ exit = "no"
    /\ entry[p] # None
    /\ order' = Without(p)
    /\ entry' = Popped(p)
    /\ IF Busy(entry[p])
       THEN /\ state' = [state EXCEPT ![entry[p]] = "deferred"]
            /\ UNCHANGED <<waits, cancelled>>
       ELSE ShutDown(entry[p])
    /\ UNCHANGED <<futures, made, conf, pc, wants, print, holds, leaving>>

\* Mutant: the deferred shutdown arms itself again instead of waiting for the runs.
DeferredRearms(s) ==
    /\ state[s] = "deferred"
    /\ waits' = [waits EXCEPT ![s] = RunsOn(s)]
    /\ UNCHANGED <<cache, made, conf, state, request, leaving>>

\* _deferred_shutdown runs up to its gather.
DeferredStarts(s) ==
    /\ state[s] = "deferred"
    /\ state' = [state EXCEPT ![s] = "draining"]
    /\ waits' = [waits EXCEPT ![s] = RunsOn(s)]
    /\ UNCHANGED <<cache, made, conf, request, leaving>>

\* A background task reaches the service's shutdown.
BackgroundShutdown(s) ==
    /\ \/ state[s] = "doomed"
       \/ state[s] = "draining" /\ waits[s] = {}
    /\ ShutDown(s)
    /\ UNCHANGED <<cache, made, conf, pc, wants, print, holds, leaving>>

\* The runs a shutdown cancelled have ended.
Closes(s) ==
    /\ state[s] = "closing" /\ waits[s] = {}
    /\ state' = [state EXCEPT ![s] = "closed"]
    /\ UNCHANGED <<cache, made, conf, waits, request, leaving>>

\* Mutant: exit does not wait for background shutdowns.
PendingShutdownsIgnored == {}

\* _pending_tasks
PendingShutdowns == {s \in Services : state[s] \in Background}

\* The server has answered every request and the lifespan ends; runs may still
\* be live.
ExitBegins ==
    /\ exit = "no"
    /\ \A r \in Requests : pc[r] \in {"idle", "running"}
    /\ exit' = "draining"
    /\ drained' = PendingShutdowns
    /\ UNCHANGED <<cache, service, request, lastly>>

\* drain() is over: the cache is emptied.
ExitDrained ==
    /\ exit = "draining"
    /\ \A s \in drained : state[s] = "closed"
    /\ exit' = "closing"
    /\ lastly' = [i \in 1..Len(order) |-> entry[order[i]]]
    /\ order' = <<>>
    /\ entry' = [p \in Projects |-> None]
    /\ UNCHANGED <<futures, service, request, drained>>

\* The services are shut down one after the other.
ExitShutsNext ==
    /\ exit = "closing"
    /\ lastly # <<>>
    /\ state[Head(lastly)] = "live"
    /\ ShutDown(Head(lastly))
    /\ UNCHANGED <<cache, made, conf, pc, wants, print, holds, leaving>>

ExitGoesOn ==
    /\ exit = "closing"
    /\ lastly # <<>>
    /\ state[Head(lastly)] = "closed"
    /\ lastly' = Tail(lastly)
    /\ UNCHANGED <<cache, service, request, exit, drained>>

ExitEnds ==
    /\ exit = "closing"
    /\ lastly = <<>>
    /\ exit' = "out"
    /\ UNCHANGED <<cache, service, request, drained, lastly>>

Out == exit = "out" /\ UNCHANGED vars

Next ==
    \/ \E r \in Requests, p \in Projects, f \in Prints \cup {None} :
           Hit(r, p, f) \/ Miss(r, p, f) \/ Replace(r, p, f)
    \/ \E r \in Requests :
           \/ \E c \in Prints : Created(r, c)
           \/ CreationFails(r) \/ StartRun(r) \/ Leave(r) \/ RunEnds(r)
    \/ \E p \in Projects : Evict(p)
    \/ \E s \in Services : DeferredStarts(s) \/ BackgroundShutdown(s) \/ Closes(s)
    \/ ExitBegins \/ ExitDrained \/ ExitShutsNext \/ ExitGoesOn \/ ExitEnds
    \/ Out

Spec == Init /\ [][Next]_vars

\* The event loop runs every ready task; runs end (a run
\* that is left waiting for its user holds up the exit).
FairSpec ==
    /\ Spec
    /\ \A r \in Requests : WF_vars(RunEnds(r))
    /\ \A s \in Services : WF_vars(DeferredStarts(s) \/ BackgroundShutdown(s) \/ Closes(s))
    /\ WF_vars(ExitDrained \/ ExitShutsNext \/ ExitGoesOn \/ ExitEnds)

-----------------------------------------------------------------------------
\* Concurrent requests for one project share one creation: a project is cached,
\* being created by the one request its future belongs to, or neither, and
\* nobody waits for a creation that is not under way.
OneCreation ==
    /\ \A p \in Projects : futures[p] # None =>
           /\ pc[futures[p]] = "creating" /\ wants[futures[p]] = p
           /\ entry[p] = None
    /\ \A r \in Requests :
           /\ pc[r] = "creating" => futures[wants[r]] = r
           /\ pc[r] = "joined" => futures[wants[r]] # None

\* The cache never serves a service that is being, or was, shut down, nor one
\* service under two keys.
CacheServesLive ==
    /\ \A p \in Projects : entry[p] # None => state[entry[p]] = "live"
    /\ \A p, q \in Projects : entry[p] = entry[q] /\ entry[p] # None => p = q

\* The LRU order lists every cached project once, and no other.
OrderListsKeys ==
    /\ \A i, j \in DOMAIN order : order[i] = order[j] => i = j
    /\ {order[i] : i \in DOMAIN order} = {p \in Projects : entry[p] # None}

\* Every service that was ever created is shut down when the application is out.
ExitLeavesNothing ==
    exit = "out" => \A s \in 1..made : state[s] = "closed"

\* No service is lost: the LRU order, which eviction and the exit go through, lists
\* all that are cached, and the exit leaves none open.
NothingLost == TypeOK /\ OrderListsKeys /\ ExitLeavesNothing

\* An insertion leaves the cache over its size only when all the others are busy.
OverfullOnlyWhenBusy ==
    [][Len(order') > Len(order) /\ Len(order') > MaxSize =>
           \A i \in 1..(Len(order') - 1) : Busy(entry[order'[i]])]_vars

\* A service that left the cache is eventually shut down, and the exit ends.
RetiredCloses ==
    \A s \in Services : state[s] \in Background ~> state[s] = "closed"

ExitReturns == exit = "draining" ~> exit = "out"

\* Background shutdowns and the exit end.
ShutdownsEnd == RetiredCloses /\ ExitReturns
=============================================================================
