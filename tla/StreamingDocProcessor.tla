----------------------- MODULE StreamingDocProcessor -----------------------
(***************************************************************************)
(* The documentation pipeline: StreamingDocProcessor                       *)
(* (datus/storage/document/streaming_processor.py), one caller and a pool  *)
(* of worker threads.  process_website crawls: a worker fetches a page,    *)
(* stores it and submits the links nobody has visited; the caller waits    *)
(* until no future is pending.  process_github and process_local submit    *)
(* all their documents at once and wait for each.                          *)
(*                                                                         *)
(* The set of pending futures is guarded by _futures_lock, a plain         *)
(* threading.Lock, which the done-callback of every future takes.  A       *)
(* callback added to a future that is done already runs at once, in the    *)
(* thread that adds it, and that thread holds the lock.                    *)
(***************************************************************************)
EXTENDS Integers, Sequences, FiniteSets

CONSTANTS
    Pages,          \* URLs that pass the domain, prefix and pattern filters
    Base,           \* the URL the crawl starts from
    Links,          \* the links of each page
    Files,          \* the documents of process_github or process_local
    MaxDepth,       \* max_depth of the crawl
    Workers,        \* the threads the pool may have
    Caller,         \* the thread that calls process_*()
    None

Threads == Workers \cup {Caller}

ASSUME CrawlAssumption ==
    /\ Base \in Pages
    /\ Links \in [Pages -> SUBSET Pages]
    /\ Files \in Seq(Pages)
    /\ \A i, j \in DOMAIN Files : Files[i] = Files[j] => i = j
    /\ \A p \in Pages : \E i \in DOMAIN Files : Files[i] = p
    /\ MaxDepth \in Nat
    /\ Caller \notin Workers
    /\ None \notin Pages \cup Threads

VARIABLES
    source,     \* which process_*() was called
    size,       \* the workers of this pool
    pc,         \* where each thread is
    page,       \* the page a worker processes
    todo,       \* the links of that page it has not looked at
    child,      \* the page it has just submitted
    queue,      \* the executor's work queue
    visited,    \* _visited
    depth,      \* the depth a page was submitted with
    future,     \* state of each page's future
    callback,   \* futures with a done-callback
    pending,    \* _pending_futures
    lock,       \* holder of _futures_lock
    outcome     \* what became of each page

call    == <<source, size>>
busy    == <<page, todo, child>>
crawl   == <<visited, depth>>
tracked == <<callback, pending, lock>>
vars    == <<call, pc, busy, queue, crawl, future, tracked, outcome>>

TypeOK ==
    /\ source \in {"website", "files"}
    /\ size \in SUBSET Workers
    /\ pc \in [Threads -> {"idle", "fetching", "links", "register", "remove",
                           "waiting", "closing", "returned", "stuck"}]
    /\ page \in [Workers -> Pages \cup {None}]
    /\ todo \in [Workers -> SUBSET Pages]
    /\ child \in [Workers -> Pages \cup {None}]
    /\ queue \in Seq(Pages)
    /\ visited \in SUBSET Pages
    /\ depth \in [Pages -> 0..MaxDepth]
    /\ future \in [Pages -> {"none", "submitted", "done"}]
    /\ callback \in SUBSET Pages
    /\ pending \in SUBSET Pages
    /\ lock \in Threads \cup {None}
    /\ outcome \in [Pages -> {"none", "stored", "failed", "absent"}]

\* process_website has submitted its base URL, process_github and process_local
\* every document.
Init ==
    /\ source \in {"website", "files"}
    /\ size \in SUBSET Workers \ {{}}
    /\ pc = [t \in Threads |-> IF t # Caller THEN "idle"
                               ELSE IF source = "website" THEN "register" ELSE "waiting"]
    /\ page = [w \in Workers |-> None]
    /\ todo = [w \in Workers |-> {}]
    /\ child = [w \in Workers |-> None]
    /\ queue = IF source = "website" THEN <<Base>> ELSE Files
    /\ visited = IF source = "website" THEN {Base} ELSE {}
    /\ depth = [p \in Pages |-> 0]
    /\ future = [p \in Pages |->
           IF source = "files" \/ p = Base THEN "submitted" ELSE "none"]
    /\ callback = {} /\ pending = {} /\ lock = None
    /\ outcome = [p \in Pages |-> "none"]

-----------------------------------------------------------------------------
\* A free worker takes the next page.
Take(w) ==
    /\ pc[w] = "idle" /\ w \in size /\ queue # <<>>
    /\ page' = [page EXCEPT ![w] = Head(queue)]
    /\ queue' = Tail(queue)
    /\ pc' = [pc EXCEPT ![w] = "fetching"]
    /\ UNCHANGED <<call, todo, child, crawl, future, tracked, outcome>>

\* Mutant of Follows: one level too few.
FollowsTooFew(p, o) == source = "website" /\ o # "absent" /\ depth[p] + 1 < MaxDepth
\* Whether the links of a fetched page are followed.
Follows(p, o) == source = "website" /\ o # "absent" /\ depth[p] < MaxDepth

\* The page is fetched, which may fail and give no page, and stored.
\* _process_single_document keeps its failures to itself: the links of a page
\* that could not be stored are followed.
Fetch(w) ==
    /\ pc[w] = "fetching"
    /\ \E o \in {"stored", "failed", "absent"} :
          /\ outcome' = [outcome EXCEPT ![page[w]] = o]
          /\ todo' = [todo EXCEPT ![w] = IF Follows(page[w], o) THEN Links[page[w]] ELSE {}]
    /\ pc' = [pc EXCEPT ![w] = "links"]
    /\ UNCHANGED <<call, page, child, queue, crawl, future, tracked>>

\* Mutant of MarkVisited: the visited set is read without the lock.
MarkVisitedStale(l) == visited' = visited \cup {l}

\* _mark_visited(): true for a link that is new.
MarkVisited(l) == l \notin visited /\ visited' = visited \cup {l}

\* The next link of the page is submitted, one level deeper, if it is new.
Submit(w) ==
    /\ pc[w] = "links"
    /\ \E l \in todo[w] :
          /\ todo' = [todo EXCEPT ![w] = @ \ {l}]
          /\ \/ /\ l \in visited
                /\ UNCHANGED <<pc, child, queue, crawl, future>>
             \/ /\ MarkVisited(l)
                /\ depth' = [depth EXCEPT ![l] = depth[page[w]] + 1]
                /\ queue' = Append(queue, l)
                /\ future' = [future EXCEPT ![l] = "submitted"]
                /\ child' = [child EXCEPT ![w] = l]
                /\ pc' = [pc EXCEPT ![w] = "register"]
    /\ UNCHANGED <<call, page, tracked, outcome>>

\* Mutant of Track: the future is not added to the pending set.
TrackUntracked(t, p, next) ==
    /\ lock = None
    /\ callback' = IF future[p] = "done" THEN callback ELSE callback \cup {p}
    /\ pc' = [pc EXCEPT ![t] = next]
    /\ UNCHANGED <<pending, lock>>

\* Under the lock, thread t adds the future of p to the pending set and the
\* callback to the future.  If the future is done the callback waits for the
\* lock that t holds.
Track(t, p, next) ==
    /\ lock = None
    /\ pending' = pending \cup {p}
    /\ IF future[p] = "done"
       THEN lock' = t /\ pc' = [pc EXCEPT ![t] = "stuck"] /\ UNCHANGED callback
       ELSE /\ callback' = callback \cup {p}
            /\ pc' = [pc EXCEPT ![t] = next]
            /\ UNCHANGED lock

RegisterChild(w) ==
    /\ pc[w] = "register"
    /\ Track(w, child[w], "links")
    /\ UNCHANGED <<call, busy, queue, crawl, future, outcome>>

\* The last link has been looked at: the future is done, and its callback runs
\* if it has been added.
Finish(w) ==
    /\ pc[w] = "links" /\ todo[w] = {}
    /\ future' = [future EXCEPT ![page[w]] = "done"]
    /\ pc' = [pc EXCEPT ![w] = IF page[w] \in callback THEN "remove" ELSE "idle"]
    /\ UNCHANGED <<call, busy, queue, crawl, tracked, outcome>>

\* Mutant of RemoveFuture: the callback is lost.
RemoveFutureNot(w) ==
    /\ pc[w] = "remove" /\ lock = None
    /\ pc' = [pc EXCEPT ![w] = "idle"]
    /\ UNCHANGED <<call, busy, queue, crawl, future, tracked, outcome>>

\* _remove_future().
RemoveFuture(w) ==
    /\ pc[w] = "remove" /\ lock = None
    /\ pending' = pending \ {page[w]}
    /\ pc' = [pc EXCEPT ![w] = "idle"]
    /\ UNCHANGED <<call, busy, queue, crawl, future, callback, lock, outcome>>

-----------------------------------------------------------------------------
\* The caller tracks the future of its base URL.
RegisterBase ==
    /\ pc[Caller] = "register"
    /\ Track(Caller, Base, "waiting")
    /\ UNCHANGED <<call, busy, queue, crawl, future, outcome>>

\* _wait_for_completion() polls until nothing is pending.
PendingSetEmpty == lock = None /\ pending = {}
\* process_github and process_local wait for one future after the other.
EachDone == \A p \in Pages : future[p] = "done"

WaitEnds ==
    /\ pc[Caller] = "waiting"
    /\ IF source = "website" THEN PendingSetEmpty ELSE EachDone
    /\ pc' = [pc EXCEPT ![Caller] = "closing"]
    /\ UNCHANGED <<call, busy, queue, crawl, future, tracked, outcome>>

\* Leaving the with block joins the workers.
Return ==
    /\ pc[Caller] = "closing"
    /\ queue = <<>> /\ \A w \in Workers : pc[w] = "idle"
    /\ pc' = [pc EXCEPT ![Caller] = "returned"]
    /\ UNCHANGED <<call, busy, queue, crawl, future, tracked, outcome>>

Work(w) == Take(w) \/ Fetch(w) \/ Submit(w) \/ RegisterChild(w) \/ Finish(w) \/ RemoveFuture(w)
Call    == RegisterBase \/ WaitEnds \/ Return

Next == (\E w \in Workers : Work(w)) \/ Call

\* Every thread that can run does; a thread that waits for the lock gets it.
Fairness ==
    /\ \A w \in Workers : WF_vars(Work(w))
    /\ WF_vars(Call)

Spec == Init /\ [][Next]_vars /\ Fairness

-----------------------------------------------------------------------------
\* No page is fetched or stored twice: what is queued has not been processed, is
\* queued once, and no two workers have the same page.
NeverTwice ==
    /\ \A i \in DOMAIN queue :
          /\ outcome[queue[i]] = "none"
          /\ \A j \in DOMAIN queue : queue[i] = queue[j] => i = j
          /\ \A w \in Workers : pc[w] # "idle" => page[w] # queue[i]
    /\ \A v, w \in Workers :
          pc[v] # "idle" /\ pc[w] # "idle" /\ page[v] = page[w] => v = w

\* The depth of a page is the length of a path of links that leads to it, so the
\* crawl never goes further than max_depth clicks.
DepthIsALinkPath ==
    \A p \in visited :
        \/ p = Base /\ depth[p] = 0
        \/ \E q \in visited : p \in Links[q] /\ depth[p] = depth[q] + 1

\* Every page is processed at most once, at the depth of a path that leads to it.
PagesSound == TypeOK /\ NeverTwice /\ DepthIsALinkPath

\* The caller stops waiting only when every page that was submitted is done:
\* between its submit and its registration a page is held by the one that links
\* to it.
WaitEndsComplete ==
    pc[Caller] \in {"closing", "returned"} =>
        \A p \in Pages : future[p] # "submitted" /\ (future[p] = "done" <=> outcome[p] # "none")

\* When the call returns the crawl is closed: the links of every page that was
\* fetched above the limit have been visited, those of unstorable pages too.
ClosedUnderLinks ==
    pc[Caller] = "returned" /\ source = "website" =>
        \A p \in visited :
            outcome[p] \in {"stored", "failed"} /\ depth[p] < MaxDepth =>
                Links[p] \subseteq visited

\* With one worker the crawl is breadth first: no page that is not absent leads to one
\* that is recorded as more than one click deeper.
BreadthFirst ==
    source = "website" /\ (\E w \in Workers : size = {w}) =>
        \A p, l \in visited :
            l \in Links[p] /\ outcome[p] # "absent" => depth[l] <= depth[p] + 1

\* What the crawl leaves out it leaves out for its depth or because a page was not
\* there, and with one worker the depth is that of the shortest way.
CrawlClosed == ClosedUnderLinks /\ BreadthFirst

\* A path of k links from the base to page p.
IsPath(path, k, p) ==
    /\ path[0] = Base /\ path[k] = p
    /\ \A i \in 1 .. k : path[i] \in Links[path[i - 1]]

\* The pages at most n clicks away from the base.
Within(n) == {p \in Pages : \E k \in 0 .. n : \E path \in [0 .. k -> Pages] : IsPath(path, k, p)}

\* A pool of one worker visits exactly the pages within max_depth clicks, if all
\* of them can be fetched.
SiteCovered ==
    /\ pc[Caller] = "returned" /\ source = "website"
    /\ \E w \in Workers : size = {w}
    /\ \A p \in visited : outcome[p] # "absent"
    => visited = Within(MaxDepth)

\* The call returns, unless a thread waits for the lock it holds.
ReturnsUnlessStuck == <>(pc[Caller] = "returned" \/ \E t \in Threads : pc[t] = "stuck")
=============================================================================
