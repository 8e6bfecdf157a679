-------------------- MODULE StreamingDocProcessorProofs ---------------------
(***************************************************************************)
(* The documentation crawl, for any site, depth limit and pool of threads: *)
(* no page is processed twice, the depth of a page is the length of a path *)
(* of links, the caller does not stop waiting while a page is at work, and *)
(* the crawl is closed under links and, with one worker, breadth first.    *)
(* With one worker and every page there it covers exactly the pages within *)
(* the limit.                                                              *)
(*                                                                         *)
(* The third needs an argument on all the workers at once.  A submitted    *)
(* page that is not in the pending set is held by the worker that has just *)
(* submitted it (Tracked), whose own page may be untracked in turn, but is *)
(* one level nearer to the base.  Of the submitted pages one of least      *)
(* depth is therefore pending.                                             *)
(***************************************************************************)
EXTENDS StreamingDocProcessor, TLAPS, SequenceTheorems, WellFoundedInduction

\* Where a worker can be, and what that says of its page.
Places ==
    \A w \in Workers :
        /\ pc[w] \in {"idle", "fetching", "links", "register", "remove", "stuck"}
        /\ pc[w] # "idle" => page[w] \in Pages
        /\ pc[w] \in {"fetching", "links", "register", "stuck"} => future[page[w]] = "submitted"
        /\ pc[w] = "remove" => future[page[w]] = "done"
        /\ pc[w] \in {"links", "register", "remove", "stuck"} => outcome[page[w]] # "none"
        /\ pc[w] = "register" => child[w] \in Pages
        /\ todo[w] # {} => /\ source = "website"
                           /\ pc[w] \in {"links", "register", "stuck"}
                           /\ todo[w] \subseteq Links[page[w]]
                           /\ depth[page[w]] + 1 \in 0 .. MaxDepth

\* What the future, the outcome and the visited set say of a page.
Books ==
    /\ \A p \in Pages :
          /\ outcome[p] # "none" => future[p] # "none"
          /\ future[p] = "done" => outcome[p] # "none"
          /\ source = "website" /\ future[p] # "none" => p \in visited
    /\ \A i \in 1 .. Len(queue) : queue[i] \in Pages /\ future[queue[i]] = "submitted"

PageInv == TypeOK /\ Places /\ Books /\ NeverTwice

\* NeverTwice over a sequence, its domain written out.
Queued(q) ==
    \A i \in 1 .. Len(q) :
        /\ outcome[q[i]] = "none"
        /\ \A j \in 1 .. Len(q) : q[i] = q[j] => i = j
        /\ \A w \in Workers : pc[w] # "idle" => page[w] # q[i]
Apart ==
    \A v, w \in Workers :
        pc[v] # "idle" /\ pc[w] # "idle" /\ page[v] = page[w] => v = w

LEMMA NeverTwiceParts ==
    ASSUME TypeOK
    PROVE  NeverTwice <=> Queued(queue) /\ Apart
<1>1. queue \in Seq(Pages) /\ DOMAIN queue = 1 .. Len(queue)
  BY LenProperties DEF TypeOK
<1> QED BY <1>1 DEF NeverTwice, Queued, Apart

LEMMA PageInit == Init => PageInv
<1> SUFFICES ASSUME Init PROVE PageInv
  OBVIOUS
<1>1. /\ Base \in Pages /\ Files \in Seq(Pages) /\ MaxDepth \in Nat
      /\ Caller \notin Workers /\ 0 \in 0 .. MaxDepth
      /\ \A i, j \in 1 .. Len(Files) : Files[i] = Files[j] => i = j
  <2>1. Files \in Seq(Pages) /\ DOMAIN Files = 1 .. Len(Files)
    BY CrawlAssumption, LenProperties
  <2> QED BY <2>1, CrawlAssumption
<1>2. /\ <<Base>> \in Seq(Pages) /\ Len(<<Base>>) = 1 /\ <<Base>>[1] = Base
  BY <1>1
<1>3. queue \in Seq(Pages) /\ \A i, j \in 1 .. Len(queue) : queue[i] = queue[j] => i = j
  BY <1>1, <1>2 DEF Init
<1>4. \A i \in 1 .. Len(queue) : queue[i] \in Pages
  BY <1>3, ElementOfSeq
<1>5. \A i \in 1 .. Len(queue) : future[queue[i]] = "submitted" /\ outcome[queue[i]] = "none"
  BY <1>2, <1>4 DEF Init
<1>6. TypeOK
  <2>1. pc \in [Threads -> {"idle", "fetching", "links", "register", "remove",
                            "waiting", "closing", "returned", "stuck"}]
    BY DEF Init
  <2>2. visited \in SUBSET Pages /\ future \in [Pages -> {"none", "submitted", "done"}]
    BY <1>1 DEF Init
  <2>3. size \in SUBSET Workers /\ depth \in [Pages -> 0 .. MaxDepth] /\ source \in {"website", "files"}
    BY <1>1 DEF Init
  <2>4. /\ page \in [Workers -> Pages \cup {None}] /\ child \in [Workers -> Pages \cup {None}]
        /\ todo \in [Workers -> SUBSET Pages]
        /\ callback \in SUBSET Pages /\ pending \in SUBSET Pages /\ lock \in Threads \cup {None}
        /\ outcome \in [Pages -> {"none", "stored", "failed", "absent"}]
    BY DEF Init
  <2> QED BY <1>3, <2>1, <2>2, <2>3, <2>4 DEF TypeOK
<1>7. \A w \in Workers : pc[w] = "idle" /\ todo[w] = {}
  BY <1>1 DEF Init, Threads
<1>8. Places
  BY <1>7 DEF Places
<1>9. Books
  BY <1>1, <1>4, <1>5 DEF Books, Init
<1>10. NeverTwice
  BY <1>3, <1>5, <1>6, <1>7, NeverTwiceParts DEF Queued, Apart
<1> QED BY <1>6, <1>8, <1>9, <1>10 DEF PageInv

-----------------------------------------------------------------------------
\* Type correctness of a step.
LEMMA TrackTypes ==
    ASSUME TypeOK, NEW t \in Threads, NEW p \in Pages, NEW next \in {"links", "waiting"},
           Track(t, p, next)
    PROVE  /\ pc' \in [Threads -> {"idle", "fetching", "links", "register", "remove",
                                   "waiting", "closing", "returned", "stuck"}]
           /\ callback' \in SUBSET Pages /\ pending' \in SUBSET Pages
           /\ lock' \in Threads \cup {None}
<1>1. pending' \in SUBSET Pages /\ callback' \in SUBSET Pages
  BY DEF TypeOK, Track
<1>2. lock' \in Threads \cup {None}
  BY DEF TypeOK, Track
<1>3. \/ pc' = [pc EXCEPT ![t] = next]
      \/ pc' = [pc EXCEPT ![t] = "stuck"]
  BY DEF Track
<1> QED BY <1>1, <1>2, <1>3 DEF TypeOK

LEMMA TypeNext == PageInv /\ [Next]_vars => TypeOK'
<1> SUFFICES ASSUME PageInv, [Next]_vars PROVE TypeOK'
  OBVIOUS
<1>1. TypeOK /\ Workers \subseteq Threads /\ Caller \in Threads /\ Base \in Pages
  BY CrawlAssumption DEF PageInv, Threads
<1>2. ASSUME NEW w \in Workers, Take(w) PROVE TypeOK'
  <2>1. Head(queue) \in Pages /\ Tail(queue) \in Seq(Pages)
    BY <1>1, <1>2, HeadTailProperties DEF Take, TypeOK
  <2> QED BY <1>1, <1>2, <2>1 DEF Take, TypeOK, call, crawl, tracked
<1>3. ASSUME NEW w \in Workers, Fetch(w) PROVE TypeOK'
  <2>1. page[w] \in Pages
    BY <1>3 DEF Fetch, PageInv, Places
  <2>2. Links[page[w]] \in SUBSET Pages
    BY <2>1, CrawlAssumption
  <2>3. PICK o \in {"stored", "failed", "absent"} :
           /\ outcome' = [outcome EXCEPT ![page[w]] = o]
           /\ todo' = [todo EXCEPT ![w] = IF Follows(page[w], o) THEN Links[page[w]] ELSE {}]
    BY <1>3 DEF Fetch
  <2>4. todo' \in [Workers -> SUBSET Pages]
    BY <1>1, <2>2, <2>3 DEF TypeOK
  <2> QED BY <1>1, <1>3, <2>3, <2>4 DEF Fetch, TypeOK, call, crawl, tracked
<1>4. ASSUME NEW w \in Workers, Submit(w) PROVE TypeOK'
  <2>1. PICK l \in todo[w] :
           /\ todo' = [todo EXCEPT ![w] = @ \ {l}]
           /\ \/ UNCHANGED <<pc, child, queue, crawl, future>>
              \/ /\ MarkVisited(l)
                 /\ depth' = [depth EXCEPT ![l] = depth[page[w]] + 1]
                 /\ queue' = Append(queue, l)
                 /\ future' = [future EXCEPT ![l] = "submitted"]
                 /\ child' = [child EXCEPT ![w] = l]
                 /\ pc' = [pc EXCEPT ![w] = "register"]
    BY <1>4 DEF Submit
  <2>2. l \in Pages /\ depth[page[w]] + 1 \in 0 .. MaxDepth
    BY <1>1, <2>1 DEF TypeOK, PageInv, Places
  <2>3. Append(queue, l) \in Seq(Pages)
    BY <1>1, <2>2, AppendProperties DEF TypeOK
  <2>4. todo' \in [Workers -> SUBSET Pages]
    BY <1>1, <2>1 DEF TypeOK
  <2>5. CASE UNCHANGED <<pc, child, queue, crawl, future>>
    BY <1>1, <1>4, <2>4, <2>5 DEF Submit, TypeOK, call, crawl, tracked
  <2>6. CASE ~ UNCHANGED <<pc, child, queue, crawl, future>>
    <3>1. /\ depth' = [depth EXCEPT ![l] = depth[page[w]] + 1] /\ queue' = Append(queue, l)
          /\ visited' = visited \cup {l} /\ future' = [future EXCEPT ![l] = "submitted"]
          /\ child' = [child EXCEPT ![w] = l] /\ pc' = [pc EXCEPT ![w] = "register"]
      BY <2>1, <2>6 DEF MarkVisited
    <3>2. depth' \in [Pages -> 0 .. MaxDepth]
      BY <1>1, <2>2, <3>1 DEF TypeOK
    <3>3. /\ visited' \in SUBSET Pages /\ future' \in [Pages -> {"none", "submitted", "done"}]
          /\ child' \in [Workers -> Pages \cup {None}]
      BY <1>1, <2>2, <3>1 DEF TypeOK
    <3>4. pc' \in [Threads -> {"idle", "fetching", "links", "register", "remove",
                               "waiting", "closing", "returned", "stuck"}]
      BY <1>1, <3>1 DEF TypeOK
    <3>5. UNCHANGED <<source, size, page, callback, pending, lock, outcome>>
      BY <1>4 DEF Submit, call, tracked
    <3> QED BY <1>1, <2>3, <2>4, <3>1, <3>2, <3>3, <3>4, <3>5 DEF TypeOK
  <2> QED BY <2>5, <2>6
<1>5. ASSUME NEW w \in Workers, RegisterChild(w) PROVE TypeOK'
  <2>1. child[w] \in Pages
    BY <1>5 DEF RegisterChild, PageInv, Places
  <2> QED BY <1>1, <1>5, <2>1, TrackTypes DEF RegisterChild, TypeOK, call, busy, crawl
<1>6. ASSUME NEW w \in Workers, Finish(w) PROVE TypeOK'
  BY <1>1, <1>6 DEF Finish, TypeOK, call, busy, crawl, tracked
<1>7. ASSUME NEW w \in Workers, RemoveFuture(w) PROVE TypeOK'
  BY <1>1, <1>7 DEF RemoveFuture, TypeOK, call, busy, crawl
<1>8. CASE RegisterBase
  BY <1>1, <1>8, TrackTypes DEF RegisterBase, TypeOK, call, busy, crawl
<1>9. CASE WaitEnds \/ Return
  BY <1>1, <1>9 DEF WaitEnds, Return, TypeOK, call, busy, crawl, tracked
<1>10. CASE UNCHANGED vars
  BY <1>1, <1>10 DEF TypeOK, vars, call, busy, crawl, tracked
<1> QED BY <1>2, <1>3, <1>4, <1>5, <1>6, <1>7, <1>8, <1>9, <1>10 DEF Next, Work, Call

-----------------------------------------------------------------------------
\* The steps, one lemma each.

\* What the caller does, and what leaves the pages alone.
LEMMA PagesKept ==
    ASSUME PageInv, TypeOK', \A w \in Workers : pc'[w] = pc[w],
           UNCHANGED <<source, page, todo, child, queue, visited, depth, future, outcome>>
    PROVE  PageInv'
<1>1. Places' /\ Books'
  BY DEF PageInv, Places, Books
<1>2. Queued(queue)' /\ Apart'
  BY NeverTwiceParts DEF PageInv, Queued, Apart
<1>3. NeverTwice' <=> Queued(queue)' /\ Apart'
  BY NeverTwiceParts, PTL
<1> QED BY <1>1, <1>2, <1>3 DEF PageInv

LEMMA TakeKeeps ==
    ASSUME PageInv, TypeOK', NEW w \in Workers, Take(w)
    PROVE  PageInv'
<1>1. /\ queue \in Seq(Pages) /\ queue # <<>> /\ Len(queue) \in Nat /\ TypeOK
      /\ pc[w] = "idle"
  BY LenProperties DEF PageInv, TypeOK, Take
<1> DEFINE h == queue[1]
<1>2. /\ page' = [page EXCEPT ![w] = h] /\ pc' = [pc EXCEPT ![w] = "fetching"]
      /\ queue' = Tail(queue)
      /\ UNCHANGED <<source, todo, child, visited, depth, future, outcome>>
  BY <1>1 DEF Take, call, crawl
<1>3. /\ Len(queue') = Len(queue) - 1 /\ 1 \in 1 .. Len(queue)
      /\ \A i \in 1 .. Len(queue') : i + 1 \in 1 .. Len(queue) /\ queue'[i] = queue[i + 1]
  BY <1>1, <1>2, HeadTailProperties
<1>4. h \in Pages /\ future[h] = "submitted"
  BY <1>3 DEF PageInv, Books
<1>5. /\ \A v \in Workers : pc'[v] = IF v = w THEN "fetching" ELSE pc[v]
      /\ \A v \in Workers : page'[v] = IF v = w THEN h ELSE page[v]
  BY <1>1, <1>2 DEF TypeOK, Threads
<1> HIDE DEF h
<1>6. Queued(queue) /\ Apart
  BY <1>1, NeverTwiceParts DEF PageInv
<1>7. \A v \in Workers : pc[v] # "idle" => page[v] # h
  BY <1>3, <1>6 DEF Queued, h
<1>8. Places'
  <2> SUFFICES ASSUME NEW v \in Workers
               PROVE  /\ pc'[v] \in {"idle", "fetching", "links", "register", "remove", "stuck"}
                      /\ pc'[v] # "idle" => page'[v] \in Pages
                      /\ pc'[v] \in {"fetching", "links", "register", "stuck"} => future[page'[v]] = "submitted"
                      /\ pc'[v] = "remove" => future[page'[v]] = "done"
                      /\ pc'[v] \in {"links", "register", "remove", "stuck"} => outcome[page'[v]] # "none"
                      /\ pc'[v] = "register" => child[v] \in Pages
                      /\ todo[v] # {} => /\ source = "website"
                                         /\ pc'[v] \in {"links", "register", "stuck"}
                                         /\ todo[v] \subseteq Links[page'[v]]
                                         /\ depth[page'[v]] + 1 \in 0 .. MaxDepth
    BY <1>2 DEF Places
  <2>1. CASE v = w
    BY <1>1, <1>4, <1>5, <2>1 DEF PageInv, Places
  <2>2. CASE v # w
    BY <1>5, <2>2 DEF PageInv, Places
  <2> QED BY <2>1, <2>2
<1>9. Books'
  BY <1>2, <1>3 DEF PageInv, Books
<1>10. Apart'
  BY <1>5, <1>6, <1>7 DEF Apart
<1>11. Queued(queue)'
  <2> SUFFICES ASSUME NEW i \in 1 .. Len(queue')
               PROVE  /\ outcome'[queue'[i]] = "none"
                      /\ \A j \in 1 .. Len(queue') : queue'[i] = queue'[j] => i = j
                      /\ \A v \in Workers : pc'[v] # "idle" => page'[v] # queue'[i]
    BY DEF Queued
  <2>1. outcome'[queue'[i]] = "none"
    BY <1>2, <1>3, <1>6 DEF Queued
  <2>2. \A j \in 1 .. Len(queue') : queue'[i] = queue'[j] => i = j
    BY <1>3, <1>6 DEF Queued
  <2>3. queue'[i] # h
    BY <1>3, <1>6 DEF Queued, h
  <2>4. \A v \in Workers : pc'[v] # "idle" => page'[v] # queue'[i]
    BY <1>3, <1>5, <1>6, <2>3 DEF Queued
  <2> QED BY <2>1, <2>2, <2>4
<1>12. NeverTwice' <=> Queued(queue)' /\ Apart'
  BY NeverTwiceParts, PTL
<1> QED BY <1>8, <1>9, <1>10, <1>11, <1>12 DEF PageInv

\* The outcome of the page a worker holds changes nobody else's page.
LEMMA FetchKeeps ==
    ASSUME PageInv, TypeOK', NEW w \in Workers, Fetch(w)
    PROVE  PageInv'
<1>1. /\ TypeOK /\ pc[w] = "fetching" /\ page[w] \in Pages /\ future[page[w]] = "submitted"
      /\ w \in Threads
  BY DEF PageInv, Places, Fetch, Threads
<1>2. PICK o \in {"stored", "failed", "absent"} :
         /\ outcome' = [outcome EXCEPT ![page[w]] = o]
         /\ todo' = [todo EXCEPT ![w] = IF Follows(page[w], o) THEN Links[page[w]] ELSE {}]
  BY DEF Fetch
<1>3. UNCHANGED <<source, page, child, queue, visited, depth, future>>
  BY DEF Fetch, call, crawl
<1>4. \A v \in Workers : pc'[v] = IF v = w THEN "links" ELSE pc[v]
  BY <1>1 DEF Fetch, TypeOK
<1>5. \A v \in Workers : todo'[v] = IF v # w THEN todo[v]
                                    ELSE IF Follows(page[w], o) THEN Links[page[w]] ELSE {}
  BY <1>1, <1>2 DEF TypeOK
<1>6. \A p \in Pages : outcome'[p] = IF p = page[w] THEN o ELSE outcome[p]
  BY <1>1, <1>2 DEF TypeOK
<1>7. Queued(queue) /\ Apart
  BY <1>1, NeverTwiceParts DEF PageInv
<1>8. Follows(page[w], o) => source = "website" /\ depth[page[w]] + 1 \in 0 .. MaxDepth
  <2>1. depth[page[w]] \in 0 .. MaxDepth
    BY <1>1 DEF TypeOK
  <2> QED BY <2>1, CrawlAssumption DEF Follows
<1>9. Places'
  <2> SUFFICES ASSUME NEW v \in Workers
               PROVE  /\ pc'[v] \in {"idle", "fetching", "links", "register", "remove", "stuck"}
                      /\ pc'[v] # "idle" => page[v] \in Pages
                      /\ pc'[v] \in {"fetching", "links", "register", "stuck"} => future[page[v]] = "submitted"
                      /\ pc'[v] = "remove" => future[page[v]] = "done"
                      /\ pc'[v] \in {"links", "register", "remove", "stuck"} => outcome'[page[v]] # "none"
                      /\ pc'[v] = "register" => child[v] \in Pages
                      /\ todo'[v] # {} => /\ source = "website"
                                          /\ pc'[v] \in {"links", "register", "stuck"}
                                          /\ todo'[v] \subseteq Links[page[v]]
                                          /\ depth[page[v]] + 1 \in 0 .. MaxDepth
    BY <1>3 DEF Places
  <2>1. CASE v = w
    BY <1>1, <1>4, <1>5, <1>6, <1>8, <2>1
  <2>2. CASE v # w
    <3>1. pc[v] # "idle" => page[v] \in Pages /\ page[v] # page[w]
      BY <1>1, <1>7, <2>2 DEF Apart, PageInv, Places
    <3> QED BY <1>4, <1>5, <1>6, <2>2, <3>1 DEF PageInv, Places
  <2> QED BY <2>1, <2>2
<1>10. Books'
  BY <1>1, <1>2, <1>3, <1>6 DEF PageInv, Books
<1>11. Apart'
  BY <1>1, <1>3, <1>4, <1>7 DEF Apart
<1>12. Queued(queue)'
  BY <1>1, <1>3, <1>4, <1>6, <1>7 DEF Queued, PageInv, Books
<1>13. NeverTwice' <=> Queued(queue)' /\ Apart'
  BY NeverTwiceParts, PTL
<1> QED BY <1>9, <1>10, <1>11, <1>12, <1>13 DEF PageInv

LEMMA RegisterKeeps ==
    ASSUME PageInv, TypeOK', NEW w \in Workers, RegisterChild(w)
    PROVE  PageInv'
<1>1. TypeOK /\ pc[w] = "register" /\ w \in Threads
  BY DEF PageInv, RegisterChild, Threads
<1>2. UNCHANGED <<source, page, todo, child, queue, visited, depth, future, outcome>>
  BY DEF RegisterChild, call, busy, crawl
<1>3. PICK s \in {"links", "stuck"} : pc' = [pc EXCEPT ![w] = s]
  BY DEF RegisterChild, Track
<1>4. \A v \in Workers : pc'[v] = IF v = w THEN s ELSE pc[v]
  BY <1>1, <1>3 DEF TypeOK
<1>5. Places' /\ Books'
  BY <1>1, <1>2, <1>4 DEF PageInv, Places, Books
<1>6. Queued(queue)' /\ Apart'
  BY <1>1, <1>2, <1>4, NeverTwiceParts DEF PageInv, Queued, Apart
<1>7. NeverTwice' <=> Queued(queue)' /\ Apart'
  BY NeverTwiceParts, PTL
<1> QED BY <1>5, <1>6, <1>7 DEF PageInv

LEMMA RemoveKeeps ==
    ASSUME PageInv, TypeOK', NEW w \in Workers, RemoveFuture(w)
    PROVE  PageInv'
<1>1. TypeOK /\ pc[w] = "remove" /\ w \in Threads
  BY DEF PageInv, RemoveFuture, Threads
<1>2. UNCHANGED <<source, page, todo, child, queue, visited, depth, future, outcome>>
  BY DEF RemoveFuture, call, busy, crawl
<1>3. \A v \in Workers : pc'[v] = IF v = w THEN "idle" ELSE pc[v]
  BY <1>1 DEF TypeOK, RemoveFuture
<1>4. Places' /\ Books'
  BY <1>1, <1>2, <1>3 DEF PageInv, Places, Books
<1>5. Queued(queue)' /\ Apart'
  BY <1>1, <1>2, <1>3, NeverTwiceParts DEF PageInv, Queued, Apart
<1>6. NeverTwice' <=> Queued(queue)' /\ Apart'
  BY NeverTwiceParts, PTL
<1> QED BY <1>4, <1>5, <1>6 DEF PageInv

LEMMA FinishKeeps ==
    ASSUME PageInv, TypeOK', NEW w \in Workers, Finish(w)
    PROVE  PageInv'
<1>1. /\ TypeOK /\ pc[w] = "links" /\ todo[w] = {} /\ w \in Threads /\ page[w] \in Pages
      /\ outcome[page[w]] # "none" /\ future[page[w]] = "submitted"
  BY DEF PageInv, Places, Finish, Threads
<1>2. UNCHANGED <<source, page, todo, child, queue, visited, depth, outcome>>
  BY DEF Finish, call, busy, crawl
<1>3. PICK s \in {"remove", "idle"} : pc' = [pc EXCEPT ![w] = s]
  BY DEF Finish
<1>4. \A v \in Workers : pc'[v] = IF v = w THEN s ELSE pc[v]
  BY <1>1, <1>3 DEF TypeOK
<1>5. \A p \in Pages : future'[p] = IF p = page[w] THEN "done" ELSE future[p]
  BY <1>1 DEF Finish, TypeOK
<1>6. Queued(queue) /\ Apart
  BY <1>1, NeverTwiceParts DEF PageInv
<1>7. \A v \in Workers : v # w /\ pc[v] # "idle" => page[v] \in Pages /\ page[v] # page[w]
  BY <1>1, <1>6 DEF Apart, PageInv, Places
<1>8. Places'
  BY <1>1, <1>2, <1>4, <1>5, <1>7 DEF PageInv, Places
<1>9. Books'
  <2>1. \A i \in 1 .. Len(queue) : queue[i] \in Pages /\ queue[i] # page[w]
    BY <1>1, <1>6 DEF Queued, PageInv, Books
  <2> QED BY <1>1, <1>2, <1>5, <2>1 DEF PageInv, Books
<1>10. Queued(queue)' /\ Apart'
  BY <1>1, <1>2, <1>4, <1>6 DEF Queued, Apart
<1>11. NeverTwice' <=> Queued(queue)' /\ Apart'
  BY NeverTwiceParts, PTL
<1> QED BY <1>8, <1>9, <1>10, <1>11 DEF PageInv

\* What Submit does: it passes over a link, or submits a new one.
Passes(w) ==
    /\ \E l \in todo[w] : todo' = [todo EXCEPT ![w] = @ \ {l}]
    /\ UNCHANGED <<pc, child, queue, visited, depth, future>>
Submits(w, l) ==
    /\ l \notin visited /\ visited' = visited \cup {l}
    /\ todo' = [todo EXCEPT ![w] = @ \ {l}]
    /\ depth' = [depth EXCEPT ![l] = depth[page[w]] + 1]
    /\ queue' = Append(queue, l)
    /\ future' = [future EXCEPT ![l] = "submitted"]
    /\ child' = [child EXCEPT ![w] = l]
    /\ pc' = [pc EXCEPT ![w] = "register"]

LEMMA SubmitShape ==
    ASSUME PageInv, NEW w \in Workers, Submit(w)
    PROVE  /\ TypeOK /\ pc[w] = "links" /\ w \in Threads /\ source = "website"
           /\ UNCHANGED <<source, page, outcome, pending>>
           /\ \/ Passes(w)
              \/ \E l \in Pages : l \in Links[page[w]] /\ future[l] = "none" /\ Submits(w, l)
<1>1. TypeOK /\ pc[w] = "links" /\ w \in Threads /\ UNCHANGED <<source, page, outcome, pending>>
  BY DEF PageInv, Submit, Threads, call, tracked
<1>2. PICK l \in todo[w] :
         /\ todo' = [todo EXCEPT ![w] = @ \ {l}]
         /\ \/ UNCHANGED <<pc, child, queue, crawl, future>>
            \/ /\ MarkVisited(l)
               /\ depth' = [depth EXCEPT ![l] = depth[page[w]] + 1]
               /\ queue' = Append(queue, l)
               /\ future' = [future EXCEPT ![l] = "submitted"]
               /\ child' = [child EXCEPT ![w] = l]
               /\ pc' = [pc EXCEPT ![w] = "register"]
  BY DEF Submit
<1>3. source = "website" /\ l \in Links[page[w]] /\ l \in Pages
  BY <1>1, <1>2 DEF PageInv, Places, TypeOK
<1>4. CASE UNCHANGED <<pc, child, queue, crawl, future>>
  BY <1>1, <1>2, <1>3, <1>4 DEF Passes, crawl
<1>5. CASE ~ UNCHANGED <<pc, child, queue, crawl, future>>
  <2>1. Submits(w, l)
    BY <1>2, <1>5 DEF Submits, MarkVisited
  <2>2. future[l] = "none"
    BY <1>1, <1>3, <2>1 DEF Submits, PageInv, Books, TypeOK
  <2> QED BY <1>1, <1>3, <2>1, <2>2
<1> QED BY <1>4, <1>5

LEMMA SubmitKeeps ==
    ASSUME PageInv, TypeOK', NEW w \in Workers, Submit(w)
    PROVE  PageInv'
<1>1. /\ TypeOK /\ pc[w] = "links" /\ w \in Threads /\ source = "website"
      /\ UNCHANGED <<source, page, outcome>>
  BY SubmitShape
<1>2. Queued(queue) /\ Apart
  BY <1>1, NeverTwiceParts DEF PageInv
<1>3. NeverTwice' <=> Queued(queue)' /\ Apart'
  BY NeverTwiceParts, PTL
<1>4. CASE Passes(w)
  <2>1. UNCHANGED <<pc, child, queue, visited, depth, future>>
    BY <1>4 DEF Passes
  <2>2. \A v \in Workers : todo'[v] \subseteq todo[v]
    BY <1>1, <1>4 DEF Passes, TypeOK
  <2>3. Places'
    BY <1>1, <2>1, <2>2 DEF PageInv, Places
  <2>4. Books' /\ Queued(queue)' /\ Apart'
    BY <1>1, <1>2, <2>1 DEF PageInv, Books, Queued, Apart
  <2> QED BY <1>3, <2>3, <2>4 DEF PageInv
<1>5. ASSUME NEW l \in Pages, l \in Links[page[w]], future[l] = "none", Submits(w, l)
      PROVE  PageInv'
  <2>1. visited' = visited \cup {l} /\ queue' = Append(queue, l)
    BY <1>5 DEF Submits
  <2>2. /\ \A v \in Workers : pc'[v] = IF v = w THEN "register" ELSE pc[v]
        /\ \A v \in Workers : child'[v] = IF v = w THEN l ELSE child[v]
        /\ \A v \in Workers : todo'[v] \subseteq todo[v]
    BY <1>1, <1>5 DEF Submits, TypeOK
  <2>3. \A p \in Pages : future'[p] = IF p = l THEN "submitted" ELSE future[p]
    BY <1>1, <1>5 DEF Submits, TypeOK
  <2>4. \A p \in Pages : p # l => depth'[p] = depth[p]
    BY <1>1, <1>5 DEF Submits, TypeOK
  <2>5. outcome[l] = "none"
    BY <1>5 DEF PageInv, Books
  <2>6. \A v \in Workers : pc[v] # "idle" => page[v] \in Pages /\ page[v] # l
    BY <1>5 DEF PageInv, Places
  <2>7. \A i \in 1 .. Len(queue) : queue[i] \in Pages /\ queue[i] # l
    BY <1>5 DEF PageInv, Books
  <2>8. /\ Len(queue) \in Nat /\ Len(queue') = Len(queue) + 1
        /\ \A i \in 1 .. Len(queue) : queue'[i] = queue[i]
        /\ queue'[Len(queue) + 1] = l
    BY <1>1, <2>1, LenProperties, AppendProperties DEF TypeOK
  <2>9. \A i \in 1 .. Len(queue') : i \in 1 .. Len(queue) \/ i = Len(queue) + 1
    BY <2>8
  <2>10. Places'
    BY <1>1, <2>2, <2>3, <2>4, <2>6 DEF PageInv, Places
  <2>11. Books'
    <3>1. \A i \in 1 .. Len(queue') : queue'[i] \in Pages /\ future'[queue'[i]] = "submitted"
      BY <2>3, <2>7, <2>8, <2>9 DEF PageInv, Books
    <3>2. \A p \in Pages : /\ outcome'[p] # "none" => future'[p] # "none"
                           /\ future'[p] = "done" => outcome'[p] # "none"
                           /\ source' = "website" /\ future'[p] # "none" => p \in visited'
      BY <1>1, <2>1, <2>3 DEF PageInv, Books
    <3> QED BY <3>1, <3>2 DEF Books
  <2>12. Apart'
    BY <1>1, <1>2, <2>2 DEF Apart
  <2>13. Queued(queue)'
    <3> SUFFICES ASSUME NEW i \in 1 .. Len(queue')
                 PROVE  /\ outcome'[queue'[i]] = "none"
                        /\ \A j \in 1 .. Len(queue') : queue'[i] = queue'[j] => i = j
                        /\ \A v \in Workers : pc'[v] # "idle" => page'[v] # queue'[i]
      BY DEF Queued
    <3>1. CASE i \in 1 .. Len(queue)
      BY <1>1, <1>2, <2>2, <2>7, <2>8, <2>9, <3>1 DEF Queued
    <3>2. CASE i = Len(queue) + 1
      BY <1>1, <2>2, <2>5, <2>6, <2>7, <2>8, <2>9, <3>2
    <3> QED BY <2>9, <3>1, <3>2
  <2> QED BY <1>3, <2>10, <2>11, <2>12, <2>13 DEF PageInv
<1> QED BY <1>4, <1>5, SubmitShape

LEMMA PageNext == PageInv /\ [Next]_vars => PageInv'
<1> SUFFICES ASSUME PageInv, [Next]_vars PROVE PageInv'
  OBVIOUS
<1>1. TypeOK'
  BY TypeNext
<1>2. ASSUME NEW w \in Workers, Work(w) PROVE PageInv'
  BY <1>1, <1>2, TakeKeeps, FetchKeeps, SubmitKeeps, RegisterKeeps, FinishKeeps, RemoveKeeps DEF Work
<1>3. CASE Call \/ UNCHANGED vars
  <2>1. UNCHANGED <<source, page, todo, child, queue, visited, depth, future, outcome>>
    BY <1>3 DEF Call, RegisterBase, WaitEnds, Return, vars, call, busy, crawl
  <2>2. \A w \in Workers : w # Caller
    BY CrawlAssumption
  <2>3. \A w \in Workers : pc'[w] = pc[w]
    BY <1>3, <2>2 DEF Call, RegisterBase, WaitEnds, Return, Track, vars, PageInv, TypeOK, Threads
  <2> QED BY <1>1, <2>1, <2>3, PagesKept
<1> QED BY <1>2, <1>3 DEF Next

LEMMA PageCorrect == Spec => []PageInv
BY PageInit, PageNext, PTL DEF Spec

\* The state keeps its shape; in particular no page is submitted deeper than max_depth.
LEMMA TypeCorrect == Spec => []TypeOK
<1>1. PageInv => TypeOK
  BY DEF PageInv
<1> QED BY <1>1, PageCorrect, PTL

\* No page is fetched or stored twice, whatever links lead to it and however many threads
\* find them at once (_mark_visited).
LEMMA NeverTwiceCorrect == Spec => []NeverTwice
<1>1. PageInv => NeverTwice
  BY DEF PageInv
<1> QED BY <1>1, PageCorrect, PTL

-----------------------------------------------------------------------------
\* A new page is one link further than the page it was found on.
LEMMA DepthNext == PageInv /\ DepthIsALinkPath /\ [Next]_vars => DepthIsALinkPath'
<1> SUFFICES ASSUME PageInv, DepthIsALinkPath, [Next]_vars PROVE DepthIsALinkPath'
  OBVIOUS
<1>1. CASE UNCHANGED <<visited, depth>>
  BY <1>1 DEF DepthIsALinkPath
<1>2. CASE ~ UNCHANGED <<visited, depth>>
  <2>1. PICK w \in Workers : Submit(w)
    BY <1>2 DEF Next, Work, Call, Take, Fetch, RegisterChild, Finish, RemoveFuture,
                RegisterBase, WaitEnds, Return, vars, crawl
  <2>2. PICK l \in Pages : l \in Links[page[w]] /\ future[l] = "none" /\ Submits(w, l)
    BY <1>2, <2>1, SubmitShape DEF Passes
  <2>3. /\ TypeOK /\ pc[w] = "links" /\ source = "website"
    BY <2>1, SubmitShape
  <2>4. /\ visited' = visited \cup {l} /\ l \notin visited
        /\ depth' = [depth EXCEPT ![l] = depth[page[w]] + 1]
    BY <2>2 DEF Submits
  <2>5. page[w] \in visited
    BY <2>3 DEF PageInv, Places, Books
  <2>6. /\ depth'[l] = depth[page[w]] + 1
        /\ \A p \in visited : p # l /\ depth'[p] = depth[p]
    BY <2>3, <2>4 DEF TypeOK
  <2> SUFFICES ASSUME NEW p \in visited'
               PROVE  \/ p = Base /\ depth'[p] = 0
                      \/ \E q \in visited' : p \in Links[q] /\ depth'[p] = depth'[q] + 1
    BY DEF DepthIsALinkPath
  <2>7. CASE p = l
    BY <2>2, <2>4, <2>5, <2>6, <2>7
  <2>8. CASE p \in visited
    <3>1. CASE p = Base /\ depth[p] = 0
      BY <2>6, <2>8, <3>1
    <3>2. CASE \E q \in visited : p \in Links[q] /\ depth[p] = depth[q] + 1
      BY <2>4, <2>6, <2>8, <3>2
    <3> QED BY <2>8, <3>1, <3>2 DEF DepthIsALinkPath
  <2> QED BY <2>4, <2>7, <2>8
<1> QED BY <1>1, <1>2

\* The depth of a page is the length of a path of links that leads to it, so the crawl
\* goes no further than max_depth clicks (_process_page).
LEMMA DepthCorrect == Spec => []DepthIsALinkPath
<1>1. Init => DepthIsALinkPath
  BY CrawlAssumption DEF Init, DepthIsALinkPath
<1> QED BY <1>1, DepthNext, PageCorrect, PTL DEF Spec

\* For any site, depth limit and pool: no page is fetched or stored twice, however many
\* threads find it at once, and its depth is the length of a path of links that leads to
\* it, so none lies deeper than max_depth (_mark_visited, _process_url).
THEOREM PagesCorrect == Spec => []PagesSound
BY TypeCorrect, NeverTwiceCorrect, DepthCorrect, PTL DEF PagesSound

-----------------------------------------------------------------------------
\* A set of numbers has a least one.
LEMMA LeastNumber ==
    ASSUME NEW T \in SUBSET Nat, T # {}
    PROVE  \E x \in T : \A y \in T : x <= y
<1> DEFINE R == OpToRel(<, Nat)
<1>1. IsWellFoundedOn(R, Nat)
  BY NatLessThanWellFounded
<1>2. \A x, y \in Nat : x < y => <<x, y>> \in R
  BY DEF OpToRel
<1> HIDE DEF R
<1>3. PICK x \in T : \A y \in T : ~ (<<y, x>> \in R)
  BY <1>1, WFMin
<1>4. \A y \in T : ~ (y < x)
  BY <1>2, <1>3, Zenon
<1>5. \A y \in T : x \in Int /\ y \in Int
  OBVIOUS
<1>6. \A y \in T : x <= y
  BY <1>4, <1>5
<1> QED BY <1>6

\* A submitted page that is not in the pending set is just being registered.
Tracked ==
    source = "website" =>
        \A p \in Pages : future[p] = "submitted" =>
            \/ p \in pending
            \/ p = Base /\ pc[Caller] = "register"
            \/ \E w \in Workers : /\ pc[w] = "register" /\ child[w] = p
                                  /\ depth[p] = depth[page[w]] + 1

AllDone == pc[Caller] \in {"closing", "returned"} => \A p \in Pages : future[p] # "submitted"

WaitInv == PageInv /\ Tracked /\ AllDone

\* When nothing is pending, and the base is registered, nothing is submitted.
LEMMA NothingPending ==
    ASSUME PageInv, Tracked, source = "website", pending = {}, pc[Caller] = "waiting"
    PROVE  \A p \in Pages : future[p] # "submitted"
<1> SUFFICES ASSUME NEW p0 \in Pages, future[p0] = "submitted" PROVE FALSE
  OBVIOUS
<1> DEFINE S == {p \in Pages : future[p] = "submitted"}
           T == {depth[p] : p \in S}
<1>1. TypeOK /\ \A p \in Pages : depth[p] \in Nat
  BY CrawlAssumption DEF PageInv, TypeOK
<1>2. T \in SUBSET Nat /\ T # {}
  BY <1>1
<1>3. PICK n \in T : \A m \in T : n <= m
  BY <1>2, LeastNumber
<1>4. PICK p \in S : depth[p] = n
  BY <1>3
<1>5. PICK w \in Workers : pc[w] = "register" /\ child[w] = p /\ depth[p] = depth[page[w]] + 1
  BY <1>4 DEF Tracked
<1>6. page[w] \in S
  BY <1>5 DEF PageInv, Places
<1>7. n <= depth[page[w]] /\ n = depth[page[w]] + 1 /\ depth[page[w]] \in Nat
  BY <1>1, <1>3, <1>4, <1>5, <1>6
<1> QED BY <1>7

\* A step of worker w that submits nothing new and leaves the registrations of others.
LEMMA TrackedKept ==
    ASSUME WaitInv, NEW w \in Workers,
           pc'[Caller] = pc[Caller], UNCHANGED <<source, depth>>,
           \A v \in Workers \ {w} : pc'[v] = pc[v] /\ child'[v] = child[v] /\ page'[v] = page[v],
           \A p \in Pages : future'[p] = "submitted" => future[p] = "submitted",
           \A p \in Pages : future'[p] = "submitted" /\ p \in pending => p \in pending',
           pc[w] = "register" => child[w] \in pending'
    PROVE  Tracked' /\ AllDone'
<1>1. AllDone'
  BY DEF WaitInv, AllDone
<1>2. ASSUME source = "website", NEW p \in Pages, future'[p] = "submitted"
      PROVE  \/ p \in pending'
             \/ p = Base /\ pc'[Caller] = "register"
             \/ \E v \in Workers : /\ pc'[v] = "register" /\ child'[v] = p
                                   /\ depth'[p] = depth'[page'[v]] + 1
  <2>1. CASE p \in pending \/ (p = Base /\ pc[Caller] = "register")
    BY <1>2, <2>1
  <2>2. CASE \E v \in Workers : pc[v] = "register" /\ child[v] = p /\ depth[p] = depth[page[v]] + 1
    BY <2>2
  <2> QED BY <1>2, <2>1, <2>2 DEF WaitInv, Tracked
<1>3. Tracked'
  BY <1>2 DEF Tracked
<1> QED BY <1>1, <1>3

LEMMA WaitNext == WaitInv /\ [Next]_vars => WaitInv'
<1> SUFFICES ASSUME WaitInv, [Next]_vars PROVE WaitInv'
  OBVIOUS
<1> USE CrawlAssumption
<1>1. PageInv' /\ TypeOK /\ PageInv
  BY PageNext DEF WaitInv, PageInv
<1>2. \A w \in Workers : w # Caller /\ w \in Threads
  BY DEF Threads
<1>3. ASSUME NEW w \in Workers, Take(w) PROVE Tracked' /\ AllDone'
  <2>1. pc[w] = "idle" /\ UNCHANGED <<source, depth, child, future, pending>>
    BY <1>3 DEF Take, call, crawl, tracked
  <2>2. /\ pc'[Caller] = pc[Caller]
        /\ \A v \in Workers \ {w} : pc'[v] = pc[v] /\ page'[v] = page[v]
    BY <1>1, <1>2, <1>3 DEF Take, TypeOK, Threads
  <2> QED BY <2>1, <2>2, TrackedKept
<1>4. ASSUME NEW w \in Workers, Fetch(w) PROVE Tracked' /\ AllDone'
  <2>1. pc[w] = "fetching" /\ UNCHANGED <<source, depth, page, child, future, pending>>
    BY <1>4 DEF Fetch, call, crawl, tracked
  <2>2. pc'[Caller] = pc[Caller] /\ \A v \in Workers \ {w} : pc'[v] = pc[v]
    BY <1>1, <1>2, <1>4 DEF Fetch, TypeOK, Threads
  <2> QED BY <2>1, <2>2, TrackedKept
<1>5. ASSUME NEW w \in Workers, Submit(w) PROVE Tracked' /\ AllDone'
  <2>1. /\ pc[w] = "links" /\ source = "website" /\ UNCHANGED <<source, page, pending>>
    BY <1>1, <1>5, SubmitShape
  <2>2. page[w] \in Pages /\ future[page[w]] = "submitted"
    BY <1>1, <2>1 DEF PageInv, Places
  <2>3. pc[Caller] \notin {"closing", "returned"}
    BY <2>2 DEF WaitInv, AllDone
  <2>4. CASE Passes(w)
    BY <2>1, <2>4, TrackedKept DEF Passes
  <2>5. ASSUME NEW l \in Pages, future[l] = "none", Submits(w, l)
        PROVE  Tracked' /\ AllDone'
    <3>1. /\ pc'[Caller] = pc[Caller]
          /\ \A v \in Workers : pc'[v] = IF v = w THEN "register" ELSE pc[v]
          /\ \A v \in Workers : child'[v] = IF v = w THEN l ELSE child[v]
      BY <1>1, <1>2, <2>5 DEF Submits, TypeOK, Threads
    <3>2. \A p \in Pages : future'[p] = IF p = l THEN "submitted" ELSE future[p]
      BY <1>1, <2>5 DEF Submits, TypeOK
    <3>3. \A p \in Pages : depth'[p] = IF p = l THEN depth[page[w]] + 1 ELSE depth[p]
      BY <1>1, <2>5 DEF Submits, TypeOK
    <3>4. \A v \in Workers : pc[v] = "register" => page[v] \in Pages /\ page[v] # l
      BY <1>1, <2>5 DEF PageInv, Places
    <3>5. AllDone'
      BY <2>3, <3>1 DEF AllDone
    <3>6. ASSUME NEW p \in Pages, future'[p] = "submitted"
          PROVE  \/ p \in pending'
                 \/ p = Base /\ pc'[Caller] = "register"
                 \/ \E v \in Workers : /\ pc'[v] = "register" /\ child'[v] = p
                                       /\ depth'[p] = depth'[page'[v]] + 1
      <4>1. CASE p = l
        BY <2>1, <2>2, <2>5, <3>1, <3>3, <4>1
      <4>2. CASE p # l
        <5>1. future[p] = "submitted"
          BY <3>2, <3>6, <4>2
        <5>2. CASE p \in pending \/ (p = Base /\ pc[Caller] = "register")
          BY <2>1, <3>1, <5>2
        <5>3. CASE \E v \in Workers : /\ pc[v] = "register" /\ child[v] = p
                                      /\ depth[p] = depth[page[v]] + 1
          BY <2>1, <3>1, <3>3, <3>4, <4>2, <5>3
        <5> QED BY <2>1, <5>1, <5>2, <5>3 DEF WaitInv, Tracked
      <4> QED BY <4>1, <4>2
    <3>7. Tracked'
      BY <3>6 DEF Tracked
    <3> QED BY <3>5, <3>7
  <2> QED BY <1>1, <1>5, <2>4, <2>5, SubmitShape
<1>6. ASSUME NEW w \in Workers, RegisterChild(w) PROVE Tracked' /\ AllDone'
  <2>1. UNCHANGED <<source, depth, page, child, future>> /\ pending' = pending \cup {child[w]}
    BY <1>6 DEF RegisterChild, Track, call, busy, crawl
  <2>2. pc'[Caller] = pc[Caller] /\ \A v \in Workers \ {w} : pc'[v] = pc[v]
    BY <1>1, <1>2, <1>6 DEF RegisterChild, Track, TypeOK, Threads
  <2> QED BY <2>1, <2>2, TrackedKept
<1>7. ASSUME NEW w \in Workers, Finish(w) PROVE Tracked' /\ AllDone'
  <2>1. pc[w] = "links" /\ UNCHANGED <<source, depth, page, child, pending>>
    BY <1>7 DEF Finish, call, busy, crawl, tracked
  <2>2. pc'[Caller] = pc[Caller] /\ \A v \in Workers \ {w} : pc'[v] = pc[v]
    BY <1>1, <1>2, <1>7 DEF Finish, TypeOK, Threads
  <2>3. \A p \in Pages : future'[p] = "submitted" => future[p] = "submitted"
    BY <1>1, <1>7 DEF Finish, TypeOK
  <2> QED BY <2>1, <2>2, <2>3, TrackedKept
<1>8. ASSUME NEW w \in Workers, RemoveFuture(w) PROVE Tracked' /\ AllDone'
  <2>1. /\ pc[w] = "remove" /\ UNCHANGED <<source, depth, page, child, future>>
        /\ pending' = pending \ {page[w]}
    BY <1>8 DEF RemoveFuture, call, busy, crawl
  <2>2. pc'[Caller] = pc[Caller] /\ \A v \in Workers \ {w} : pc'[v] = pc[v]
    BY <1>1, <1>2, <1>8 DEF RemoveFuture, TypeOK, Threads
  <2>3. future[page[w]] = "done"
    BY <1>1, <2>1 DEF PageInv, Places
  <2> QED BY <2>1, <2>2, <2>3, TrackedKept
<1>9. CASE Call \/ UNCHANGED vars
  <2>1. UNCHANGED <<source, depth, page, child, future>> /\ pending \subseteq pending'
    BY <1>9 DEF Call, RegisterBase, Track, WaitEnds, Return, vars, call, busy, crawl, tracked
  <2>2. \A v \in Workers : pc'[v] = pc[v]
    BY <1>1, <1>2, <1>9 DEF Call, RegisterBase, WaitEnds, Return, Track, vars, TypeOK, Threads
  <2>3. pc[Caller] = "register" => pc'[Caller] = "register" \/ Base \in pending'
    BY <1>9 DEF Call, RegisterBase, Track, WaitEnds, Return, vars
  <2>4. Tracked'
    <3> SUFFICES ASSUME source = "website", NEW p \in Pages, future[p] = "submitted"
                 PROVE  \/ p \in pending'
                        \/ p = Base /\ pc'[Caller] = "register"
                        \/ \E v \in Workers : /\ pc'[v] = "register" /\ child'[v] = p
                                              /\ depth'[p] = depth'[page'[v]] + 1
      BY <2>1 DEF Tracked
    <3>1. CASE \E v \in Workers : pc[v] = "register" /\ child[v] = p /\ depth[p] = depth[page[v]] + 1
      BY <2>1, <2>2, <3>1
    <3> QED BY <2>1, <2>3, <3>1 DEF WaitInv, Tracked
  <2>5. AllDone'
    <3>1. CASE WaitEnds
      <4>1. source = "website" => pending = {} /\ pc[Caller] = "waiting"
        BY <3>1 DEF WaitEnds, PendingSetEmpty
      <4>2. \A p \in Pages : future[p] # "submitted"
        BY <1>1, <3>1, <4>1, NothingPending DEF WaitInv, WaitEnds, PendingSetEmpty, EachDone
      <4> QED BY <2>1, <4>2 DEF AllDone
    <3>2. CASE RegisterBase
      <4>1. pc'[Caller] \in {"waiting", "stuck"}
        BY <1>1, <3>2 DEF RegisterBase, Track, TypeOK, Threads
      <4> QED BY <4>1 DEF AllDone
    <3>3. CASE Return \/ UNCHANGED vars
      <4>1. pc[Caller] = "closing" \/ pc'[Caller] = pc[Caller]
        BY <3>3 DEF Return, vars
      <4> QED BY <2>1, <4>1 DEF WaitInv, AllDone
    <3> QED BY <1>9, <3>1, <3>2, <3>3 DEF Call
  <2> QED BY <1>1, <2>4, <2>5 DEF WaitInv
<1> QED BY <1>1, <1>3, <1>4, <1>5, <1>6, <1>7, <1>8, <1>9 DEF Next, Work, WaitInv

\* The caller of the crawl goes on only when every page submitted, however far down, has
\* been processed (_wait_for_completion, _pending_futures).
THEOREM WaitCorrect == Spec => []WaitEndsComplete
<1>1. Init => Tracked /\ AllDone
  BY DEF Init, Tracked, AllDone, Threads
<1>2. Init => WaitInv
  BY <1>1, PageInit DEF WaitInv
<1>3. WaitInv => WaitEndsComplete
  BY DEF WaitInv, AllDone, WaitEndsComplete, PageInv, TypeOK, Books
<1> QED BY <1>2, <1>3, WaitNext, PTL DEF Spec

-----------------------------------------------------------------------------
\* A link of a page that was fetched above the limit has been visited, or is on the list
\* of a worker that still follows the links of that page.
LinksKept ==
    \A p \in visited : source = "website" /\ outcome[p] \in {"stored", "failed"} /\ depth[p] < MaxDepth =>
        \A l \in Links[p] :
            \/ l \in visited
            \/ \E w \in Workers : /\ pc[w] \in {"links", "register", "stuck"}
                                  /\ page[w] = p /\ l \in todo[w]

\* A page without an outcome waits in the queue or is being fetched.
Unfetched ==
    source = "website" =>
        \A p \in visited : outcome[p] = "none" =>
            \/ \E i \in 1 .. Len(queue) : queue[i] = p
            \/ \E w \in Workers : pc[w] = "fetching" /\ page[w] = p

\* Threads that are not in the pool do nothing, and after the return none does.
Rested ==
    /\ \A w \in Workers : w \notin size => pc[w] = "idle"
    /\ pc[Caller] = "returned" => queue = <<>> /\ \A w \in Workers : pc[w] = "idle"

FollowInv == PageInv /\ LinksKept /\ Unfetched /\ Rested

\* A step that visits nothing new and starts and ends no page keeps what is followed.
LEMMA FollowKept ==
    ASSUME FollowInv, UNCHANGED <<source, visited, depth, outcome, page, todo, queue>>,
           \A w \in Workers : pc'[w] = pc[w] \/ (pc[w] # "fetching" /\ pc'[w] \in {"links", "register", "stuck"})
                              \/ (pc[w] = "links" /\ todo[w] = {} /\ pc'[w] # "fetching")
                              \/ (pc[w] = "remove" /\ pc'[w] # "fetching")
    PROVE  LinksKept' /\ Unfetched'
<1>1. LinksKept'
  <2> SUFFICES ASSUME NEW p \in visited, source = "website", outcome[p] \in {"stored", "failed"},
                      depth[p] < MaxDepth, NEW l \in Links[p], l \notin visited
               PROVE  \E w \in Workers : /\ pc'[w] \in {"links", "register", "stuck"}
                                         /\ page[w] = p /\ l \in todo[w]
    BY DEF LinksKept
  <2>1. PICK w \in Workers : pc[w] \in {"links", "register", "stuck"} /\ page[w] = p /\ l \in todo[w]
    BY DEF FollowInv, LinksKept
  <2>2. pc'[w] \in {"links", "register", "stuck"}
    BY <2>1
  <2> QED BY <2>1, <2>2
<1>2. Unfetched'
  <2>1. \A w \in Workers : pc[w] = "fetching" => pc'[w] = "fetching"
    OBVIOUS
  <2> QED BY <2>1 DEF FollowInv, Unfetched
<1> QED BY <1>1, <1>2

LEMMA TakeFollows ==
    ASSUME FollowInv, NEW w \in Workers, Take(w)
    PROVE  LinksKept' /\ Unfetched' /\ Rested'
<1>1. /\ TypeOK /\ w \in Threads /\ pc[w] = "idle" /\ w \in size /\ queue # <<>>
      /\ UNCHANGED <<source, size, todo, visited, depth, outcome>>
  BY DEF FollowInv, PageInv, Take, Threads, call, crawl
<1>2. /\ \A t \in Threads : pc'[t] = IF t = w THEN "fetching" ELSE pc[t]
      /\ \A v \in Workers : page'[v] = IF v = w THEN Head(queue) ELSE page[v]
  BY <1>1 DEF Take, TypeOK
<1>3. /\ Len(queue) \in Nat \ {0} /\ Head(queue) = queue[1] /\ Len(queue') = Len(queue) - 1
      /\ \A i \in 1 .. Len(queue') : queue'[i] = queue[i + 1]
  BY <1>1, EmptySeq, HeadTailProperties DEF Take, TypeOK
<1>4. LinksKept'
  BY <1>1, <1>2 DEF FollowInv, LinksKept, Threads
<1>5. Unfetched'
  <2> SUFFICES ASSUME source = "website", NEW p \in visited, outcome[p] = "none"
               PROVE  \/ \E i \in 1 .. Len(queue') : queue'[i] = p
                      \/ \E v \in Workers : pc'[v] = "fetching" /\ page'[v] = p
    BY <1>1 DEF Unfetched
  <2>1. CASE \E v \in Workers : pc[v] = "fetching" /\ page[v] = p
    BY <1>1, <1>2, <2>1 DEF Threads
  <2>2. ASSUME NEW i \in 1 .. Len(queue), queue[i] = p
        PROVE  \/ \E j \in 1 .. Len(queue') : queue'[j] = p
               \/ \E v \in Workers : pc'[v] = "fetching" /\ page'[v] = p
    <3>1. CASE i = 1
      BY <1>1, <1>2, <1>3, <2>2, <3>1
    <3>2. CASE i # 1
      <4>1. i - 1 \in 1 .. Len(queue') /\ queue'[i - 1] = queue[i]
        BY <1>3, <3>2
      <4> QED BY <2>2, <4>1
    <3> QED BY <3>1, <3>2
  <2> QED BY <2>1, <2>2 DEF FollowInv, Unfetched
<1>6. Rested'
  BY <1>1, <1>2, CrawlAssumption DEF FollowInv, Rested, Threads
<1> QED BY <1>4, <1>5, <1>6

LEMMA FetchFollows ==
    ASSUME FollowInv, NEW w \in Workers, Fetch(w)
    PROVE  LinksKept' /\ Unfetched' /\ Rested'
<1>1. /\ TypeOK /\ w \in Threads /\ pc[w] = "fetching" /\ page[w] \in Pages
      /\ UNCHANGED <<source, size, page, visited, depth, queue>>
  BY DEF FollowInv, PageInv, Places, Fetch, Threads, call, crawl
<1>2. \A t \in Threads : pc'[t] = IF t = w THEN "links" ELSE pc[t]
  BY <1>1 DEF Fetch, TypeOK
<1>3. PICK o \in {"stored", "failed", "absent"} :
         /\ outcome' = [outcome EXCEPT ![page[w]] = o]
         /\ todo' = [todo EXCEPT ![w] = IF Follows(page[w], o) THEN Links[page[w]] ELSE {}]
  BY DEF Fetch
<1>4. /\ \A p \in Pages : outcome'[p] = IF p = page[w] THEN o ELSE outcome[p]
      /\ \A v \in Workers : todo'[v] = IF v # w THEN todo[v]
                                       ELSE IF Follows(page[w], o) THEN Links[page[w]] ELSE {}
  BY <1>1, <1>3 DEF TypeOK
<1>5. visited \subseteq Pages
  BY <1>1 DEF TypeOK
<1>6. LinksKept'
  <2> SUFFICES ASSUME NEW p \in visited, source = "website", outcome'[p] \in {"stored", "failed"},
                      depth[p] < MaxDepth, NEW l \in Links[p]
               PROVE  \/ l \in visited
                      \/ \E v \in Workers : /\ pc'[v] \in {"links", "register", "stuck"}
                                            /\ page[v] = p /\ l \in todo'[v]
    BY <1>1 DEF LinksKept
  <2>1. CASE p = page[w]
    <3>1. o # "absent" /\ Follows(page[w], o)
      BY <1>4, <1>5, <2>1 DEF Follows
    <3>2. pc'[w] = "links" /\ l \in todo'[w]
      BY <1>1, <1>2, <1>4, <2>1, <3>1
    <3> QED BY <2>1, <3>2
  <2>2. CASE p # page[w]
    <3>1. outcome[p] \in {"stored", "failed"}
      BY <1>4, <1>5, <2>2
    <3>2. CASE \E v \in Workers : /\ pc[v] \in {"links", "register", "stuck"}
                                  /\ page[v] = p /\ l \in todo[v]
      BY <1>2, <1>4, <2>2, <3>2 DEF Threads
    <3> QED BY <3>1, <3>2 DEF FollowInv, LinksKept
  <2> QED BY <2>1, <2>2
<1>7. Unfetched'
  <2> SUFFICES ASSUME source = "website", NEW p \in visited, outcome'[p] = "none"
               PROVE  \/ \E i \in 1 .. Len(queue) : queue[i] = p
                      \/ \E v \in Workers : pc'[v] = "fetching" /\ page[v] = p
    BY <1>1 DEF Unfetched
  <2>1. p # page[w] /\ outcome[p] = "none"
    BY <1>3, <1>4, <1>5
  <2>2. CASE \E v \in Workers : pc[v] = "fetching" /\ page[v] = p
    BY <1>2, <2>1, <2>2 DEF Threads
  <2> QED BY <2>1, <2>2 DEF FollowInv, Unfetched
<1>8. Rested'
  BY <1>1, <1>2, CrawlAssumption DEF FollowInv, Rested, Threads
<1> QED BY <1>6, <1>7, <1>8

\* A link is passed over only when it has been visited.
LEMMA PassesVisited ==
    ASSUME PageInv, NEW w \in Workers, Submit(w), Passes(w)
    PROVE  \A v \in Workers : /\ todo'[v] \subseteq todo[v]
                              /\ \A l \in todo[v] : l \notin visited => l \in todo'[v]
<1>1. TypeOK
  BY DEF PageInv
<1>2. PICK l \in todo[w] : /\ todo' = [todo EXCEPT ![w] = @ \ {l}]
                           /\ l \in visited \/ pc' = [pc EXCEPT ![w] = "register"]
  BY DEF Submit
<1>3. l \in visited
  BY <1>1, <1>2 DEF Passes, Submit, TypeOK, Threads
<1> QED BY <1>1, <1>2, <1>3 DEF TypeOK

LEMMA SubmitFollows ==
    ASSUME FollowInv, NEW w \in Workers, Submit(w)
    PROVE  LinksKept' /\ Unfetched' /\ Rested'
<1>1. /\ TypeOK /\ PageInv /\ w \in Threads /\ pc[w] = "links" /\ source = "website"
      /\ UNCHANGED <<source, size, page, outcome>>
  BY SubmitShape DEF FollowInv, Submit, call
<1>2. CASE Passes(w)
  <2>1. UNCHANGED <<pc, queue, visited, depth>>
    BY <1>2 DEF Passes
  <2>2. LinksKept'
    BY <1>1, <1>2, <2>1, PassesVisited DEF FollowInv, LinksKept
  <2>3. Unfetched' /\ Rested'
    BY <1>1, <2>1 DEF FollowInv, Unfetched, Rested
  <2> QED BY <2>2, <2>3
<1>3. ASSUME NEW l \in Pages, future[l] = "none", Submits(w, l)
      PROVE  LinksKept' /\ Unfetched' /\ Rested'
  <2>1. outcome[l] = "none" /\ visited' = visited \cup {l} /\ visited \subseteq Pages
    BY <1>1, <1>3 DEF PageInv, Books, Submits, TypeOK
  <2>2. /\ \A t \in Threads : pc'[t] = IF t = w THEN "register" ELSE pc[t]
        /\ \A v \in Workers : \A k \in todo[v] : k # l => k \in todo'[v]
        /\ \A p \in visited : depth'[p] = depth[p]
    BY <1>1, <1>3 DEF Submits, TypeOK
  <2>3. /\ Len(queue) \in Nat /\ Len(queue') = Len(queue) + 1
        /\ \A i \in 1 .. Len(queue) : queue'[i] = queue[i]
        /\ queue'[Len(queue) + 1] = l
    BY <1>1, <1>3, LenProperties, AppendProperties DEF Submits, TypeOK
  <2>4. LinksKept'
    <3> SUFFICES ASSUME NEW p \in visited', outcome[p] \in {"stored", "failed"},
                        depth'[p] < MaxDepth, NEW k \in Links[p], k \notin visited'
                 PROVE  \E v \in Workers : /\ pc'[v] \in {"links", "register", "stuck"}
                                           /\ page[v] = p /\ k \in todo'[v]
      BY <1>1 DEF LinksKept
    <3>1. p \in visited /\ depth[p] < MaxDepth /\ k \notin visited /\ k # l
      BY <2>1, <2>2
    <3>2. PICK v \in Workers : /\ pc[v] \in {"links", "register", "stuck"}
                               /\ page[v] = p /\ k \in todo[v]
      BY <1>1, <3>1 DEF FollowInv, LinksKept
    <3> QED BY <2>2, <3>1, <3>2 DEF Threads
  <2>5. Unfetched'
    <3> SUFFICES ASSUME NEW p \in visited', outcome[p] = "none"
                 PROVE  \/ \E i \in 1 .. Len(queue') : queue'[i] = p
                        \/ \E v \in Workers : pc'[v] = "fetching" /\ page[v] = p
      BY <1>1 DEF Unfetched
    <3>1. CASE p = l
      BY <2>3, <3>1
    <3>2. CASE \E i \in 1 .. Len(queue) : queue[i] = p
      BY <2>3, <3>2
    <3>3. CASE \E v \in Workers : pc[v] = "fetching" /\ page[v] = p
      BY <1>1, <2>2, <3>3 DEF Threads
    <3> QED BY <1>1, <2>1, <3>1, <3>2, <3>3 DEF FollowInv, Unfetched
  <2>6. Rested'
    BY <1>1, <2>2, CrawlAssumption DEF FollowInv, Rested, Threads
  <2> QED BY <2>4, <2>5, <2>6
<1> QED BY <1>1, <1>2, <1>3, SubmitShape

LEMMA FollowInit == Init => FollowInv
<1> SUFFICES ASSUME Init PROVE FollowInv
  OBVIOUS
<1> USE CrawlAssumption
<1>1. PageInv
  BY PageInit
<1>2. LinksKept
  BY DEF Init, LinksKept
<1>3. Unfetched
  <2> SUFFICES ASSUME source = "website", NEW p \in visited
               PROVE  \E i \in 1 .. Len(queue) : queue[i] = p
    BY DEF Unfetched
  <2>1. p = Base /\ queue = <<Base>>
    BY DEF Init
  <2> QED BY <2>1
<1>4. Rested
  BY DEF Init, Rested, Threads
<1> QED BY <1>1, <1>2, <1>3, <1>4 DEF FollowInv

LEMMA FollowNext == FollowInv /\ [Next]_vars => FollowInv'
<1> SUFFICES ASSUME FollowInv, [Next]_vars PROVE FollowInv'
  OBVIOUS
<1> USE CrawlAssumption
<1>1. PageInv' /\ PageInv /\ TypeOK
  BY PageNext DEF FollowInv, PageInv
<1>2. ASSUME NEW w \in Workers, RegisterChild(w) \/ Finish(w) \/ RemoveFuture(w)
      PROVE  LinksKept' /\ Unfetched' /\ Rested'
  <2>1. /\ w \in Threads /\ w # Caller /\ pc[w] \in {"register", "links", "remove"}
        /\ UNCHANGED <<source, size, visited, depth, outcome, page, todo, queue>>
        /\ \A t \in Threads \ {w} : pc'[t] = pc[t]
    BY <1>1, <1>2 DEF RegisterChild, Track, Finish, RemoveFuture, TypeOK, Threads, call, busy, crawl
  <2>2. \/ pc[w] = "register" /\ pc'[w] \in {"links", "stuck"}
        \/ pc[w] = "links" /\ todo[w] = {} /\ pc'[w] \in {"remove", "idle"}
        \/ pc[w] = "remove" /\ pc'[w] = "idle"
    BY <1>1, <1>2, <2>1 DEF RegisterChild, Track, Finish, RemoveFuture, TypeOK
  <2>3. \A v \in Workers : v # w => pc'[v] = pc[v]
    BY <2>1 DEF Threads
  <2>4. LinksKept' /\ Unfetched'
    BY <2>1, <2>2, <2>3, FollowKept
  <2>5. pc[Caller] # "returned" /\ pc'[Caller] = pc[Caller]
    BY <2>1 DEF FollowInv, Rested, Threads
  <2>6. Rested'
    BY <2>1, <2>3, <2>5 DEF FollowInv, Rested
  <2> QED BY <2>4, <2>6
<1>3. CASE Call \/ UNCHANGED vars
  <2>1. UNCHANGED <<source, size, visited, depth, outcome, page, todo, queue>>
    BY <1>3 DEF Call, RegisterBase, WaitEnds, Return, vars, call, busy, crawl
  <2>2. \A v \in Workers : pc'[v] = pc[v]
    BY <1>1, <1>3 DEF Call, RegisterBase, WaitEnds, Return, Track, vars, TypeOK, Threads
  <2>3. LinksKept' /\ Unfetched'
    BY <2>1, <2>2, FollowKept
  <2>4. pc'[Caller] = "returned" => \/ pc[Caller] = "returned"
                                    \/ queue = <<>> /\ \A w \in Workers : pc[w] = "idle"
    BY <1>1, <1>3 DEF Call, RegisterBase, Track, WaitEnds, Return, vars, TypeOK, Threads
  <2>5. \A w \in Workers : w \notin size' => pc'[w] = "idle"
    BY <2>1, <2>2 DEF FollowInv, Rested
  <2>6. pc'[Caller] = "returned" => queue' = <<>> /\ \A w \in Workers : pc'[w] = "idle"
    BY <2>1, <2>2, <2>4 DEF FollowInv, Rested
  <2>7. Rested'
    BY <2>5, <2>6 DEF Rested
  <2> QED BY <1>1, <2>3, <2>7 DEF FollowInv
<1>4. ASSUME NEW w \in Workers, Work(w) PROVE LinksKept' /\ Unfetched' /\ Rested'
  BY <1>2, <1>4, TakeFollows, FetchFollows, SubmitFollows DEF Work
<1> QED BY <1>1, <1>3, <1>4 DEF Next, FollowInv

LEMMA FollowCorrect == Spec => []FollowInv
BY FollowInit, FollowNext, PTL DEF Spec

\* The links of every page that was fetched above the limit have been visited when the
\* call returns, however the workers shared them (_process_url, _wait_for_completion).
LEMMA ClosedCorrect == Spec => []ClosedUnderLinks
<1>1. FollowInv => ClosedUnderLinks
  BY DEF FollowInv, LinksKept, Rested, ClosedUnderLinks
<1> QED BY <1>1, FollowCorrect, PTL

-----------------------------------------------------------------------------
\* With one worker the pages queued are as deep as the page at work, or one click
\* deeper, the nearer ones first, and no page that has been visited is deeper.
Alone == source = "website" /\ \E w \in Workers : size = {w}
Working(w) == pc[w] \in {"fetching", "links", "register", "stuck"}
Rising == \A i, j \in 1 .. Len(queue) : i <= j => depth[queue[i]] <= depth[queue[j]]
Below == \A q \in visited : \A i \in 1 .. Len(queue) : depth[q] <= depth[queue[i]] + 1
Front ==
    \A w \in Workers : Working(w) =>
        /\ \A i \in 1 .. Len(queue) : depth[page[w]] <= depth[queue[i]]
        /\ \A q \in visited : depth[q] <= depth[page[w]] + 1
Nearest ==
    \A p, l \in visited : l \in Links[p] /\ outcome[p] # "absent" => depth[l] <= depth[p] + 1
Waves == Rising /\ Below /\ Front /\ Nearest

\* All depths are numbers.
LEMMA Depths ==
    ASSUME TypeOK
    PROVE  /\ visited \subseteq Pages /\ MaxDepth \in Nat
           /\ \A p \in Pages : depth[p] \in Nat /\ depth[p] <= MaxDepth
BY CrawlAssumption DEF TypeOK

LEMMA TakeWaves ==
    ASSUME FollowInv, Alone, Waves, NEW w \in Workers, Take(w)
    PROVE  Waves'
<1>1. /\ TypeOK /\ w \in Threads /\ w \in size /\ queue # <<>>
      /\ UNCHANGED <<visited, depth, outcome>>
  BY DEF FollowInv, PageInv, Take, Threads, crawl
<1>2. /\ \A t \in Threads : pc'[t] = IF t = w THEN "fetching" ELSE pc[t]
      /\ \A v \in Workers : page'[v] = IF v = w THEN Head(queue) ELSE page[v]
  BY <1>1 DEF Take, TypeOK
<1>3. /\ Len(queue) \in Nat \ {0} /\ Head(queue) = queue[1] /\ Len(queue') = Len(queue) - 1
      /\ \A i \in 1 .. Len(queue') : queue'[i] = queue[i + 1] /\ i + 1 \in 1 .. Len(queue)
  BY <1>1, EmptySeq, HeadTailProperties DEF Take, TypeOK
<1>4. \A v \in Workers : v # w => pc'[v] = "idle"
  BY <1>1, <1>2 DEF FollowInv, Rested, Alone, Threads
<1>5. Rising' /\ Below'
  <2>1. ASSUME NEW i \in 1 .. Len(queue'), NEW j \in 1 .. Len(queue'), i <= j
        PROVE  depth'[queue'[i]] <= depth'[queue'[j]]
    <3>1. i + 1 \in 1 .. Len(queue) /\ j + 1 \in 1 .. Len(queue) /\ i + 1 <= j + 1
      BY <1>3, <2>1
    <3>2. queue'[i] = queue[i + 1] /\ queue'[j] = queue[j + 1]
      BY <1>3
    <3> QED BY <1>1, <3>1, <3>2 DEF Waves, Rising
  <2>2. Below'
    BY <1>1, <1>3 DEF Waves, Below
  <2> QED BY <2>1, <2>2 DEF Rising
<1>6. Front'
  <2> SUFFICES ASSUME NEW v \in Workers, Working(v)'
               PROVE  /\ \A i \in 1 .. Len(queue') : depth'[page'[v]] <= depth'[queue'[i]]
                      /\ \A q \in visited' : depth'[q] <= depth'[page'[v]] + 1
    BY DEF Front
  <2>1. v = w /\ page'[v] = queue[1] /\ 1 \in 1 .. Len(queue)
    BY <1>2, <1>3, <1>4 DEF Working
  <2>2. \A i \in 1 .. Len(queue') : depth[queue[1]] <= depth[queue'[i]]
    BY <1>3, <2>1 DEF Waves, Rising
  <2> QED BY <1>1, <2>1, <2>2 DEF Waves, Below
<1>7. Nearest'
  BY <1>1 DEF Waves, Nearest
<1> QED BY <1>5, <1>6, <1>7 DEF Waves

LEMMA FetchWaves ==
    ASSUME FollowInv, Alone, Waves, NEW w \in Workers, Fetch(w)
    PROVE  Waves'
<1>1. /\ TypeOK /\ w \in Threads /\ pc[w] = "fetching"
      /\ UNCHANGED <<page, visited, depth, queue>>
  BY DEF FollowInv, PageInv, Fetch, Threads, crawl
<1>2. /\ \A v \in Workers : Working(v)' => Working(v)
      /\ \A p \in Pages : p # page[w] => outcome'[p] = outcome[p]
  BY <1>1 DEF Fetch, TypeOK, Threads, Working
<1>3. Rising' /\ Below' /\ Front'
  BY <1>1, <1>2 DEF Waves, Rising, Below, Front
<1>4. \A l \in visited : depth[l] <= depth[page[w]] + 1
  BY <1>1 DEF Waves, Front, Working
<1>5. Nearest'
  BY <1>1, <1>2, <1>4, Depths DEF Waves, Nearest
<1> QED BY <1>3, <1>5 DEF Waves

\* The new page is one click from the page at work, and no nearer page leads to it: that
\* page would have been followed before, as nearer pages leave the queue earlier.
LEMMA SubmitWaves ==
    ASSUME FollowInv, Alone, Waves, NEW w \in Workers, Submit(w)
    PROVE  Waves'
<1>1. /\ TypeOK /\ PageInv /\ w \in Threads /\ pc[w] = "links" /\ source = "website"
      /\ UNCHANGED <<source, size, page, outcome>>
  BY SubmitShape DEF FollowInv, Submit, call
<1>2. CASE Passes(w)
  <2>1. UNCHANGED <<pc, queue, visited, depth>>
    BY <1>2 DEF Passes
  <2> QED BY <1>1, <2>1 DEF Waves, Rising, Below, Front, Nearest, Working
<1>3. ASSUME NEW l \in Pages, l \in Links[page[w]], future[l] = "none", Submits(w, l)
      PROVE  Waves'
  <2> DEFINE d == depth[page[w]]
  <2>1. /\ l \notin visited /\ visited' = visited \cup {l} /\ visited \subseteq Pages
        /\ page[w] \in Pages /\ page[w] \in visited /\ outcome[page[w]] # "none"
    BY <1>1, <1>3 DEF PageInv, Places, Books, Submits, TypeOK
  <2>2. /\ \A v \in Workers : Working(v)' => Working(v)
        /\ \A p \in Pages : depth'[p] = IF p = l THEN d + 1 ELSE depth[p]
    BY <1>1, <1>3 DEF Submits, TypeOK, Threads, Working
  <2>3. /\ Len(queue) \in Nat /\ Len(queue') = Len(queue) + 1
        /\ \A i \in 1 .. Len(queue) : queue'[i] = queue[i]
        /\ queue'[Len(queue) + 1] = l
        /\ \A i \in 1 .. Len(queue') : i \in 1 .. Len(queue) \/ i = Len(queue) + 1
    BY <1>1, <1>3, LenProperties, AppendProperties DEF Submits, TypeOK
  <2>4. \A i \in 1 .. Len(queue) : queue[i] \in Pages /\ queue[i] \in visited /\ queue[i] # l
    BY <1>1, <1>3 DEF PageInv, Books
  <2>5. /\ \A p \in Pages : depth[p] \in Nat /\ depth[p] <= MaxDepth
        /\ MaxDepth \in Nat /\ d \in Nat /\ d + 1 <= MaxDepth
    <3>1. todo[w] # {}
      BY DEF Submit
    <3>2. d + 1 \in 0 .. MaxDepth
      BY <1>1, <3>1 DEF PageInv, Places
    <3> QED BY <1>1, <2>1, <3>2, Depths
  <2>6. /\ \A i \in 1 .. Len(queue) : d <= depth[queue[i]]
        /\ \A q \in visited : depth[q] <= d + 1
    BY <1>1 DEF Waves, Front, Working
  <2>7. \A v \in Workers : v # w => pc[v] = "idle"
    BY <1>1 DEF FollowInv, Rested, Alone
  <2>8. Rising'
    <3> SUFFICES ASSUME NEW i \in 1 .. Len(queue'), NEW j \in 1 .. Len(queue'), i <= j
                 PROVE  depth'[queue'[i]] <= depth'[queue'[j]]
      BY DEF Rising
    <3>1. CASE j \in 1 .. Len(queue)
      <4>1. i \in 1 .. Len(queue)
        BY <2>3, <3>1
      <4> QED BY <2>2, <2>3, <2>4, <3>1, <4>1 DEF Waves, Rising
    <3>2. CASE j = Len(queue) + 1
      <4>1. depth'[queue'[j]] = d + 1
        BY <2>2, <2>3, <3>2
      <4>2. CASE i = j
        BY <2>5, <4>1, <4>2
      <4>3. CASE i \in 1 .. Len(queue)
        BY <2>2, <2>3, <2>4, <2>6, <4>1, <4>3
      <4> QED BY <2>3, <3>2, <4>2, <4>3
    <3> QED BY <2>3, <3>1, <3>2
  <2>9. Below'
    <3> SUFFICES ASSUME NEW q \in visited', NEW i \in 1 .. Len(queue')
                 PROVE  depth'[q] <= depth'[queue'[i]] + 1
      BY DEF Below
    <3>1. q \in Pages /\ depth'[q] <= d + 1 /\ depth'[q] \in Nat
      BY <2>1, <2>2, <2>5, <2>6
    <3>2. depth'[queue'[i]] \in Nat /\ depth'[queue'[i]] >= d
      BY <2>2, <2>3, <2>4, <2>5, <2>6
    <3> QED BY <2>5, <3>1, <3>2
  <2>10. Front'
    <3> SUFFICES ASSUME NEW v \in Workers, Working(v)'
                 PROVE  /\ \A i \in 1 .. Len(queue') : depth'[page'[v]] <= depth'[queue'[i]]
                        /\ \A q \in visited' : depth'[q] <= depth'[page'[v]] + 1
      BY DEF Front
    <3>1. v = w /\ page'[v] = page[w] /\ depth'[page'[v]] = d
      BY <1>1, <2>1, <2>2, <2>7 DEF Working
    <3>2. \A i \in 1 .. Len(queue') : d <= depth'[queue'[i]]
      BY <2>2, <2>3, <2>4, <2>5, <2>6
    <3>3. \A q \in visited' : depth'[q] <= d + 1
      BY <2>1, <2>2, <2>5, <2>6
    <3> QED BY <3>1, <3>2, <3>3
  <2>11. Nearest'
    <3> SUFFICES ASSUME NEW p \in visited', NEW k \in visited', k \in Links[p], outcome[p] # "absent"
                 PROVE  depth'[k] <= depth'[p] + 1
      BY <1>1 DEF Nearest
    <3>1. CASE p = l
      BY <2>1, <2>2, <2>5, <2>6, <3>1
    <3>2. CASE p # l /\ k # l
      BY <2>1, <2>2, <3>2 DEF Waves, Nearest
    <3>3. CASE p # l /\ k = l
      <4>1. p \in visited /\ p \in Pages /\ depth'[p] = depth[p] /\ depth'[k] = d + 1
        BY <2>1, <2>2, <3>3
      <4>2. CASE outcome[p] = "none"
        <5>1. PICK i \in 1 .. Len(queue) : queue[i] = p
          BY <1>1, <2>7, <4>1, <4>2 DEF FollowInv, Unfetched
        <5> QED BY <2>5, <2>6, <4>1, <5>1
      <4>3. CASE outcome[p] # "none"
        <5>1. outcome[p] \in {"stored", "failed"}
          BY <1>1, <4>1, <4>3 DEF TypeOK
        <5>2. CASE depth[p] < MaxDepth
          <6>1. PICK v \in Workers : pc[v] \in {"links", "register", "stuck"} /\ page[v] = p
            BY <1>1, <2>1, <3>3, <4>1, <5>1, <5>2 DEF FollowInv, LinksKept
          <6>2. p = page[w]
            BY <2>7, <6>1
          <6> QED BY <2>5, <4>1, <6>2
        <5>3. CASE ~ (depth[p] < MaxDepth)
          BY <2>5, <4>1, <5>3
        <5> QED BY <5>2, <5>3
      <4> QED BY <4>2, <4>3
    <3> QED BY <3>1, <3>2, <3>3
  <2> QED BY <2>8, <2>9, <2>10, <2>11 DEF Waves
<1> QED BY <1>1, <1>2, <1>3, SubmitShape

BreadthInv == FollowInv /\ (Alone => Waves)

LEMMA BreadthNext == BreadthInv /\ [Next]_vars => BreadthInv'
<1> SUFFICES ASSUME BreadthInv, [Next]_vars PROVE BreadthInv'
  OBVIOUS
<1>1. FollowInv' /\ FollowInv /\ PageInv /\ TypeOK
  BY FollowNext DEF BreadthInv, FollowInv, PageInv
<1>2. UNCHANGED <<source, size>>
  BY DEF Next, Work, Call, Take, Fetch, Submit, RegisterChild, Finish, RemoveFuture,
         RegisterBase, WaitEnds, Return, vars, call
<1>3. Alone' => Alone
  BY <1>2 DEF Alone
<1>4. ASSUME Alone, NEW w \in Workers, Work(w) PROVE Waves'
  <2>1. Waves
    BY <1>4 DEF BreadthInv
  <2>2. CASE RegisterChild(w) \/ Finish(w) \/ RemoveFuture(w)
    <3>1. UNCHANGED <<visited, depth, outcome, page, queue>>
      BY <2>2 DEF RegisterChild, Finish, RemoveFuture, busy, crawl
    <3>2. \A v \in Workers : Working(v)' => Working(v)
      BY <1>1, <2>2 DEF RegisterChild, Track, Finish, RemoveFuture, Working, TypeOK, Threads
    <3> QED BY <2>1, <3>1, <3>2 DEF Waves, Rising, Below, Front, Nearest
  <2> QED BY <1>1, <1>4, <2>1, <2>2, TakeWaves, FetchWaves, SubmitWaves DEF Work
<1>5. ASSUME Alone, Call \/ UNCHANGED vars PROVE Waves'
  <2>1. UNCHANGED <<visited, depth, outcome, page, queue>>
    BY <1>5 DEF Call, RegisterBase, WaitEnds, Return, vars, busy, crawl
  <2>2. \A v \in Workers : Working(v)' => Working(v)
    BY <1>1, <1>5, CrawlAssumption
      DEF Call, RegisterBase, WaitEnds, Return, Track, vars, Working, TypeOK, Threads
  <2> QED BY <1>5, <2>1, <2>2 DEF BreadthInv, Waves, Rising, Below, Front, Nearest
<1> QED BY <1>1, <1>3, <1>4, <1>5 DEF Next, BreadthInv

LEMMA BreadthInit == Init => BreadthInv
<1> SUFFICES ASSUME Init PROVE BreadthInv
  OBVIOUS
<1>1. FollowInv
  BY FollowInit
<1>2. ASSUME Alone PROVE Waves
  <2>1. /\ queue = <<Base>> /\ visited = {Base} /\ Base \in Pages
        /\ \A p \in Pages : depth[p] = 0
        /\ \A w \in Workers : pc[w] = "idle"
    BY <1>2, CrawlAssumption DEF Init, Alone, Threads
  <2>2. \A i \in 1 .. Len(queue) : queue[i] = Base
    BY <2>1
  <2> QED BY <2>1, <2>2 DEF Waves, Rising, Below, Front, Nearest, Working
<1> QED BY <1>1, <1>2 DEF BreadthInv

LEMMA BreadthCorrect == Spec => []BreadthFirst
<1>1. BreadthInv => BreadthFirst
  BY DEF BreadthInv, Alone, Waves, Nearest, BreadthFirst
<1> QED BY <1>1, BreadthInit, BreadthNext, PTL DEF Spec

\* For any site, depth and pool: when the call returns, a link that was not followed is one
\* of a page at the depth limit or of a page that was not there; and with one worker no
\* page is recorded deeper than its shortest way, so none is cut off too early
\* (_process_url, _mark_visited).
THEOREM ClosedAndBroad == Spec => []CrawlClosed
BY BreadthCorrect, ClosedCorrect, PTL DEF CrawlClosed

-----------------------------------------------------------------------------
\* The crawl starts at the base, and a page is marked when it is submitted.
Begun ==
    /\ source = "website" => Base \in visited /\ depth[Base] = 0
    /\ \A p \in visited : future[p] # "none"

LEMMA BegunNext == PageInv /\ Begun /\ [Next]_vars => Begun'
<1> SUFFICES ASSUME PageInv, Begun, [Next]_vars PROVE Begun'
  OBVIOUS
<1>1. UNCHANGED source /\ Base \in Pages /\ TypeOK
  BY CrawlAssumption DEF PageInv, Next, Work, Call, Take, Fetch, Submit, RegisterChild, Finish,
         RemoveFuture, RegisterBase, WaitEnds, Return, vars, call
<1>2. CASE UNCHANGED <<visited, depth, future>>
  BY <1>1, <1>2 DEF Begun
<1>3. CASE \E w \in Workers : Finish(w)
  <2>1. PICK w \in Workers : Finish(w)
    BY <1>3
  <2>2. UNCHANGED <<visited, depth>> /\ \A p \in Pages : future'[p] = future[p] \/ future'[p] = "done"
    BY <1>1, <2>1 DEF Finish, crawl, TypeOK
  <2> QED BY <1>1, <2>2 DEF Begun, TypeOK
<1>4. CASE \E w \in Workers : Submit(w) /\ ~ UNCHANGED <<visited, depth, future>>
  <2>1. PICK w \in Workers : Submit(w) /\ ~ UNCHANGED <<visited, depth, future>>
    BY <1>4
  <2>2. PICK l \in Pages : Submits(w, l)
    BY <2>1, SubmitShape DEF Passes
  <2>3. /\ visited' = visited \cup {l} /\ l \notin visited
        /\ \A p \in Pages : p # l => depth'[p] = depth[p] /\ future'[p] = future[p]
        /\ future'[l] = "submitted"
    BY <1>1, <2>2 DEF Submits, TypeOK
  <2> QED BY <1>1, <2>3 DEF Begun, TypeOK
<1> QED
  BY <1>2, <1>3, <1>4 DEF Next, Work, Call, Take, Fetch, RegisterChild, RemoveFuture,
         RegisterBase, WaitEnds, Return, vars, crawl

LEMMA BegunCorrect == Spec => []Begun
<1>1. Init => Begun
  BY CrawlAssumption DEF Init, Begun
<1> QED BY <1>1, BegunNext, PageCorrect, PTL DEF Spec

\* A visited page lies at the end of a path as long as its depth: one of least depth that
\* does not would have a nearer page before it that does.
LEMMA VisitedWithin ==
    ASSUME TypeOK, DepthIsALinkPath
    PROVE  visited \subseteq Within(MaxDepth)
<1> DEFINE Reached(p) == \E path \in [0 .. depth[p] -> Pages] : IsPath(path, depth[p], p)
           Bad == {p \in visited : ~ Reached(p)}
           Depth == {depth[p] : p \in Bad}
<1>1. /\ visited \subseteq Pages /\ MaxDepth \in Nat /\ Base \in Pages
      /\ \A p \in Pages : depth[p] \in Nat /\ depth[p] <= MaxDepth
  BY Depths, CrawlAssumption
<1>2. ASSUME Bad # {} PROVE FALSE
  <2>1. Depth \in SUBSET Nat /\ Depth # {}
    BY <1>1, <1>2
  <2>2. PICK x \in Depth : \A y \in Depth : x <= y
    BY <2>1, LeastNumber
  <2>3. PICK p \in Bad : depth[p] = x
    BY <2>2
  <2>4. \A q \in visited : depth[q] < depth[p] => Reached(q)
    <3> SUFFICES ASSUME NEW q \in visited, depth[q] < depth[p], q \in Bad PROVE FALSE
      OBVIOUS
    <3>1. depth[p] <= depth[q]
      BY <2>2, <2>3
    <3>2. depth[p] \in Nat /\ depth[q] \in Nat
      BY <1>1, <2>3
    <3> QED BY <3>1, <3>2
  <2>5. p \in visited /\ p \in Pages /\ ~ Reached(p)
    BY <1>1, <2>3
  <2>6. CASE p = Base /\ depth[p] = 0
    <3> DEFINE path == [i \in 0 .. 0 |-> Base]
    <3>1. path \in [0 .. 0 -> Pages] /\ IsPath(path, 0, Base)
      BY <1>1 DEF IsPath
    <3> QED BY <2>5, <2>6, <3>1
  <2>7. ASSUME NEW q \in visited, p \in Links[q], depth[p] = depth[q] + 1 PROVE FALSE
    <3> DEFINE n == depth[q]
    <3>1. n \in Nat /\ n < depth[p] /\ n + 1 = depth[p]
      BY <1>1, <2>7
    <3>2. PICK path \in [0 .. n -> Pages] : IsPath(path, n, q)
      BY <2>4, <3>1
    <3> HIDE DEF n
    <3> DEFINE longer == [i \in 0 .. n + 1 |-> IF i = n + 1 THEN p ELSE path[i]]
    <3>3. longer \in [0 .. n + 1 -> Pages]
      <4>1. \A i \in 0 .. n + 1 : i # n + 1 => i \in 0 .. n
        BY <3>1
      <4> QED BY <2>5, <4>1
    <3>4. longer[0] = Base /\ longer[n + 1] = p /\ longer[n] = q
      BY <3>1, <3>2 DEF IsPath
    <3>5. \A i \in 1 .. n + 1 : longer[i] \in Links[longer[i - 1]]
      <4> SUFFICES ASSUME NEW i \in 1 .. n + 1 PROVE longer[i] \in Links[longer[i - 1]]
        OBVIOUS
      <4>1. CASE i = n + 1
        <5>1. i - 1 = n
          BY <3>1, <4>1
        <5> HIDE DEF longer
        <5> QED BY <2>7, <3>4, <4>1, <5>1
      <4>2. CASE i # n + 1
        <5>1. i \in 1 .. n /\ i - 1 \in 0 .. n /\ i - 1 # n + 1 /\ i - 1 \in 0 .. n + 1
          BY <3>1, <4>2
        <5>2. longer[i] = path[i] /\ longer[i - 1] = path[i - 1]
          BY <4>2, <5>1
        <5> QED BY <3>2, <5>1, <5>2 DEF IsPath
      <4> QED BY <4>1, <4>2
    <3> HIDE DEF longer
    <3>6. IsPath(longer, n + 1, p)
      BY <3>4, <3>5 DEF IsPath
    <3> QED BY <2>5, <3>1, <3>3, <3>6
  <2> QED BY <2>5, <2>6, <2>7 DEF DepthIsALinkPath
<1>3. ASSUME NEW p \in visited PROVE p \in Within(MaxDepth)
  <2>1. Reached(p)
    BY <1>2
  <2>2. p \in Pages /\ depth[p] \in 0 .. MaxDepth
    BY <1>1
  <2> QED BY <2>1, <2>2 DEF Within
<1> QED BY <1>3

\* Along a path no longer than the limit every page has been visited, no deeper than its
\* place on the path: the first that was not would follow one whose links were followed.
LEMMA WithinVisited ==
    ASSUME TypeOK, Begun, WaitEndsComplete, ClosedUnderLinks, BreadthFirst,
           pc[Caller] = "returned", Alone, \A p \in visited : outcome[p] # "absent"
    PROVE  Within(MaxDepth) \subseteq visited
<1> SUFFICES ASSUME NEW k \in 0 .. MaxDepth, NEW path \in [0 .. k -> Pages],
                    NEW p \in Pages, IsPath(path, k, p)
             PROVE  p \in visited
  BY DEF Within
<1>1. /\ visited \subseteq Pages /\ MaxDepth \in Nat /\ Base \in Pages
      /\ \A q \in Pages : depth[q] \in Nat /\ depth[q] <= MaxDepth
  BY Depths, CrawlAssumption
<1>2. /\ source = "website" /\ Base \in visited /\ depth[Base] = 0
      /\ \E w \in Workers : size = {w}
  BY DEF Alone, Begun
<1>3. \A q \in visited : outcome[q] \in {"stored", "failed"}
  BY <1>1 DEF Begun, WaitEndsComplete, TypeOK
<1>4. \A q \in visited : depth[q] < MaxDepth =>
          \A l \in Links[q] : l \in visited /\ depth[l] <= depth[q] + 1
  BY <1>2, <1>3 DEF ClosedUnderLinks, BreadthFirst
<1> DEFINE Missed == {i \in 0 .. k : ~ (path[i] \in visited /\ depth[path[i]] <= i)}
<1>5. ASSUME Missed # {} PROVE FALSE
  <2>1. PICK j \in Missed : \A i \in Missed : j <= i
    <3>1. Missed \in SUBSET Nat
      OBVIOUS
    <3> HIDE DEF Missed
    <3> QED BY <1>5, <3>1, LeastNumber
  <2>2. j \in 0 .. k /\ ~ (path[j] \in visited /\ depth[path[j]] <= j)
    BY <2>1
  <2>3. j # 0
    BY <1>2, <2>2 DEF IsPath
  <2>4. j \in 1 .. k /\ j - 1 \in 0 .. k /\ ~ (j <= j - 1) /\ j - 1 < MaxDepth /\ j - 1 \in Nat
    BY <1>1, <2>2, <2>3
  <2>5. path[j - 1] \in visited /\ depth[path[j - 1]] <= j - 1
    BY <2>1, <2>4
  <2>6. path[j] \in Links[path[j - 1]] /\ depth[path[j - 1]] \in Nat
    BY <1>1, <2>4, <2>5 DEF IsPath
  <2>7. path[j] \in visited /\ depth[path[j]] <= depth[path[j - 1]] + 1
    <3>1. depth[path[j - 1]] < MaxDepth
      BY <1>1, <2>4, <2>5, <2>6
    <3> QED BY <1>4, <2>5, <2>6, <3>1
  <2>8. depth[path[j]] \in Nat
    BY <1>1, <2>7
  <2> QED BY <2>2, <2>4, <2>5, <2>6, <2>7, <2>8
<1> QED BY <1>5 DEF IsPath

\* For any site and depth limit: with one worker and every page there, the crawl has
\* visited when it returns exactly the pages within max_depth clicks of the base, through
\* links of pages that could not be stored as well (process_website).
THEOREM SiteCorrect == Spec => []SiteCovered
<1>1. TypeOK /\ DepthIsALinkPath /\ Begun /\ WaitEndsComplete /\ ClosedUnderLinks /\ BreadthFirst
        => SiteCovered
  BY VisitedWithin, WithinVisited DEF SiteCovered, Alone
<1> QED
  BY <1>1, TypeCorrect, DepthCorrect, BegunCorrect, WaitCorrect, ClosedCorrect, BreadthCorrect, PTL
=============================================================================
