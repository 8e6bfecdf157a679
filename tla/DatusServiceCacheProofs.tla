----------------------- MODULE DatusServiceCacheProofs -----------------------
(***************************************************************************)
(* Concurrent requests for a project share one creation, the cache serves  *)
(* no service that is shut down or shutting down, no service is lost, and  *)
(* only busy services keep the cache over its size: for any number of      *)
(* requests, projects, fingerprints and services and any cache size.       *)
(***************************************************************************)
EXTENDS DatusServiceCache, TLAPS, FiniteSetTheorems, FunctionTheorems, SequenceTheorems

-----------------------------------------------------------------------------
(* One creation.                                                           *)

\* The types OneCreation rests on, and that a request that waits for a creation
\* wants a project.
Base ==
    /\ entry \in [Projects -> Services \cup {None}]
    /\ futures \in [Projects -> Requests \cup {None}]
    /\ pc \in [Requests -> {"idle", "joined", "creating", "got", "running"}]
    /\ wants \in [Requests -> Projects \cup {None}]
    /\ made \in 0..MaxServices
    /\ \A r \in Requests : pc[r] \in {"joined", "creating"} => wants[r] \in Projects

CreationInv == Base /\ OneCreation

\* A request that finds nothing cached joins the creation or starts it.
LEMMA MissKeeps ==
    ASSUME CreationInv, NEW r \in Requests, NEW p \in Projects, pc[r] = "idle",
           JoinOrCreate(r, p), wants' = [wants EXCEPT ![r] = p],
           entry' \in [Projects -> Services \cup {None}],
           \A q \in Projects : entry'[q] \in {entry[q], None},
           entry'[p] = None, UNCHANGED made
    PROVE  CreationInv'
<1> USE CacheAssumption
<1>1. CASE futures[p] # None
  <2>1. pc' = [pc EXCEPT ![r] = "joined"] /\ futures' = futures
    BY <1>1 DEF JoinOrCreate
  <2>2. Base'
    BY <2>1 DEF CreationInv, Base
  <2>3. OneCreation'
    BY <1>1, <2>1 DEF CreationInv, Base, OneCreation
  <2> QED
    BY <2>2, <2>3 DEF CreationInv
<1>2. CASE futures[p] = None
  <2>1. pc' = [pc EXCEPT ![r] = "creating"] /\ futures' = [futures EXCEPT ![p] = r]
    BY <1>2 DEF JoinOrCreate
  <2>2. Base'
    BY <2>1 DEF CreationInv, Base
  <2>3. r # None
    BY DEF Base
  <2>4. OneCreation'
    BY <1>2, <2>1, <2>3 DEF CreationInv, Base, OneCreation
  <2> QED
    BY <2>2, <2>4 DEF CreationInv
<1> QED
  BY <1>1, <1>2

\* The requests of S are over; none of them waits for a creation.
LEMMA OverKeeps ==
    ASSUME CreationInv, NEW S \in SUBSET Requests, Over(S),
           \A q \in S : pc[q] \notin {"joined", "creating"},
           UNCHANGED <<entry, futures, made>>
    PROVE  CreationInv'
<1>1. Base'
  BY DEF CreationInv, Base, Over
<1>2. OneCreation'
  BY CacheAssumption DEF CreationInv, Base, OneCreation, Over
<1> QED
  BY <1>1, <1>2 DEF CreationInv

\* The factory returned or raised: the creation of wants[r] is settled for
\* everyone who shares it.
LEMMA SettledKeeps ==
    ASSUME CreationInv, NEW r \in Requests, pc[r] = "creating",
           futures' = [futures EXCEPT ![wants[r]] = None],
           Base',
           \A q \in Sharing(r) : pc'[q] \in {"got", "idle"},
           \A q \in Requests \ Sharing(r) : pc'[q] = pc[q] /\ wants'[q] = wants[q],
           \A p \in Projects : p # wants[r] => entry'[p] \in {entry[p], None}
    PROVE  CreationInv'
<1>1. wants[r] \in Projects /\ futures[wants[r]] = r
  BY DEF CreationInv, Base, OneCreation
<1>2. \A q \in Requests : pc[q] = "creating" /\ wants[q] = wants[r] => q = r
  BY <1>1 DEF CreationInv, OneCreation
<1>3. \A q \in Requests : pc'[q] \in {"creating", "joined"} =>
          q \notin Sharing(r) /\ pc[q] = pc'[q] /\ wants'[q] = wants[q] /\ wants[q] # wants[r]
  BY <1>2 DEF Sharing
<1>4. OneCreation'
  <2>1. ASSUME NEW p \in Projects, futures'[p] # None
        PROVE  pc'[futures'[p]] = "creating" /\ wants'[futures'[p]] = p /\ entry'[p] = None
    <3>1. p # wants[r] /\ futures'[p] = futures[p]
      BY <1>1, <2>1 DEF CreationInv, Base
    <3>2. pc[futures[p]] = "creating" /\ wants[futures[p]] = p /\ entry[p] = None
      BY <2>1, <3>1 DEF CreationInv, OneCreation
    <3>3. futures[p] \in Requests
      BY <2>1, <3>1 DEF CreationInv, Base
    <3>4. futures[p] \notin Sharing(r)
      BY <3>1, <3>2 DEF Sharing
    <3> QED
      BY <3>1, <3>2, <3>3, <3>4
  <2>2. ASSUME NEW q \in Requests
        PROVE  /\ pc'[q] = "creating" => futures'[wants'[q]] = q
               /\ pc'[q] = "joined" => futures'[wants'[q]] # None
    BY <1>1, <1>3 DEF CreationInv, Base, OneCreation
  <2> QED
    BY <2>1, <2>2 DEF OneCreation
<1> QED
  BY <1>4 DEF CreationInv

LEMMA CreationStep == CreationInv /\ [Next]_vars => CreationInv'
<1> SUFFICES ASSUME CreationInv, [Next]_vars PROVE CreationInv'
  OBVIOUS
<1> USE CacheAssumption
<1>1. ASSUME NEW r \in Requests, NEW p \in Projects, NEW f \in Prints \cup {None}, Hit(r, p, f)
      PROVE  CreationInv'
  <2>1. /\ pc[r] = "idle" /\ pc' = [pc EXCEPT ![r] = "got"]
        /\ wants' = [wants EXCEPT ![r] = p] /\ UNCHANGED <<entry, futures, made>>
    BY <1>1 DEF Hit, Ask, service
  <2> QED
    BY <2>1 DEF CreationInv, Base, OneCreation
<1>2. ASSUME NEW r \in Requests, NEW p \in Projects, NEW f \in Prints \cup {None}, Miss(r, p, f)
      PROVE  CreationInv'
  BY <1>2, MissKeeps DEF Miss, CreationInv, Base, service
<1>3. ASSUME NEW r \in Requests, NEW p \in Projects, NEW f \in Prints \cup {None}, Replace(r, p, f)
      PROVE  CreationInv'
  <2>1. /\ pc[r] = "idle" /\ entry' = [entry EXCEPT ![p] = None] /\ UNCHANGED made
        /\ JoinOrCreate(r, p) /\ wants' = [wants EXCEPT ![r] = p]
    BY <1>3 DEF Replace, Popped
  <2>2. entry' \in [Projects -> Services \cup {None}]
    BY <2>1 DEF CreationInv, Base
  <2>3. entry'[p] = None /\ \A q \in Projects : entry'[q] \in {entry[q], None}
    BY <2>1 DEF CreationInv, Base
  <2> QED
    BY <2>1, <2>2, <2>3, MissKeeps
<1>4. ASSUME NEW r \in Requests, NEW c \in Prints, Created(r, c)
      PROVE  CreationInv'
  <2> DEFINE s == made + 1
             out == Excess(Touched(wants[r]))
  <2>1. /\ pc[r] = "creating" /\ made < MaxServices /\ made' = s
        /\ entry' = [x \in Projects |->
               IF x = wants[r] THEN s ELSE IF x \in out THEN None ELSE entry[x]]
        /\ futures' = [futures EXCEPT ![wants[r]] = None]
        /\ pc' = [q \in Requests |-> IF q \in Sharing(r) THEN "got" ELSE pc[q]]
        /\ wants' = wants
    BY <1>4 DEF Created
  <2> HIDE DEF out
  <2>2. wants[r] \in Projects
    BY <2>1 DEF CreationInv, Base
  <2>3. s \in Services /\ made' \in 0..MaxServices
    BY <2>1 DEF CreationInv, Base, Services
  <2> HIDE DEF s
  <2>4. Base'
    BY <2>1, <2>2, <2>3 DEF CreationInv, Base
  <2>5. Sharing(r) \subseteq Requests
    BY DEF Sharing
  <2> QED
    BY <2>1, <2>4, <2>5, SettledKeeps DEF CreationInv, Base
<1>5. ASSUME NEW r \in Requests, CreationFails(r)
      PROVE  CreationInv'
  <2>1. /\ pc[r] = "creating" /\ futures' = [futures EXCEPT ![wants[r]] = None]
        /\ Over(Sharing(r)) /\ UNCHANGED <<entry, made>>
    BY <1>5 DEF CreationFails, service
  <2>2. Base'
    BY <2>1 DEF CreationInv, Base, Over
  <2>3. Sharing(r) \subseteq Requests
    BY DEF Sharing
  <2>4. /\ \A q \in Sharing(r) : pc'[q] \in {"got", "idle"}
        /\ \A q \in Requests \ Sharing(r) : pc'[q] = pc[q] /\ wants'[q] = wants[q]
    BY <2>1, <2>3 DEF Over
  <2> QED
    BY <2>1, <2>2, <2>4, SettledKeeps DEF CreationInv, Base
<1>6. ASSUME NEW r \in Requests, StartRun(r)
      PROVE  CreationInv'
  <2>1. /\ pc[r] = "got" /\ pc' = [pc EXCEPT ![r] = "running"]
        /\ UNCHANGED <<wants, entry, futures, made>>
    BY <1>6 DEF StartRun, cache, service
  <2> QED
    BY <2>1 DEF CreationInv, Base, OneCreation
<1>7. ASSUME NEW r \in Requests, Leave(r) \/ RunEnds(r)
      PROVE  CreationInv'
  BY <1>7, OverKeeps DEF Leave, RunEnds, cache, service
<1>8. ASSUME NEW p \in Projects, Evict(p)
      PROVE  CreationInv'
  BY <1>8 DEF Evict, Popped, CreationInv, Base, OneCreation
<1>9. CASE ExitDrained
  BY <1>9 DEF ExitDrained, service, request, CreationInv, Base, OneCreation
<1>10. CASE UNCHANGED <<entry, futures, made, pc, wants>>
  BY <1>10 DEF CreationInv, Base, OneCreation
<1>11. ASSUME NEW s \in Services, DeferredStarts(s) \/ BackgroundShutdown(s) \/ Closes(s)
       PROVE  UNCHANGED <<entry, futures, made, pc, wants>>
  BY <1>11 DEF DeferredStarts, BackgroundShutdown, Closes, cache, request
<1>12. ExitBegins \/ ExitShutsNext \/ ExitGoesOn \/ ExitEnds \/ Out \/ UNCHANGED vars =>
           UNCHANGED <<entry, futures, made, pc, wants>>
  BY DEF ExitBegins, ExitShutsNext, ExitGoesOn, ExitEnds, Out, vars, cache, service, request
<1> QED
  BY <1>1, <1>2, <1>3, <1>4, <1>5, <1>6, <1>7, <1>8, <1>9, <1>10, <1>11, <1>12 DEF Next

\* A project is cached, or being created by the one request its future belongs
\* to, or neither, and whoever waits for a creation waits for one that is under
\* way: no stampede, and nobody left behind by get_or_create.
THEOREM CreationShared == Spec => []OneCreation
<1>1. Init => CreationInv
  BY CacheAssumption DEF Init, CreationInv, Base, OneCreation
<1>2. CreationInv => OneCreation
  BY DEF CreationInv
<1> QED
  BY <1>1, <1>2, CreationStep, PTL DEF Spec

-----------------------------------------------------------------------------
(* Live services.                                                          *)

\* What is cached was created; once the exit has emptied the cache nothing fills
\* it again, because no request is in progress any more.
LiveInv ==
    /\ CreationInv
    /\ state \in [Services -> States]
    /\ CacheServesLive
    /\ \A p \in Projects : entry[p] # None => entry[p] \in 1..made
    /\ exit \in {"closing", "out"} => \A p \in Projects : entry[p] = None
    /\ exit # "no" => \A r \in Requests : pc[r] \in {"idle", "running"}

\* What a step may do to the cache and to the services for LiveInv to last: the
\* cache loses keys, and no service that stays cached changes its state.
LEMMA ShrinkKeepsLive ==
    ASSUME LiveInv, CreationInv', state' \in [Services -> States], UNCHANGED made,
           \A p \in Projects : entry'[p] \in {entry[p], None},
           \A p \in Projects : entry'[p] # None => state'[entry[p]] = state[entry[p]]
    PROVE  /\ CacheServesLive'
           /\ \A p \in Projects : entry'[p] # None => entry'[p] \in 1..made'
BY DEF LiveInv, CacheServesLive

\* A shutdown changes the state of its service only, and not to "live".
LEMMA ShutDownTypes ==
    ASSUME state \in [Services -> States], NEW s \in Services, ShutDown(s)
    PROVE  /\ state' \in [Services -> States]
           /\ \A q \in Services : q # s => state'[q] = state[q]
BY DEF ShutDown, States, Background

LEMMA LiveStep == LiveInv /\ [Next]_vars => LiveInv'
<1> SUFFICES ASSUME LiveInv, [Next]_vars PROVE LiveInv'
  OBVIOUS
<1> USE CacheAssumption
<1>0. CreationInv /\ CreationInv'
  BY CreationStep DEF LiveInv
<1>a. \A p \in Projects : entry[p] # None => entry[p] \in Services
  BY <1>0 DEF CreationInv, Base
<1>b. /\ state \in [Services -> States]
      /\ \A p, q \in Projects : entry[p] = entry[q] /\ entry[p] # None => p = q
      /\ \A p \in Projects : entry[p] # None => state[entry[p]] = "live"
  BY DEF LiveInv, CacheServesLive
<1>1. ASSUME NEW r \in Requests, NEW p \in Projects, NEW f \in Prints \cup {None},
             Hit(r, p, f) \/ Miss(r, p, f)
      PROVE  LiveInv'
  <2>1. exit = "no" /\ UNCHANGED <<entry, state, made, exit>>
    BY <1>1 DEF Hit, Miss, Ask, service, leaving
  <2> QED
    BY <1>0, <2>1 DEF LiveInv, CacheServesLive
<1>2. ASSUME NEW r \in Requests, NEW p \in Projects, NEW f \in Prints \cup {None}, Replace(r, p, f)
      PROVE  LiveInv'
  <2>1. /\ exit = "no" /\ exit' = "no" /\ UNCHANGED made /\ entry[p] # None
        /\ entry' = [entry EXCEPT ![p] = None] /\ ShutDown(entry[p])
    BY <1>2 DEF Replace, Popped, leaving
  <2>2. \A q \in Projects : entry'[q] \in {entry[q], None} /\ (entry'[q] # None => q # p)
    BY <2>1, <1>0 DEF CreationInv, Base
  <2>3. /\ state' \in [Services -> States]
        /\ \A q \in Services : q # entry[p] => state'[q] = state[q]
    BY <2>1, <1>a, <1>b, ShutDownTypes
  <2>4. \A q \in Projects : entry'[q] # None => state'[entry[q]] = state[entry[q]]
    BY <2>1, <2>2, <2>3, <1>a, <1>b
  <2> QED
    BY <1>0, <2>1, <2>2, <2>3, <2>4, ShrinkKeepsLive DEF LiveInv
<1>3. ASSUME NEW r \in Requests, NEW c \in Prints, Created(r, c)
      PROVE  LiveInv'
  <2> DEFINE s == made + 1
             out == Excess(Touched(wants[r]))
  <2>1. /\ pc[r] = "creating" /\ made < MaxServices /\ made' = s
        /\ entry' = [x \in Projects |->
               IF x = wants[r] THEN s ELSE IF x \in out THEN None ELSE entry[x]]
        /\ state' = [q \in Services |->
               IF q = s THEN "live"
               ELSE IF \E x \in out : entry[x] = q THEN "doomed" ELSE state[q]]
        /\ exit' = exit
    BY <1>3 DEF Created, leaving
  <2> HIDE DEF out
  <2>2. wants[r] \in Projects /\ made \in 0..MaxServices
    BY <2>1, <1>0 DEF CreationInv, Base
  <2>3. exit = "no"
    BY <2>1 DEF LiveInv
  <2>4. s \in Services /\ s # None /\ \A p \in Projects : entry[p] # None => entry[p] # s
    BY <2>1, <2>2 DEF Services, LiveInv
  <2>5. state' \in [Services -> States]
    BY <2>1, <1>b DEF States, Background
  <2>6. \A p \in Projects : entry'[p] # None => entry'[p] \in 1..made'
    BY <2>1, <2>2 DEF LiveInv
  <2> HIDE DEF s
  <2>7. ASSUME NEW p \in Projects, NEW q \in Projects, entry'[p] = entry'[q], entry'[p] # None
        PROVE  p = q
    BY <2>1, <2>4, <2>7, <1>b
  <2>8. ASSUME NEW p \in Projects, entry'[p] # None
        PROVE  state'[entry'[p]] = "live"
    <3>1. CASE p = wants[r]
      BY <2>1, <2>4, <3>1
    <3>2. CASE p # wants[r]
      <4>1. entry'[p] = entry[p] /\ p \notin out /\ entry[p] # None
        BY <2>1, <2>8, <3>2
      <4>2. out \subseteq Projects
        BY DEF out, Excess
      <4>3. ~ \E x \in out : entry[x] = entry[p]
        BY <4>1, <4>2, <1>b
      <4> QED
        BY <2>1, <2>4, <4>1, <4>3, <1>a, <1>b
    <3> QED
      BY <3>1, <3>2
  <2> QED
    BY <1>0, <2>1, <2>3, <2>5, <2>6, <2>7, <2>8 DEF LiveInv, CacheServesLive
<1>4. ASSUME NEW r \in Requests, CreationFails(r) \/ StartRun(r) \/ Leave(r) \/ RunEnds(r)
      PROVE  LiveInv'
  <2>1. UNCHANGED <<entry, state, made, exit>>
    BY <1>4 DEF CreationFails, StartRun, Leave, RunEnds, cache, service, leaving
  <2>2. exit # "no" => \A q \in Requests : pc'[q] \in {"idle", "running"}
    BY <1>4, <1>0 DEF CreationFails, StartRun, Leave, RunEnds, Over, LiveInv, CreationInv, Base
  <2> QED
    BY <1>0, <2>1, <2>2 DEF LiveInv, CacheServesLive
<1>5. ASSUME NEW p \in Projects, Evict(p)
      PROVE  LiveInv'
  <2>1. /\ exit = "no" /\ exit' = "no" /\ UNCHANGED made /\ entry[p] # None
        /\ entry' = [entry EXCEPT ![p] = None]
        /\ state' = [state EXCEPT ![entry[p]] = "deferred"] \/ ShutDown(entry[p])
    BY <1>5 DEF Evict, Popped, leaving
  <2>2. \A q \in Projects : entry'[q] \in {entry[q], None} /\ (entry'[q] # None => q # p)
    BY <2>1, <1>0 DEF CreationInv, Base
  <2>3. /\ state' \in [Services -> States]
        /\ \A q \in Services : q # entry[p] => state'[q] = state[q]
    BY <2>1, <1>a, <1>b, ShutDownTypes DEF States, Background
  <2>4. \A q \in Projects : entry'[q] # None => state'[entry[q]] = state[entry[q]]
    BY <2>1, <2>2, <2>3, <1>a, <1>b
  <2> QED
    BY <1>0, <2>1, <2>2, <2>3, <2>4, ShrinkKeepsLive DEF LiveInv
<1>6. ASSUME NEW s \in Services, DeferredStarts(s) \/ BackgroundShutdown(s) \/ Closes(s)
      PROVE  LiveInv'
  <2>1. state[s] # "live" /\ UNCHANGED <<entry, made, exit, pc>>
    BY <1>6 DEF DeferredStarts, BackgroundShutdown, Closes, cache, request, leaving
  <2>2. /\ state' \in [Services -> States]
        /\ \A q \in Services : q # s => state'[q] = state[q]
    BY <1>6, <1>b, ShutDownTypes DEF DeferredStarts, BackgroundShutdown, Closes, States, Background
  <2>3. \A q \in Projects : entry'[q] # None => state'[entry[q]] = state[entry[q]]
    BY <2>1, <2>2, <1>a, <1>b
  <2> QED
    BY <1>0, <2>1, <2>2, <2>3, ShrinkKeepsLive DEF LiveInv
<1>7. CASE ExitBegins \/ ExitGoesOn \/ ExitEnds
  <2>1. UNCHANGED <<entry, state, made, pc>>
    BY <1>7 DEF ExitBegins, ExitGoesOn, ExitEnds, cache, service, request
  <2>2. /\ exit' \in {"closing", "out"} => \A p \in Projects : entry[p] = None
        /\ \A r \in Requests : pc[r] \in {"idle", "running"}
    BY <1>7 DEF ExitBegins, ExitGoesOn, ExitEnds, LiveInv
  <2> QED
    BY <1>0, <2>1, <2>2 DEF LiveInv, CacheServesLive
<1>8. CASE ExitDrained
  <2>1. /\ exit = "draining" /\ UNCHANGED <<state, made, pc>>
        /\ entry' = [p \in Projects |-> None]
    BY <1>8 DEF ExitDrained, service, request
  <2> QED
    BY <1>0, <2>1 DEF LiveInv, CacheServesLive
<1>9. CASE ExitShutsNext
  <2>1. exit = "closing" /\ ShutDown(Head(lastly)) /\ UNCHANGED <<entry, made, exit, pc>>
    BY <1>9 DEF ExitShutsNext, cache, leaving
  <2>2. state' \in [Services -> States]
    BY <2>1, <1>b DEF ShutDown, States, Background
  <2> QED
    BY <1>0, <2>1, <2>2 DEF LiveInv, CacheServesLive
<1>10. CASE Out \/ UNCHANGED vars
  BY <1>0, <1>10 DEF Out, vars, cache, service, request, leaving, LiveInv, CacheServesLive
<1> QED
  BY <1>1, <1>2, <1>3, <1>4, <1>5, <1>6, <1>7, <1>8, <1>9, <1>10 DEF Next

\* get_or_create never hands out a service whose shutdown has begun, and a service
\* is cached under one key.
THEOREM ServesLive == Spec => []CacheServesLive
<1>1. Init => LiveInv
  BY CacheAssumption DEF Init, LiveInv, CreationInv, Base, OneCreation, CacheServesLive, States
<1>2. LiveInv => CacheServesLive
  BY DEF LiveInv
<1> QED
  BY <1>1, <1>2, LiveStep, PTL DEF Spec
-----------------------------------------------------------------------------
(* Sequences of keys.                                                      *)

\* The n-th least of the c numbers of a set: it is one of them, it grows with n, and
\* every one of them is the n-th for some n.
LEMMA NthProperties ==
    ASSUME NEW m \in Nat, NEW K \in SUBSET (1..m)
    PROVE  /\ IsFiniteSet(K) /\ Cardinality(K) \in Nat
           /\ \A n \in 1..Cardinality(K) :
                  Nth(K, n) \in K /\ Cardinality({k \in K : k <= Nth(K, n)}) = n
           /\ \A i \in K : /\ Cardinality({k \in K : k <= i}) \in 1..Cardinality(K)
                           /\ Nth(K, Cardinality({k \in K : k <= i})) = i
           /\ \A a, b \in 1..Cardinality(K) : a < b => Nth(K, a) < Nth(K, b)
<1> DEFINE rank(i) == Cardinality({k \in K : k <= i})
<1>0. \A i \in K : i \in Int
  OBVIOUS
<1>1. IsFiniteSet(K) /\ Cardinality(K) \in Nat
  <2>1. IsFiniteSet(1..m)
    BY FS_Interval
  <2> QED BY <2>1, FS_Subset, FS_CardinalityType
<1>2. \A i \in K : rank(i) \in 1..Cardinality(K)
  <2> TAKE i \in K
  <2>1. {k \in K : k <= i} \in SUBSET K /\ i \in {k \in K : k <= i}
    OBVIOUS
  <2>2. /\ IsFiniteSet({k \in K : k <= i}) /\ rank(i) <= Cardinality(K)
        /\ rank(i) \in Nat
    BY <1>1, <2>1, FS_Subset, FS_CardinalityType
  <2>3. rank(i) # 0
    BY <2>1, <2>2, FS_EmptySet
  <2> QED BY <1>1, <2>2, <2>3
<1>3. \A i, j \in K : i < j => rank(i) < rank(j)
  <2> SUFFICES ASSUME NEW i \in K, NEW j \in K, i < j PROVE rank(i) < rank(j)
    OBVIOUS
  <2>1. {k \in K : k <= i} \in SUBSET {k \in K : k <= j}
    <3>1. ASSUME NEW k \in K, k <= i PROVE k <= j
      <4>1. k \in Int /\ i \in Int /\ j \in Int
        BY <1>0
      <4> QED BY <3>1, <4>1
    <3> QED BY <3>1
  <2>2. IsFiniteSet({k \in K : k <= j})
    BY <1>1, FS_Subset
  <2>3. rank(i) <= rank(j) /\ (rank(j) = rank(i) => {k \in K : k <= j} = {k \in K : k <= i})
    BY <2>1, <2>2, FS_Subset
  <2>4. j \in {k \in K : k <= j} /\ j \notin {k \in K : k <= i}
    OBVIOUS
  <2>5. rank(i) \in Nat /\ rank(j) \in Nat
    BY <1>2
  <2> QED BY <2>3, <2>4, <2>5
<1>4. \A i, j \in K : rank(i) = rank(j) => i = j
  <2> SUFFICES ASSUME NEW i \in K, NEW j \in K, rank(i) = rank(j), i # j PROVE FALSE
    OBVIOUS
  <2>1. i < j \/ j < i
    OBVIOUS
  <2>2. rank(i) \in Nat /\ rank(j) \in Nat
    BY <1>2
  <2> QED BY <1>3, <2>1, <2>2
<1>5. \A n \in 1..Cardinality(K) : \E i \in K : rank(i) = n
  <2> DEFINE f == [i \in K |-> rank(i)]
             N == 1..Cardinality(K)
  <2> HIDE DEF rank
  <2>1. f \in Injection(K, N)
    BY <1>2, <1>4 DEF Injection, IsInjective
  <2>2. IsFiniteSet(N) /\ Cardinality(N) = Cardinality(K)
    BY <1>1, FS_Interval
  <2>3. f \in Surjection(K, N)
    BY <1>1, <2>1, <2>2, FS_Injection
  <2> QED BY <2>3 DEF Surjection
<1> HIDE DEF rank
<1>6. \A n \in 1..Cardinality(K) : Nth(K, n) \in K /\ rank(Nth(K, n)) = n
  BY <1>5 DEF Nth, rank
<1>7. \A i \in K : Nth(K, rank(i)) = i
  BY <1>2, <1>4, <1>6
<1>8. \A a, b \in 1..Cardinality(K) : a < b => Nth(K, a) < Nth(K, b)
  <2> SUFFICES ASSUME NEW a \in 1..Cardinality(K), NEW b \in 1..Cardinality(K), a < b,
                      ~ Nth(K, a) < Nth(K, b)
               PROVE  FALSE
    OBVIOUS
  <2>1. Nth(K, b) < Nth(K, a) \/ Nth(K, b) = Nth(K, a)
    <3>1. Nth(K, a) \in Int /\ Nth(K, b) \in Int
      BY <1>0, <1>6
    <3> QED BY <3>1
  <2>2. b < a \/ b = a
    BY <1>3, <1>6, <2>1
  <2> QED BY <2>2
<1> QED BY <1>1, <1>2, <1>6, <1>7, <1>8 DEF rank

Keys(s)     == {s[i] : i \in DOMAIN s}
Distinct(s) == \A i, j \in DOMAIN s : s[i] = s[j] => i = j

\* Left takes the keys of out away, keeps the order of the others and their last one.
LEMMA LeftProperties ==
    ASSUME NEW S, NEW keys \in Seq(S), NEW out
    PROVE  /\ Left(keys, out) \in Seq(S)
           /\ Len(Left(keys, out)) = Cardinality({i \in DOMAIN keys : keys[i] \notin out})
           /\ Keys(Left(keys, out)) = Keys(keys) \ out
           /\ Distinct(keys) => Distinct(Left(keys, out))
           /\ keys # <<>> /\ keys[Len(keys)] \notin out =>
                  /\ Left(keys, out) # <<>>
                  /\ Left(keys, out)[Len(Left(keys, out))] = keys[Len(keys)]
<1> DEFINE K == {i \in DOMAIN keys : keys[i] \notin out}
           c == Cardinality(K)
           L == Left(keys, out)
<1>1. Len(keys) \in Nat /\ DOMAIN keys = 1..Len(keys) /\ K \in SUBSET (1..Len(keys))
  BY LenProperties
<1>2. L = [n \in 1..c |-> keys[Nth(K, n)]]
  BY DEF Left
<1> HIDE DEF L
<1>3. /\ IsFiniteSet(K) /\ c \in Nat
      /\ \A n \in 1..c : Nth(K, n) \in K
      /\ \A i \in K : Cardinality({k \in K : k <= i}) \in 1..c
      /\ \A i \in K : Nth(K, Cardinality({k \in K : k <= i})) = i
      /\ \A a, b \in 1..c : a < b => Nth(K, a) < Nth(K, b)
  BY <1>1, NthProperties
<1>4. \A i \in K : i \in DOMAIN keys /\ keys[i] \in S /\ keys[i] \notin out
  BY <1>1, ElementOfSeq
<1>5. \A i \in DOMAIN keys : keys[i] \notin out => i \in K
  OBVIOUS
<1> HIDE DEF K
<1> HIDE DEF c
<1>6. L \in [1..c -> S]
  BY <1>2, <1>3, <1>4
<1>7. L \in Seq(S) /\ Len(L) = c /\ DOMAIN L = 1..c
  <2>1. L \in Seq(S)
    BY <1>3, <1>6, IsASeq
  <2>2. DOMAIN L = 1..c
    BY <1>6
  <2> QED BY <2>1, <2>2, <1>3, LenProperties
<1>8. \A i \in K : \E n \in 1..c : L[n] = keys[i] /\ Nth(K, n) = i
  BY <1>2, <1>3
<1>9. Keys(L) = Keys(keys) \ out
  <2>1. ASSUME NEW x \in Keys(L) PROVE x \in Keys(keys) \ out
    <3>1. PICK n \in 1..c : x = L[n]
      BY <1>7, <2>1 DEF Keys
    <3>2. x = keys[Nth(K, n)] /\ Nth(K, n) \in K
      BY <1>2, <1>3, <3>1
    <3> QED BY <1>4, <3>2 DEF Keys
  <2>2. ASSUME NEW x \in Keys(keys) \ out PROVE x \in Keys(L)
    <3>1. PICK i \in K : x = keys[i]
      BY <1>5, <2>2 DEF Keys
    <3> QED BY <1>7, <1>8, <3>1 DEF Keys
  <2> QED BY <2>1, <2>2
<1>10. ASSUME Distinct(keys) PROVE Distinct(L)
  <2> SUFFICES ASSUME NEW a \in 1..c, NEW b \in 1..c, L[a] = L[b], a # b PROVE FALSE
    BY <1>7 DEF Distinct
  <2>1. Nth(K, a) = Nth(K, b)
    BY <1>2, <1>3, <1>4, <1>10 DEF Distinct
  <2>2. Nth(K, a) \in 1..Len(keys) /\ Nth(K, b) \in 1..Len(keys)
    BY <1>1, <1>3, <1>4
  <2>3. a < b \/ b < a
    BY <1>3
  <2> QED BY <1>1, <1>3, <2>1, <2>2, <2>3
<1>11. ASSUME keys # <<>>, keys[Len(keys)] \notin out
       PROVE  L # <<>> /\ L[Len(L)] = keys[Len(keys)]
  <2>1. Len(keys) \in K
    BY <1>1, <1>5, <1>11, EmptySeq
  <2>2. PICK n \in 1..c : L[n] = keys[Len(keys)] /\ Nth(K, n) = Len(keys)
    BY <1>8, <2>1
  <2>3. c \in 1..c /\ n <= c
    BY <1>3
  <2>4. Nth(K, c) \in 1..Len(keys)
    BY <1>1, <1>3, <1>4, <2>3
  <2>5. ~ n < c
    BY <1>1, <1>3, <2>2, <2>3, <2>4
  <2>6. n = c
    BY <1>3, <2>3, <2>5
  <2> QED BY <1>7, <2>2, <2>6, <2>3
<1> QED BY <1>7, <1>9, <1>10, <1>11 DEF L, K, c

-----------------------------------------------------------------------------
(* The order and the cache.                                                *)

\* A key popped from the order, and a key moved to its end.
LEMMA WithoutProperties ==
    ASSUME order \in Seq(Projects), NEW p
    PROVE  /\ Without(p) \in Seq(Projects)
           /\ Keys(Without(p)) = Keys(order) \ {p}
           /\ Distinct(order) => Distinct(Without(p))
BY LeftProperties DEF Without

LEMMA TouchedProperties ==
    ASSUME order \in Seq(Projects), NEW p \in Projects
    PROVE  /\ Touched(p) \in Seq(Projects)
           /\ Keys(Touched(p)) = Keys(order) \cup {p}
           /\ Distinct(order) => Distinct(Touched(p))
           /\ Touched(p) # <<>> /\ Touched(p)[Len(Touched(p))] = p
<1> DEFINE w == Without(p)
           t == Touched(p)
<1>1. w \in Seq(Projects) /\ Keys(w) = Keys(order) \ {p} /\ (Distinct(order) => Distinct(w))
  BY WithoutProperties
<1>2. t = Append(w, p)
  BY DEF Touched
<1> HIDE DEF w, t
<1>3. /\ t \in Seq(Projects) /\ t # <<>> /\ Len(t) = Len(w) + 1 /\ t[Len(t)] = p
      /\ \A i \in 1..Len(w) : t[i] = w[i]
  BY <1>1, <1>2, AppendProperties
<1>4. Len(w) \in Nat /\ DOMAIN w = 1..Len(w) /\ DOMAIN t = 1..(Len(w) + 1)
  BY <1>1, <1>3, LenProperties
<1>5. \A i \in DOMAIN t : (i \in DOMAIN w /\ t[i] = w[i]) \/ (i = Len(t) /\ t[i] = p)
  BY <1>3, <1>4
<1>6. Keys(t) = Keys(w) \cup {p}
  <2>1. ASSUME NEW x \in Keys(t) PROVE x \in Keys(w) \cup {p}
    BY <1>5, <2>1 DEF Keys
  <2>2. ASSUME NEW x \in Keys(w) PROVE x \in Keys(t)
    BY <1>3, <1>4, <2>2 DEF Keys
  <2>3. p \in Keys(t)
    <3>1. Len(t) \in DOMAIN t
      BY <1>3, <1>4
    <3> QED BY <1>3, <3>1 DEF Keys
  <2> QED BY <2>1, <2>2, <2>3
<1>7. \A i \in DOMAIN w : w[i] # p
  BY <1>1 DEF Keys
<1>8. Distinct(w) => Distinct(t)
  BY <1>5, <1>7 DEF Distinct
<1> QED BY <1>1, <1>3, <1>6, <1>8 DEF t

\* The projects that are cached; the order lists them, each once.
Cached == {p \in Projects : entry[p] # None}

LEMMA ListsKeys == OrderListsKeys <=> Distinct(order) /\ Keys(order) = Cached
BY DEF OrderListsKeys, Distinct, Keys, Cached

KeysInv == TypeOK /\ OrderListsKeys

LEMMA ShutDownKeepsTypes ==
    ASSUME TypeOK, NEW s \in Services, ShutDown(s)
    PROVE  /\ state' \in [Services -> States]
           /\ waits' \in [Services -> SUBSET Requests]
           /\ cancelled' \in SUBSET Requests
<1>1. RunsOn(s) \in SUBSET Requests
  BY DEF RunsOn
<1> QED BY <1>1 DEF ShutDown, TypeOK, States, Background

LEMMA JoinOrCreateTypes ==
    ASSUME TypeOK, NEW r \in Requests, NEW p \in Projects, JoinOrCreate(r, p)
    PROVE  /\ pc' \in [Requests -> {"idle", "joined", "creating", "got", "running"}]
           /\ futures' \in [Projects -> Requests \cup {None}]
BY DEF JoinOrCreate, TypeOK

LEMMA OverTypes ==
    ASSUME TypeOK, NEW S, Over(S)
    PROVE  /\ pc' \in [Requests -> {"idle", "joined", "creating", "got", "running"}]
           /\ wants' \in [Requests -> Projects \cup {None}]
           /\ print' \in [Requests -> Prints \cup {None}]
           /\ holds' \in [Requests -> Services \cup {None}]
BY DEF Over, TypeOK

LEMMA KeysInit == Init => KeysInv
<1> SUFFICES ASSUME Init PROVE KeysInv
  OBVIOUS
<1>1. order \in Seq(Projects) /\ lastly \in Seq(Services) /\ made \in 0..MaxServices
  BY CacheAssumption DEF Init
<1>2. TypeOK
  BY <1>1 DEF Init, TypeOK, States
<1> QED BY <1>2 DEF KeysInv, Init, OrderListsKeys

\* Every step keeps the types and the agreement of order and cache.
LEMMA KeysStep == KeysInv /\ LiveInv /\ [Next]_vars => KeysInv'
<1> SUFFICES ASSUME KeysInv, LiveInv, [Next]_vars PROVE KeysInv'
  OBVIOUS
<1> USE CacheAssumption
<1>a. /\ TypeOK /\ Distinct(order) /\ Keys(order) = Cached /\ order \in Seq(Projects)
      /\ \A p \in Projects : entry[p] # None => entry[p] \in Services
  BY ListsKeys DEF KeysInv, TypeOK
<1>b. ASSUME TypeOK', Distinct(order)', Keys(order)' = Cached' PROVE KeysInv'
  BY <1>b DEF KeysInv, OrderListsKeys, Distinct, Keys, Cached
<1>1. ASSUME NEW r \in Requests, NEW p \in Projects, NEW f \in Prints \cup {None}, Hit(r, p, f)
      PROVE  KeysInv'
  <2>1. order' = Touched(p) /\ UNCHANGED entry /\ p \in Cached
    BY <1>1 DEF Hit, Cached
  <2>2. order' \in Seq(Projects) /\ Distinct(order)' /\ Keys(order)' = Cached'
    <3>1. /\ Touched(p) \in Seq(Projects) /\ Distinct(Touched(p))
          /\ Keys(Touched(p)) = Cached \cup {p}
      BY <1>a, TouchedProperties
    <3>2. Cached \cup {p} = Cached'
      BY <2>1 DEF Cached
    <3> QED BY <2>1, <3>1, <3>2 DEF Distinct, Keys
  <2>3. TypeOK'
    BY <1>1, <1>a, <2>2 DEF Hit, Ask, TypeOK, service, leaving
  <2> QED BY <1>b, <2>2, <2>3
<1>2. ASSUME NEW r \in Requests, NEW p \in Projects, NEW f \in Prints \cup {None}, Miss(r, p, f)
      PROVE  KeysInv'
  <2>1. TypeOK'
    BY <1>2, <1>a, JoinOrCreateTypes DEF Miss, TypeOK, service, leaving
  <2> QED BY <1>2, <1>a, <1>b, <2>1 DEF Miss, Distinct, Keys, Cached
<1>3. ASSUME NEW p \in Projects, entry[p] # None, order' = Without(p), entry' = Popped(p)
      PROVE  /\ order' \in Seq(Projects) /\ Distinct(order)' /\ Keys(order)' = Cached'
             /\ entry' \in [Projects -> Services \cup {None}]
  <2>1. order' \in Seq(Projects) /\ Distinct(order') /\ Keys(order') = Cached \ {p}
    BY <1>3, <1>a, WithoutProperties
  <2>2. Cached' = Cached \ {p} /\ entry' \in [Projects -> Services \cup {None}]
    BY <1>3, <1>a DEF Cached, Popped, TypeOK
  <2> QED BY <2>1, <2>2 DEF Distinct, Keys
<1>4. ASSUME NEW r \in Requests, NEW p \in Projects, NEW f \in Prints \cup {None}, Replace(r, p, f)
      PROVE  KeysInv'
  <2>1. entry[p] \in Services
    BY <1>4, <1>a DEF Replace
  <2>2. /\ state' \in [Services -> States] /\ waits' \in [Services -> SUBSET Requests]
        /\ cancelled' \in SUBSET Requests
    BY <1>4, <1>a, <2>1, ShutDownKeepsTypes DEF Replace
  <2>3. TypeOK'
    BY <1>3, <1>4, <1>a, <2>2, JoinOrCreateTypes DEF Replace, TypeOK, leaving
  <2> QED BY <1>3, <1>4, <1>b, <2>3 DEF Replace
<1>5. ASSUME NEW r \in Requests, NEW c \in Prints, Created(r, c)
      PROVE  KeysInv'
  <2> DEFINE p == wants[r]
             s == made + 1
             keys == Touched(p)
             out == Excess(keys)
  <2>1. /\ made < MaxServices /\ made' = s
        /\ entry' = [x \in Projects |-> IF x = p THEN s ELSE IF x \in out THEN None ELSE entry[x]]
        /\ state' = [q \in Services |-> IF q = s THEN "live"
               ELSE IF \E x \in out : entry[x] = q THEN "doomed" ELSE state[q]]
        /\ order' = Left(keys, out)
        /\ futures' = [futures EXCEPT ![p] = None]
        /\ conf' = [conf EXCEPT ![s] = c]
        /\ pc' = [q \in Requests |-> IF q \in Sharing(r) THEN "got" ELSE pc[q]]
        /\ holds' = [q \in Requests |-> IF q \in Sharing(r) THEN s ELSE holds[q]]
        /\ UNCHANGED <<waits, wants, print, cancelled, leaving>> /\ pc[r] = "creating"
    BY <1>5 DEF Created
  <2>2. p \in Projects
    BY <2>1 DEF LiveInv, CreationInv, Base
  <2>3. s \in Services /\ s # None /\ made' \in 0..MaxServices
    BY <1>a, <2>1 DEF TypeOK, Services
  <2>4. /\ keys \in Seq(Projects) /\ Distinct(keys) /\ Keys(keys) = Cached \cup {p}
        /\ keys # <<>> /\ keys[Len(keys)] = p
    BY <1>a, <2>2, TouchedProperties
  <2>5. p \notin out
    <3> SUFFICES ASSUME p \in out PROVE FALSE
      OBVIOUS
    <3>1. PICK i \in 1..(Len(keys) - 1) : keys[i] = p
      BY DEF Excess
    <3>2. Len(keys) \in Nat /\ DOMAIN keys = 1..Len(keys)
      BY <2>4, LenProperties
    <3> QED BY <2>4, <3>1, <3>2 DEF Distinct
  <2> HIDE DEF p, s, keys, out
  <2>6. Left(keys, out) \in Seq(Projects) /\ Keys(Left(keys, out)) = Keys(keys) \ out
        /\ Distinct(Left(keys, out))
    BY <2>4, LeftProperties
  <2>7. Cached' = (Cached \cup {p}) \ out
    BY <2>1, <2>2, <2>3, <2>5 DEF Cached
  <2>8. Distinct(order)' /\ Keys(order)' = Cached' /\ order' \in Seq(Projects)
    <3>1. order' \in Seq(Projects) /\ Distinct(order') /\ Keys(order') = (Cached \cup {p}) \ out
      BY <2>1, <2>4, <2>6
    <3> QED BY <2>7, <3>1 DEF Distinct, Keys
  <2>9. entry' \in [Projects -> Services \cup {None}] /\ state' \in [Services -> States]
    BY <1>a, <2>1, <2>3 DEF TypeOK, States, Background
  <2>10. TypeOK'
    BY <1>a, <2>1, <2>2, <2>3, <2>8, <2>9 DEF TypeOK, leaving
  <2> QED BY <1>b, <2>8, <2>10
<1>6. ASSUME NEW r \in Requests, CreationFails(r)
      PROVE  KeysInv'
  <2>1. TypeOK'
    BY <1>6, <1>a, OverTypes DEF CreationFails, TypeOK, service, leaving
  <2> QED BY <1>6, <1>a, <1>b, <2>1 DEF CreationFails, Distinct, Keys, Cached
<1>7. ASSUME NEW r \in Requests, StartRun(r) \/ Leave(r) \/ RunEnds(r)
      PROVE  KeysInv'
  <2>1. CASE StartRun(r)
    BY <2>1, <1>a, <1>b DEF StartRun, TypeOK, cache, service, leaving, Distinct, Keys, Cached
  <2>2. CASE Leave(r) \/ RunEnds(r)
    <3>1. Over({r}) /\ UNCHANGED <<cache, made, conf, state, leaving>>
          /\ (UNCHANGED <<waits, cancelled>> \/
               (cancelled' = cancelled \ {r} /\ waits' = [s \in Services |-> waits[s] \ {r}]))
      BY <2>2 DEF Leave, RunEnds, service
    <3>2. TypeOK'
      BY <3>1, <1>a, OverTypes DEF TypeOK, cache, leaving
    <3> QED BY <3>1, <3>2, <1>a, <1>b DEF cache, Distinct, Keys, Cached
  <2> QED BY <1>7, <2>1, <2>2
<1>8. ASSUME NEW p \in Projects, Evict(p)
      PROVE  KeysInv'
  <2>1. entry[p] \in Services
    BY <1>8, <1>a DEF Evict
  <2>2. /\ state' \in [Services -> States] /\ waits' \in [Services -> SUBSET Requests]
        /\ cancelled' \in SUBSET Requests
    BY <1>8, <1>a, <2>1, ShutDownKeepsTypes DEF Evict, TypeOK, States, Background
  <2>3. TypeOK'
    BY <1>3, <1>8, <1>a, <2>2 DEF Evict, TypeOK, leaving
  <2> QED BY <1>3, <1>8, <1>b, <2>3 DEF Evict
<1>9. ASSUME NEW s \in Services, DeferredStarts(s) \/ BackgroundShutdown(s) \/ Closes(s)
      PROVE  KeysInv'
  <2>1. CASE DeferredStarts(s) \/ Closes(s)
    <3>1. RunsOn(s) \in SUBSET Requests
      BY DEF RunsOn
    <3>2. waits' \in [Services -> SUBSET Requests] /\ state' \in [Services -> States]
      <4>1. CASE DeferredStarts(s)
        BY <4>1, <3>1, <1>a DEF DeferredStarts, TypeOK, States, Background
      <4>2. CASE Closes(s)
        BY <4>2, <1>a DEF Closes, TypeOK, States, Background
      <4> QED BY <2>1, <4>1, <4>2
    <3>3. UNCHANGED <<cache, made, conf, request, leaving>>
      BY <2>1 DEF DeferredStarts, Closes
    <3>4. TypeOK'
      BY <3>2, <3>3, <1>a DEF TypeOK, cache, request, leaving
    <3> QED BY <3>3, <3>4, <1>a, <1>b DEF cache, Distinct, Keys, Cached
  <2>2. CASE BackgroundShutdown(s)
    <3>1. TypeOK'
      BY <2>2, <1>a, ShutDownKeepsTypes DEF BackgroundShutdown, TypeOK, cache, leaving
    <3> QED BY <2>2, <3>1, <1>a, <1>b DEF BackgroundShutdown, cache, Distinct, Keys, Cached
  <2> QED BY <1>9, <2>1, <2>2
<1>10. CASE ExitBegins \/ ExitGoesOn \/ ExitEnds
  <2>1. drained' \in SUBSET Services /\ exit' \in {"no", "draining", "closing", "out"}
    BY <1>10, <1>a DEF ExitBegins, ExitGoesOn, ExitEnds, PendingShutdowns, TypeOK
  <2>2. lastly' \in Seq(Services)
    <3>1. lastly \in Seq(Services)
      BY <1>a DEF TypeOK
    <3>2. lastly # <<>> => Tail(lastly) \in Seq(Services)
      BY <3>1, HeadTailProperties
    <3>3. lastly' = lastly \/ (lastly # <<>> /\ lastly' = Tail(lastly))
      BY <1>10 DEF ExitBegins, ExitGoesOn, ExitEnds
    <3> QED BY <3>1, <3>2, <3>3
  <2>3. UNCHANGED <<cache, service, request>>
    BY <1>10 DEF ExitBegins, ExitGoesOn, ExitEnds
  <2>4. TypeOK'
    BY <2>1, <2>2, <2>3, <1>a DEF TypeOK, cache, service, request
  <2> QED BY <2>3, <2>4, <1>a, <1>b DEF cache, Distinct, Keys, Cached
<1>11. CASE ExitDrained
  <2>1. \A i \in 1..Len(order) : entry[order[i]] \in Services
    BY <1>a, LenProperties DEF Keys, Cached
  <2>2. lastly' \in Seq(Services)
    <3>1. Len(order) \in Nat /\ lastly' = [i \in 1..Len(order) |-> entry[order[i]]]
      BY <1>11, <1>a, LenProperties DEF ExitDrained
    <3> QED BY <2>1, <3>1, IsASeq
  <2>3. order' = <<>> /\ entry' = [p \in Projects |-> None]
        /\ exit' = "closing" /\ UNCHANGED <<futures, service, request, drained>>
    BY <1>11 DEF ExitDrained
  <2>4. order' \in Seq(Projects)
    BY <2>3
  <2>5. TypeOK'
    BY <2>2, <2>3, <2>4, <1>a DEF TypeOK, service, request
  <2>6. Distinct(order)' /\ Keys(order)' = Cached'
    BY <2>3 DEF Distinct, Keys, Cached
  <2> QED BY <1>b, <2>5, <2>6
<1>12. CASE ExitShutsNext
  <2>1. Head(lastly) \in Services
    BY <1>12, <1>a, HeadTailProperties DEF ExitShutsNext, TypeOK
  <2>2. TypeOK'
    BY <1>12, <1>a, <2>1, ShutDownKeepsTypes DEF ExitShutsNext, TypeOK, cache, leaving
  <2> QED BY <1>12, <2>2, <1>a, <1>b DEF ExitShutsNext, cache, Distinct, Keys, Cached
<1>13. CASE Out \/ UNCHANGED vars
  BY <1>13, <1>a, <1>b DEF Out, vars, cache, service, request, leaving, TypeOK, Distinct, Keys, Cached
<1> QED BY <1>1, <1>2, <1>4, <1>5, <1>6, <1>7, <1>8, <1>9, <1>10, <1>11, <1>12, <1>13 DEF Next

\* Every service is accounted for: one that lives is cached, or among the last ones
\* the exit shuts down; one on its way out when the exit began is waited for; and after
\* drain() all are closed but the last ones.
Accounted ==
    /\ \A s \in 1..made : state[s] # "unborn"
    /\ exit \in {"no", "draining"} =>
           \A s \in 1..made : state[s] = "live" => \E p \in Projects : entry[p] = s
    /\ exit = "draining" => \A s \in 1..made : state[s] \in Background => s \in drained
    /\ exit = "closing" => \A s \in 1..made : state[s] = "closed" \/ s \in Keys(lastly)
    /\ ExitLeavesNothing

LostInv == LiveInv /\ KeysInv /\ Accounted

LEMMA AccountedStep == LostInv /\ [Next]_vars => Accounted'
<1> SUFFICES ASSUME LostInv, [Next]_vars PROVE Accounted'
  OBVIOUS
<1> USE CacheAssumption
<1>a. /\ LiveInv /\ TypeOK /\ Accounted /\ Keys(order) = Cached
      /\ 1..made \subseteq Services
  BY ListsKeys DEF LostInv, KeysInv, TypeOK, Services
<1>b. state \in [Services -> States]
  BY <1>a DEF TypeOK
\* A service that is shut down is not live any more, and no other changes.
<1>c. ASSUME NEW s \in Services, ShutDown(s)
      PROVE  /\ state'[s] \in {"closing", "closed"}
             /\ \A q \in Services : q # s => state'[q] = state[q]
  BY <1>b, <1>c DEF ShutDown
<1>1. ASSUME exit = "no", UNCHANGED <<made, exit>>,
             \A s \in 1..made : state'[s] = state[s] \/ state'[s] \in Background \cup {"closed"},
             \A p \in Projects : entry'[p] = entry[p] \/ state'[entry[p]] \in Background \cup {"closed"}
      PROVE  Accounted'
  BY <1>1, <1>a DEF Accounted, ExitLeavesNothing, Background
<1>2. ASSUME NEW r \in Requests, NEW p \in Projects, NEW f \in Prints \cup {None},
             Hit(r, p, f) \/ Miss(r, p, f)
      PROVE  Accounted'
  BY <1>1, <1>2 DEF Hit, Miss, Ask, service, leaving
<1>3. ASSUME NEW p \in Projects, exit = "no", UNCHANGED <<made, exit>>, entry[p] # None,
             entry' = Popped(p), ShutDown(entry[p]) \/ state' = [state EXCEPT ![entry[p]] = "deferred"]
      PROVE  Accounted'
  <2>1. entry[p] \in Services
    BY <1>3, <1>a DEF TypeOK
  <2>2. /\ state'[entry[p]] \in Background \cup {"closed"}
        /\ \A q \in Services : q # entry[p] => state'[q] = state[q]
    BY <1>3, <1>b, <1>c, <2>1 DEF Background
  <2>3. \A q \in Projects : q # p => entry'[q] = entry[q]
    BY <1>3 DEF Popped
  <2> QED BY <1>1, <1>3, <1>a, <2>2, <2>3
<1>4. ASSUME NEW r \in Requests, NEW p \in Projects, NEW f \in Prints \cup {None}, Replace(r, p, f)
      PROVE  Accounted'
  BY <1>3, <1>4 DEF Replace, leaving
<1>5. ASSUME NEW r \in Requests, NEW c \in Prints, Created(r, c)
      PROVE  Accounted'
  <2> DEFINE s == made + 1
             out == Excess(Touched(wants[r]))
  <2>1. /\ pc[r] = "creating" /\ made < MaxServices /\ made' = s
        /\ entry' = [x \in Projects |->
               IF x = wants[r] THEN s ELSE IF x \in out THEN None ELSE entry[x]]
        /\ state' = [q \in Services |->
               IF q = s THEN "live"
               ELSE IF \E x \in out : entry[x] = q THEN "doomed" ELSE state[q]]
        /\ exit' = exit
    BY <1>5 DEF Created, leaving
  <2> HIDE DEF out
  <2>2. exit = "no" /\ wants[r] \in Projects /\ entry[wants[r]] = None
    BY <1>a, <2>1 DEF LiveInv, CreationInv, Base, OneCreation
  <2>3. made \in Nat /\ s \in Services /\ 1..made' = (1..made) \cup {s} /\ s \notin 1..made
    BY <1>a, <2>1 DEF TypeOK, Services
  <2>4. \A q \in 1..made' : state'[q] # "unborn"
    BY <1>a, <2>1, <2>3 DEF Accounted
  <2>5. ASSUME NEW q \in 1..made', state'[q] = "live"
        PROVE  \E x \in Projects : entry'[x] = q
    <3>1. CASE q = s
      BY <2>1, <2>2, <3>1
    <3>2. CASE q # s
      <4>1. q \in 1..made /\ q \in Services /\ state[q] = "live" /\ ~ \E x \in out : entry[x] = q
        BY <1>a, <2>1, <2>3, <2>5, <3>2
      <4>2. PICK x \in Projects : entry[x] = q
        BY <1>a, <2>2, <4>1 DEF Accounted
      <4>3. q # None
        BY <4>1 DEF Services
      <4>4. x # wants[r] /\ x \notin out
        BY <2>2, <4>1, <4>2, <4>3
      <4> QED BY <2>1, <4>2, <4>4
    <3> QED BY <3>1, <3>2
  <2> QED BY <2>1, <2>2, <2>4, <2>5 DEF Accounted, ExitLeavesNothing
<1>6. ASSUME NEW r \in Requests, CreationFails(r) \/ StartRun(r) \/ Leave(r) \/ RunEnds(r)
      PROVE  Accounted'
  BY <1>6, <1>a DEF CreationFails, StartRun, Leave, RunEnds, cache, service, leaving,
                    Accounted, ExitLeavesNothing
<1>7. ASSUME NEW p \in Projects, Evict(p)
      PROVE  Accounted'
  BY <1>3, <1>7 DEF Evict, leaving
<1>8. ASSUME NEW s \in Services, state[s] \in Background,
             state'[s] \in Background \cup {"closed"},
             \A q \in Services : q # s => state'[q] = state[q],
             UNCHANGED <<made, entry, leaving>>
      PROVE  Accounted'
  <2>1. \A q \in 1..made : state'[q] = state[q] \/ (q = s /\ state'[q] \in Background \cup {"closed"})
    BY <1>a, <1>8
  <2>2. s \in 1..made => /\ exit = "draining" => s \in drained
                         /\ exit = "closing" => s \in Keys(lastly)
                         /\ exit # "out"
    BY <1>a, <1>8 DEF Accounted, ExitLeavesNothing, Background
  <2> QED BY <1>a, <1>8, <2>1, <2>2 DEF Accounted, ExitLeavesNothing, leaving, Background, Keys
<1>9. ASSUME NEW s \in Services, DeferredStarts(s) \/ BackgroundShutdown(s) \/ Closes(s)
      PROVE  Accounted'
  <2>1. state[s] \in Background /\ UNCHANGED <<made, entry, leaving>>
    BY <1>9 DEF DeferredStarts, BackgroundShutdown, Closes, cache, Background
  <2>2. /\ state'[s] \in Background \cup {"closed"}
        /\ \A q \in Services : q # s => state'[q] = state[q]
    BY <1>9, <1>b, <1>c DEF DeferredStarts, BackgroundShutdown, Closes, Background
  <2> QED BY <1>8, <2>1, <2>2
<1>10. CASE ExitBegins
  <2>1. UNCHANGED <<cache, service>> /\ exit = "no" /\ exit' = "draining"
        /\ drained' = {s \in Services : state[s] \in Background}
    BY <1>10 DEF ExitBegins, PendingShutdowns
  <2> QED BY <1>a, <2>1 DEF cache, service, Accounted, ExitLeavesNothing
<1>11. CASE ExitDrained
  <2>1. /\ exit = "draining" /\ exit' = "closing" /\ UNCHANGED <<made, state>>
        /\ \A s \in drained : state[s] = "closed"
        /\ lastly' = [i \in 1..Len(order) |-> entry[order[i]]]
    BY <1>11 DEF ExitDrained, service
  <2>2. ASSUME NEW s \in 1..made PROVE state[s] = "closed" \/ s \in Keys(lastly')
    <3>1. s \in Services /\ state[s] \in States /\ state[s] # "unborn"
      BY <1>a, <1>b DEF Accounted
    <3>2. CASE state[s] = "live"
      <4>1. PICK p \in Projects : entry[p] = s
        BY <1>a, <2>1, <3>2 DEF Accounted
      <4>2. p \in Cached
        BY <3>1, <4>1 DEF Cached, Services
      <4>3. PICK i \in DOMAIN order : order[i] = p
        BY <1>a, <4>2 DEF Keys
      <4>4. i \in 1..Len(order)
        BY <1>a, <4>3, LenProperties DEF TypeOK
      <4>5. i \in DOMAIN lastly' /\ lastly'[i] = s
        BY <2>1, <4>1, <4>3, <4>4
      <4> QED BY <4>5 DEF Keys
    <3>3. CASE state[s] \in Background
      BY <1>a, <2>1, <3>3 DEF Accounted
    <3> QED BY <3>1, <3>2, <3>3 DEF States
  <2> QED BY <1>a, <2>1, <2>2 DEF Accounted, ExitLeavesNothing, Keys
<1>12. CASE ExitShutsNext
  <2>1. exit = "closing" /\ lastly # <<>> /\ UNCHANGED <<made, entry, leaving>> /\ ShutDown(Head(lastly))
    BY <1>12 DEF ExitShutsNext, cache
  <2>2. Head(lastly) \in Services /\ Head(lastly) \in Keys(lastly)
    <3>1. lastly \in Seq(Services) /\ lastly # <<>>
      BY <1>a, <2>1 DEF TypeOK
    <3>2. 1 \in DOMAIN lastly /\ Head(lastly) = lastly[1]
      BY <3>1, HeadTailProperties, LenProperties, EmptySeq
    <3> QED BY <3>1, <3>2, ElementOfSeq, LenProperties DEF Keys
  <2>3. /\ state'[Head(lastly)] \in {"closing", "closed"}
        /\ \A q \in Services : q # Head(lastly) => state'[q] = state[q]
    BY <1>c, <2>1, <2>2
  <2> QED BY <1>a, <2>1, <2>2, <2>3 DEF Accounted, ExitLeavesNothing, leaving, Keys
<1>13. CASE ExitGoesOn
  <2>1. /\ exit = "closing" /\ lastly # <<>> /\ state[Head(lastly)] = "closed"
        /\ lastly' = Tail(lastly) /\ UNCHANGED <<made, entry, state, exit>>
    BY <1>13 DEF ExitGoesOn, cache, service
  <2>2. \A x \in Keys(lastly) : x = Head(lastly) \/ x \in Keys(Tail(lastly))
    <3> SUFFICES ASSUME NEW i \in DOMAIN lastly, i # 1
                 PROVE  lastly[i] \in Keys(Tail(lastly))
      BY DEF Keys
    <3>1. lastly \in Seq(Services) /\ lastly # <<>>
      BY <1>a, <2>1 DEF TypeOK
    <3>2. /\ DOMAIN lastly = 1..Len(lastly) /\ Len(lastly) \in Nat
          /\ Tail(lastly) \in Seq(Services) /\ Len(Tail(lastly)) = Len(lastly) - 1
          /\ \A j \in 1..Len(Tail(lastly)) : Tail(lastly)[j] = lastly[j + 1]
      BY <3>1, HeadTailProperties, LenProperties
    <3>3. i - 1 \in DOMAIN Tail(lastly) /\ Tail(lastly)[i - 1] = lastly[i]
      BY <3>2, LenProperties
    <3> QED BY <3>3 DEF Keys
  <2>3. \A s \in 1..made : state[s] = "closed" \/ s \in Keys(Tail(lastly))
    BY <1>a, <2>1, <2>2 DEF Accounted
  <2>4. Keys(lastly)' = Keys(Tail(lastly))
    BY <2>1 DEF Keys
  <2> QED BY <1>a, <2>1, <2>3, <2>4 DEF Accounted, ExitLeavesNothing
<1>14. CASE ExitEnds
  <2>1. exit = "closing" /\ exit' = "out" /\ lastly = <<>> /\ UNCHANGED <<made, state>>
    BY <1>14 DEF ExitEnds, service
  <2>2. Keys(lastly) = {}
    BY <2>1 DEF Keys
  <2>3. \A s \in 1..made : state[s] = "closed"
    BY <1>a, <2>1, <2>2 DEF Accounted
  <2> QED BY <1>a, <2>1, <2>3 DEF Accounted, ExitLeavesNothing
<1>15. CASE Out \/ UNCHANGED vars
  BY <1>15, <1>a DEF Out, vars, cache, service, leaving, Accounted, ExitLeavesNothing, Keys
<1> QED BY <1>2, <1>4, <1>5, <1>6, <1>7, <1>9, <1>10, <1>11, <1>12, <1>13, <1>14, <1>15 DEF Next

LEMMA LostCorrect == Spec => []LostInv
<1>1. Init => LostInv
  BY KeysInit, CacheAssumption DEF Init, LostInv, LiveInv, CreationInv, Base, OneCreation, CacheServesLive,
     States, Accounted, ExitLeavesNothing
<1>2. LostInv /\ [Next]_vars => LostInv'
  BY LiveStep, KeysStep, AccountedStep DEF LostInv
<1> QED BY <1>1, <1>2, PTL DEF Spec

\* For any number of requests, projects and services: the LRU order lists exactly what is
\* cached, each project once, and when the application is out every service ever created
\* has been shut down (get_or_create, evict, drain, shutdown).
THEOREM NothingLostCorrect == Spec => []NothingLost
<1>1. LostInv => NothingLost
  BY DEF LostInv, KeysInv, Accounted, NothingLost
<1> QED BY <1>1, LostCorrect, PTL

-----------------------------------------------------------------------------
(* Evictions.                                                              *)

\* Left makes a sequence no longer, and shorter by the positions it drops.
LEMMA LeftIsShorter ==
    ASSUME NEW S, NEW keys \in Seq(S), NEW out
    PROVE  LET gone == {i \in DOMAIN keys : keys[i] \in out}
           IN  /\ IsFiniteSet(gone) /\ Cardinality(gone) \in Nat
               /\ Len(Left(keys, out)) = Len(keys) - Cardinality(gone)
<1> DEFINE gone == {i \in DOMAIN keys : keys[i] \in out}
           kept == {i \in DOMAIN keys : keys[i] \notin out}
           all  == 1..Len(keys)
<1>1. Len(keys) \in Nat /\ DOMAIN keys = all
  BY LenProperties
<1>2. IsFiniteSet(all) /\ Cardinality(all) = Len(keys)
  BY <1>1, FS_Interval
<1>3. gone \in SUBSET all /\ kept = all \ gone /\ gone = all \cap gone
  BY <1>1
<1>4. IsFiniteSet(gone) /\ Cardinality(gone) \in Nat
  BY <1>2, <1>3, FS_Subset, FS_CardinalityType
<1> HIDE DEF gone, kept, all
<1>5. Cardinality(kept) = Cardinality(all) - Cardinality(gone)
  <2>1. Cardinality(all \ gone) = Cardinality(all) - Cardinality(all \cap gone)
    BY <1>2, FS_Difference
  <2> QED BY <1>3, <2>1
<1>6. Len(Left(keys, out)) = Cardinality(kept)
  BY LeftProperties DEF kept
<1> QED BY <1>2, <1>4, <1>5, <1>6 DEF gone

\* A key that is touched and was there already leaves the length as it is.
LEMMA TouchedLength ==
    ASSUME order \in Seq(Projects), Distinct(order), NEW p \in Keys(order)
    PROVE  Len(Touched(p)) = Len(order)
<1> DEFINE gone == {i \in DOMAIN order : order[i] \in {p}}
<1>1. PICK k \in DOMAIN order : order[k] = p
  BY DEF Keys
<1>2. gone = {k}
  BY <1>1 DEF Distinct
<1>3. Cardinality(gone) = 1
  BY <1>2, FS_Singleton
<1>4. Len(Without(p)) = Len(order) - Cardinality(gone)
  BY LeftIsShorter DEF Without
<1>5. Len(Touched(p)) = Len(Without(p)) + 1 /\ Len(order) \in Nat
  BY WithoutProperties, AppendProperties, LenProperties DEF Touched
<1> QED BY <1>3, <1>4, <1>5

\* An insertion that leaves more than MaxSize entries has evicted every idle one but the
\* new.
LEMMA ExcessTakesIdle ==
    ASSUME NEW keys \in Seq(Projects), Distinct(keys),
           Len(Left(keys, Excess(keys))) > MaxSize,
           NEW j \in 1..(Len(keys) - 1), keys[j] \notin Excess(keys)
    PROVE  Busy(entry[keys[j]])
<1> DEFINE new  == Len(keys)
           idle == {i \in 1..(new - 1) : ~Busy(entry[keys[i]])}
           over == IF new > MaxSize THEN new - MaxSize ELSE 0
           out  == Excess(keys)
           gone == {i \in DOMAIN keys : keys[i] \in out}
           rank(i) == Cardinality({k \in idle : k <= i})
<1> SUFFICES ASSUME j \in idle PROVE FALSE
  OBVIOUS
<1>1. new \in Nat /\ DOMAIN keys = 1..new /\ MaxSize \in Nat /\ over \in Nat
  BY LenProperties, CacheAssumption
<1>2. new - 1 \in Nat /\ idle \in SUBSET (1..(new - 1)) /\ idle \subseteq DOMAIN keys
  BY <1>1
<1>3. \A i \in idle : rank(i) <= over => keys[i] \in out
  <2> SUFFICES ASSUME NEW i \in idle, rank(i) <= over PROVE keys[i] \in out
    OBVIOUS
  <2>1. keys[i] \in Projects
    BY <1>2, ElementOfSeq, <1>1
  <2> QED BY <2>1 DEF Excess
<1> HIDE DEF out
<1>4. /\ \A n \in 1..Cardinality(idle) : Nth(idle, n) \in idle /\ rank(Nth(idle, n)) = n
      /\ rank(j) \in 1..Cardinality(idle)
      /\ \A a, b \in 1..Cardinality(idle) : a < b => Nth(idle, a) < Nth(idle, b)
      /\ Cardinality(idle) \in Nat
  BY <1>2, NthProperties
<1>5. over < rank(j)
  BY <1>1, <1>3, <1>4 DEF out
<1> DEFINE f == [n \in 1..over |-> Nth(idle, n)]
<1> HIDE DEF idle, rank, over
<1>6. \A n \in 1..over : n \in 1..Cardinality(idle)
  <2>1. over <= Cardinality(idle)
    BY <1>1, <1>4, <1>5
  <2> QED BY <1>1, <1>4, <2>1
<1>7. \A n \in 1..over : Nth(idle, n) \in gone
  <2> TAKE n \in 1..over
  <2>1. Nth(idle, n) \in idle /\ rank(Nth(idle, n)) <= over
    BY <1>1, <1>4, <1>6
  <2> QED BY <1>2, <1>3, <2>1
<1>8. \A a, b \in 1..over : Nth(idle, a) = Nth(idle, b) => a = b
  <2> SUFFICES ASSUME NEW a \in 1..over, NEW b \in 1..over, Nth(idle, a) = Nth(idle, b), a # b
               PROVE  FALSE
    OBVIOUS
  <2>1. a < b \/ b < a
    BY <1>1
  <2>2. rank(Nth(idle, a)) = a /\ rank(Nth(idle, b)) = b
    BY <1>4, <1>6
  <2> QED BY <2>1, <2>2
<1> HIDE DEF gone
<1>9. f \in Injection(1..over, gone)
  BY <1>7, <1>8 DEF Injection, IsInjective
<1>10. /\ IsFiniteSet(gone) /\ Cardinality(gone) \in Nat
       /\ Len(Left(keys, out)) = new - Cardinality(gone)
  BY LeftIsShorter DEF gone, out
<1>11. Cardinality(1..over) <= Cardinality(gone)
  BY <1>9, <1>10, FS_Injection
<1>12. Cardinality(1..over) = over
  BY <1>1, FS_Interval
<1>13. Len(Left(keys, out)) <= new - over
  BY <1>1, <1>10, <1>11, <1>12
<1>14. new - over <= MaxSize
  BY <1>1 DEF over
<1> QED BY <1>1, <1>10, <1>13, <1>14 DEF out

\* What OverfullOnlyWhenBusy says of a step.
EvictsBusyLast ==
    Len(order') > Len(order) /\ Len(order') > MaxSize =>
        \A i \in 1..(Len(order') - 1) : Busy(entry[order'[i]])

LEMMA OverfullStep == LostInv /\ [Next]_vars => [EvictsBusyLast]_vars
<1> SUFFICES ASSUME LostInv, Next, ~EvictsBusyLast PROVE FALSE
  BY DEF EvictsBusyLast
<1>a. order \in Seq(Projects) /\ Distinct(order) /\ Keys(order) = Cached /\ Len(order) \in Nat
  BY ListsKeys, LenProperties DEF LostInv, KeysInv, TypeOK
<1>b. order' # order /\ Len(order') > Len(order) /\ Len(order') > MaxSize
  BY <1>a DEF EvictsBusyLast
<1>1. ASSUME NEW p \in Projects PROVE order' # Without(p)
  <2>1. \E n \in Nat : Len(Without(p)) = Len(order) - n
    BY <1>a, LeftIsShorter DEF Without
  <2> QED BY <1>a, <1>b, <2>1
<1>2. ASSUME NEW r \in Requests, NEW p \in Projects, NEW f \in Prints \cup {None}
      PROVE  ~Hit(r, p, f) /\ ~Miss(r, p, f) /\ ~Replace(r, p, f)
  <2>1. ~Hit(r, p, f)
    <3> SUFFICES ASSUME Hit(r, p, f) PROVE FALSE
      OBVIOUS
    <3>1. p \in Keys(order) /\ order' = Touched(p)
      BY <1>a DEF Hit, Cached
    <3> QED BY <1>a, <1>b, <3>1, TouchedLength
  <2> QED BY <1>1, <1>b, <2>1 DEF Miss, Replace
<1>3. ASSUME NEW r \in Requests, NEW c \in Prints, Created(r, c)
      PROVE  FALSE
  <2> DEFINE keys == Touched(wants[r])
             out == Excess(keys)
  <2>1. wants[r] \in Projects /\ order' = Left(keys, out)
    BY <1>3 DEF Created, LostInv, LiveInv, CreationInv, Base
  <2>2. /\ keys \in Seq(Projects) /\ Distinct(keys) /\ keys # <<>>
        /\ keys[Len(keys)] = wants[r]
    BY <1>a, <2>1, TouchedProperties
  <2>3. DOMAIN keys = 1..Len(keys) /\ Len(keys) \in Nat
    BY <2>2, LenProperties
  <2>4. wants[r] \notin out
    <3> SUFFICES ASSUME wants[r] \in out PROVE FALSE
      OBVIOUS
    <3>1. PICK i \in 1..(Len(keys) - 1) : keys[i] = wants[r]
      BY DEF Excess
    <3>2. i \in DOMAIN keys /\ Len(keys) \in DOMAIN keys /\ i # Len(keys)
      BY <2>3
    <3> QED BY <2>2, <3>1, <3>2 DEF Distinct
  <2> HIDE DEF keys, out
  <2>5. /\ order' \in Seq(Projects) /\ Keys(order') = Keys(keys) \ out /\ Distinct(order')
        /\ order' # <<>> /\ order'[Len(order')] = wants[r]
    BY <2>1, <2>2, <2>4, LeftProperties
  <2>6. PICK i \in 1..(Len(order') - 1) : ~Busy(entry[order'[i]])
    BY <1>b DEF EvictsBusyLast
  <2>7. i \in DOMAIN order' /\ Len(order') \in DOMAIN order' /\ i # Len(order')
    BY <2>5, LenProperties
  <2>8. order'[i] # wants[r] /\ order'[i] \in Keys(order')
    BY <2>5, <2>7 DEF Distinct, Keys
  <2>9. PICK j \in DOMAIN keys : keys[j] = order'[i]
    BY <2>5, <2>8 DEF Keys
  <2>10. j \in 1..(Len(keys) - 1) /\ keys[j] \notin out
    <3>1. j # Len(keys)
      BY <2>2, <2>8, <2>9
    <3>2. j \in 1..(Len(keys) - 1)
      BY <2>3, <3>1
    <3> QED BY <2>5, <2>8, <2>9, <3>2
  <2>11. Busy(entry[keys[j]])
    BY <1>b, <2>1, <2>2, <2>10, ExcessTakesIdle DEF out
  <2> QED BY <2>6, <2>9, <2>11
<1>4. ASSUME NEW r \in Requests
      PROVE  ~CreationFails(r) /\ ~StartRun(r) /\ ~Leave(r) /\ ~RunEnds(r)
  BY <1>b DEF CreationFails, StartRun, Leave, RunEnds, cache
<1>5. ASSUME NEW p \in Projects PROVE ~Evict(p)
  BY <1>1 DEF Evict
<1>6. ASSUME NEW s \in Services
      PROVE  ~DeferredStarts(s) /\ ~BackgroundShutdown(s) /\ ~Closes(s)
  BY <1>b DEF DeferredStarts, BackgroundShutdown, Closes, cache
<1>7. ~ExitDrained
  BY <1>a, <1>b, EmptySeq DEF ExitDrained
<1>8. ~ExitBegins /\ ~ExitShutsNext /\ ~ExitGoesOn /\ ~ExitEnds /\ ~Out
  BY <1>b DEF ExitBegins, ExitShutsNext, ExitGoesOn, ExitEnds, Out, cache, vars
<1> QED BY <1>2, <1>3, <1>4, <1>5, <1>6, <1>7, <1>8 DEF Next

\* An insertion leaves the cache over max_size only when every other service is busy,
\* whatever the size and however many entries have to go (get_or_create).
THEOREM OverfullCorrect == Spec => OverfullOnlyWhenBusy
BY LostCorrect, OverfullStep, PTL DEF Spec, OverfullOnlyWhenBusy, EvictsBusyLast
=============================================================================
