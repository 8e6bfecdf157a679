----------------------- MODULE ChatTaskManagerProofs -----------------------
(***************************************************************************)
(* Proofs about ChatTaskManager, for every set of sessions and tasks and   *)
(* every value of the bounds.                                              *)
(***************************************************************************)
EXTENDS ChatTaskManager, SequenceTheorems, TLAPS

-----------------------------------------------------------------------------
\* Concatenation, by position.
LEMMA ConcatFacts ==
  ASSUME NEW S, NEW s \in Seq(S), NEW u \in Seq(S)
  PROVE  /\ s \o u \in Seq(S)
         /\ Len(s \o u) = Len(s) + Len(u)
         /\ Len(s) \in Nat /\ Len(u) \in Nat
         /\ \A i \in 1..Len(s) : (s \o u)[i] = s[i]
         /\ \A i \in 1..Len(u) : (s \o u)[Len(s) + i] = u[i]
<1>1. Len(s) \in Nat /\ Len(u) \in Nat
  BY LenProperties
<1>2. /\ s \o u \in Seq(S)
      /\ Len(s \o u) = Len(s) + Len(u)
      /\ \A i \in 1..Len(s) + Len(u) :
            (s \o u)[i] = IF i <= Len(s) THEN s[i] ELSE u[i - Len(s)]
  BY ConcatProperties
<1>3. \A i \in 1..Len(s) : (s \o u)[i] = s[i]
  BY <1>1, <1>2
<1>4. \A i \in 1..Len(u) : (s \o u)[Len(s) + i] = u[i]
  BY <1>1, <1>2
<1> QED BY <1>1, <1>2, <1>3, <1>4

\* What _push_event does to the buffers: the task's buffer grows by Len(kinds)
\* events stamped nextId, nextId + 1, ...; everything before them and every
\* other task's buffer stay as they were.
LEMMA PushFacts ==
  ASSUME NEW t \in Tasks, NEW kinds \in Seq(EventKind),
         events \in [Tasks -> Seq(Event)], nextId \in [Tasks -> Nat],
         Push(t, kinds)
  PROVE  /\ events' \in [Tasks -> Seq(Event)]
         /\ nextId' \in [Tasks -> Nat]
         /\ nextId'[t] = nextId[t] + Len(kinds)
         /\ Len(events'[t]) = Len(events[t]) + Len(kinds)
         /\ \A i \in 1..Len(events[t]) : events'[t][i] = events[t][i]
         /\ \A i \in 1..Len(kinds) :
               events'[t][Len(events[t]) + i] =
                   [id |-> nextId[t] + i - 1, kind |-> kinds[i]]
         /\ \A u \in Tasks \ {t} : events'[u] = events[u] /\ nextId'[u] = nextId[u]
<1> DEFINE new == [i \in 1..Len(kinds) |-> [id |-> nextId[t] + i - 1, kind |-> kinds[i]]]
<1>1. Len(kinds) \in Nat /\ \A i \in 1..Len(kinds) : kinds[i] \in EventKind
  BY LenProperties, ElementOfSeq
<1>2. \A i \in 1..Len(kinds) : [id |-> nextId[t] + i - 1, kind |-> kinds[i]] \in Event
  BY <1>1 DEF Event
<1>3. new \in Seq(Event) /\ Len(new) = Len(kinds)
  BY <1>1, <1>2
<1> HIDE DEF new
<1>4. events[t] \in Seq(Event) /\ Len(events[t]) \in Nat
  BY LenProperties
<1>5. events' = [events EXCEPT ![t] = events[t] \o new]
  BY DEF Push, new
<1>6a. events[t] \o new \in Seq(Event) /\ Len(events[t] \o new) = Len(events[t]) + Len(new)
  BY <1>3, <1>4, ConcatFacts, Zenon
<1>6b. \A i \in 1..Len(events[t]) : (events[t] \o new)[i] = events[t][i]
  BY <1>3, <1>4, ConcatFacts, Zenon
<1>6c. \A i \in 1..Len(new) : (events[t] \o new)[Len(events[t]) + i] = new[i]
  <2> SUFFICES ASSUME NEW e \in Seq(Event)
               PROVE  \A i \in 1..Len(new) : (e \o new)[Len(e) + i] = new[i]
    BY <1>4
  <2> QED BY <1>3, ConcatFacts
<1>7. events' \in [Tasks -> Seq(Event)]
  BY <1>5, <1>6a
<1>8. events'[t] = events[t] \o new
  BY <1>5
<1>9. nextId' = [nextId EXCEPT ![t] = @ + Len(kinds)]
  BY DEF Push
<1>10. \A i \in 1..Len(kinds) : new[i] = [id |-> nextId[t] + i - 1, kind |-> kinds[i]]
  BY DEF new
<1>11. nextId' \in [Tasks -> Nat] /\ nextId'[t] = nextId[t] + Len(kinds)
  BY <1>1, <1>9
<1>12. \A u \in Tasks \ {t} : events'[u] = events[u] /\ nextId'[u] = nextId[u]
  BY <1>5, <1>9
<1> QED BY <1>3, <1>6a, <1>6b, <1>6c, <1>7, <1>8, <1>10, <1>11, <1>12

-----------------------------------------------------------------------------
\* Type correctness.

LEMMA PurgedType ==
  ASSUME TypeOK, NEW c \in [Sessions -> Tasks \cup {None}]
  PROVE  Purged(c) \in [Sessions -> Tasks \cup {None}]
BY DEF Purged

\* The registries and the outcome after the finally block.
LEMMA FinishType ==
  ASSUME TypeOK, NEW t \in Tasks, NEW st \in Statuses, Finish(t, st)
  PROVE  /\ slot' \in [Sessions -> Tasks \cup {None}]
         /\ completed' \in [Sessions -> Tasks \cup {None}]
         /\ pc' \in [Tasks -> Stages]
         /\ status' \in [Tasks -> Statuses]
         /\ finished' \in [Tasks -> Nat]
<1>1. [completed EXCEPT ![owner[t]] = t] \in [Sessions -> Tasks \cup {None}]
  BY DEF TypeOK
<1>2. completed' \in [Sessions -> Tasks \cup {None}]
  BY <1>1, PurgedType DEF Finish
<1> QED BY <1>2 DEF TypeOK, Finish, GoTo, Stages

LEMMA TypeRunStep ==
  ASSUME TypeOK, NEW t \in Tasks, RunStep(t)
  PROVE  TypeOK'
<1> USE DEF registry, run, log, inserts, clock, closing
<1>1. CASE BeginRun(t)
  BY <1>1 DEF TypeOK, BeginRun, GoTo, Stages, Parked
<1>2. CASE CancelUnstarted(t)
  BY <1>2 DEF TypeOK, CancelUnstarted, GoTo, Stages
<1>3. CASE SnapshotTaken(t)
  BY <1>3 DEF TypeOK, SnapshotTaken, GoTo, Stages, Parked
<1>4. ASSUME NEW degraded \in BOOLEAN, NodeCreated(t, degraded)
      PROVE  TypeOK'
  <2> DEFINE kinds == IF degraded THEN <<"session", "warning">> ELSE <<"session">>
  <2>1. kinds \in Seq(EventKind)
    <3>1. CASE degraded
      BY <3>1 DEF EventKind
    <3>2. CASE ~degraded
      BY <3>2 DEF EventKind
    <3> QED BY <3>1, <3>2
  <2>2. Push(t, kinds)
    BY <1>4 DEF NodeCreated
  <2> HIDE DEF kinds
  <2>3. events' \in [Tasks -> Seq(Event)] /\ nextId' \in [Tasks -> Nat]
    BY <2>1, <2>2, PushFacts DEF TypeOK
  <2> QED BY <1>4, <2>3 DEF TypeOK, NodeCreated, GoTo, Stages, Parked
<1>5. CASE ContextResolved(t)
  BY <1>5 DEF TypeOK, ContextResolved, GoTo, Stages, Parked
<1>6. CASE StreamEvent(t)
  <2>1. <<"action">> \in Seq(EventKind) /\ Push(t, <<"action">>)
    BY <1>6 DEF EventKind, StreamEvent
  <2>2. events' \in [Tasks -> Seq(Event)] /\ nextId' \in [Tasks -> Nat]
    BY <2>1, PushFacts DEF TypeOK
  <2> QED BY <1>6, <2>2 DEF TypeOK, StreamEvent
<1>7. CASE InjectPending(t)
  <2>1. delivered[t] \o queue[t] \in Seq(Nat)
    <3>1. delivered[t] \in Seq(Nat) /\ queue[t] \in Seq(Nat)
      BY DEF TypeOK
    <3> QED BY <3>1, ConcatProperties, Zenon
  <2>2. delivered' \in [Tasks -> Seq(Nat)] /\ queue' \in [Tasks -> Seq(Nat)]
    BY <1>7, <2>1 DEF TypeOK, InjectPending
  <2> QED BY <1>7, <2>2 DEF TypeOK, InjectPending
<1>8. CASE PassEndsRun(t)
  <2>1. {<<queue[t][i], "interrupt">> : i \in DOMAIN queue[t]} \in SUBSET (Nat \X Reasons)
    <3>1. queue[t] \in Seq(Nat)
      BY DEF TypeOK
    <3>2. \A i \in DOMAIN queue[t] : queue[t][i] \in Nat
      BY <3>1, ElementOfSeq, LenProperties
    <3> QED BY <3>2 DEF Reasons
  <2> QED BY <1>8, <2>1 DEF TypeOK, PassEndsRun, GoTo, Stages, Parked
<1>9. CASE PassContinues(t)
  <2> DEFINE kinds == [i \in 1..Len(queue[t]) |-> "user_insert"]
  <2>1. kinds \in Seq(EventKind) /\ Push(t, kinds)
    BY <1>9, LenProperties DEF EventKind, PassContinues, TypeOK
  <2> HIDE DEF kinds
  <2>2. events' \in [Tasks -> Seq(Event)] /\ nextId' \in [Tasks -> Nat]
    BY <2>1, PushFacts DEF TypeOK
  <2>3. delivered[t] \o queue[t] \in Seq(Nat)
    <3>1. delivered[t] \in Seq(Nat) /\ queue[t] \in Seq(Nat)
      BY DEF TypeOK
    <3> QED BY <3>1, ConcatProperties, Zenon
  <2>4. delivered' \in [Tasks -> Seq(Nat)] /\ queue' \in [Tasks -> Seq(Nat)]
    BY <1>9, <2>3 DEF TypeOK, PassContinues
  <2>5. continuations' \in [Tasks -> Nat] /\ interrupted' \in [Tasks -> BOOLEAN]
    BY <1>9 DEF TypeOK, PassContinues
  <2>6. UNCHANGED <<registry, owner, pc, status, hasNode, cancelReq, accepting,
                    accepted, dropped, clock, closing>>
    BY <1>9 DEF PassContinues
  <2> QED BY <2>2, <2>4, <2>5, <2>6 DEF TypeOK
<1>10. CASE PassCapped(t)
  <2>1. {<<queue[t][i], "cap">> : i \in DOMAIN queue[t]} \in SUBSET (Nat \X Reasons)
    <3>1. queue[t] \in Seq(Nat)
      BY DEF TypeOK
    <3>2. \A i \in DOMAIN queue[t] : queue[t][i] \in Nat
      BY <3>1, ElementOfSeq, LenProperties
    <3> QED BY <3>2 DEF Reasons
  <2>2. dropped' \in [Tasks -> SUBSET (Nat \X Reasons)] /\ queue' \in [Tasks -> Seq(Nat)]
    BY <1>10, <2>1 DEF TypeOK, PassCapped
  <2>3. /\ continuations' \in [Tasks -> Nat] /\ accepting' \in [Tasks -> BOOLEAN]
        /\ pc' \in [Tasks -> Stages]
    BY <1>10 DEF TypeOK, PassCapped, GoTo, Stages, Parked
  <2>4. UNCHANGED <<registry, owner, status, hasNode, interrupted, cancelReq, log,
                    accepted, delivered, clock, closing>>
    BY <1>10 DEF PassCapped
  <2> QED BY <2>2, <2>3, <2>4 DEF TypeOK
<1>11. CASE ContextPersisted(t)
  BY <1>11 DEF TypeOK, ContextPersisted, GoTo, Stages, Parked
<1>12. CASE RunCompletes(t)
  <2>1. <<"end">> \in Seq(EventKind) /\ Push(t, <<"end">>)
    BY <1>12 DEF EventKind, RunCompletes
  <2>2. events' \in [Tasks -> Seq(Event)] /\ nextId' \in [Tasks -> Nat]
    BY <2>1, PushFacts DEF TypeOK
  <2>3. Finish(t, "completed") /\ "completed" \in Statuses
    BY <1>12 DEF RunCompletes, Statuses
  <2> QED BY <1>12, <2>2, <2>3, FinishType DEF TypeOK, RunCompletes
<1>13. ASSUME NEW node \in BOOLEAN, RunFails(t, node)
       PROVE  TypeOK'
  <2>1. <<"error">> \in Seq(EventKind) /\ Push(t, <<"error">>)
    BY <1>13 DEF EventKind, RunFails
  <2>2. events' \in [Tasks -> Seq(Event)] /\ nextId' \in [Tasks -> Nat]
    BY <2>1, PushFacts DEF TypeOK
  <2>3. Finish(t, "error") /\ "error" \in Statuses
    BY <1>13 DEF RunFails, Statuses
  <2> QED BY <1>13, <2>2, <2>3, FinishType DEF TypeOK, RunFails
<1>14. CASE CancelDelivered(t)
  <2>1. Finish(t, "cancelled") /\ "cancelled" \in Statuses
    BY <1>14 DEF CancelDelivered, Statuses
  <2> QED BY <1>14, <2>1, FinishType DEF TypeOK, CancelDelivered
<1> QED
  BY <1>1, <1>2, <1>3, <1>4, <1>5, <1>6, <1>7, <1>8, <1>9, <1>10, <1>11,
     <1>12, <1>13, <1>14 DEF RunStep

LEMMA TypeNext == TypeOK /\ [Next]_vars => TypeOK'
<1> SUFFICES ASSUME TypeOK, [Next]_vars PROVE TypeOK'
  OBVIOUS
<1> USE DEF registry, run, log, inserts, clock, closing
<1>1. ASSUME NEW t \in Tasks, RunStep(t) PROVE TypeOK'
  BY <1>1, TypeRunStep
<1>2. ASSUME NEW t \in Tasks, NEW s \in Sessions, StartChat(t, s) PROVE TypeOK'
  BY <1>2 DEF TypeOK, StartChat, GoTo, Stages
<1>3. ASSUME NEW s \in Sessions, StopTask(s) PROVE TypeOK'
  BY <1>3 DEF TypeOK, StopTask
<1>4. ASSUME NEW s \in Sessions, InsertMessage(s) PROVE TypeOK'
  <2> DEFINE t == GetTask(s)
             n == accepted[t] + 1
  <2>1. t \in Tasks /\ n \in Nat
    BY <1>4 DEF InsertMessage, QueueInput, TakesInserts, GetTask, TypeOK
  <2>2. queue[t] \in Seq(Nat) /\ Len(queue[t]) \in Nat
    BY <2>1, LenProperties DEF TypeOK
  <2>3. CASE Len(queue[t]) < QueueCap
    <3>1. Append(queue[t], n) \in Seq(Nat)
      BY <2>1, <2>2, AppendProperties
    <3> QED BY <1>4, <2>1, <2>3, <3>1 DEF TypeOK, InsertMessage, QueueInput, TakesInserts
  <2>4. CASE ~(Len(queue[t]) < QueueCap)
    <3>1. queue[t] # <<>>
      BY <2>2, <2>4, BoundsAssumption
    <3>2. Head(queue[t]) \in Nat /\ Tail(queue[t]) \in Seq(Nat)
      BY <2>2, <3>1, HeadTailProperties
    <3>3. Append(Tail(queue[t]), n) \in Seq(Nat)
      BY <2>1, <3>2, AppendProperties, Zenon
    <3>4. queue' \in [Tasks -> Seq(Nat)]
      BY <1>4, <2>1, <2>4, <3>3 DEF TypeOK, InsertMessage, QueueInput, TakesInserts
    <3>5. dropped' \in [Tasks -> SUBSET (Nat \X Reasons)]
      <4>1. {<<Head(queue[t]), "overflow">>} \in SUBSET (Nat \X Reasons)
        BY <3>2 DEF Reasons
      <4>2. dropped' = [dropped EXCEPT ![t] = @ \cup {<<Head(queue[t]), "overflow">>}]
        BY <1>4, <2>4 DEF InsertMessage, QueueInput, TakesInserts
      <4> QED BY <2>1, <4>1, <4>2 DEF TypeOK
    <3>6. accepted' \in [Tasks -> Nat]
      BY <1>4, <2>1 DEF TypeOK, InsertMessage, QueueInput, TakesInserts
    <3>7. UNCHANGED <<registry, run, log, accepting, continuations, delivered,
                      clock, closing>>
      BY <1>4 DEF InsertMessage, QueueInput, TakesInserts
    <3> QED BY <3>4, <3>5, <3>6, <3>7 DEF TypeOK
  <2> QED BY <2>3, <2>4
<1>5. CASE ShutdownBegin
  BY <1>5 DEF TypeOK, ShutdownBegin, Pending, Registered
<1>6. CASE ShutdownIdle
  BY <1>6 DEF TypeOK, ShutdownIdle, ClearRegistries
<1>7. CASE ShutdownEnd
  BY <1>7 DEF TypeOK, ShutdownEnd, ClearRegistries
<1>8. CASE Tick
  BY <1>8 DEF TypeOK, Tick
<1>9. CASE UNCHANGED vars
  BY <1>9 DEF TypeOK, vars
<1> QED
  BY <1>1, <1>2, <1>3, <1>4, <1>5, <1>6, <1>7, <1>8, <1>9 DEF Next, Idle

LEMMA TypeInit == Init => TypeOK
BY DEF Init, TypeOK, Stages, Statuses

\* Type correctness of the chat task manager, for all parameters.
LEMMA TypeCorrect == Spec => []TypeOK
BY TypeInit, TypeNext, PTL DEF Spec

-----------------------------------------------------------------------------
\* Event ids.  The two copies of the position, the local event_id and the
\* buffer's length, agree at every step.

IdInv ==
    \A t \in Tasks :
        /\ nextId[t] = Len(events[t])
        /\ \A i \in 1..Len(events[t]) : events[t][i].id = i - 1

LEMMA PushKeepsIds ==
  ASSUME TypeOK, IdInv, NEW t \in Tasks, NEW kinds \in Seq(EventKind), Push(t, kinds)
  PROVE  IdInv'
<1> DEFINE n == Len(events[t])
           k == Len(kinds)
<1>1. n \in Nat /\ k \in Nat /\ nextId[t] = n
  BY LenProperties DEF TypeOK, IdInv
<1>2. /\ nextId'[t] = nextId[t] + k
      /\ Len(events'[t]) = n + k
      /\ \A i \in 1..n : events'[t][i] = events[t][i]
      /\ \A i \in 1..k :
            events'[t][n + i] = [id |-> nextId[t] + i - 1, kind |-> kinds[i]]
      /\ \A u \in Tasks \ {t} : events'[u] = events[u] /\ nextId'[u] = nextId[u]
  BY PushFacts DEF TypeOK
<1>3. \A i \in 1..n : events[t][i].id = i - 1
  BY DEF IdInv
<1> HIDE DEF n, k
<1>3a. \A i \in 1..n : events'[t][i].id = i - 1
  BY <1>2, <1>3
<1>4. ASSUME NEW i \in 1..k PROVE events'[t][n + i].id = n + i - 1
  <2>1. events'[t][n + i] = [id |-> nextId[t] + i - 1, kind |-> kinds[i]]
    BY <1>2
  <2> QED BY <1>1, <2>1
<1>5. \A i \in 1..(n + k) : events'[t][i].id = i - 1
  <2> TAKE i \in 1..(n + k)
  <2>1. CASE i \in 1..n
    BY <2>1, <1>3a
  <2>2. CASE i \notin 1..n
    <3>1. PICK j \in 1..k : i = n + j
      <4>1. i - n \in 1..k /\ i = n + (i - n)
        BY <2>2, <1>1
      <4> QED BY <4>1
    <3>2. events'[t][n + j].id = n + j - 1
      BY <1>4, Zenon
    <3>3. n + j - 1 = i - 1
      BY <3>1, <1>1
    <3> QED BY <3>1, <3>2, <3>3, Zenon
  <2> QED BY <2>1, <2>2
<1>6. nextId'[t] = Len(events'[t]) /\ \A i \in 1..Len(events'[t]) : events'[t][i].id = i - 1
  BY <1>1, <1>2, <1>5 DEF n, k
<1>7. \A u \in Tasks \ {t} : /\ nextId'[u] = Len(events'[u])
                             /\ \A i \in 1..Len(events'[u]) : events'[u][i].id = i - 1
  BY <1>2 DEF IdInv
<1> QED BY <1>6, <1>7 DEF IdInv

\* What a run pushes before it ends.
Ongoing == EventKind \ {"end", "error"}

\* Every step of a run pushes to its own buffer or leaves the log alone, and
\* "end" and "error" are pushed only by the step that ends the run so.
LEMMA RunStepLog ==
  ASSUME TypeOK, NEW t \in Tasks, RunStep(t)
  PROVE  \/ pc'[t] # "done" /\ \E kinds \in Seq(Ongoing) : Push(t, kinds)
         \/ Finish(t, "completed") /\ Push(t, <<"end">>)
         \/ Finish(t, "error") /\ Push(t, <<"error">>)
         \/ UNCHANGED log /\ (pc'[t] # "done" \/ Finish(t, "cancelled"))
<1> USE DEF GoTo, At
<1>1. ASSUME NEW degraded \in BOOLEAN, NodeCreated(t, degraded)
      PROVE  pc'[t] # "done" /\ \E kinds \in Seq(Ongoing) : Push(t, kinds)
  <2>1. CASE degraded
    <3>1. <<"session", "warning">> \in Seq(Ongoing) /\ Push(t, <<"session", "warning">>)
      BY <1>1, <2>1 DEF EventKind, Ongoing, NodeCreated
    <3> QED BY <1>1, <3>1 DEF NodeCreated, TypeOK
  <2>2. CASE ~degraded
    <3>1. <<"session">> \in Seq(Ongoing) /\ Push(t, <<"session">>)
      BY <1>1, <2>2 DEF EventKind, Ongoing, NodeCreated
    <3> QED BY <1>1, <3>1 DEF NodeCreated, TypeOK
  <2> QED BY <2>1, <2>2
<1>2. ASSUME StreamEvent(t)
      PROVE  pc'[t] # "done" /\ \E kinds \in Seq(Ongoing) : Push(t, kinds)
  <2>1. <<"action">> \in Seq(Ongoing) /\ Push(t, <<"action">>)
    BY <1>2 DEF EventKind, Ongoing, StreamEvent
  <2> QED BY <1>2, <2>1 DEF StreamEvent, run
<1>3. ASSUME PassContinues(t)
      PROVE  pc'[t] # "done" /\ \E kinds \in Seq(Ongoing) : Push(t, kinds)
  <2> DEFINE kinds == [i \in 1..Len(queue[t]) |-> "user_insert"]
  <2>1. kinds \in Seq(Ongoing) /\ Push(t, kinds)
    BY <1>3, LenProperties DEF EventKind, Ongoing, PassContinues, TypeOK
  <2> HIDE DEF kinds
  <2>2. pc'[t] # "done"
    BY <1>3 DEF PassContinues
  <2> QED BY <2>1, <2>2
<1>4. ASSUME RunCompletes(t) PROVE Finish(t, "completed") /\ Push(t, <<"end">>)
  BY <1>4 DEF RunCompletes
<1>5. ASSUME NEW node \in BOOLEAN, RunFails(t, node)
      PROVE  Finish(t, "error") /\ Push(t, <<"error">>)
  BY <1>5 DEF RunFails
<1>6. ASSUME \/ BeginRun(t) \/ CancelUnstarted(t) \/ SnapshotTaken(t)
             \/ ContextResolved(t) \/ PassEndsRun(t) \/ PassCapped(t)
             \/ ContextPersisted(t)
      PROVE  UNCHANGED log /\ pc'[t] # "done"
  BY <1>6 DEF BeginRun, CancelUnstarted, SnapshotTaken, ContextResolved,
     PassEndsRun, PassCapped, ContextPersisted, log, TypeOK
<1>7. ASSUME InjectPending(t) PROVE UNCHANGED log /\ pc'[t] # "done"
  BY <1>7 DEF InjectPending, log, run
<1>8. ASSUME CancelDelivered(t) PROVE UNCHANGED log /\ Finish(t, "cancelled")
  BY <1>8 DEF CancelDelivered, log
<1> QED BY <1>1, <1>2, <1>3, <1>4, <1>5, <1>6, <1>7, <1>8, Zenon DEF RunStep

LEMMA IdNext == TypeOK /\ IdInv /\ [Next]_vars => IdInv'
<1> SUFFICES ASSUME TypeOK, IdInv, [Next]_vars PROVE IdInv'
  OBVIOUS
<1>1. ASSUME UNCHANGED log PROVE IdInv'
  BY <1>1 DEF IdInv, log
<1>2. ASSUME NEW t \in Tasks, RunStep(t) PROVE IdInv'
  <2>1. <<"end">> \in Seq(EventKind) /\ <<"error">> \in Seq(EventKind)
    BY DEF EventKind
  <2>2. \A kinds \in Seq(Ongoing) : kinds \in Seq(EventKind)
    BY SeqMonotonic DEF Ongoing
  <2>3. (\E kinds \in Seq(EventKind) : Push(t, kinds)) \/ UNCHANGED log
    BY <1>2, <2>1, <2>2, RunStepLog
  <2> QED BY <1>1, <2>3, PushKeepsIds
<1>3. ASSUME \/ \E t \in Tasks, s \in Sessions : StartChat(t, s)
             \/ \E s \in Sessions : StopTask(s) \/ InsertMessage(s)
             \/ ShutdownBegin \/ ShutdownIdle \/ ShutdownEnd \/ Tick
             \/ UNCHANGED vars
      PROVE  UNCHANGED log
  BY <1>3 DEF StartChat, StopTask, InsertMessage, ShutdownBegin, ShutdownIdle,
     ShutdownEnd, Tick, vars, log
<1> QED BY <1>1, <1>2, <1>3 DEF Next, Idle

\* The id of every streamed event is its index in the buffer: a resuming
\* client's from_event_id selects exactly the events it has not seen.
THEOREM EventIdsCorrect == Spec => []EventIdsAreIndices
<1>1. Init => IdInv
  BY DEF Init, IdInv
<1>2. IdInv /\ TypeOK => EventIdsAreIndices
  BY LenProperties DEF IdInv, EventIdsAreIndices, TypeOK
<1> QED BY <1>1, <1>2, IdNext, TypeCorrect, PTL DEF Spec

-----------------------------------------------------------------------------
\* The registry.

\* What a step of a run does to its stage and its slot: it moves on, or ends
\* and gives the slot of its session back.
LEMMA RunStepShape ==
  ASSUME TypeOK, NEW t \in Tasks, RunStep(t)
  PROVE  /\ Live(t)
         /\ UNCHANGED <<owner, closing>>
         /\ pc'[t] # "unborn"
         /\ \A u \in Tasks \ {t} : pc'[u] = pc[u] /\ status'[u] = status[u]
         /\ \/ pc'[t] # "done" /\ slot' = slot /\ status' = status
            \/ /\ pc'[t] = "done"
               /\ slot' = [slot EXCEPT ![owner[t]] = None]
               /\ status'[t] # "running"
<1> USE DEF registry, run, log, inserts, clock, closing, Live, At, GoTo, Parked
<1>1. CASE BeginRun(t) \/ CancelUnstarted(t) \/ SnapshotTaken(t) \/ ContextResolved(t)
  BY <1>1 DEF TypeOK, BeginRun, CancelUnstarted, SnapshotTaken, ContextResolved
<1>2. ASSUME NEW degraded \in BOOLEAN, NodeCreated(t, degraded)
      PROVE  /\ pc[t] = "init" /\ pc' = [pc EXCEPT ![t] = "resolve"]
             /\ UNCHANGED <<owner, closing, slot, status>>
  BY <1>2 DEF NodeCreated
<1>3. CASE StreamEvent(t) \/ InjectPending(t)
  BY <1>3 DEF StreamEvent, InjectPending
<1>4. CASE PassEndsRun(t) \/ PassCapped(t) \/ PassContinues(t) \/ ContextPersisted(t)
  <2>1. /\ pc[t] \in {"pass", "persist"}
        /\ pc' = pc \/ pc' = [pc EXCEPT ![t] = "persist"] \/ pc' = [pc EXCEPT ![t] = "usage"]
        /\ UNCHANGED <<owner, closing, slot, status>>
    BY <1>4 DEF PassEndsRun, PassCapped, PassContinues, ContextPersisted
  <2> QED BY <2>1 DEF TypeOK
<1>5. ASSUME NEW st \in {"completed", "error", "cancelled"}, Finish(t, st)
      PROVE  /\ \A u \in Tasks \ {t} : pc'[u] = pc[u] /\ status'[u] = status[u]
             /\ pc'[t] = "done"
             /\ slot' = [slot EXCEPT ![owner[t]] = None]
             /\ status'[t] # "running"
  BY <1>5 DEF TypeOK, Finish
<1>6. CASE RunCompletes(t)
  BY <1>5, <1>6 DEF RunCompletes
<1>7. ASSUME NEW node \in BOOLEAN, RunFails(t, node)
      PROVE  Finish(t, "error") /\ UNCHANGED <<owner, closing>> /\ Live(t)
  BY <1>7 DEF RunFails
<1>8. CASE CancelDelivered(t)
  BY <1>5, <1>8 DEF CancelDelivered
<1>9. CASE \E degraded \in BOOLEAN : NodeCreated(t, degraded)
  BY <1>2, <1>9 DEF TypeOK
<1>10. CASE \E node \in BOOLEAN : RunFails(t, node)
  BY <1>5, <1>7, <1>10
<1> QED BY <1>1, <1>3, <1>4, <1>6, <1>8, <1>9, <1>10 DEF RunStep

\* A session in whose name no run was started while shutdown() waited.
Regular(t) == owner[t] \notin late

\* In a regular session the registry and the runs are each other's inverse, and a
\* shutdown() that waits knows every live run of those sessions.
SlotInv ==
    /\ \A t \in Tasks : Live(t) =>
          owner[t] \in Sessions /\ (Regular(t) => slot[owner[t]] = t)
    /\ \A s \in Sessions : slot[s] # None =>
          owner[slot[s]] = s /\ pc[slot[s]] \notin {"unborn", "done"}
    /\ shutdown = "none" => late = {}
    /\ shutdown = "gathering" =>
          \A t \in Tasks : Live(t) /\ Regular(t) => t \in gathered

LEMMA SlotRunStep ==
  ASSUME TypeOK, SlotInv, NEW t \in Tasks, RunStep(t)
  PROVE  SlotInv'
<1> USE DEF closing, Live, Regular
<1>1. /\ Live(t)
      /\ owner' = owner /\ shutdown' = shutdown /\ gathered' = gathered /\ late' = late
      /\ pc'[t] # "unborn"
      /\ \A u \in Tasks \ {t} : pc'[u] = pc[u]
  BY RunStepShape
<1>2. CASE pc'[t] # "done" /\ slot' = slot
  <2>1. \A u \in Tasks : Live(u)' => Live(u)
    BY <1>1
  <2>2. \A u \in Tasks : pc[u] \notin {"unborn", "done"} => pc'[u] \notin {"unborn", "done"}
    BY <1>1, <1>2
  <2>3. \A s \in Sessions : slot[s] # None => slot[s] \in Tasks
    BY DEF TypeOK
  <2> QED BY <1>1, <1>2, <2>1, <2>2, <2>3 DEF SlotInv
<1>3. CASE pc'[t] = "done" /\ slot' = [slot EXCEPT ![owner[t]] = None]
  <2>1. \A u \in Tasks : Live(u)' => Live(u) /\ u # t
    BY <1>1, <1>3
  <2>2. \A u \in Tasks : Live(u)' =>
          owner'[u] \in Sessions /\ (owner'[u] \notin late' => slot'[owner'[u]] = u)
    <3> SUFFICES ASSUME NEW u \in Tasks, Live(u)'
                 PROVE  owner[u] \in Sessions /\ (owner[u] \notin late => slot'[owner[u]] = u)
      BY <1>1
    <3>1. Live(u) /\ u # t
      BY <2>1
    <3>2. owner[u] \in Sessions /\ owner[t] \in Sessions
      BY <1>1, <3>1 DEF SlotInv
    <3>3. owner[u] \notin late => owner[u] # owner[t]
      BY <1>1, <3>1 DEF SlotInv
    <3> QED BY <1>3, <3>1, <3>2, <3>3 DEF SlotInv, TypeOK
  <2>3. \A s \in Sessions : slot'[s] # None =>
          owner'[slot'[s]] = s /\ pc'[slot'[s]] \notin {"unborn", "done"}
    <3> SUFFICES ASSUME NEW s \in Sessions, slot'[s] # None
                 PROVE  owner[slot'[s]] = s /\ pc'[slot'[s]] \notin {"unborn", "done"}
      BY <1>1
    <3>1. s # owner[t] /\ slot'[s] = slot[s] /\ slot[s] \in Tasks
      BY <1>1, <1>3 DEF TypeOK, SlotInv
    <3>2. slot[s] # t
      BY <3>1, NoneAssumption DEF SlotInv
    <3> QED BY <1>1, <3>1, <3>2, NoneAssumption DEF SlotInv
  <2> QED BY <1>1, <2>1, <2>2, <2>3 DEF SlotInv
<1> QED BY <1>2, <1>3, RunStepShape

LEMMA SlotNext == TypeOK /\ SlotInv /\ [Next]_vars => SlotInv'
<1> SUFFICES ASSUME TypeOK, SlotInv, [Next]_vars PROVE SlotInv'
  OBVIOUS
<1> USE DEF registry, run, log, inserts, clock, closing, Live, Regular
<1>1. ASSUME NEW t \in Tasks, RunStep(t) PROVE SlotInv'
  BY <1>1, SlotRunStep
<1>2. ASSUME NEW t \in Tasks, NEW s \in Sessions, StartChat(t, s) PROVE SlotInv'
  <2>1. /\ pc[t] = "unborn" /\ slot[s] = None
        /\ slot' = [slot EXCEPT ![s] = t]
        /\ owner' = [owner EXCEPT ![t] = s]
        /\ pc' = [pc EXCEPT ![t] = "scheduled"]
        /\ shutdown' = shutdown /\ gathered' = gathered
        /\ late' = late \cup (IF shutdown = "gathering" THEN {s} ELSE {})
    BY <1>2 DEF StartChat, SessionFree, GoTo
  <2>2. \A u \in Tasks \ {t} : Live(u) /\ owner[u] \notin late => owner[u] # s
    BY <2>1, NoneAssumption DEF SlotInv
  <2>3. \A u \in Tasks : Live(u)' =>
          owner'[u] \in Sessions /\ (owner'[u] \notin late' => slot'[owner'[u]] = u)
    BY <2>1, <2>2 DEF SlotInv, TypeOK
  <2>4. \A r \in Sessions : slot'[r] # None =>
          owner'[slot'[r]] = r /\ pc'[slot'[r]] \notin {"unborn", "done"}
    <3> SUFFICES ASSUME NEW r \in Sessions, slot'[r] # None
                 PROVE  owner'[slot'[r]] = r /\ pc'[slot'[r]] \notin {"unborn", "done"}
      OBVIOUS
    <3>1. CASE r = s
      BY <2>1, <3>1 DEF TypeOK
    <3>2. CASE r # s
      <4>1. slot'[r] = slot[r] /\ slot[r] \in Tasks
        BY <2>1, <3>2 DEF TypeOK
      <4>2. owner[slot[r]] = r /\ pc[slot[r]] \notin {"unborn", "done"}
        BY <4>1 DEF SlotInv
      <4> QED BY <2>1, <4>1, <4>2 DEF TypeOK
    <3> QED BY <3>1, <3>2
  <2>5. shutdown' = "none" => late' = {}
    BY <2>1 DEF SlotInv
  <2>6. shutdown' = "gathering" =>
          \A u \in Tasks : Live(u)' /\ owner'[u] \notin late' => u \in gathered'
    BY <2>1 DEF SlotInv, TypeOK
  <2> QED BY <2>3, <2>4, <2>5, <2>6 DEF SlotInv
<1>3. ASSUME \/ \E s \in Sessions : StopTask(s) \/ InsertMessage(s)
             \/ Tick \/ UNCHANGED vars
      PROVE  SlotInv'
  <2>1. UNCHANGED <<slot, owner, pc, shutdown, gathered, late>>
    BY <1>3 DEF StopTask, InsertMessage, Tick, vars
  <2> QED BY <2>1 DEF SlotInv
<1>4. CASE ShutdownBegin
  <2>1. /\ UNCHANGED <<slot, owner, pc, late>>
        /\ shutdown' = "gathering" /\ gathered' = Pending
    BY <1>4 DEF ShutdownBegin
  <2>2. \A t \in Tasks : Live(t) /\ owner[t] \notin late => t \in Pending
    BY DEF SlotInv, Pending, Registered, TaskDone
  <2> QED BY <2>1, <2>2 DEF SlotInv
<1>5. CASE ShutdownIdle \/ ShutdownEnd
  <2>1. /\ slot' = [s \in Sessions |-> None] /\ shutdown' = "stopped"
        /\ UNCHANGED <<owner, pc, late>>
    BY <1>5 DEF ShutdownIdle, ShutdownEnd, ClearRegistries
  <2>2. \A t \in Tasks : Live(t) => owner[t] \in late
    <3>1. CASE ShutdownIdle
      BY <3>1 DEF ShutdownIdle, SlotInv, Pending, Registered, TaskDone
    <3>2. CASE ShutdownEnd
      BY <3>2 DEF ShutdownEnd, SlotInv, TaskDone
    <3> QED BY <1>5, <3>1, <3>2
  <2> QED BY <2>1, <2>2 DEF SlotInv
<1> QED BY <1>1, <1>2, <1>3, <1>4, <1>5 DEF Next, Idle

\* A live run holds the slot of its session, so it can be stopped, resumed and
\* waited for, and no other run of the session is live - except in a session where
\* a run was started while shutdown() waited.
THEOREM RegistryCorrect == Spec => []RegistrySound
<1>1. Init => SlotInv
  BY DEF Init, SlotInv, Live
<1>2. TypeOK /\ SlotInv => RegistrySound
  BY DEF SlotInv, RegistrySound, Regular
<1>3. TypeOK /\ SlotInv /\ [Next]_vars => SlotInv'
  BY SlotNext
<1> QED BY <1>1, <1>2, <1>3, TypeCorrect, PTL DEF Spec

-----------------------------------------------------------------------------
\* How a run ended, as its buffer tells it.

\* The only events that say "end" or "error" are the last of a run with that
\* outcome; a run that is not done is "running".
OutcomeOf(st, stage, buffer) ==
    /\ st = "running" <=> stage # "done"
    /\ \A i \in 1..Len(buffer) :
          /\ buffer[i].kind = "end" => st = "completed" /\ i = Len(buffer)
          /\ buffer[i].kind = "error" => st = "error" /\ i = Len(buffer)
    /\ st = "completed" => Len(buffer) > 0 /\ buffer[Len(buffer)].kind = "end"
    /\ st = "error" => Len(buffer) > 0 /\ buffer[Len(buffer)].kind = "error"

OutcomeInv == \A t \in Tasks : OutcomeOf(status[t], pc[t], events[t])

LEMMA OutcomeGivesLog == TypeOK /\ OutcomeInv => LogTellsOutcome
<1> SUFFICES ASSUME TypeOK, OutcomeInv, NEW t \in Tasks
             PROVE  LET terminal == {i \in DOMAIN events[t] : events[t][i].kind \in {"end", "error"}}
                    IN  /\ terminal # {} => terminal = {Len(events[t])}
                        /\ status[t] = "completed" <=>
                               \E i \in terminal : events[t][i].kind = "end"
                        /\ status[t] = "error" <=>
                               \E i \in terminal : events[t][i].kind = "error"
  BY DEF LogTellsOutcome
<1> DEFINE n == Len(events[t])
           terminal == {i \in 1..n : events[t][i].kind \in {"end", "error"}}
<1>1. n \in Nat /\ DOMAIN events[t] = 1..n
  BY LenProperties DEF TypeOK
<1>2. \A i \in terminal : i = n
  BY DEF OutcomeInv, OutcomeOf
<1>3. terminal # {} => terminal = {n}
  BY <1>2
<1>4. status[t] = "completed" <=> \E i \in terminal : events[t][i].kind = "end"
  BY <1>1 DEF OutcomeInv, OutcomeOf
<1>5. status[t] = "error" <=> \E i \in terminal : events[t][i].kind = "error"
  BY <1>1 DEF OutcomeInv, OutcomeOf
<1> QED BY <1>1, <1>3, <1>4, <1>5

LEMMA OutcomeRunStep ==
  ASSUME TypeOK, OutcomeInv, NEW t \in Tasks, RunStep(t)
  PROVE  OutcomeInv'
<1> DEFINE n == Len(events[t])
<1>1. /\ n \in Nat
      /\ pc[t] # "done" /\ status[t] = "running"
      /\ \A u \in Tasks \ {t} : pc'[u] = pc[u] /\ status'[u] = status[u]
      /\ pc'[t] # "done" => status' = status
  BY RunStepShape, LenProperties DEF TypeOK, Live, OutcomeInv, OutcomeOf
<1>2. \A i \in 1..n : events[t][i].kind \notin {"end", "error"}
  BY <1>1 DEF OutcomeInv, OutcomeOf
<1>3. ASSUME NEW kinds \in Seq(EventKind), Push(t, kinds)
      PROVE  /\ Len(kinds) \in Nat /\ Len(events'[t]) = n + Len(kinds)
             /\ \A i \in 1..n : events'[t][i] = events[t][i]
             /\ \A i \in 1..Len(kinds) : events'[t][n + i].kind = kinds[i]
             /\ \A u \in Tasks \ {t} : events'[u] = events[u]
  <2>1. Len(kinds) \in Nat
    BY LenProperties
  <2>2. /\ Len(events'[t]) = n + Len(kinds)
        /\ \A i \in 1..n : events'[t][i] = events[t][i]
        /\ \A i \in 1..Len(kinds) :
              events'[t][n + i] = [id |-> nextId[t] + i - 1, kind |-> kinds[i]]
        /\ \A u \in Tasks \ {t} : events'[u] = events[u]
    BY <1>3, PushFacts, Zenon DEF TypeOK
  <2>3. \A i \in 1..Len(kinds) : events'[t][n + i].kind = kinds[i]
    <3> TAKE i \in 1..Len(kinds)
    <3>1. events'[t][n + i] = [id |-> nextId[t] + i - 1, kind |-> kinds[i]]
      BY <2>2, Zenon
    <3> QED BY <3>1
  <2> QED BY <2>1, <2>2, <2>3
<1>3a. ASSUME \A u \in Tasks \ {t} : events'[u] = events[u],
              OutcomeOf(status'[t], pc'[t], events'[t])
       PROVE  OutcomeInv'
  BY <1>1, <1>3a DEF OutcomeInv
<1>4. CASE pc'[t] # "done" /\ \E kinds \in Seq(Ongoing) : Push(t, kinds)
  <2>1. PICK kinds \in Seq(Ongoing) : Push(t, kinds)
    BY <1>4
  <2>2. kinds \in Seq(EventKind) /\ \A i \in 1..Len(kinds) : kinds[i] \notin {"end", "error"}
    BY <2>1, SeqMonotonic, ElementOfSeq DEF Ongoing
  <2>3. \A i \in 1..Len(events'[t]) : events'[t][i].kind \notin {"end", "error"}
    <3> SUFFICES ASSUME NEW i \in 1..Len(events'[t])
                 PROVE  events'[t][i].kind \notin {"end", "error"}
      OBVIOUS
    <3>1. CASE i \in 1..n
      BY <1>2, <1>3, <2>1, <2>2, <3>1
    <3>2. CASE i \notin 1..n
      <4>1. PICK j \in 1..Len(kinds) : i = n + j
        <5>1. i - n \in 1..Len(kinds) /\ i = n + (i - n)
          BY <1>1, <1>3, <2>1, <2>2, <3>2
        <5> QED BY <5>1
      <4>2. events'[t][n + j].kind = kinds[j]
        BY <1>3, <2>1, <2>2
      <4> QED BY <2>2, <4>1, <4>2
    <3> QED BY <3>1, <3>2
  <2>4. OutcomeOf(status'[t], pc'[t], events'[t])
    BY <1>1, <1>4, <2>3 DEF OutcomeOf
  <2> QED BY <1>3, <1>3a, <2>1, <2>2, <2>4
<1>5. ASSUME NEW k \in {"end", "error"}, Push(t, <<k>>), pc'[t] = "done",
             status'[t] = IF k = "end" THEN "completed" ELSE "error"
      PROVE  OutcomeInv'
  <2>1. <<k>> \in Seq(EventKind) /\ Len(<<k>>) = 1 /\ <<k>>[1] = k
    BY DEF EventKind
  <2>2. /\ Len(events'[t]) = n + 1
        /\ \A i \in 1..n : events'[t][i].kind \notin {"end", "error"}
        /\ \A i \in 1..1 : events'[t][n + i].kind = <<k>>[i]
        /\ \A u \in Tasks \ {t} : events'[u] = events[u]
    BY <1>2, <1>3, <1>5, <2>1
  <2>3. events'[t][n + 1].kind = k
    BY <2>1, <2>2
  <2>4. OutcomeOf(status'[t], pc'[t], events'[t])
    BY <1>1, <1>5, <2>2, <2>3 DEF OutcomeOf
  <2> QED BY <1>3a, <2>2, <2>4
<1>6. CASE UNCHANGED log /\ pc'[t] # "done"
  BY <1>1, <1>6 DEF OutcomeInv, OutcomeOf, log
<1>7. CASE UNCHANGED log /\ Finish(t, "cancelled")
  <2>1. pc'[t] = "done" /\ status'[t] = "cancelled" /\ events' = events
    BY <1>7 DEF Finish, GoTo, TypeOK, log
  <2> QED BY <1>1, <1>2, <2>1 DEF OutcomeInv, OutcomeOf
<1>8. CASE Finish(t, "completed") /\ Push(t, <<"end">>)
  <2>1. pc'[t] = "done" /\ status'[t] = "completed"
    BY <1>8 DEF Finish, GoTo, TypeOK
  <2> QED BY <1>5, <1>8, <2>1
<1>9. CASE Finish(t, "error") /\ Push(t, <<"error">>)
  <2>1. pc'[t] = "done" /\ status'[t] = "error"
    BY <1>9 DEF Finish, GoTo, TypeOK
  <2> QED BY <1>5, <1>9, <2>1
<1> QED BY <1>4, <1>6, <1>7, <1>8, <1>9, RunStepLog

LEMMA OutcomeNext == TypeOK /\ OutcomeInv /\ [Next]_vars => OutcomeInv'
<1> SUFFICES ASSUME TypeOK, OutcomeInv, [Next]_vars PROVE OutcomeInv'
  OBVIOUS
<1>1. ASSUME NEW t \in Tasks, RunStep(t) PROVE OutcomeInv'
  BY <1>1, OutcomeRunStep
<1>2. ASSUME NEW t \in Tasks, NEW s \in Sessions, StartChat(t, s) PROVE OutcomeInv'
  <2>1. /\ pc[t] = "unborn" /\ pc' = [pc EXCEPT ![t] = "scheduled"]
        /\ UNCHANGED <<status, events>>
    BY <1>2 DEF StartChat, SessionFree, GoTo, log
  <2>2. \A u \in Tasks : pc'[u] # "done" <=> pc[u] # "done"
    BY <2>1 DEF TypeOK
  <2> QED BY <2>1, <2>2 DEF OutcomeInv, OutcomeOf
<1>3. ASSUME \/ \E s \in Sessions : StopTask(s) \/ InsertMessage(s)
             \/ ShutdownBegin \/ ShutdownIdle \/ ShutdownEnd \/ Tick
             \/ UNCHANGED vars
      PROVE  OutcomeInv'
  <2>1. UNCHANGED <<pc, status, events>>
    BY <1>3 DEF StopTask, InsertMessage, ShutdownBegin, ShutdownIdle,
       ShutdownEnd, Tick, vars, run, log
  <2> QED BY <2>1 DEF OutcomeInv, OutcomeOf
<1> QED BY <1>1, <1>2, <1>3 DEF Next, Idle

\* The buffer tells every reader how the run ended, and nothing is streamed
\* after the event that says so.
THEOREM OutcomeCorrect == Spec => []LogTellsOutcome
<1>1. Init => OutcomeInv
  BY DEF Init, OutcomeInv, OutcomeOf
<1> QED BY <1>1, OutcomeNext, OutcomeGivesLog, TypeCorrect, PTL DEF Spec

-----------------------------------------------------------------------------
\* The buffer of a run, as the contract its readers rely on.

\* What Push adds, in the contract's terms.
LEMMA PushAppends ==
  ASSUME TypeOK, IdInv, NEW t \in Tasks, NEW kinds \in Seq(EventKind), Push(t, kinds)
  PROVE  Log(t)!Appended(kinds) /\ Log(t)!Added = kinds
<1> DEFINE n == Len(events[t])
           k == Len(kinds)
<1>1. n \in Nat /\ k \in Nat /\ nextId[t] = n
  BY LenProperties DEF TypeOK, IdInv
<1>2. /\ Len(events'[t]) = n + k
      /\ \A i \in 1..n : events'[t][i] = events[t][i]
      /\ \A i \in 1..k :
            events'[t][n + i] = [id |-> nextId[t] + i - 1, kind |-> kinds[i]]
  BY PushFacts DEF TypeOK
<1>3. Log(t)!Appended(kinds)
  BY <1>1, <1>2 DEF Log!Appended
<1>4. Log(t)!Added = [i \in 1..k |-> events'[t][n + i].kind]
  BY <1>1, <1>2 DEF Log!Added
<1>5. ASSUME NEW i \in 1..k PROVE events'[t][n + i].kind = kinds[i]
  <2>1. events'[t][n + i] = [id |-> nextId[t] + i - 1, kind |-> kinds[i]]
    BY <1>2, Zenon
  <2> QED BY <2>1
<1>6. Log(t)!Added = [i \in 1..k |-> kinds[i]]
  BY <1>4, <1>5
<1>7. kinds = [i \in 1..k |-> kinds[i]]
  OBVIOUS
<1> QED BY <1>3, <1>6, <1>7

\* A run's own step is a step, or a stutter, of its buffer.
LEMMA LogOwnStep ==
  ASSUME TypeOK, IdInv, OutcomeInv, NEW t \in Tasks, RunStep(t)
  PROVE  [Log(t)!Next]_<<events[t], status[t]>>
<1>1. /\ pc[t] # "done" /\ status[t] = "running"
      /\ pc'[t] # "done" => status' = status
  BY RunStepShape DEF TypeOK, Live, OutcomeInv, OutcomeOf
<1>2. ASSUME NEW outcome \in {"completed", "error", "cancelled"}, Finish(t, outcome)
      PROVE  status'[t] = outcome
  BY <1>2 DEF Finish, TypeOK
<1>3. CASE pc'[t] # "done" /\ \E kinds \in Seq(Ongoing) : Push(t, kinds)
  <2>1. PICK kinds \in Seq(Ongoing) : Push(t, kinds)
    BY <1>3
  <2>2. kinds \in Seq(EventKind) /\ \A i \in DOMAIN kinds : kinds[i] \in Ongoing
    BY <2>1, SeqMonotonic, ElementOfSeq DEF Ongoing
  <2>3. Log(t)!Appended(Log(t)!Added) /\ \A i \in DOMAIN Log(t)!Added : Log(t)!Added[i] \in Ongoing
    BY <2>1, <2>2, PushAppends
  <2>4. Log(t)!Stream
    BY <1>1, <1>3, <2>3 DEF Log!Stream, Ongoing
  <2> QED BY <2>4 DEF Log!Next
<1>4. CASE Finish(t, "completed") /\ Push(t, <<"end">>)
  <2>1. <<"end">> \in Seq(EventKind)
    BY DEF EventKind
  <2>2. Log(t)!Close("completed")
    BY <1>1, <1>2, <1>4, <2>1, PushAppends DEF Log!Close, Log!Last
  <2> QED BY <2>2 DEF Log!Next, Log!Outcomes
<1>5. CASE Finish(t, "error") /\ Push(t, <<"error">>)
  <2>1. <<"error">> \in Seq(EventKind)
    BY DEF EventKind
  <2>2. Log(t)!Close("error")
    BY <1>1, <1>2, <1>5, <2>1, PushAppends DEF Log!Close, Log!Last
  <2> QED BY <2>2 DEF Log!Next, Log!Outcomes
<1>6. CASE UNCHANGED log /\ pc'[t] # "done"
  BY <1>1, <1>6 DEF log
<1>7. CASE UNCHANGED log /\ Finish(t, "cancelled")
  <2>1. Len(events[t]) \in Nat /\ events' = events
    BY <1>7, LenProperties DEF log, TypeOK
  <2>2. Log(t)!Appended(<<>>)
    BY <2>1 DEF Log!Appended
  <2>3. Log(t)!Close("cancelled")
    BY <1>1, <1>2, <1>7, <2>2 DEF Log!Close, Log!Last
  <2> QED BY <2>3 DEF Log!Next, Log!Outcomes
<1> QED BY <1>3, <1>4, <1>5, <1>6, <1>7, RunStepLog

LEMMA LogNext ==
  ASSUME TypeOK, IdInv, OutcomeInv, [Next]_vars, NEW t \in Tasks
  PROVE  [Log(t)!Next]_<<events[t], status[t]>>
<1>1. ASSUME NEW u \in Tasks, RunStep(u), u # t
      PROVE  UNCHANGED <<events[t], status[t]>>
  <2>1. status'[t] = status[t]
    BY <1>1, RunStepShape
  <2>2. \A kinds \in Seq(Ongoing) : kinds \in Seq(EventKind)
    BY SeqMonotonic DEF Ongoing
  <2>3. <<"end">> \in Seq(EventKind) /\ <<"error">> \in Seq(EventKind)
    BY DEF EventKind
  <2>4. (\E kinds \in Seq(EventKind) : Push(u, kinds)) \/ UNCHANGED log
    BY <1>1, <2>2, <2>3, RunStepLog
  <2>5. events'[t] = events[t]
    BY <1>1, <2>4, PushFacts DEF TypeOK, log
  <2> QED BY <2>1, <2>5
<1>2. ASSUME \/ \E u \in Tasks, s \in Sessions : StartChat(u, s)
             \/ \E s \in Sessions : StopTask(s) \/ InsertMessage(s)
             \/ ShutdownBegin \/ ShutdownIdle \/ ShutdownEnd \/ Tick
             \/ UNCHANGED vars
      PROVE  UNCHANGED <<events, status>>
  BY <1>2 DEF StartChat, StopTask, InsertMessage, ShutdownBegin, ShutdownIdle,
     ShutdownEnd, Tick, vars, log, run
<1> QED BY <1>1, <1>2, LogOwnStep DEF Next, Idle

\* Every run's buffer keeps the contract of ChatEventLog, whatever other runs,
\* stops, inserts and the shutdown do.
THEOREM BufferRefinesLog == Spec => ImplementsLog
<1> DEFINE LogStep == \A t \in Tasks : [Log(t)!Next]_<<events[t], status[t]>>
           LogInit == \A t \in Tasks : Log(t)!Init
<1>1. Init => LogInit
  BY DEF Init, Log!Init
<1>2. TypeOK /\ IdInv /\ OutcomeInv /\ [Next]_vars => [LogStep]_vars
  BY LogNext
<1>3. Init => IdInv
  BY DEF Init, IdInv
<1>4. Init => OutcomeInv
  BY DEF Init, OutcomeInv, OutcomeOf
<1>5. LogInit /\ [][LogStep]_vars => ImplementsLog
  BY DEF ImplementsLog
<1> HIDE DEF LogStep, LogInit
<1> QED BY <1>1, <1>2, <1>3, <1>4, <1>5, IdNext, OutcomeNext, TypeCorrect, PTL DEF Spec

-----------------------------------------------------------------------------
\* The inserts.

\* Delivered then queued numbers increase, and none is beyond the last accepted.
OrderOf(d, q, a) ==
    /\ \A i, j \in 1..Len(d) : i < j => d[i] < d[j]
    /\ \A i, j \in 1..Len(q) : i < j => q[i] < q[j]
    /\ \A i \in 1..Len(d), j \in 1..Len(q) : d[i] < q[j]
    /\ \A i \in 1..Len(d) : d[i] <= a
    /\ \A i \in 1..Len(q) : q[i] <= a

\* Every accepted number is delivered, queued, or dropped for a reason.
AccountOf(d, q, drop, a, c) ==
    \A n \in 1..a :
        \/ \E i \in 1..Len(d) : d[i] = n
        \/ \E i \in 1..Len(q) : q[i] = n
        \/ <<n, "overflow">> \in drop
        \/ <<n, "cap">> \in drop /\ c > MaxContinuations

InsertInv ==
    \A t \in Tasks :
        /\ OrderOf(delivered[t], queue[t], accepted[t])
        /\ AccountOf(delivered[t], queue[t], dropped[t], accepted[t], continuations[t])
        /\ pc[t] \in {"persist", "usage"} \/ status[t] = "completed" =>
              queue[t] = <<>> /\ ~accepting[t]
        /\ interrupted[t] => cancelReq[t] \/ TaskDone(t)

LEMMA NatSeqFacts ==
  ASSUME NEW d \in Seq(Nat)
  PROVE  Len(d) \in Nat /\ \A i \in 1..Len(d) : d[i] \in Nat
BY LenProperties, ElementOfSeq

\* Handing the whole queue to the model.
LEMMA Flush ==
  ASSUME NEW d \in Seq(Nat), NEW q \in Seq(Nat), NEW a \in Nat, NEW c \in Nat,
         NEW drop, OrderOf(d, q, a), AccountOf(d, q, drop, a, c)
  PROVE  OrderOf(d \o q, <<>>, a) /\ AccountOf(d \o q, <<>>, drop, a, c)
<1>1. /\ d \o q \in Seq(Nat) /\ Len(d \o q) = Len(d) + Len(q)
      /\ Len(d) \in Nat /\ Len(q) \in Nat
      /\ \A i \in 1..Len(d) : (d \o q)[i] = d[i]
      /\ \A i \in 1..Len(q) : (d \o q)[Len(d) + i] = q[i]
  BY ConcatFacts
<1> DEFINE s == d \o q
           m == Len(d)
           k == Len(q)
<1>2. /\ m \in Nat /\ k \in Nat /\ Len(s) = m + k
      /\ \A i \in 1..m : s[i] = d[i] /\ d[i] \in Nat
      /\ \A i \in 1..k : s[m + i] = q[i] /\ q[i] \in Nat
  BY <1>1, NatSeqFacts
<1>3. \A i \in 1..m + k : i \in 1..m \/ \E j \in 1..k : i = m + j
  <2> TAKE i \in 1..m + k
  <2>1. i \notin 1..m => i - m \in 1..k /\ i = m + (i - m)
    BY <1>2
  <2> QED BY <2>1
<1> HIDE DEF s
<1>4. \A i \in 1..Len(s) : s[i] <= a
  <2> SUFFICES ASSUME NEW i \in 1..m + k PROVE s[i] <= a
    BY <1>2
  <2>1. CASE i \in 1..m
    BY <1>2, <2>1 DEF OrderOf
  <2>2. CASE i \notin 1..m
    <3>1. PICK j \in 1..k : i = m + j
      BY <1>3, <2>2
    <3>2. s[m + j] = q[j] /\ q[j] <= a
      BY <1>2 DEF OrderOf
    <3> QED BY <3>1, <3>2
  <2> QED BY <2>1, <2>2
<1>5. \A i, j \in 1..Len(s) : i < j => s[i] < s[j]
  <2> SUFFICES ASSUME NEW i \in 1..m + k, NEW j \in 1..m + k, i < j
               PROVE  s[i] < s[j]
    BY <1>2
  <2>1. CASE i \in 1..m /\ j \in 1..m
    BY <1>2, <2>1 DEF OrderOf
  <2>2. CASE i \in 1..m /\ j \notin 1..m
    <3>1. PICK j2 \in 1..k : j = m + j2
      BY <1>3, <2>2
    <3>2. s[i] = d[i] /\ s[m + j2] = q[j2] /\ d[i] < q[j2]
      BY <1>2, <2>2 DEF OrderOf
    <3> QED BY <3>1, <3>2
  <2>3. CASE i \notin 1..m
    <3>1. PICK i2 \in 1..k : i = m + i2
      BY <1>3, <2>3
    <3>2. j \notin 1..m
      BY <1>2, <2>3
    <3>3. PICK j2 \in 1..k : j = m + j2
      BY <1>3, <3>2
    <3>4. i2 < j2
      BY <1>2, <3>1, <3>3
    <3>5. s[m + i2] = q[i2] /\ s[m + j2] = q[j2] /\ q[i2] < q[j2]
      BY <1>2, <3>4 DEF OrderOf
    <3> QED BY <3>1, <3>3, <3>5
  <2> QED BY <2>1, <2>2, <2>3
<1>6. Len(<<>>) = 0 /\ \A i \in 1..Len(<<>>) : FALSE
  OBVIOUS
<1>7. OrderOf(s, <<>>, a)
  BY <1>4, <1>5, <1>6 DEF OrderOf
<1>8. \A i \in 1..m : \E j \in 1..Len(s) : s[j] = d[i]
  BY <1>2
<1>9. \A i \in 1..k : \E j \in 1..Len(s) : s[j] = q[i]
  <2> TAKE i \in 1..k
  <2>1. m + i \in 1..Len(s) /\ s[m + i] = q[i]
    BY <1>2
  <2> QED BY <2>1
<1>10. AccountOf(s, <<>>, drop, a, c)
  BY <1>8, <1>9 DEF AccountOf
<1> QED BY <1>7, <1>10 DEF s

\* Dropping the whole queue at the continuation cap.
LEMMA DropCap ==
  ASSUME NEW d \in Seq(Nat), NEW q \in Seq(Nat), NEW a \in Nat, NEW c \in Nat,
         NEW drop, OrderOf(d, q, a), AccountOf(d, q, drop, a, c),
         c >= MaxContinuations
  PROVE  /\ OrderOf(d, <<>>, a)
         /\ AccountOf(d, <<>>, drop \cup {<<q[i], "cap">> : i \in DOMAIN q}, a, c + 1)
<1>1. DOMAIN q = 1..Len(q)
  BY LenProperties
<1>2. c + 1 > MaxContinuations /\ (c > MaxContinuations => c + 1 > MaxContinuations)
  BY BoundsAssumption
<1>3. Len(<<>>) = 0 /\ \A i \in 1..Len(<<>>) : FALSE
  OBVIOUS
<1>4. OrderOf(d, <<>>, a)
  BY <1>3 DEF OrderOf
<1>5. AccountOf(d, <<>>, drop \cup {<<q[i], "cap">> : i \in DOMAIN q}, a, c + 1)
  BY <1>1, <1>2 DEF AccountOf
<1> QED BY <1>4, <1>5

\* Accepting number a + 1 while the queue has room.
LEMMA Enqueue ==
  ASSUME NEW d \in Seq(Nat), NEW q \in Seq(Nat), NEW a \in Nat, NEW c \in Nat,
         NEW drop, OrderOf(d, q, a), AccountOf(d, q, drop, a, c)
  PROVE  /\ OrderOf(d, Append(q, a + 1), a + 1)
         /\ AccountOf(d, Append(q, a + 1), drop, a + 1, c)
<1> DEFINE s == Append(q, a + 1)
           k == Len(q)
<1>1. /\ k \in Nat /\ Len(s) = k + 1
      /\ \A i \in 1..k : s[i] = q[i] /\ q[i] \in Nat
      /\ s[k + 1] = a + 1
  BY AppendProperties, NatSeqFacts
<1>2. Len(d) \in Nat /\ \A i \in 1..Len(d) : d[i] \in Nat
  BY NatSeqFacts
<1> HIDE DEF s
<1>3. \A i \in 1..Len(s) : i \in 1..k \/ i = k + 1
  BY <1>1
<1>3a. \A i \in 1..k : s[i] \in Nat /\ s[i] <= a
  BY <1>1 DEF OrderOf
<1>4. \A i \in 1..Len(s) : s[i] <= a + 1
  <2> SUFFICES ASSUME NEW i \in 1..Len(s) PROVE s[i] <= a + 1
    OBVIOUS
  <2>1. CASE i \in 1..k
    BY <1>3a, <2>1
  <2>2. CASE i = k + 1
    BY <1>1, <2>2
  <2> QED BY <1>3, <2>1, <2>2
<1>5. \A i, j \in 1..Len(s) : i < j => s[i] < s[j]
  <2> SUFFICES ASSUME NEW i \in 1..Len(s), NEW j \in 1..Len(s), i < j
               PROVE  s[i] < s[j]
    OBVIOUS
  <2>1. i \in 1..k
    BY <1>1
  <2>2. CASE j \in 1..k
    BY <1>1, <2>1, <2>2 DEF OrderOf
  <2>3. CASE j = k + 1
    <3>1. s[i] \in Nat /\ s[i] <= a /\ s[j] = a + 1
      BY <1>1, <1>3a, <2>1, <2>3
    <3> QED BY <3>1
  <2> QED BY <1>3, <2>2, <2>3
<1>6. \A i \in 1..Len(d), j \in 1..Len(s) : d[i] < s[j]
  BY <1>1, <1>2, <1>3 DEF OrderOf
<1>7. \A i \in 1..Len(d) : d[i] <= a + 1
  BY <1>2 DEF OrderOf
<1>8. OrderOf(d, s, a + 1)
  BY <1>4, <1>5, <1>6, <1>7 DEF OrderOf
<1>9. \A n \in 1..a + 1 : n \in 1..a \/ n = a + 1
  OBVIOUS
<1>10. \E i \in 1..Len(s) : s[i] = a + 1
  BY <1>1
<1>11. \A i \in 1..k : i \in 1..Len(s) /\ s[i] = q[i]
  BY <1>1
<1>12. AccountOf(d, s, drop, a + 1, c)
  BY <1>9, <1>10, <1>11 DEF AccountOf
<1> QED BY <1>8, <1>12 DEF s

\* A full queue loses its oldest number first.
LEMMA Overflow ==
  ASSUME NEW d \in Seq(Nat), NEW q \in Seq(Nat), NEW a \in Nat, NEW c \in Nat,
         NEW drop, OrderOf(d, q, a), AccountOf(d, q, drop, a, c), q # <<>>
  PROVE  /\ OrderOf(d, Tail(q), a)
         /\ AccountOf(d, Tail(q), drop \cup {<<Head(q), "overflow">>}, a, c)
<1> DEFINE s == Tail(q)
           k == Len(q)
<1>1. /\ k \in Nat /\ k > 0 /\ Len(s) = k - 1
      /\ \A i \in 1..k - 1 : s[i] = q[i + 1]
      /\ Head(q) = q[1]
  BY HeadTailProperties, NatSeqFacts, EmptySeq
<1> HIDE DEF s
<1>2. \A i \in 1..Len(s) : i + 1 \in 1..k /\ s[i] = q[i + 1]
  BY <1>1
<1>3. OrderOf(d, s, a)
  <2>1. \A i, j \in 1..Len(s) : i < j => s[i] < s[j]
    <3> SUFFICES ASSUME NEW i \in 1..Len(s), NEW j \in 1..Len(s), i < j
                 PROVE  s[i] < s[j]
      OBVIOUS
    <3>1. i + 1 \in 1..k /\ j + 1 \in 1..k /\ i + 1 < j + 1
      BY <1>1, <1>2
    <3>2. q[i + 1] < q[j + 1]
      BY <3>1 DEF OrderOf
    <3> QED BY <1>2, <3>2
  <2>2. \A i \in 1..Len(d), j \in 1..Len(s) : d[i] < s[j]
    BY <1>2 DEF OrderOf
  <2>3. \A i \in 1..Len(s) : s[i] <= a
    BY <1>2 DEF OrderOf
  <2> QED BY <2>1, <2>2, <2>3 DEF OrderOf
<1>4. \A i \in 1..k : q[i] = Head(q) \/ \E j \in 1..Len(s) : s[j] = q[i]
  <2> TAKE i \in 1..k
  <2>1. CASE i = 1
    BY <1>1, <2>1
  <2>2. CASE i # 1
    <3>1. i - 1 \in 1..Len(s) /\ (i - 1) + 1 = i
      BY <1>1, <2>2
    <3>2. s[i - 1] = q[i]
      BY <1>2, <3>1
    <3> QED BY <3>1, <3>2
  <2> QED BY <2>1, <2>2
<1>5. AccountOf(d, s, drop \cup {<<Head(q), "overflow">>}, a, c)
  BY <1>4 DEF AccountOf
<1> QED BY <1>3, <1>5 DEF s

\* A step of a run touches no other task's inserts, stage or flags.
LEMMA RunStepOthers ==
  ASSUME TypeOK, NEW t \in Tasks, RunStep(t), NEW u \in Tasks \ {t}
  PROVE  /\ pc'[u] = pc[u] /\ status'[u] = status[u]
         /\ interrupted'[u] = interrupted[u] /\ cancelReq'[u] = cancelReq[u]
         /\ queue'[u] = queue[u] /\ accepting'[u] = accepting[u]
         /\ continuations'[u] = continuations[u] /\ accepted'[u] = accepted[u]
         /\ delivered'[u] = delivered[u] /\ dropped'[u] = dropped[u]
<1> USE DEF run, inserts, TypeOK, GoTo
<1>1. CASE BeginRun(t) \/ CancelUnstarted(t) \/ SnapshotTaken(t)
  BY <1>1 DEF BeginRun, CancelUnstarted, SnapshotTaken
<1>2. ASSUME NEW degraded \in BOOLEAN, NodeCreated(t, degraded)
      PROVE  /\ pc' = [pc EXCEPT ![t] = "resolve"]
             /\ UNCHANGED <<status, interrupted, cancelReq, inserts>>
  BY <1>2 DEF NodeCreated
<1>3. CASE \E degraded \in BOOLEAN : NodeCreated(t, degraded)
  BY <1>2, <1>3
<1>4. CASE ContextResolved(t) \/ StreamEvent(t) \/ InjectPending(t)
  BY <1>4 DEF ContextResolved, StreamEvent, InjectPending
<1>5. CASE PassEndsRun(t) \/ PassContinues(t)
  BY <1>5 DEF PassEndsRun, PassContinues
<1>6. CASE PassCapped(t) \/ ContextPersisted(t)
  BY <1>6 DEF PassCapped, ContextPersisted
<1>7. CASE RunCompletes(t) \/ CancelDelivered(t)
  BY <1>7 DEF RunCompletes, CancelDelivered, Finish
<1>8. ASSUME NEW node \in BOOLEAN, RunFails(t, node)
      PROVE  Finish(t, "error") /\ UNCHANGED <<interrupted, cancelReq, inserts>>
  BY <1>8 DEF RunFails
<1>9. CASE \E node \in BOOLEAN : RunFails(t, node)
  <2>1. Finish(t, "error") /\ UNCHANGED <<interrupted, cancelReq, inserts>>
    BY <1>8, <1>9
  <2> QED BY <2>1 DEF Finish
<1> QED BY <1>1, <1>3, <1>4, <1>5, <1>6, <1>7, <1>9 DEF RunStep

\* The order and the account of the task that takes the step.
LEMMA RunStepAccount ==
  ASSUME TypeOK, InsertInv, NEW t \in Tasks, RunStep(t)
  PROVE  /\ OrderOf(delivered'[t], queue'[t], accepted'[t])
         /\ AccountOf(delivered'[t], queue'[t], dropped'[t], accepted'[t],
                      continuations'[t])
<1> DEFINE d == delivered[t]
           q == queue[t]
           a == accepted[t]
           c == continuations[t]
<1>1. /\ d \in Seq(Nat) /\ q \in Seq(Nat) /\ a \in Nat /\ c \in Nat
      /\ OrderOf(d, q, a) /\ AccountOf(d, q, dropped[t], a, c)
  BY DEF TypeOK, InsertInv
<1>2. OrderOf(d \o q, <<>>, a) /\ AccountOf(d \o q, <<>>, dropped[t], a, c)
  BY <1>1, Flush
<1>3. CASE InjectPending(t)
  <2>1. /\ delivered'[t] = d \o q /\ queue'[t] = <<>>
        /\ accepted' = accepted /\ dropped' = dropped /\ continuations' = continuations
    BY <1>3 DEF InjectPending, TypeOK
  <2> QED BY <1>2, <2>1
<1>4. CASE PassContinues(t)
  <2>1. /\ delivered'[t] = d \o q /\ queue'[t] = <<>>
        /\ accepted' = accepted /\ dropped' = dropped
        /\ continuations'[t] = c + 1
    BY <1>4 DEF PassContinues, TypeOK
  <2>2. AccountOf(d \o q, <<>>, dropped[t], a, c + 1)
    <3>1. c > MaxContinuations => c + 1 > MaxContinuations
      BY <1>1, BoundsAssumption
    <3> QED BY <1>2, <3>1 DEF AccountOf
  <2> QED BY <1>2, <2>1, <2>2
<1>5. CASE PassEndsRun(t)
  <2>1. q = <<>>
    BY <1>5 DEF PassEndsRun, At, InsertInv, TaskDone
  <2>2. /\ queue'[t] = q /\ delivered' = delivered /\ accepted' = accepted
        /\ continuations' = continuations
        /\ dropped[t] \subseteq dropped'[t]
    BY <1>5, <2>1 DEF PassEndsRun, TypeOK
  <2> QED BY <1>1, <2>2 DEF AccountOf
<1>6. CASE PassCapped(t)
  <2>1. /\ queue'[t] = <<>> /\ delivered' = delivered /\ accepted' = accepted
        /\ continuations'[t] = c + 1 /\ c >= MaxContinuations
    BY <1>6 DEF PassCapped, TypeOK
  <2>2. dropped' = [dropped EXCEPT ![t] = @ \cup {<<q[i], "cap">> : i \in DOMAIN q}]
    BY <1>6 DEF PassCapped
  <2>3. dropped'[t] = dropped[t] \cup {<<q[i], "cap">> : i \in DOMAIN q}
    BY <2>2 DEF TypeOK
  <2> DEFINE drop == dropped[t] \cup {<<q[i], "cap">> : i \in DOMAIN q}
  <2>4. OrderOf(d, <<>>, a) /\ AccountOf(d, <<>>, drop, a, c + 1)
    BY <1>1, <2>1, DropCap
  <2> HIDE DEF drop
  <2>5. dropped'[t] = drop
    BY <2>3 DEF drop
  <2> QED BY <2>1, <2>4, <2>5
<1>7. CASE UNCHANGED inserts
  BY <1>1, <1>7 DEF inserts
<1>8. \/ UNCHANGED inserts \/ InjectPending(t) \/ PassContinues(t)
      \/ PassEndsRun(t) \/ PassCapped(t)
  BY DEF RunStep, BeginRun, CancelUnstarted, SnapshotTaken, NodeCreated,
     ContextResolved, StreamEvent, ContextPersisted, RunCompletes, RunFails,
     CancelDelivered
<1> QED BY <1>3, <1>4, <1>5, <1>6, <1>7, <1>8

LEMMA RunStepFlags ==
  ASSUME TypeOK, InsertInv, NEW t \in Tasks, RunStep(t)
  PROVE  /\ pc'[t] \in {"persist", "usage"} \/ status'[t] = "completed" =>
               queue'[t] = <<>> /\ ~accepting'[t]
         /\ interrupted'[t] => cancelReq'[t] \/ TaskDone(t)'
<1> USE DEF run, inserts, TypeOK, GoTo, At, TaskDone
<1>0. /\ pc[t] \in {"persist", "usage"} \/ status[t] = "completed" =>
            queue[t] = <<>> /\ ~accepting[t]
      /\ interrupted[t] => cancelReq[t] \/ TaskDone(t)
  BY DEF InsertInv
<1>1. CASE BeginRun(t) \/ CancelUnstarted(t) \/ SnapshotTaken(t) \/ ContextResolved(t)
  BY <1>0, <1>1 DEF BeginRun, CancelUnstarted, SnapshotTaken, ContextResolved
<1>2. ASSUME NEW degraded \in BOOLEAN, NodeCreated(t, degraded)
      PROVE  /\ pc' = [pc EXCEPT ![t] = "resolve"] /\ pc[t] = "init"
             /\ UNCHANGED <<status, interrupted, cancelReq, inserts>>
  BY <1>2 DEF NodeCreated
<1>3. CASE \E degraded \in BOOLEAN : NodeCreated(t, degraded)
  BY <1>0, <1>2, <1>3
<1>4. CASE StreamEvent(t) \/ InjectPending(t)
  BY <1>0, <1>4 DEF StreamEvent, InjectPending
<1>5. CASE PassEndsRun(t) \/ PassCapped(t)
  BY <1>0, <1>5 DEF PassEndsRun, PassCapped
<1>6. CASE PassContinues(t) \/ ContextPersisted(t)
  BY <1>0, <1>6 DEF PassContinues, ContextPersisted
<1>7. CASE RunCompletes(t) \/ CancelDelivered(t)
  BY <1>0, <1>7 DEF RunCompletes, CancelDelivered, Finish
<1>8. ASSUME NEW node \in BOOLEAN, RunFails(t, node)
      PROVE  Finish(t, "error") /\ UNCHANGED <<interrupted, cancelReq, inserts>>
  BY <1>8 DEF RunFails
<1>9. CASE \E node \in BOOLEAN : RunFails(t, node)
  <2>1. Finish(t, "error") /\ UNCHANGED <<interrupted, cancelReq, inserts>>
    BY <1>8, <1>9
  <2> QED BY <1>0, <2>1 DEF Finish
<1> QED BY <1>1, <1>3, <1>4, <1>5, <1>6, <1>7, <1>9 DEF RunStep

LEMMA InsertNext == TypeOK /\ InsertInv /\ [Next]_vars => InsertInv'
<1> SUFFICES ASSUME TypeOK, InsertInv, [Next]_vars PROVE InsertInv'
  OBVIOUS
<1> USE DEF run, inserts, TaskDone
<1>1. ASSUME NEW t \in Tasks, RunStep(t) PROVE InsertInv'
  BY <1>1, RunStepOthers, RunStepAccount, RunStepFlags DEF InsertInv
<1>2. ASSUME NEW t \in Tasks, NEW s \in Sessions, StartChat(t, s) PROVE InsertInv'
  <2>1. /\ pc[t] = "unborn" /\ pc' = [pc EXCEPT ![t] = "scheduled"]
        /\ UNCHANGED <<status, interrupted, cancelReq, inserts>>
    BY <1>2 DEF StartChat, SessionFree, GoTo
  <2>2. \A u \in Tasks \ {t} : pc'[u] = pc[u]
    BY <2>1 DEF TypeOK
  <2>3. pc'[t] = "scheduled"
    BY <2>1 DEF TypeOK
  <2> QED BY <2>1, <2>2, <2>3 DEF InsertInv
<1>3. ASSUME NEW s \in Sessions, StopTask(s) PROVE InsertInv'
  <2>1. slot[s] \in Tasks
    BY <1>3 DEF StopTask, TypeOK
  <2>2. UNCHANGED <<pc, status, inserts>>
    BY <1>3 DEF StopTask
  <2>3. \A u \in Tasks : interrupted'[u] => cancelReq'[u] \/ TaskDone(u)
    BY <1>3, <2>1 DEF StopTask, InsertInv, TypeOK
  <2> QED BY <2>2, <2>3 DEF InsertInv
<1>4. ASSUME NEW s \in Sessions, InsertMessage(s) PROVE InsertInv'
  <2> DEFINE t == GetTask(s)
             d == delivered[t]
             q == queue[t]
             a == accepted[t]
             c == continuations[t]
  <2>1. /\ t \in Tasks /\ accepting[t] /\ status[t] = "running"
        /\ UNCHANGED <<run, accepting, continuations, delivered>>
        /\ accepted' = [accepted EXCEPT ![t] = a + 1]
    BY <1>4 DEF InsertMessage, QueueInput, TakesInserts, GetTask, TypeOK
  <2>2. /\ d \in Seq(Nat) /\ q \in Seq(Nat) /\ a \in Nat /\ c \in Nat
        /\ OrderOf(d, q, a) /\ AccountOf(d, q, dropped[t], a, c)
    BY <2>1 DEF TypeOK, InsertInv
  <2>3. /\ OrderOf(d, queue'[t], a + 1)
        /\ AccountOf(d, queue'[t], dropped'[t], a + 1, c)
        /\ \A u \in Tasks \ {t} : queue'[u] = queue[u] /\ dropped'[u] = dropped[u]
    <3>1. CASE Len(q) < QueueCap
      <4>1. queue' = [queue EXCEPT ![t] = Append(q, a + 1)] /\ dropped' = dropped
        BY <1>4, <3>1 DEF InsertMessage, QueueInput, TakesInserts
      <4>2. /\ OrderOf(d, Append(q, a + 1), a + 1)
            /\ AccountOf(d, Append(q, a + 1), dropped[t], a + 1, c)
        BY <2>2, Enqueue
      <4>3. queue'[t] = Append(q, a + 1)
            /\ \A u \in Tasks \ {t} : queue'[u] = queue[u]
        BY <2>1, <4>1 DEF TypeOK
      <4> QED BY <4>1, <4>2, <4>3
    <3>2. CASE ~(Len(q) < QueueCap)
      <4> DEFINE drop == dropped[t] \cup {<<Head(q), "overflow">>}
      <4>1. /\ queue' = [queue EXCEPT ![t] = Append(Tail(q), a + 1)]
            /\ dropped' = [dropped EXCEPT ![t] = drop]
        BY <1>4, <3>2 DEF InsertMessage, QueueInput, TakesInserts
      <4>2. q # <<>>
        BY <2>2, <3>2, BoundsAssumption, EmptySeq
      <4>3. Tail(q) \in Seq(Nat)
        BY <2>2, <4>2, HeadTailProperties
      <4>4. OrderOf(d, Tail(q), a) /\ AccountOf(d, Tail(q), drop, a, c)
        BY <2>2, <4>2, Overflow
      <4> HIDE DEF drop
      <4>5. /\ OrderOf(d, Append(Tail(q), a + 1), a + 1)
            /\ AccountOf(d, Append(Tail(q), a + 1), drop, a + 1, c)
        BY <2>2, <4>3, <4>4, Enqueue
      <4>6. queue'[t] = Append(Tail(q), a + 1) /\ dropped'[t] = drop
            /\ \A u \in Tasks \ {t} : queue'[u] = queue[u] /\ dropped'[u] = dropped[u]
        BY <2>1, <4>1 DEF TypeOK
      <4> QED BY <4>5, <4>6
    <3> QED BY <3>1, <3>2
  <2>4. accepted'[t] = a + 1 /\ \A u \in Tasks \ {t} : accepted'[u] = accepted[u]
    BY <2>1 DEF TypeOK
  <2>5. pc[t] \notin {"persist", "usage"}
    BY <2>1 DEF InsertInv
  <2> HIDE DEF t
  <2> QED BY <2>1, <2>3, <2>4, <2>5 DEF InsertInv
<1>5. CASE ShutdownBegin
  <2>1. /\ UNCHANGED <<pc, status, interrupted, inserts>>
        /\ \A u \in Tasks : cancelReq[u] => cancelReq'[u]
    BY <1>5 DEF ShutdownBegin
  <2> QED BY <2>1 DEF InsertInv
<1>6. CASE ShutdownIdle \/ ShutdownEnd \/ Tick \/ UNCHANGED vars
  <2>1. UNCHANGED <<run, inserts>>
    BY <1>6 DEF ShutdownIdle, ShutdownEnd, Tick, vars
  <2> QED BY <2>1 DEF InsertInv
<1> QED BY <1>1, <1>2, <1>3, <1>4, <1>5, <1>6 DEF Next, Idle

\* Inserts reach the model at most once and in order; a completed run strands
\* none; and stopping a run never makes a completing run drop one.
THEOREM InsertsCorrect == Spec => [](InsertsInOrder /\ CompletedStrandsNothing)
<1>1. Init => InsertInv
  <2> SUFFICES ASSUME Init, NEW t \in Tasks
               PROVE  /\ OrderOf(<<>>, <<>>, 0)
                      /\ AccountOf(<<>>, <<>>, {}, 0, 0)
                      /\ pc[t] = "unborn" /\ status[t] = "running" /\ ~interrupted[t]
    BY DEF Init, InsertInv
  <2> QED BY DEF Init, OrderOf, AccountOf
<1>2. TypeOK /\ InsertInv => InsertsInOrder
  <2> SUFFICES ASSUME TypeOK, InsertInv, NEW t \in Tasks
               PROVE  LET s == delivered[t] \o queue[t]
                      IN  \A i, j \in DOMAIN s : i < j => s[i] < s[j]
    BY DEF InsertsInOrder
  <2> DEFINE s == delivered[t] \o queue[t]
  <2>1. OrderOf(s, <<>>, accepted[t])
    BY Flush DEF TypeOK, InsertInv
  <2>2. s \in Seq(Nat)
    BY ConcatProperties DEF TypeOK
  <2> HIDE DEF s
  <2>3. DOMAIN s = 1..Len(s)
    BY <2>2, LenProperties
  <2>4. \A i, j \in DOMAIN s : i < j => s[i] < s[j]
    BY <2>1, <2>3 DEF OrderOf
  <2> QED BY <2>4 DEF s
<1>3. TypeOK /\ InsertInv => CompletedStrandsNothing
  <2> SUFFICES ASSUME TypeOK, InsertInv, NEW t \in Tasks, status[t] = "completed",
                      NEW n \in 1..accepted[t]
               PROVE  \/ \E i \in DOMAIN delivered[t] : delivered[t][i] = n
                      \/ <<n, "overflow">> \in dropped[t]
                      \/ <<n, "cap">> \in dropped[t] /\ continuations[t] > MaxContinuations
    BY DEF CompletedStrandsNothing
  <2>1. queue[t] = <<>> /\ Len(<<>>) = 0
    BY DEF InsertInv
  <2>2. DOMAIN delivered[t] = 1..Len(delivered[t])
    BY LenProperties DEF TypeOK
  <2> QED BY <2>1, <2>2 DEF InsertInv, AccountOf
<1> QED BY <1>1, <1>2, <1>3, InsertNext, TypeCorrect, PTL DEF Spec

\* Of that: an insert the client was told was accepted is not stranded by a run
\* that completes.
THEOREM NothingStranded == Spec => []CompletedStrandsNothing
BY InsertsCorrect, PTL

-----------------------------------------------------------------------------
\* How long a finished run stays resumable.

\* The end of a run, at that time, finds a run created then older than TTL.
TooOld(end, born) == end - born > TTL

\* A finished run is what its session resumes, unless another run of the session
\* ended after it or the end of some run found it too old; and what a session
\* resumes is a finished run of its own that no end found too old.
RecentInv ==
  /\ \A t \in Tasks : pc[t] = "done" =>
       /\ owner[t] \in Sessions
       /\ finished[t] <= now
       /\ shutdown # "stopped" =>
            \/ completed[owner[t]] = t
            \/ \E u \in Tasks \ {t} :
                 owner[u] = owner[t] /\ TaskDone(u) /\ finished[u] >= finished[t]
            \/ \E u \in Tasks : pc[u] = "done" /\ TooOld(finished[u], created[t])
  /\ \A s \in Sessions : completed[s] # None =>
       /\ pc[completed[s]] = "done" /\ owner[completed[s]] = s
       /\ \A u \in Tasks : pc[u] = "done" => ~TooOld(finished[u], created[completed[s]])

\* A step that ends no run leaves the finished ones alone, and what resumes them
\* unless it clears it; the clock only goes forward.
LEMMA RecentKept ==
  ASSUME TypeOK, RecentInv,
         \A t \in Tasks : pc'[t] = "done" <=> pc[t] = "done",
         \A t \in Tasks : TaskDone(t) =>
            /\ TaskDone(t)'
            /\ UNCHANGED <<owner[t], created[t], finished[t]>>,
         now' \in Nat, now' >= now,
         \A s \in Sessions : completed'[s] \in {None, completed[s]},
         shutdown' # "stopped" => shutdown # "stopped" /\ completed' = completed
  PROVE  RecentInv'
<1>1. \A t \in Tasks : pc[t] = "done" =>
        TaskDone(t) /\ owner'[t] = owner[t] /\ created'[t] = created[t] /\ finished'[t] = finished[t]
  BY DEF TaskDone
<1>2. \A t, u \in Tasks : pc[t] = "done" /\ pc[u] = "done" =>
        (TooOld(finished'[u], created'[t]) <=> TooOld(finished[u], created[t]))
  BY <1>1 DEF TooOld
<1>3. ASSUME NEW t \in Tasks, pc'[t] = "done"
      PROVE  /\ owner'[t] \in Sessions
             /\ finished'[t] <= now'
             /\ shutdown' # "stopped" =>
                  \/ completed'[owner'[t]] = t
                  \/ \E u \in Tasks \ {t} :
                       owner'[u] = owner'[t] /\ TaskDone(u)' /\ finished'[u] >= finished'[t]
                  \/ \E u \in Tasks : pc'[u] = "done" /\ TooOld(finished'[u], created'[t])
  <2>1. pc[t] = "done" /\ owner[t] \in Sessions /\ finished[t] <= now
    BY <1>3 DEF RecentInv
  <2>2. now \in Nat /\ finished[t] \in Nat
    BY DEF TypeOK
  <2>3. CASE completed[owner[t]] = t
    BY <1>1, <2>1, <2>2, <2>3
  <2>4. CASE \E u \in Tasks \ {t} :
               owner[u] = owner[t] /\ TaskDone(u) /\ finished[u] >= finished[t]
    BY <1>1, <2>1, <2>2, <2>4
  <2>5. CASE \E u \in Tasks : pc[u] = "done" /\ TooOld(finished[u], created[t])
    <3>1. \E u \in Tasks : pc'[u] = "done" /\ TooOld(finished'[u], created'[t])
      BY <1>2, <2>1, <2>5
    <3> QED BY <1>1, <2>1, <2>2, <3>1
  <2>6. CASE shutdown = "stopped"
    BY <1>1, <2>1, <2>2, <2>6
  <2> QED BY <2>1, <2>3, <2>4, <2>5, <2>6 DEF RecentInv
<1>4. ASSUME NEW s \in Sessions, completed'[s] # None
      PROVE  /\ pc'[completed'[s]] = "done" /\ owner'[completed'[s]] = s
             /\ \A u \in Tasks : pc'[u] = "done" => ~TooOld(finished'[u], created'[completed'[s]])
  <2>1. completed'[s] = completed[s] /\ completed[s] # None /\ completed[s] \in Tasks
    BY <1>4 DEF TypeOK
  <2>2. /\ pc[completed[s]] = "done" /\ owner[completed[s]] = s
        /\ \A u \in Tasks : pc[u] = "done" => ~TooOld(finished[u], created[completed[s]])
    BY <2>1 DEF RecentInv
  <2>3. \A u \in Tasks : pc[u] = "done" =>
          (finished'[u] - created'[completed[s]] > TTL <=> finished[u] - created[completed[s]] > TTL)
    BY <1>1, <2>1, <2>2
  <2> QED BY <1>1, <2>1, <2>2, <2>3 DEF TooOld
<1>5. \A t \in Tasks : pc'[t] = "done" =>
        /\ owner'[t] \in Sessions
        /\ finished'[t] <= now'
        /\ shutdown' # "stopped" =>
             \/ completed'[owner'[t]] = t
             \/ \E u \in Tasks \ {t} :
                  owner'[u] = owner'[t] /\ TaskDone(u)' /\ finished'[u] >= finished'[t]
             \/ \E u \in Tasks : pc'[u] = "done" /\ TooOld(finished'[u], created'[t])
  BY <1>3
<1>6. \A s \in Sessions : completed'[s] # None =>
        /\ pc'[completed'[s]] = "done" /\ owner'[completed'[s]] = s
        /\ \A u \in Tasks : pc'[u] = "done" => ~TooOld(finished'[u], created'[completed'[s]])
  BY <1>4
<1> QED BY <1>5, <1>6 DEF RecentInv, TooOld, TaskDone

\* The run that ends now takes the place of those that ended before it, and its
\* purge removes exactly those its end finds too old.
LEMMA RecentFinish ==
  ASSUME TypeOK, RecentInv, NEW r \in Tasks, NEW st \in Statuses, Finish(r, st),
         owner[r] \in Sessions, pc[r] # "done",
         UNCHANGED <<owner, created, now, shutdown>>
  PROVE  RecentInv'
<1>1. /\ pc' = [pc EXCEPT ![r] = "done"]
      /\ finished' = [finished EXCEPT ![r] = now]
      /\ completed' = Purged([completed EXCEPT ![owner[r]] = r])
  BY DEF Finish, GoTo
<1>2. now \in Nat /\ created \in [Tasks -> Nat] /\ finished \in [Tasks -> Nat] /\ TTL \in Nat
  BY BoundsAssumption DEF TypeOK
<1>3. finished'[r] = now /\ pc'[r] = "done" /\ TaskDone(r)'
  BY <1>1 DEF TypeOK, TaskDone
<1>4. \A u \in Tasks \ {r} : pc'[u] = pc[u] /\ finished'[u] = finished[u] /\ (TaskDone(u)' <=> TaskDone(u))
  BY <1>1 DEF TypeOK, TaskDone
<1> DEFINE c == [completed EXCEPT ![owner[r]] = r]
<1>5. \A s \in Sessions : c[s] = IF s = owner[r] THEN r ELSE completed[s]
  BY DEF TypeOK
<1>6. \A s \in Sessions :
        completed'[s] = IF c[s] # None /\ now - created[c[s]] > TTL THEN None ELSE c[s]
  BY <1>1 DEF Purged
<1> HIDE DEF c
<1>7. ASSUME NEW t \in Tasks, pc'[t] = "done"
      PROVE  /\ owner'[t] \in Sessions
             /\ finished'[t] <= now'
             /\ shutdown' # "stopped" =>
                  \/ completed'[owner'[t]] = t
                  \/ \E u \in Tasks \ {t} :
                       owner'[u] = owner'[t] /\ TaskDone(u)' /\ finished'[u] >= finished'[t]
                  \/ \E u \in Tasks : pc'[u] = "done" /\ TooOld(finished'[u], created'[t])
  <2>1. CASE now - created[t] > TTL
    <3>1. TooOld(finished'[r], created'[t])
      BY <1>3, <2>1 DEF TooOld
    <3>2. owner[t] \in Sessions /\ finished'[t] <= now
      BY <1>2, <1>3, <1>4, <1>7 DEF RecentInv
    <3> QED BY <1>3, <3>1, <3>2
  <2>2. CASE t = r /\ ~(now - created[t] > TTL)
    BY <1>2, <1>3, <1>5, <1>6, <2>2
  <2>3. CASE t # r /\ ~(now - created[t] > TTL)
    <3>1. pc[t] = "done" /\ finished'[t] = finished[t] /\ owner[t] \in Sessions /\ finished[t] <= now
      BY <1>4, <1>7, <2>3 DEF RecentInv
    <3>2. CASE owner[t] = owner[r]
      BY <1>2, <1>3, <2>3, <3>1, <3>2
    <3>3. CASE owner[t] # owner[r] /\ completed[owner[t]] = t
      BY <1>2, <1>5, <1>6, <2>3, <3>1, <3>3
    <3>4. ASSUME NEW u \in Tasks \ {t}, owner[t] # owner[r],
                 owner[u] = owner[t], TaskDone(u), finished[u] >= finished[t]
          PROVE  TaskDone(u)' /\ finished'[u] >= finished'[t]
      BY <1>4, <3>1, <3>4
    <3>5. ASSUME NEW u \in Tasks, pc[u] = "done", TooOld(finished[u], created[t])
          PROVE  pc'[u] = "done" /\ TooOld(finished'[u], created'[t])
      BY <1>4, <3>5 DEF TooOld
    <3>6. shutdown # "stopped" =>
             \/ completed[owner[t]] = t
             \/ \E u \in Tasks \ {t} :
                  owner[u] = owner[t] /\ TaskDone(u) /\ finished[u] >= finished[t]
             \/ \E u \in Tasks : pc[u] = "done" /\ TooOld(finished[u], created[t])
      BY <3>1 DEF RecentInv
    <3> QED BY <3>1, <3>2, <3>3, <3>4, <3>5, <3>6
  <2> QED BY <2>1, <2>2, <2>3
<1>8. ASSUME NEW s \in Sessions, completed'[s] # None
      PROVE  /\ pc'[completed'[s]] = "done" /\ owner'[completed'[s]] = s
             /\ \A u \in Tasks : pc'[u] = "done" => ~(finished'[u] - created'[completed'[s]] > TTL)
  <2>1. completed'[s] = c[s] /\ c[s] # None /\ ~(now - created[c[s]] > TTL)
    BY <1>6, <1>8
  <2>2. CASE s = owner[r]
    <3>1. completed'[s] = r
      BY <1>5, <2>1, <2>2
    <3>2. \A u \in Tasks : pc'[u] = "done" => finished'[u] <= now
      BY <1>2, <1>3, <1>4 DEF RecentInv
    <3>3. \A u \in Tasks : finished'[u] \in Nat
      BY <1>1, <1>2
    <3>4. created[r] \in Nat /\ ~(now - created[r] > TTL)
      BY <1>2, <2>1, <3>1
    <3> QED BY <1>2, <1>3, <2>2, <3>1, <3>2, <3>3, <3>4
  <2>3. CASE s # owner[r]
    <3>1. completed'[s] = completed[s] /\ completed[s] # None /\ completed[s] \in Tasks
      BY <1>5, <2>1, <2>3 DEF TypeOK
    <3>2. /\ pc[completed[s]] = "done" /\ owner[completed[s]] = s
          /\ \A u \in Tasks : pc[u] = "done" => ~(finished[u] - created[completed[s]] > TTL)
      BY <3>1 DEF RecentInv, TooOld
    <3>3. completed[s] # r
      BY <3>2
    <3>4. ~(now - created[completed[s]] > TTL)
      BY <2>1, <3>1
    <3> QED BY <1>3, <1>4, <3>1, <3>2, <3>3, <3>4
  <2> QED BY <2>2, <2>3
<1>9. \A t \in Tasks : pc'[t] = "done" =>
        /\ owner'[t] \in Sessions
        /\ finished'[t] <= now'
        /\ shutdown' # "stopped" =>
             \/ completed'[owner'[t]] = t
             \/ \E u \in Tasks \ {t} :
                  owner'[u] = owner'[t] /\ TaskDone(u)' /\ finished'[u] >= finished'[t]
             \/ \E u \in Tasks : pc'[u] = "done" /\ TooOld(finished'[u], created'[t])
  BY <1>7
<1>10. \A s \in Sessions : completed'[s] # None =>
        /\ pc'[completed'[s]] = "done" /\ owner'[completed'[s]] = s
        /\ \A u \in Tasks : pc'[u] = "done" => ~TooOld(finished'[u], created'[completed'[s]])
  BY <1>8 DEF TooOld
<1> QED BY <1>9, <1>10 DEF RecentInv, TooOld, TaskDone

\* Every run that was started belongs to a session.
OwnedInv == \A t \in Tasks : pc[t] # "unborn" => owner[t] \in Sessions

LEMMA OwnedNext == TypeOK /\ OwnedInv /\ [Next]_vars => OwnedInv'
<1> SUFFICES ASSUME TypeOK, OwnedInv, [Next]_vars PROVE OwnedInv'
  OBVIOUS
<1>1. ASSUME NEW t \in Tasks, NEW s \in Sessions, StartChat(t, s) PROVE OwnedInv'
  BY <1>1 DEF StartChat, GoTo, TypeOK, OwnedInv
<1>2. ASSUME NEW t \in Tasks, RunStep(t) PROVE OwnedInv'
  <2>1. owner' = owner /\ pc[t] # "unborn" /\ \A u \in Tasks \ {t} : pc'[u] = pc[u]
    BY <1>2 DEF RunStep, At, Parked, BeginRun, CancelUnstarted, SnapshotTaken, NodeCreated,
                ContextResolved, StreamEvent, InjectPending, PassEndsRun, PassContinues,
                PassCapped, ContextPersisted, RunCompletes, RunFails, CancelDelivered, Finish,
                GoTo, run, TypeOK
  <2> QED BY <2>1 DEF OwnedInv
<1>3. ASSUME NEW s \in Sessions, StopTask(s) \/ InsertMessage(s) PROVE OwnedInv'
  BY <1>3 DEF StopTask, InsertMessage, run, OwnedInv
<1>4. ShutdownBegin \/ ShutdownIdle \/ ShutdownEnd \/ Tick \/ UNCHANGED vars => OwnedInv'
  BY DEF ShutdownBegin, ShutdownIdle, ShutdownEnd, Tick, vars, run, OwnedInv
<1> QED BY <1>1, <1>2, <1>3, <1>4 DEF Next, Idle

LEMMA RecentNext == TypeOK /\ OwnedInv /\ RecentInv /\ [Next]_vars => RecentInv'
<1> SUFFICES ASSUME TypeOK, OwnedInv, RecentInv, [Next]_vars PROVE RecentInv'
  OBVIOUS
<1> DEFINE kept ==
      /\ \A t \in Tasks : pc'[t] = "done" <=> pc[t] = "done"
      /\ \A t \in Tasks : TaskDone(t) =>
            /\ TaskDone(t)'
            /\ UNCHANGED <<owner[t], created[t], finished[t]>>
      /\ now' \in Nat /\ now' >= now
      /\ \A s \in Sessions : completed'[s] \in {None, completed[s]}
      /\ shutdown' # "stopped" => shutdown # "stopped" /\ completed' = completed
<1>0. now \in Nat
  BY DEF TypeOK
<1>1. ASSUME NEW t \in Tasks, NEW s \in Sessions, StartChat(t, s) PROVE kept
  BY <1>0, <1>1 DEF StartChat, GoTo, TypeOK, TaskDone, closing
<1>2. ASSUME NEW t \in Tasks,
             \/ BeginRun(t) \/ CancelUnstarted(t) \/ SnapshotTaken(t)
             \/ \E degraded \in BOOLEAN : NodeCreated(t, degraded)
             \/ ContextResolved(t) \/ StreamEvent(t) \/ InjectPending(t)
             \/ PassEndsRun(t) \/ PassContinues(t) \/ PassCapped(t) \/ ContextPersisted(t)
      PROVE  kept
  <2>1. /\ UNCHANGED <<registry, owner, clock, closing>>
        /\ pc[t] \notin {"done", "dead"} /\ pc'[t] # "done"
        /\ \A u \in Tasks \ {t} : pc'[u] = pc[u]
    BY <1>2 DEF At, GoTo, TypeOK, BeginRun, CancelUnstarted, SnapshotTaken, NodeCreated,
                ContextResolved, StreamEvent, InjectPending, PassEndsRun, PassContinues,
                PassCapped, ContextPersisted, run
  <2> QED BY <1>0, <2>1 DEF TaskDone, registry, clock, closing
<1>3. ASSUME NEW t \in Tasks,
             RunCompletes(t) \/ CancelDelivered(t) \/ \E node \in BOOLEAN : RunFails(t, node)
      PROVE  RecentInv'
  <2>1. /\ \E st \in Statuses : Finish(t, st)
        /\ pc[t] \notin {"unborn", "done"}
        /\ UNCHANGED <<owner, created, now, shutdown>>
    BY <1>3 DEF RunCompletes, CancelDelivered, RunFails, At, Parked, Statuses, closing
  <2> QED BY <2>1, RecentFinish DEF OwnedInv
<1>4. ASSUME NEW s \in Sessions, StopTask(s) \/ InsertMessage(s) PROVE kept
  BY <1>0, <1>4 DEF StopTask, InsertMessage, TaskDone, registry, run, clock, closing
<1>5. ShutdownBegin \/ ShutdownIdle \/ ShutdownEnd \/ UNCHANGED vars => kept
  BY <1>0 DEF ShutdownBegin, ShutdownIdle, ShutdownEnd, ClearRegistries, vars, registry, run,
              clock, closing, TaskDone
<1>6. Tick => kept
  BY <1>0 DEF Tick, registry, run, closing, TaskDone
<1>7. kept => RecentInv'
  BY RecentKept
<1> HIDE DEF kept
<1> QED BY <1>1, <1>2, <1>3, <1>4, <1>5, <1>6, <1>7 DEF Next, RunStep, Idle

\* The last finished run of a session is what /chat/resume finds, until the end of
\* a run that comes more than TTL after its creation: no purge takes it earlier, none
\* leaves it, and no other session's run displaces it.
THEOREM FinishedRunResumable == Spec => []KeptUntilPurged
<1>1. Init => OwnedInv /\ RecentInv
  BY DEF Init, OwnedInv, RecentInv
<1>2. TypeOK /\ OwnedInv /\ RecentInv => KeptUntilPurged
  <2> SUFFICES ASSUME TypeOK, RecentInv, NEW t \in Tasks,
                      pc[t] = "done", shutdown # "stopped",
                      \A u \in Tasks \ {t} :
                        owner[u] = owner[t] /\ TaskDone(u) => finished[u] < finished[t]
               PROVE  completed[owner[t]] = t <=>
                        \A u \in Tasks : pc[u] = "done" => finished[u] - created[t] <= TTL
    BY DEF KeptUntilPurged
  <2>1. /\ \A u \in Tasks : finished[u] \in Nat /\ created[u] \in Nat
        /\ TTL \in Nat
    BY BoundsAssumption DEF TypeOK
  <2>2. \A u \in Tasks : finished[u] - created[t] <= TTL <=> ~TooOld(finished[u], created[t])
    BY <2>1 DEF TooOld
  <2>3. owner[t] \in Sessions /\ t # None
    BY NoneAssumption DEF RecentInv
  <2>4. ASSUME completed[owner[t]] = t
        PROVE  \A u \in Tasks : pc[u] = "done" => ~TooOld(finished[u], created[t])
    BY <2>3, <2>4 DEF RecentInv
  <2>5. ASSUME \A u \in Tasks : pc[u] = "done" => ~TooOld(finished[u], created[t])
        PROVE  completed[owner[t]] = t
    <3>1. ~ \E u \in Tasks \ {t} :
               owner[u] = owner[t] /\ TaskDone(u) /\ finished[u] >= finished[t]
      BY <2>1
    <3> QED BY <2>5, <3>1 DEF RecentInv
  <2> QED BY <2>2, <2>4, <2>5
<1> QED BY <1>1, <1>2, OwnedNext, RecentNext, TypeCorrect, PTL DEF Spec
=============================================================================
