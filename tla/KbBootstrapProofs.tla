------------------------- MODULE KbBootstrapProofs --------------------------
(***************************************************************************)
(* The bootstrap streams, for any number of components and of events.  The *)
(* argument: the queue and the callbacks scheduled for it are one line,    *)
(* which begins with the events still on their way and ends with what is   *)
(* left of the sentinel and of the end of the future (LineInv); where the  *)
(* generator is fixes what the thread may still do (GenInv); so an event   *)
(* shown is the next of those emitted, by its rank (InOrder), and a verdict*)
(* comes after the last event of its component (VerdictInv).               *)
(***************************************************************************)
EXTENDS KbBootstrap, TLAPS, FiniteSetTheorems, FunctionTheorems, SequenceTheorems

\* Which of the events the client was sent come from the threads, how many they are,
\* and the rank of one among them.
OfThread(o)  == {i \in DOMAIN o : o[i].by = "thread"}
SeenIn(o)    == Cardinality(OfThread(o))
RankIn(o, i) == Cardinality({j \in OfThread(o) : j <= i})
Grows(o, e, a) == a = Append(o, e)
Takes(s, t) == t = Tail(s)
Moves(q, s, p, t) == p = Append(q, Head(s)) /\ t = Tail(s)
InOrder(o, s) == \A i \in OfThread(o) : RankIn(o, i) <= Len(s) /\ o[i] = s[RankIn(o, i)]

\* The queue and the scheduled callbacks, as one line of items.
HeldIn(q, s)    == Len(q) + Len(s)
ItemIn(q, s, i) == IF i <= Len(q) THEN q[i] ELSE s[i - Len(q)]

Held == HeldIn(queue, soon)
Seen == SeenIn(out)
Left == Len(sent) - Seen

Working == {"working", "open", "resolve", "delete", "process", "finally"}
Waiting == {"draining", "collect", "rest"}

\* The line begins with the events still on their way, and ends with what is left
\* of the sentinel and the end of the future, in this order.
LineInv ==
    /\ Seen <= Len(sent) /\ Left <= Held
    /\ \A i \in 1..Left : ItemIn(queue, soon, i) = sent[Seen + i] /\ sent[Seen + i].comp = job
    /\ worker \in Working => Held = Left
    /\ worker = "exit" => /\ Held \in {Left, Left + 1}
                          /\ Held = Left + 1 => ItemIn(queue, soon, Held) = Done
    /\ worker = "off" /\ ~done =>
           \/ Held = 0
           \/ /\ Held \in {Left + 1, Left + 2} /\ soon # <<>>
              /\ ItemIn(queue, soon, Held) = Returned
              /\ Held = Left + 2 => ItemIn(queue, soon, Held - 1) = Done
    /\ done => /\ worker = "off" /\ soon = <<>>
               /\ Held \in {Left, Left + 1}
               /\ Held = Left + 1 => ItemIn(queue, soon, Held) = Done

\* Where the generator is fixes what the thread may still do.
GenInv ==
    /\ gen \in {"next", "over"} => worker = "off" /\ Held = 0 /\ Left = 0
    /\ gen = "rest" => done
    /\ worker # "off" \/ gen \in Waiting => job = comp
    /\ gen \in Waiting => comp <= LastComponent

-----------------------------------------------------------------------------
\* What one more event sent to the client does to the ranks.
LEMMA RanksAppend ==
    ASSUME NEW X, NEW o \in Seq(X), NEW e, NEW a, Grows(o, e, a)
    PROVE  /\ SeenIn(o) \in Nat
           /\ e.by = "thread" => /\ SeenIn(a) = SeenIn(o) + 1
                                 /\ OfThread(a) = OfThread(o) \cup {Len(o) + 1}
                                 /\ RankIn(a, Len(o) + 1) = SeenIn(a)
           /\ e.by # "thread" => SeenIn(a) = SeenIn(o) /\ OfThread(a) = OfThread(o)
           /\ \A i \in OfThread(o) : RankIn(a, i) = RankIn(o, i) /\ a[i] = o[i]
           /\ a[Len(o) + 1] = e
           /\ OfThread(o) \subseteq 1..Len(o)
<1>0. /\ Len(o) \in Nat /\ DOMAIN o = 1..Len(o) /\ DOMAIN a = 1..(Len(o) + 1)
      /\ \A i \in 1..Len(o) : a[i] = o[i]
      /\ a[Len(o) + 1] = e
  BY DEF Grows
<1>1. OfThread(o) \subseteq 1..Len(o)
  BY <1>0 DEF OfThread
<1>2. IsFiniteSet(OfThread(o))
  <2>1. IsFiniteSet(1..Len(o))
    BY <1>0, FS_Interval
  <2> QED BY <1>1, <2>1, FS_Subset
<1>3. SeenIn(o) \in Nat
  BY <1>2, FS_CardinalityType DEF SeenIn
<1>4. OfThread(a) = OfThread(o) \cup (IF e.by = "thread" THEN {Len(o) + 1} ELSE {})
  BY <1>0 DEF OfThread
<1>5. Len(o) + 1 \notin OfThread(o)
  BY <1>0, <1>1
<1>6. e.by = "thread" => SeenIn(a) = SeenIn(o) + 1
  BY <1>2, <1>4, <1>5, FS_AddElement DEF SeenIn
<1>7. \A i \in OfThread(o) : RankIn(a, i) = RankIn(o, i)
  <2> SUFFICES ASSUME NEW i \in OfThread(o) PROVE RankIn(a, i) = RankIn(o, i)
    OBVIOUS
  <2>1. {j \in OfThread(a) : j <= i} = {j \in OfThread(o) : j <= i}
    BY <1>0, <1>1, <1>4
  <2> QED BY <2>1 DEF RankIn
<1>8. e.by = "thread" => RankIn(a, Len(o) + 1) = SeenIn(a)
  <2>1. {j \in OfThread(a) : j <= Len(o) + 1} = OfThread(a)
    BY <1>0, <1>1, <1>4
  <2> QED BY <2>1 DEF RankIn, SeenIn
<1>9. e.by # "thread" => SeenIn(a) = SeenIn(o)
  BY <1>4 DEF SeenIn
<1> QED BY <1>0, <1>1, <1>3, <1>4, <1>6, <1>7, <1>8, <1>9

\* Ranks are between 1 and the number of the thread's events.
LEMMA RankBounds ==
    ASSUME NEW X, NEW o \in Seq(X), NEW i \in OfThread(o)
    PROVE  RankIn(o, i) \in 1..SeenIn(o)
<1> DEFINE R == {j \in OfThread(o) : j <= i}
<1>1. IsFiniteSet(OfThread(o)) /\ i \in Nat
  <2>1. IsFiniteSet(1..Len(o)) /\ OfThread(o) \subseteq 1..Len(o)
    BY FS_Interval DEF OfThread
  <2> QED BY <2>1, FS_Subset
<1>2. R \subseteq OfThread(o) /\ i \in R
  BY <1>1
<1>3. IsFiniteSet(R) /\ Cardinality(R) <= Cardinality(OfThread(o))
  BY <1>1, <1>2, FS_Subset
<1>4. Cardinality(R) # 0
  BY <1>2, <1>3, FS_EmptySet
<1>5. Cardinality(R) \in Nat /\ Cardinality(OfThread(o)) \in Nat
  BY <1>1, <1>3, FS_CardinalityType
<1> QED BY <1>3, <1>4, <1>5 DEF RankIn, SeenIn

\* What was in order stays so when the threads emit more ...
LEMMA OrderLonger ==
    ASSUME NEW X, NEW o \in Seq(X), NEW S, NEW s \in Seq(S), NEW e, NEW t, Grows(s, e, t),
           InOrder(o, s)
    PROVE  InOrder(o, t)
<1> SUFFICES ASSUME NEW i \in OfThread(o)
             PROVE  RankIn(o, i) <= Len(t) /\ o[i] = t[RankIn(o, i)]
  BY DEF InOrder
<1>1. RankIn(o, i) <= Len(s) /\ o[i] = s[RankIn(o, i)]
  BY DEF InOrder
<1>2. RankIn(o, i) \in Nat \ {0}
  <2>1. RankIn(o, i) \in 1..SeenIn(o)
    BY RankBounds
  <2> QED BY <2>1
<1>3. Len(t) = Len(s) + 1 /\ Len(s) \in Nat /\ \A k \in 1..Len(s) : t[k] = s[k]
  BY DEF Grows
<1> QED BY <1>1, <1>2, <1>3

\* ... and when the next of their events, or one of the stream's own, is shown.
LEMMA OrderShown ==
    ASSUME NEW X, NEW o \in Seq(X), NEW S, NEW s \in Seq(S), NEW e, NEW a, Grows(o, e, a),
           InOrder(o, s),
           e.by = "thread" => SeenIn(o) + 1 <= Len(s) /\ e = s[SeenIn(o) + 1]
    PROVE  InOrder(a, s)
<1> SUFFICES ASSUME NEW i \in OfThread(a)
             PROVE  RankIn(a, i) <= Len(s) /\ a[i] = s[RankIn(a, i)]
  BY DEF InOrder
<1>1. CASE i \in OfThread(o)
  BY <1>1, RanksAppend DEF InOrder
<1>2. CASE i \notin OfThread(o)
  <2>1. e.by = "thread" /\ i = Len(o) + 1
    BY <1>2, RanksAppend
  <2>2. RankIn(a, i) = SeenIn(o) + 1 /\ a[i] = e
    BY <2>1, RanksAppend
  <2> QED BY <2>1, <2>2
<1> QED BY <1>1, <1>2

\* A callback more: the line is one longer, and otherwise as it was.
LEMMA LineAdds ==
    ASSUME NEW X, NEW q \in Seq(X), NEW s \in Seq(X), NEW x \in X, NEW a, Grows(s, x, a)
    PROVE  /\ HeldIn(q, s) \in Nat
           /\ HeldIn(q, a) = HeldIn(q, s) + 1
           /\ \A i \in 1..HeldIn(q, s) : ItemIn(q, a, i) = ItemIn(q, s, i)
           /\ ItemIn(q, a, HeldIn(q, s) + 1) = x
BY DEF HeldIn, ItemIn, Grows

\* A callback that runs moves an item from one part of the line to the other.
LEMMA LineMoves ==
    ASSUME NEW X, NEW q \in Seq(X), NEW s \in Seq(X), s # <<>>,
           NEW p, NEW t, Moves(q, s, p, t)
    PROVE  /\ HeldIn(q, s) \in Nat
           /\ HeldIn(p, t) = HeldIn(q, s)
           /\ \A i \in 1..HeldIn(q, s) : ItemIn(p, t, i) = ItemIn(q, s, i)
BY DEF HeldIn, ItemIn, Moves

\* The head of the line ...
LEMMA LineFirst ==
    ASSUME NEW X, NEW q \in Seq(X), NEW s \in Seq(X), s # <<>>, NEW t, Takes(s, t)
    PROVE  /\ Len(q) + 1 \in 1..HeldIn(q, s) /\ HeldIn(q, s) \in Nat
           /\ ItemIn(q, s, Len(q) + 1) = Head(s)
           /\ Len(q) + 1 = HeldIn(q, s) <=> t = <<>>
           /\ HeldIn(q, t) = HeldIn(q, s) - 1
           /\ \A i \in 1..Len(q) : ItemIn(q, t, i) = ItemIn(q, s, i)
BY DEF HeldIn, ItemIn, Takes

\* ... and what is left without it.
LEMMA LineTakes ==
    ASSUME NEW X, NEW q \in Seq(X), NEW s \in Seq(X), q # <<>>, NEW p, Takes(q, p)
    PROVE  /\ HeldIn(q, s) \in Nat \ {0}
           /\ HeldIn(p, s) = HeldIn(q, s) - 1
           /\ \A i \in 1..HeldIn(p, s) : ItemIn(p, s, i) = ItemIn(q, s, i + 1)
           /\ ItemIn(q, s, 1) = Head(q)
           /\ HeldIn(q, s) = 1 => p = <<>>
BY DEF HeldIn, ItemIn, Takes

-----------------------------------------------------------------------------
(* Types.                                                                  *)

\* What travels is told apart by its stage.
LEMMA EventKinds ==
    /\ Done \notin Events /\ Returned \notin Events /\ Done # Returned
    /\ \A e \in Events : e.comp \in 1..Components /\ e.by = "thread" /\ e.stage \in Stages
    /\ \A c \in 1..Components, s \in Stages :
           /\ Event(c, s) \in Events
           /\ Event(c, s).comp = c /\ Event(c, s).stage = s
    /\ \A c \in 0..Components, s \in {"failed", "completed"} :
           /\ Verdict(c, s) \in Verdicts
           /\ Verdict(c, s).comp = c /\ Verdict(c, s).by = "stream"
    /\ \A e \in Events : [e EXCEPT !.comp = e.comp] = e
    /\ \A e \in Events, c \in 1..Components : [e EXCEPT !.comp = c] \in Events
<1>1. Done \notin Events /\ Returned \notin Events /\ Done # Returned
  BY DEF Done, Returned, Events, Stages
<1>2. \A e \in Events : e.comp \in 1..Components /\ e.by = "thread" /\ e.stage \in Stages
  BY DEF Events
<1>3. \A c \in 1..Components, s \in Stages :
           /\ Event(c, s) \in Events
           /\ Event(c, s).comp = c /\ Event(c, s).stage = s
  BY DEF Event, Events
<1>4. \A c \in 0..Components, s \in {"failed", "completed"} :
           /\ Verdict(c, s) \in Verdicts
           /\ Verdict(c, s).comp = c /\ Verdict(c, s).by = "stream"
  BY DEF Verdict, Verdicts
<1>5. \A e \in Events : [e EXCEPT !.comp = e.comp] = e
  BY DEF Events
<1>6. \A e \in Events, c \in 1..Components : [e EXCEPT !.comp = c] \in Events
  BY DEF Events
<1> QED
  BY <1>1, <1>2, <1>3, <1>4, <1>5, <1>6

\* A step of the thread that works on its component.
Works ==
    /\ worker \in Working \ {"finally"} /\ worker' \in Working
    /\ items' \in 0..MaxItems /\ result' \in {"none", "success", "failed", "raised"}
    /\ (\E s \in Stages : Emit(s)) \/ Nothing
    /\ UNCHANGED <<request, comp, gen, token, out, cancelled, job, queue, done>>

\* What a step of the thread does: it emits an event, or only goes on.
LEMMA WorkKinds ==
    ASSUME TypeOK
    PROVE  WorkComponent \/ DocsOpen \/ DocsResolve \/ DocsDelete \/ DocsProcess => Works
<1>0. items \in 0..MaxItems /\ MaxItems \in Nat /\ result \in {"none", "success", "failed", "raised"}
  BY KbAssumption DEF TypeOK
<1>1. CASE WorkComponent
  BY <1>0, <1>1 DEF WorkComponent, Works, Working, Enter, Leave, stream, Stages
<1>2. CASE DocsOpen
  BY <1>0, <1>2 DEF DocsOpen, Works, Working, Enter, Leave, stream, Stages
<1>3. CASE DocsResolve
  BY <1>0, <1>3 DEF DocsResolve, GivesUp, Works, Working, Enter, Leave, stream, Stages
<1>4. CASE DocsDelete
  BY <1>0, <1>4 DEF DocsDelete, GivesUp, Works, Working, Enter, Leave, stream, Stages
<1>5. CASE DocsProcess
  BY <1>0, <1>5 DEF DocsProcess, Works, Working, Enter, Leave, stream, Stages
<1> QED
  BY <1>1, <1>2, <1>3, <1>4, <1>5

\* A queue keeps its type when an item is added or taken.
LEMMA LineTypes ==
    ASSUME NEW S, NEW s \in Seq(S)
    PROVE  /\ \A x \in S : Append(s, x) \in Seq(S)
           /\ s # <<>> => Head(s) \in S /\ Tail(s) \in Seq(S)
OBVIOUS


\* The last component is one of the request's.
LEMMA LastBounds == TypeOK => LastComponent \in 1..Components
BY KbAssumption DEF TypeOK, LastComponent

\* The state has its shape.
LEMMA KbTypeInit == Init => TypeOK
<1> SUFFICES ASSUME Init PROVE TypeOK
  OBVIOUS
<1>1. /\ soon \in Seq(Events \cup {Done, Returned}) /\ queue \in Seq(Events \cup {Done})
      /\ sent \in Seq(Events) /\ out \in Seq(Events \cup Verdicts)
  BY DEF Init
<1>2. 1 \in 1..(Components + 1) /\ 1 \in 1..Components /\ 0 \in 0..MaxItems
  BY KbAssumption
<1> QED
  BY <1>1, <1>2 DEF Init, TypeOK

LEMMA KbTypeStep ==
    ASSUME TypeOK, [Next]_vars, gen \in Waiting => comp <= LastComponent
    PROVE  TypeOK'
<1> USE KbAssumption
<1> DEFINE S == Events \cup {Done, Returned}
           Q == Events \cup {Done}
           O == Events \cup Verdicts
<1>0. soon \in Seq(S) /\ queue \in Seq(Q) /\ out \in Seq(O) /\ sent \in Seq(Events)
      /\ Components \in Nat \ {0} /\ comp \in 1..(Components + 1) /\ job \in 1..Components
      /\ LastComponent \in 1..Components
  BY LastBounds DEF TypeOK
<1>a. /\ \A e \in Events : e \in S /\ e \in Q /\ e \in O
      /\ \A e \in Verdicts : e \in O
      /\ Done \in S /\ Returned \in S
  OBVIOUS
<1> HIDE DEF S, Q, O
<1>1. CASE WorkComponent \/ DocsOpen \/ DocsResolve \/ DocsDelete \/ DocsProcess
  <2>1. Works /\ olddata' \in BOOLEAN
    BY <1>1, WorkKinds DEF WorkComponent, DocsOpen, DocsResolve, DocsDelete, DocsProcess, TypeOK
  <2>2. soon' \in Seq(S) /\ sent' \in Seq(Events)
    <3>1. CASE Nothing
      BY <1>0, <3>1 DEF Nothing
    <3>2. ASSUME NEW s \in Stages, Emit(s)
          PROVE  soon' \in Seq(S) /\ sent' \in Seq(Events)
      <4>1. Event(job, s) \in Events
        BY <1>0, EventKinds
      <4> QED
        BY <1>0, <1>a, <3>2, <4>1, LineTypes DEF Emit
    <3> QED
      BY <2>1, <3>1, <3>2 DEF Works
  <2> QED
    BY <2>1, <2>2 DEF TypeOK, Works, Working, S
<1>2. CASE Finally \/ Exit
  <2>1. soon' \in Seq(S)
    BY <1>0, <1>a, <1>2, LineTypes DEF Finally, Exit
  <2> QED
    BY <1>2, <2>1 DEF TypeOK, Finally, Exit, stream, S
<1>3. CASE Callback
  <2>1. soon' \in Seq(S) /\ Head(soon) \in S
    BY <1>0, <1>3, LineTypes DEF Callback
  <2>2. Head(soon) # Returned => Head(soon) \in Q
    BY <2>1 DEF S, Q
  <2>3. queue' \in Seq(Q)
    BY <1>0, <1>3, <2>2, LineTypes DEF Callback
  <2> QED
    BY <1>3, <2>1, <2>3 DEF TypeOK, Callback, stream, thread, S, Q
<1>4. CASE StartComponent
  <2>1. comp \in 1..Components
    BY <1>0, <1>4 DEF StartComponent
  <2>2. out' \in Seq(O)
    <3>1. Verdict(comp, "failed") \in O /\ Verdict(All, "completed") \in O
      BY <1>a, <2>1, EventKinds DEF All
    <3>2. <<Verdict(comp, "failed"), Verdict(All, "completed")>> \in Seq(O)
      BY <3>1
    <3>3. out \o <<Verdict(comp, "failed"), Verdict(All, "completed")>> \in Seq(O)
      BY <1>0, <3>2, ConcatProperties
    <3> QED
      BY <1>0, <1>4, <3>3 DEF StartComponent
  <2>3. worker' \in {"off", "working", "open", "resolve", "delete", "process", "finally", "exit"}
    BY <1>4 DEF TypeOK, StartComponent, Start, Begin, thread
  <2>4. job' \in 1..Components /\ items' \in 0..MaxItems
        /\ result' \in {"none", "success", "failed", "raised"} /\ done' \in BOOLEAN
    <3>0. 0 \in 0..MaxItems
      OBVIOUS
    <3>1. CASE Start
      <4>1. job' = comp /\ items' = 0 /\ result' = "none" /\ done' = FALSE
        BY <3>1 DEF Start
      <4> QED
        BY <2>1, <3>0, <4>1
    <3>2. CASE UNCHANGED <<thread, done>>
      BY <3>2 DEF TypeOK, thread
    <3> QED
      BY <1>4, <3>1, <3>2 DEF StartComponent
  <2>5. gen' \in {"next", "draining", "collect", "rest", "over", "left"} /\ token' \in BOOLEAN
    BY <1>4 DEF TypeOK, StartComponent, StreamOver
  <2>6. UNCHANGED <<request, comp, cancelled, soon, queue, olddata, sent>>
    BY <1>4 DEF StartComponent
  <2> QED
    BY <2>2, <2>3, <2>4, <2>5, <2>6 DEF TypeOK, O
<1>5. CASE Drain \/ Rest
  <2>1. queue # <<>> /\ Head(queue) \in Q /\ Tail(queue) \in Seq(Q) /\ <<>> \in Seq(Q)
    BY <1>0, <1>5, LineTypes DEF Drain, Rest
  <2>2. queue' \in Seq(Q)
    BY <1>5, <2>1 DEF Drain, Rest
  <2>3. out' \in Seq(O)
    <3>1. comp \in 1..Components
      BY <1>0, <1>5 DEF Drain, Rest, Waiting
    <3>2. Head(queue) # Done => [Head(queue) EXCEPT !.comp = comp] \in Events
      BY <2>1, <3>1, EventKinds DEF Q
    <3> QED
      BY <1>0, <1>a, <1>5, <3>2, LineTypes DEF Drain, Rest
  <2> QED
    BY <1>5, <2>2, <2>3 DEF TypeOK, Drain, Rest, thread, O, Q
<1>6. CASE Judge
  <2>1. comp \in 1..Components
    BY <1>0, <1>6 DEF Judge
  <2>2. out' \in Seq(O)
    <3> DEFINE shown == Append(out, Verdict(comp, VerdictOf))
    <3>1. Verdict(comp, VerdictOf) \in O /\ Verdict(All, "completed") \in O
      BY <1>a, <2>1, EventKinds DEF All, VerdictOf
    <3>2. shown \in Seq(O)
      BY <1>0, <3>1, LineTypes
    <3>3. Append(shown, Verdict(All, "completed")) \in Seq(O)
      BY <3>1, <3>2, LineTypes
    <3> QED
      BY <1>6, <3>2, <3>3 DEF Judge
  <2>3. comp' \in 1..(Components + 1)
    BY <1>0, <1>6, <2>1 DEF Judge
  <2>4. gen' \in {"next", "over"} /\ token' \in {token, FALSE}
        /\ UNCHANGED <<request, cancelled, thread, inbox, olddata, sent>>
    BY <1>6 DEF Judge, StreamOver
  <2> QED
    BY <2>2, <2>3, <2>4 DEF TypeOK, thread, inbox, O
<1>7. CASE DrainEnds \/ Collect \/ Disconnect \/ Cancel \/ Stopped \/ UNCHANGED vars
  <2>1. /\ UNCHANGED <<request, comp, out, thread, inbox, olddata, sent>>
        /\ gen' \in {gen, "collect", "rest", "left"}
    BY <1>7 DEF DrainEnds, Collect, Disconnect, Cancel, Stopped, vars, stream
  <2>2. token' \in BOOLEAN /\ cancelled' \in BOOLEAN
    BY <1>7 DEF TypeOK, DrainEnds, Collect, Disconnect, Cancel, Stopped, vars, stream
  <2> QED
    BY <2>1, <2>2 DEF TypeOK, thread, inbox
<1> QED
  BY <1>1, <1>2, <1>3, <1>4, <1>5, <1>6, <1>7 DEF Next, Thread, Generator

-----------------------------------------------------------------------------
(* The line of items, and the place of the generator.                      *)

\* The lengths the arguments below calculate with.
LEMMA LineNumbers ==
    ASSUME TypeOK
    PROVE  /\ Held \in Nat /\ Seen \in Nat /\ Len(sent) \in Nat /\ Left \in Int
           /\ Left = Len(sent) - Seen
           /\ \A i \in 1..Len(sent) : sent[i] \in Events
           /\ queue \in Seq(Events \cup {Done, Returned}) /\ soon \in Seq(Events \cup {Done, Returned})
           /\ out \in Seq(Events \cup Verdicts)
<1>1. /\ queue \in Seq(Events \cup {Done, Returned}) /\ soon \in Seq(Events \cup {Done, Returned})
      /\ out \in Seq(Events \cup Verdicts) /\ sent \in Seq(Events)
  BY DEF TypeOK
<1>2. Held \in Nat
  BY <1>1 DEF Held, HeldIn
<1>3. Seen \in Nat
  <2>1. Grows(out, Done, Append(out, Done))
    BY DEF Grows
  <2> QED BY <1>1, <2>1, RanksAppend DEF Seen
<1>4. Len(sent) \in Nat /\ \A i \in 1..Len(sent) : sent[i] \in Events
  BY <1>1
<1> QED BY <1>1, <1>2, <1>3, <1>4 DEF Left

\* The first item of the queue is the next event, or nothing but the sentinel is left.
LEMMA FirstItem ==
    ASSUME TypeOK, LineInv, queue # <<>>
    PROVE  /\ Head(queue) = Done => Left = 0
           /\ Head(queue) # Done => /\ Left >= 1 /\ Head(queue) = sent[Seen + 1]
                                    /\ Head(queue) \in Events /\ Head(queue).comp = job
<1>1. ItemIn(queue, soon, 1) = Head(queue) /\ Held \in Nat \ {0}
  <2>1. Takes(queue, Tail(queue))
    BY DEF Takes
  <2> QED BY <2>1, LineNumbers, LineTakes DEF Held
<1>2. Head(queue) \in Events \cup {Done} /\ Head(queue) # Returned
  <2>1. Head(queue) \in Events \cup {Done}
    BY DEF TypeOK
  <2> QED BY <2>1, EventKinds
<1>3. Left >= 1 => Head(queue) = sent[Seen + 1] /\ Head(queue) \in Events /\ Head(queue).comp = job
  <2> SUFFICES ASSUME Left >= 1
               PROVE  Head(queue) = sent[Seen + 1] /\ Head(queue) \in Events /\ Head(queue).comp = job
    OBVIOUS
  <2>1. 1 \in 1..Left /\ Seen + 1 \in 1..Len(sent)
    BY LineNumbers
  <2> QED BY <1>1, <2>1, LineNumbers DEF LineInv
<1>4. Left = 0 => Head(queue) = Done
  BY <1>1, <1>2, LineNumbers DEF LineInv, TypeOK, Working
<1>5. Left >= 0
  BY LineNumbers DEF LineInv
<1> QED BY <1>3, <1>4, <1>5, LineNumbers, EventKinds

\* The end of the future is the last the thread tells the event loop.
LEMMA ReturnedLast ==
    ASSUME TypeOK, LineInv, soon # <<>>
    PROVE  /\ Head(soon) = Returned => /\ worker = "off" /\ ~done /\ Len(queue) + 1 = Held
                                       /\ Held \in {Left + 1, Left + 2}
                                       /\ Held = Left + 2 => ItemIn(queue, soon, Held - 1) = Done
           /\ Head(soon) # Returned /\ worker = "off" => Tail(soon) # <<>>
           /\ ~done
<1> DEFINE p == Len(queue) + 1
<1>1. p \in 1..Held /\ ItemIn(queue, soon, p) = Head(soon)
      /\ (p = Held <=> Tail(soon) = <<>>)
  <2>1. Takes(soon, Tail(soon))
    BY DEF Takes
  <2> QED BY <2>1, LineNumbers, LineFirst DEF Held
<1>2. ~done
  BY DEF LineInv
<1>3. p \in Int /\ Held \in Nat /\ Left \in Int
  BY LineNumbers, <1>1
<1> HIDE DEF p
<1>4. p <= Left => Head(soon) \in Events
  <2> SUFFICES ASSUME p <= Left PROVE Head(soon) \in Events
    OBVIOUS
  <2>1. p \in 1..Left /\ Seen + p \in 1..Len(sent)
    BY <1>1, LineNumbers
  <2> QED BY <1>1, <2>1, LineNumbers DEF LineInv
<1>5. Head(soon) = Returned => p > Left
  BY <1>3, <1>4, EventKinds
<1>6. Head(soon) = Returned => worker = "off"
  <2>1. worker \in Working => Held = Left
    BY DEF LineInv
  <2>2. worker = "exit" /\ p > Left => Head(soon) = Done
    BY <1>1, <1>3 DEF LineInv
  <2> QED BY <1>1, <1>3, <1>5, <2>1, <2>2, EventKinds DEF TypeOK, Working
<1>7. worker = "off" => /\ Held \in {Left + 1, Left + 2}
                        /\ ItemIn(queue, soon, Held) = Returned
                        /\ Held = Left + 2 => ItemIn(queue, soon, Held - 1) = Done
  BY <1>1, <1>2, <1>3 DEF LineInv
<1>8. Head(soon) = Returned => p = Held
  BY <1>1, <1>3, <1>5, <1>6, <1>7, EventKinds
<1>9. Head(soon) # Returned /\ worker = "off" => Tail(soon) # <<>>
  BY <1>1, <1>7
<1> QED BY <1>2, <1>6, <1>7, <1>8, <1>9 DEF p

\* The line and the order, step by step.
LEMMA LineInit == Init => LineInv /\ GenInv /\ InOrder(out, sent)
<1> SUFFICES ASSUME Init PROVE LineInv /\ GenInv /\ InOrder(out, sent)
  OBVIOUS
<1>1. OfThread(out) = {}
  BY DEF Init, OfThread
<1>2. Seen = 0
  BY <1>1, FS_EmptySet DEF Seen, SeenIn
<1>3. Held = 0 /\ Len(sent) = 0 /\ Left = 0
  BY <1>2 DEF Init, Held, HeldIn, Left
<1>4. worker = "off" /\ ~done /\ gen = "next"
  BY DEF Init
<1>5. LineInv
  BY <1>2, <1>3, <1>4 DEF LineInv, Working
<1>6. GenInv
  BY <1>3, <1>4 DEF GenInv, Waiting
<1> QED BY <1>1, <1>5, <1>6 DEF InOrder

\* What the client is sent by a step that takes the next event from the line.
LEMMA ShowsNext ==
    ASSUME TypeOK, InOrder(out, sent), Left >= 1, NEW a, Grows(out, sent[Seen + 1], a)
    PROVE  SeenIn(a) = Seen + 1 /\ InOrder(a, sent)
<1>1. Seen + 1 \in 1..Len(sent) /\ Seen + 1 <= Len(sent)
  BY LineNumbers
<1>2. sent[Seen + 1] \in Events
  BY <1>1, LineNumbers
<1>3. sent[Seen + 1].by = "thread"
  BY <1>2, EventKinds
<1>4. out \in Seq(Events \cup Verdicts) /\ sent \in Seq(Events)
  BY DEF TypeOK
<1>5. SeenIn(a) = Seen + 1
  BY <1>3, <1>4, RanksAppend DEF Seen
<1>6. InOrder(a, sent)
  BY <1>1, <1>3, <1>4, OrderShown DEF Seen
<1> QED BY <1>5, <1>6

\* A verdict is none of the threads' events.
LEMMA ShowsVerdict ==
    ASSUME NEW o \in Seq(Events \cup Verdicts), NEW e, e.by = "stream",
           NEW a, Grows(o, e, a)
    PROVE  /\ SeenIn(a) = SeenIn(o)
           /\ \A s \in Seq(Events) : InOrder(o, s) => InOrder(a, s)
<1>1. e.by # "thread"
  OBVIOUS
<1>2. SeenIn(a) = SeenIn(o)
  BY <1>1, RanksAppend
<1>3. ASSUME NEW s \in Seq(Events), InOrder(o, s) PROVE InOrder(a, s)
  BY <1>1, <1>3, OrderShown
<1> QED BY <1>2, <1>3

LEMMA LineStep ==
    ASSUME TypeOK, LineInv, GenInv, InOrder(out, sent), [Next]_vars
    PROVE  LineInv' /\ GenInv' /\ InOrder(out', sent')
<1> DEFINE S == Events \cup {Done, Returned}
<1>0. /\ Held \in Nat /\ Seen \in Nat /\ Len(sent) \in Nat /\ Left \in Nat
      /\ Left = Len(sent) - Seen
      /\ \A i \in 1..Len(sent) : sent[i] \in Events
      /\ queue \in Seq(S) /\ soon \in Seq(S) /\ sent \in Seq(Events)
      /\ out \in Seq(Events \cup Verdicts)
      /\ Done \in S /\ Returned \in S /\ (\A e \in Events : e \in S)
  BY LineNumbers DEF LineInv, TypeOK
<1>t. TypeOK'
  BY KbTypeStep DEF GenInv
<1> HIDE DEF S
<1>1. ASSUME Works, NEW s \in Stages, Emit(s)
      PROVE  LineInv' /\ GenInv' /\ InOrder(out', sent')
  <2> DEFINE x == Event(job, s)
  <2>1. x \in Events /\ x.comp = job /\ x \in S
    BY <1>0, EventKinds DEF TypeOK
  <2>2. Grows(soon, x, soon') /\ Grows(sent, x, sent')
    BY <1>1 DEF Emit, Grows
  <2> HIDE DEF x
  <2>3. /\ Held' = Held + 1
        /\ \A i \in 1..Held : ItemIn(queue', soon', i) = ItemIn(queue, soon, i)
        /\ ItemIn(queue', soon', Held + 1) = x
    BY <1>0, <1>1, <2>1, <2>2, LineAdds DEF Works, Held
  <2>4. Len(sent') = Len(sent) + 1 /\ sent'[Len(sent) + 1] = x
        /\ \A i \in 1..Len(sent) : sent'[i] = sent[i]
    BY <1>0, <2>2 DEF Grows
  <2>5. Seen' = Seen /\ Left' = Left + 1 /\ InOrder(out', sent')
    <3>1. out' = out /\ Seen' = Seen
      BY <1>1 DEF Works, Seen
    <3>2. InOrder(out, sent')
      BY <1>0, <2>2, OrderLonger
    <3> QED BY <1>0, <2>4, <3>1, <3>2 DEF Left
  <2>6. worker \in Working /\ worker' \in Working /\ job' = job /\ gen' = gen /\ comp' = comp
        /\ done' = done /\ request' = request
    BY <1>1 DEF Works
  <2>7. Held = Left /\ ~done
    BY <2>6 DEF LineInv, Working
  <2>8. \A i \in 1..(Left + 1) :
            ItemIn(queue', soon', i) = sent'[Seen + i] /\ sent'[Seen + i].comp = job
    <3> SUFFICES ASSUME NEW i \in 1..(Left + 1)
                 PROVE  ItemIn(queue', soon', i) = sent'[Seen + i] /\ sent'[Seen + i].comp = job
      OBVIOUS
    <3>1. CASE i = Left + 1
      BY <1>0, <2>1, <2>3, <2>4, <2>7, <3>1
    <3>2. CASE i # Left + 1
      <4>1. i \in 1..Left /\ i \in 1..Held /\ Seen + i \in 1..Len(sent)
        BY <1>0, <2>7, <3>2
      <4> QED BY <2>3, <2>4, <4>1 DEF LineInv
    <3> QED BY <3>1, <3>2
  <2>9. LineInv'
    BY <1>0, <2>3, <2>4, <2>5, <2>6, <2>7, <2>8 DEF LineInv, Working
  <2>10. GenInv'
    BY <2>6, <2>7 DEF GenInv, Working, LastComponent
  <2> QED BY <2>5, <2>9, <2>10
<1>2. CASE Works /\ Nothing
  <2>1. worker \in Working /\ worker' \in Working /\ UNCHANGED <<soon, queue, sent, out, job, gen, comp, done, request>>
    BY <1>2 DEF Works, Nothing
  <2>2. Held' = Held /\ Seen' = Seen /\ Left' = Left
    BY <2>1 DEF Held, Seen, Left
  <2>3. Held = Left /\ ~done
    BY <2>1 DEF LineInv, Working
  <2>4. LineInv'
    BY <1>0, <2>1, <2>2, <2>3 DEF LineInv, Working
  <2>5. GenInv'
    BY <2>1, <2>2, <2>3 DEF GenInv, Working, LastComponent
  <2> QED BY <2>1, <2>4, <2>5
<1>3. CASE Finally \/ Exit
  <2> DEFINE x == IF worker = "finally" THEN Done ELSE Returned
  <2>1. /\ UNCHANGED <<queue, sent, out, job, gen, comp, done, request>>
        /\ Grows(soon, x, soon') /\ x \in S
        /\ \/ worker = "finally" /\ worker' = "exit" /\ x = Done
           \/ worker = "exit" /\ worker' = "off" /\ x = Returned
    BY <1>0, <1>3 DEF Finally, Exit, stream, Grows
  <2> HIDE DEF x
  <2>2. /\ Held' = Held + 1 /\ soon' # <<>>
        /\ \A i \in 1..Held : ItemIn(queue', soon', i) = ItemIn(queue, soon, i)
        /\ ItemIn(queue', soon', Held + 1) = x
    <3>1. /\ Held' = Held + 1
          /\ \A i \in 1..Held : ItemIn(queue', soon', i) = ItemIn(queue, soon, i)
          /\ ItemIn(queue', soon', Held + 1) = x
      BY <1>0, <2>1, LineAdds DEF Held
    <3>2. soon' # <<>>
      BY <1>0, <2>1 DEF Grows
    <3> QED BY <3>1, <3>2
  <2>3. Seen' = Seen /\ Left' = Left /\ Left <= Held
    BY <2>1 DEF Seen, Left, LineInv
  <2>4. ~done
    BY <2>1 DEF LineInv
  <2>5. \A i \in 1..Left : ItemIn(queue', soon', i) = sent[Seen + i] /\ sent[Seen + i].comp = job
    <3> SUFFICES ASSUME NEW i \in 1..Left
                 PROVE  ItemIn(queue', soon', i) = sent[Seen + i] /\ sent[Seen + i].comp = job
      OBVIOUS
    <3>1. i \in 1..Held
      BY <1>0, <2>3
    <3> QED BY <2>2, <3>1 DEF LineInv
  <2>6. LineInv'
    <3>1. CASE worker = "finally"
      <4>1. Held = Left
        BY <3>1 DEF LineInv, Working
      <4> QED BY <1>0, <2>1, <2>2, <2>3, <2>4, <2>5, <3>1, <4>1 DEF LineInv, Working
    <3>2. CASE worker = "exit"
      <4>1. Held \in {Left, Left + 1} /\ (Held = Left + 1 => ItemIn(queue, soon, Held) = Done)
        BY <3>2 DEF LineInv
      <4>2. Held = Left + 1 => ItemIn(queue', soon', Held) = Done
        BY <1>0, <2>2, <4>1
      <4>3. worker' = "off" /\ x = Returned /\ ~done'
        BY <2>1, <2>4, <3>2
      <4>4. Held' \in {Left' + 1, Left' + 2} /\ ItemIn(queue', soon', Held') = Returned
        <5>1. Held' = Held + 1 /\ ItemIn(queue', soon', Held + 1) = x
          BY <2>2
        <5>2. Held + 1 \in {Left + 1, Left + 2}
          BY <1>0, <4>1
        <5>3. Held' \in {Left' + 1, Left' + 2}
          BY <2>3, <5>1, <5>2
        <5> QED BY <4>3, <5>1, <5>3
      <4>5. Held' = Left' + 2 => ItemIn(queue', soon', Held' - 1) = Done
        BY <1>0, <2>2, <2>3, <4>1, <4>2
      <4>6. Left' <= Held'
        BY <1>0, <2>2, <2>3
      <4>7. \A i \in 1..Left' : ItemIn(queue', soon', i) = sent'[Seen' + i] /\ sent'[Seen' + i].comp = job'
        BY <2>1, <2>3, <2>5
      <4>8. Seen' <= Len(sent')
        BY <2>1, <2>3 DEF LineInv
      <4> QED BY <2>2, <4>3, <4>4, <4>5, <4>6, <4>7, <4>8 DEF LineInv, Working
    <3> QED BY <2>1, <3>1, <3>2
  <2>7. GenInv'
    BY <2>1, <2>4 DEF GenInv, LastComponent
  <2> QED BY <2>1, <2>6, <2>7
<1>4. CASE Callback
  <2>1. /\ soon # <<>> /\ soon' = Tail(soon)
        /\ UNCHANGED <<sent, out, job, gen, comp, request, worker>>
        /\ ~done /\ Seen' = Seen /\ Left' = Left
    BY <1>4, ReturnedLast DEF Callback, stream, thread, Seen, Left
  <2>2. CASE Head(soon) = Returned
    <3>1. done' /\ queue' = queue
      BY <1>4, <2>2 DEF Callback
    <3>2. /\ worker = "off" /\ Len(queue) + 1 = Held /\ Held \in {Left + 1, Left + 2}
          /\ Held = Left + 2 => ItemIn(queue, soon, Held - 1) = Done
      BY <2>1, <2>2, ReturnedLast
    <3>3. /\ soon' = <<>> /\ Held' = Held - 1
          /\ \A i \in 1..Len(queue) : ItemIn(queue', soon', i) = ItemIn(queue, soon, i)
      <4>1. Takes(soon, soon')
        BY <2>1 DEF Takes
      <4>2. /\ HeldIn(queue, soon) = Len(queue) + 1 => soon' = <<>>
            /\ HeldIn(queue, soon') = HeldIn(queue, soon) - 1
            /\ \A i \in 1..Len(queue) : ItemIn(queue, soon', i) = ItemIn(queue, soon, i)
        BY <1>0, <2>1, <4>1, LineFirst
      <4> QED BY <3>1, <3>2, <4>2 DEF Held
    <3>4. \A i \in 1..(Held - 1) : ItemIn(queue', soon', i) = ItemIn(queue, soon, i)
      BY <1>0, <3>2, <3>3
    <3>5. LineInv'
      <4>1. \A i \in 1..Left : i \in 1..(Held - 1)
        BY <1>0, <3>2
      <4>2. Held = Left + 2 => ItemIn(queue', soon', Held - 1) = Done
        BY <1>0, <3>2, <3>4
      <4> QED BY <1>0, <2>1, <3>1, <3>2, <3>3, <3>4, <4>1, <4>2 DEF LineInv, Working
    <3>6. GenInv'
      <4>1. gen \notin {"next", "over"}
        BY <1>0, <3>2 DEF GenInv
      <4> QED BY <2>1, <3>1, <4>1 DEF GenInv, LastComponent
    <3> QED BY <2>1, <3>5, <3>6
  <2>3. CASE Head(soon) # Returned
    <3>1. done' = done /\ queue' = Append(queue, Head(soon))
      BY <1>4, <2>3 DEF Callback
    <3>2. Held' = Held /\ \A i \in 1..Held : ItemIn(queue', soon', i) = ItemIn(queue, soon, i)
      <4>1. Moves(queue, soon, queue', soon')
        BY <2>1, <3>1 DEF Moves
      <4> QED BY <1>0, <2>1, <4>1, LineMoves DEF Held
    <3>3. worker = "off" => soon' # <<>>
      BY <2>1, <2>3, ReturnedLast
    <3>4. LineInv'
      <4>1. Left <= Held
        BY DEF LineInv
      <4>2. \A i \in 1..Left : i \in 1..Held
        BY <1>0, <4>1
      <4>3. Held # 0 => Held \in 1..Held
        BY <1>0
      <4>4. Held = Left + 2 => Held - 1 \in 1..Held
        BY <1>0
      <4>5. worker \in Working => Held = Left
        BY DEF LineInv
      <4>6. worker = "exit" => /\ Held \in {Left, Left + 1}
                               /\ Held = Left + 1 => ItemIn(queue', soon', Held) = Done
        BY <1>0, <3>2, <4>3 DEF LineInv
      <4>7. worker = "off" => \/ Held = 0
                              \/ /\ Held \in {Left + 1, Left + 2}
                                 /\ ItemIn(queue', soon', Held) = Returned
                                 /\ Held = Left + 2 => ItemIn(queue', soon', Held - 1) = Done
        BY <1>0, <2>1, <3>2, <4>3, <4>4 DEF LineInv
      <4>8. \A i \in 1..Left : ItemIn(queue', soon', i) = sent[Seen + i] /\ sent[Seen + i].comp = job
        BY <3>2, <4>2 DEF LineInv
      <4>9. Seen <= Len(sent)
        BY DEF LineInv
      <4> QED BY <2>1, <3>1, <3>2, <3>3, <4>1, <4>5, <4>6, <4>7, <4>8, <4>9 DEF LineInv
    <3>5. GenInv'
      BY <2>1, <3>1, <3>2 DEF GenInv, LastComponent
    <3> QED BY <2>1, <3>4, <3>5
  <2> QED BY <2>2, <2>3
<1>5. CASE StartComponent
  <2>1. /\ worker = "off" /\ Held = 0 /\ Left = 0 /\ gen = "next"
        /\ UNCHANGED <<request, comp, queue, soon, sent>> /\ comp <= LastComponent
    BY <1>5 DEF StartComponent, GenInv
  <2>2. Held' = 0
    BY <2>1 DEF Held
  <2>3. CASE gen' = "draining" /\ Start /\ UNCHANGED out
    <3>1. Seen' = Seen /\ Left' = Left
      BY <2>1, <2>3 DEF Seen, Left
    <3>2. worker' \in Working /\ ~done' /\ job' = comp
      BY <2>3 DEF Start, Begin, Working
    <3>3. Seen <= Len(sent)
      BY DEF LineInv
    <3>4. LineInv'
      BY <1>0, <2>1, <2>2, <3>1, <3>2, <3>3 DEF LineInv, Working
    <3>5. GenInv'
      BY <2>1, <2>3, <3>2 DEF GenInv, Waiting, LastComponent
    <3> QED BY <2>1, <2>3, <3>4, <3>5
  <2>4. CASE StreamOver /\ UNCHANGED <<thread, done>>
             /\ out' = out \o <<Verdict(comp, "failed"), Verdict(All, "completed")>>
    <3> DEFINE a == Append(out, Verdict(comp, "failed"))
    <3>1. /\ Verdict(comp, "failed") \in Verdicts /\ Verdict(comp, "failed").by = "stream"
          /\ Verdict(All, "completed") \in Verdicts /\ Verdict(All, "completed").by = "stream"
      <4>1. comp \in 0..Components /\ All \in 0..Components
        BY <2>1, LastBounds, KbAssumption DEF TypeOK, All
      <4> QED BY <4>1, EventKinds
    <3>2. a \in Seq(Events \cup Verdicts)
      BY <1>0, <3>1
    <3>3. out' = Append(a, Verdict(All, "completed"))
      BY <1>0, <2>4, <3>1
    <3>4. Grows(out, Verdict(comp, "failed"), a) /\ Grows(a, Verdict(All, "completed"), out')
      BY <3>3 DEF Grows
    <3> HIDE DEF a
    <3>5. SeenIn(a) = SeenIn(out) /\ InOrder(a, sent)
      BY <1>0, <3>1, <3>4, ShowsVerdict
    <3>6. SeenIn(out') = SeenIn(a) /\ InOrder(out', sent)
      BY <1>0, <3>1, <3>2, <3>4, <3>5, ShowsVerdict
    <3>7. Seen' = Seen /\ Left' = Left
      BY <2>1, <3>5, <3>6 DEF Seen, Left
    <3>8. worker' = "off" /\ done' = done /\ gen' = "over" /\ job' = job
      BY <2>1, <2>4 DEF thread, StreamOver
    <3>9. LineInv'
      BY <1>0, <2>1, <2>2, <3>7, <3>8 DEF LineInv, Working
    <3>10. GenInv'
      BY <2>1, <2>2, <3>7, <3>8 DEF GenInv, Waiting
    <3> QED BY <2>1, <3>6, <3>9, <3>10
  <2> QED BY <1>5, <2>3, <2>4 DEF StartComponent
<1>6. CASE Drain \/ Rest
  <2>1. /\ queue # <<>> /\ gen \in Waiting
        /\ UNCHANGED <<request, comp, worker, job, soon, done, sent>>
    BY <1>6 DEF Drain, Rest, Waiting, thread
  <2>2. comp \in 1..Components /\ (\A i \in 1..Left : sent[Seen + i].comp = job) /\ job = comp
    BY <2>1, LastBounds DEF GenInv, LineInv, TypeOK
  <2>3. queue' = Tail(queue)
    <3>1. Takes(queue, Tail(queue))
      BY DEF Takes
    <3>2. HeldIn(queue, soon) = 1 => Tail(queue) = <<>>
      BY <1>0, <2>1, <3>1, LineTakes
    <3>3. gen = "rest" /\ Head(queue) = Done => Held = 1
      <4> SUFFICES ASSUME gen = "rest", Head(queue) = Done PROVE Held = 1
        OBVIOUS
      <4>1. done /\ Left = 0
        BY <2>1, FirstItem DEF GenInv
      <4>2. Held \in {Left, Left + 1} /\ Held # 0
        <5>1. Held \in {Left, Left + 1}
          BY <4>1 DEF LineInv
        <5>2. Held # 0
          BY <1>0, <2>1 DEF Held, HeldIn
        <5> QED BY <5>1, <5>2
      <4> QED BY <1>0, <4>1, <4>2
    <3> QED BY <1>6, <3>2, <3>3 DEF Drain, Rest, Held
  <2>4. /\ Held \in Nat \ {0} /\ Held' = Held - 1
        /\ \A i \in 1..Held' : ItemIn(queue', soon', i) = ItemIn(queue, soon, i + 1)
        /\ ItemIn(queue, soon, 1) = Head(queue)
    <3>1. Takes(queue, queue')
      BY <2>3 DEF Takes
    <3>2. /\ HeldIn(queue, soon) \in Nat \ {0}
          /\ HeldIn(queue', soon) = HeldIn(queue, soon) - 1
          /\ \A i \in 1..HeldIn(queue', soon) : ItemIn(queue', soon, i) = ItemIn(queue, soon, i + 1)
          /\ ItemIn(queue, soon, 1) = Head(queue)
      BY <1>0, <2>1, <3>1, LineTakes
    <3> QED BY <2>1, <3>2 DEF Held
  <2>5. CASE Head(queue) = Done
    <3>1. out' = out /\ gen' \in {gen, "collect"}
      BY <1>6, <2>5 DEF Drain, Rest
    <3>2. Left = 0 /\ Seen' = Seen /\ Left' = Left
      BY <2>1, <2>5, <3>1, FirstItem DEF Seen, Left
    <3>3. \/ worker = "exit" /\ ~done /\ Held' = 0
          \/ worker = "off" /\ done /\ Held' = 0 /\ soon = <<>>
          \/ worker = "off" /\ ~done /\ Held' = 1 /\ soon # <<>>
             /\ ItemIn(queue', soon', 1) = Returned
      <4>1. worker \in Working => FALSE
        BY <1>0, <2>4, <3>2 DEF LineInv
      <4>2. worker = "exit" => ~done /\ Held = 1
        BY <1>0, <2>4, <3>2 DEF LineInv
      <4>3. done => worker = "off" /\ Held = 1 /\ soon = <<>>
        BY <1>0, <2>4, <3>2 DEF LineInv
      <4>4. worker = "off" /\ ~done => /\ Held \in {1, 2} /\ soon # <<>>
                                       /\ ItemIn(queue, soon, Held) = Returned
        BY <1>0, <2>4, <3>2 DEF LineInv
      <4>5. Held = 1 => Held' = 0
        BY <2>4
      <4>6. Held = 2 => Held' = 1 /\ ItemIn(queue', soon', 1) = ItemIn(queue, soon, 2)
        <5>1. Held = 2 => Held' = 1
          BY <2>4
        <5> QED BY <2>4, <5>1
      <4>7. worker = "off" /\ ~done => Held = 2
        BY <2>4, <2>5, <4>4, EventKinds
      <4> QED BY <4>1, <4>2, <4>3, <4>4, <4>5, <4>6, <4>7 DEF TypeOK, Working
    <3>4. LineInv'
      BY <1>0, <2>1, <3>2, <3>3 DEF LineInv, Working
    <3>5. GenInv'
      BY <2>1, <2>2, <3>1 DEF GenInv, Waiting, LastComponent
    <3> QED BY <2>1, <3>1, <3>4, <3>5
  <2>6. CASE Head(queue) # Done
    <3>1. Left >= 1 /\ Head(queue) = sent[Seen + 1] /\ Head(queue) \in Events /\ Head(queue).comp = comp
      BY <2>1, <2>2, <2>6, FirstItem
    <3>2. [Head(queue) EXCEPT !.comp = comp] = Head(queue)
      BY <3>1, EventKinds
    <3>3. gen' = gen /\ Grows(out, sent[Seen + 1], out')
      BY <1>6, <2>6, <3>1, <3>2 DEF Drain, Rest, Grows
    <3>4. Seen' = Seen + 1 /\ InOrder(out', sent')
      BY <2>1, <3>1, <3>3, ShowsNext DEF Seen
    <3>5. Left' = Left - 1
      BY <1>0, <2>1, <3>4 DEF Left
    <3>6. \A i \in 1..(Left - 1) : /\ ItemIn(queue', soon', i) = sent[Seen + 1 + i]
                                   /\ sent[Seen + 1 + i].comp = job
      <4> SUFFICES ASSUME NEW i \in 1..(Left - 1)
                   PROVE  /\ ItemIn(queue', soon', i) = sent[Seen + 1 + i]
                          /\ sent[Seen + 1 + i].comp = job
        OBVIOUS
      <4>1. Left <= Held
        BY DEF LineInv
      <4>2. i + 1 \in 1..Left /\ Seen + 1 + i = Seen + (i + 1) /\ i \in 1..(Held - 1)
        BY <1>0, <4>1
      <4>3. ItemIn(queue, soon, i + 1) = sent[Seen + (i + 1)] /\ sent[Seen + (i + 1)].comp = job
        BY <4>2 DEF LineInv
      <4>4. ItemIn(queue', soon', i) = ItemIn(queue, soon, i + 1)
        BY <2>4, <4>2
      <4> QED BY <4>2, <4>3, <4>4
    <3>7. \A k \in 1..2 : Held = Left + k => /\ Held' = Left' + k
                                             /\ ItemIn(queue', soon', Held') = ItemIn(queue, soon, Held)
      <4> SUFFICES ASSUME NEW k \in 1..2, Held = Left + k
                   PROVE  /\ Held' = Left' + k
                          /\ ItemIn(queue', soon', Held') = ItemIn(queue, soon, Held)
        OBVIOUS
      <4>1. Held - 1 = Left - 1 + k /\ Held - 1 \in 1..(Held - 1) /\ Held - 1 + 1 = Held
        BY <1>0, <3>1
      <4>2. ItemIn(queue', soon', Held - 1) = ItemIn(queue, soon, Held - 1 + 1)
        BY <2>4, <4>1
      <4> QED BY <2>4, <3>5, <4>1, <4>2
    <3>8. Held = Left + 2 => ItemIn(queue', soon', Held' - 1) = ItemIn(queue, soon, Held - 1)
      <4> SUFFICES ASSUME Held = Left + 2
                   PROVE  ItemIn(queue', soon', Held' - 1) = ItemIn(queue, soon, Held - 1)
        OBVIOUS
      <4>1. Held - 2 \in 1..(Held - 1) /\ Held - 2 + 1 = Held - 1 /\ Held - 1 - 1 = Held - 2
        BY <1>0, <3>1
      <4>2. ItemIn(queue', soon', Held - 2) = ItemIn(queue, soon, Held - 2 + 1)
        BY <2>4, <4>1
      <4> QED BY <2>4, <4>1, <4>2
    <3>9. Held = Left => Held' = Left'
      BY <2>4, <3>5
    <3>10. Seen' <= Len(sent') /\ Left' <= Held' /\ Held # 0
      <4>1. Left <= Held /\ Seen + 1 <= Len(sent) /\ Left - 1 <= Held - 1
        BY <1>0, <3>1 DEF LineInv
      <4> QED BY <2>1, <2>4, <3>4, <3>5, <4>1
    <3>11. \A i \in 1..Left' : /\ ItemIn(queue', soon', i) = sent'[Seen' + i]
                               /\ sent'[Seen' + i].comp = job'
      BY <2>1, <3>4, <3>5, <3>6
    <3>12. (worker \in Working => Held' = Left')
           /\ (worker = "exit" => /\ Held' \in {Left', Left' + 1}
                                  /\ Held' = Left' + 1 => ItemIn(queue', soon', Held') = Done)
      <4>1. worker \in Working => Held = Left
        BY DEF LineInv
      <4>2. worker = "exit" => \/ Held = Left
                               \/ Held = Left + 1 /\ ItemIn(queue, soon, Held) = Done
        BY DEF LineInv
      <4>3. Held' = Left' => Held' # Left' + 1
        BY <1>0, <3>5
      <4> QED BY <3>7, <3>9, <4>1, <4>2, <4>3
    <3>13. worker = "off" /\ ~done =>
               /\ Held' \in {Left' + 1, Left' + 2} /\ soon' # <<>>
               /\ ItemIn(queue', soon', Held') = Returned
               /\ Held' = Left' + 2 => ItemIn(queue', soon', Held' - 1) = Done
      <4> SUFFICES ASSUME worker = "off", ~done
                   PROVE  /\ Held' \in {Left' + 1, Left' + 2} /\ soon' # <<>>
                          /\ ItemIn(queue', soon', Held') = Returned
                          /\ Held' = Left' + 2 => ItemIn(queue', soon', Held' - 1) = Done
        OBVIOUS
      <4>1. /\ Held \in {Left + 1, Left + 2} /\ soon # <<>>
            /\ ItemIn(queue, soon, Held) = Returned
            /\ Held = Left + 2 => ItemIn(queue, soon, Held - 1) = Done
        BY <3>10 DEF LineInv
      <4>2. Held' \in {Left' + 1, Left' + 2} /\ ItemIn(queue', soon', Held') = Returned
        BY <3>7, <4>1
      <4>3. Held' = Left' + 2 => Held = Left + 2
        BY <1>0, <2>4, <3>5
      <4> QED BY <2>1, <3>8, <4>1, <4>2, <4>3
    <3>14. done => /\ worker' = "off" /\ soon' = <<>>
                   /\ Held' \in {Left', Left' + 1}
                   /\ Held' = Left' + 1 => ItemIn(queue', soon', Held') = Done
      <4>1. done => /\ worker = "off" /\ soon = <<>>
                    /\ \/ Held = Left
                       \/ Held = Left + 1 /\ ItemIn(queue, soon, Held) = Done
        BY DEF LineInv
      <4>3. Held' = Left' => Held' # Left' + 1
        BY <1>0, <3>5
      <4> QED BY <2>1, <3>7, <3>9, <4>1, <4>3
    <3>15. LineInv'
      BY <2>1, <3>10, <3>11, <3>12, <3>13, <3>14 DEF LineInv
    <3>16. GenInv'
      BY <2>1, <2>2, <3>3 DEF GenInv, Waiting, LastComponent
    <3> QED BY <3>4, <3>15, <3>16
  <2> QED BY <2>5, <2>6
<1>7. CASE Judge
  <2> DEFINE a == Append(out, Verdict(comp, VerdictOf))
  <2>1. /\ gen = "rest" /\ gen' \in {"next", "over"} /\ queue = <<>>
        /\ UNCHANGED <<request, worker, job, queue, soon, done, sent>>
    BY <1>7 DEF Judge, StreamOver, thread, inbox
  <2>2. done /\ worker = "off" /\ Held = 0 /\ Left = 0
    <3>1. done /\ worker = "off" /\ soon = <<>>
      BY <2>1 DEF GenInv, LineInv
    <3>2. Held = 0
      BY <2>1, <3>1 DEF Held, HeldIn
    <3> QED BY <1>0, <3>1, <3>2 DEF LineInv
  <2>3. comp \in 1..Components /\ All \in 0..Components
    BY <2>1, LastBounds, KbAssumption DEF GenInv, Waiting, TypeOK, All
  <2>4. /\ Verdict(comp, VerdictOf) \in Verdicts /\ Verdict(comp, VerdictOf).by = "stream"
        /\ Verdict(All, "completed") \in Verdicts /\ Verdict(All, "completed").by = "stream"
    <3>1. comp \in 0..Components
      BY <2>3
    <3> QED BY <2>3, <3>1, EventKinds DEF VerdictOf
  <2>5. Grows(out, Verdict(comp, VerdictOf), a) /\ a \in Seq(Events \cup Verdicts)
    BY <1>0, <2>4 DEF Grows
  <2>6. out' = a \/ Grows(a, Verdict(All, "completed"), out')
    BY <1>7 DEF Judge, Grows
  <2> HIDE DEF a
  <2>7. SeenIn(a) = SeenIn(out) /\ InOrder(a, sent)
    BY <1>0, <2>4, <2>5, ShowsVerdict
  <2>8. SeenIn(out') = SeenIn(a) /\ InOrder(out', sent)
    BY <1>0, <2>4, <2>5, <2>6, <2>7, ShowsVerdict
  <2>9. Seen' = Seen /\ Left' = Left /\ Held' = Held
    BY <2>1, <2>7, <2>8 DEF Seen, Left, Held
  <2>10. LineInv'
    BY <1>0, <2>1, <2>2, <2>9 DEF LineInv, Working
  <2>11. GenInv'
    BY <2>1, <2>2, <2>9 DEF GenInv, Waiting
  <2> QED BY <2>1, <2>8, <2>10, <2>11
<1>8. CASE DrainEnds \/ Collect \/ Disconnect \/ Cancel \/ Stopped \/ UNCHANGED vars
  <2>1. /\ UNCHANGED <<request, comp, out, worker, job, soon, queue, done, sent>>
        /\ \/ gen' \in {gen, "left"}
           \/ gen = "draining" /\ gen' = "collect"
           \/ gen = "collect" /\ done /\ gen' = "rest"
    BY <1>8 DEF DrainEnds, Collect, Disconnect, Cancel, Stopped, vars, stream, thread, inbox
  <2>2. Held' = Held /\ Seen' = Seen /\ Left' = Left
    BY <2>1 DEF Held, Seen, Left
  <2>3. LineInv'
    BY <2>1, <2>2 DEF LineInv
  <2>4. GenInv'
    BY <2>1, <2>2 DEF GenInv, Waiting, LastComponent
  <2> QED BY <2>1, <2>3, <2>4
<1> QED
  <2>1. WorkComponent \/ DocsOpen \/ DocsResolve \/ DocsDelete \/ DocsProcess =>
            LineInv' /\ GenInv' /\ InOrder(out', sent')
    <3>1. Works => (\E s \in Stages : Emit(s)) \/ Nothing
      BY DEF Works
    <3> QED BY <1>1, <1>2, <3>1, WorkKinds
  <2> QED BY <1>3, <1>4, <1>5, <1>6, <1>7, <1>8, <2>1 DEF Next, Thread, Generator

-----------------------------------------------------------------------------
(* Verdicts.                                                               *)

\* Components are reported in their order, and each that is past has its verdict.
CompInv ==
    /\ \A i \in DOMAIN sent : /\ sent[i].comp <= comp
                              /\ gen \in {"next", "over"} => sent[i].comp < comp
    /\ gen \notin {"over", "left"} =>
           \A i \in DOMAIN out : out[i].by = "stream" => out[i].comp \in 1..(comp - 1)
    /\ gen # "left" => \A c \in 1..(comp - 1) :
           \E i \in DOMAIN out : out[i].comp = c /\ out[i].by = "stream"

\* After a verdict the client hears no more of its component.
Closes(o) ==
    \A i \in DOMAIN o : o[i].by = "stream" => \A j \in DOMAIN o : j > i => o[j].comp # o[i].comp

\* A component's last word stays its last when more is sent for others.
LEMMA ClosesLonger ==
    ASSUME NEW X, NEW o \in Seq(X), NEW e, NEW a, Grows(o, e, a), Closes(o),
           \A i \in DOMAIN o : o[i].by = "stream" => o[i].comp # e.comp
    PROVE  Closes(a)
<1>1. /\ DOMAIN o = 1..Len(o) /\ DOMAIN a = 1..(Len(o) + 1) /\ Len(o) \in Nat
      /\ a[Len(o) + 1] = e /\ \A i \in 1..Len(o) : a[i] = o[i]
  BY DEF Grows
<1> SUFFICES ASSUME NEW i \in DOMAIN a, a[i].by = "stream", NEW j \in DOMAIN a, j > i
             PROVE  a[j].comp # a[i].comp
  BY DEF Closes
<1>2. i \in 1..Len(o)
  BY <1>1
<1>3. CASE j \in 1..Len(o)
  BY <1>1, <1>2, <1>3 DEF Closes
<1>4. CASE j = Len(o) + 1
  BY <1>1, <1>2, <1>4
<1> QED BY <1>1, <1>3, <1>4

\* The elements of a sequence with one more.
LEMMA Elements ==
    ASSUME NEW X, NEW o \in Seq(X), NEW e, NEW a, Grows(o, e, a)
    PROVE  /\ DOMAIN o \subseteq DOMAIN a
           /\ \A i \in DOMAIN o : a[i] = o[i]
           /\ \A i \in DOMAIN a : i \in DOMAIN o \/ a[i] = e
           /\ \E i \in DOMAIN a : a[i] = e
<1>1. /\ DOMAIN o = 1..Len(o) /\ DOMAIN a = 1..(Len(o) + 1) /\ Len(o) \in Nat
      /\ a[Len(o) + 1] = e /\ \A i \in 1..Len(o) : a[i] = o[i]
  BY DEF Grows
<1> QED BY <1>1

\* The verdict on all components is the last of a "kb" stream.
AllJudged ==
    gen = "over" /\ request = "kb" =>
        \E i \in DOMAIN out : out[i].comp = All /\ out[i].by = "stream"

VerdictInv == CompInv /\ Closes(out) /\ AllJudged

\* Every verdict is the last word on its component.
LEMMA VerdictInit == Init => VerdictInv
<1> SUFFICES ASSUME Init PROVE VerdictInv
  OBVIOUS
<1>1. DOMAIN out = {} /\ DOMAIN sent = {} /\ 1..(comp - 1) = {} /\ gen = "next"
  BY DEF Init
<1> QED BY <1>1 DEF VerdictInv, CompInv, Closes, AllJudged

LEMMA VerdictStep ==
    ASSUME TypeOK, LineInv, GenInv, VerdictInv, [Next]_vars
    PROVE  VerdictInv'
<1>0. /\ comp \in Nat \ {0} /\ Components \in Nat
      /\ sent \in Seq(Events) /\ out \in Seq(Events \cup Verdicts)
      /\ \A i \in DOMAIN sent : sent[i] \in Events /\ sent[i].comp \in 1..Components
  <2>1. /\ comp \in 1..(Components + 1) /\ Components \in Nat
        /\ sent \in Seq(Events) /\ out \in Seq(Events \cup Verdicts)
    BY KbAssumption DEF TypeOK
  <2>2. \A i \in DOMAIN sent : sent[i] \in Events
    BY <2>1
  <2> QED BY <2>1, <2>2, EventKinds
<1>1. ASSUME Works, NEW s \in Stages, Emit(s) PROVE VerdictInv'
  <2> DEFINE x == Event(job, s)
  <2>1. Grows(sent, x, sent') /\ UNCHANGED <<gen, out, comp, request>>
    BY <1>1 DEF Works, Emit, Grows
  <2>2. gen \notin {"next", "over"} /\ job = comp /\ x.comp = job
    BY <1>1, EventKinds DEF Works, GenInv, Working, TypeOK
  <2> HIDE DEF x
  <2>3. \A i \in DOMAIN sent' : sent'[i].comp <= comp
    <3> SUFFICES ASSUME NEW i \in DOMAIN sent' PROVE sent'[i].comp <= comp
      OBVIOUS
    <3>1. (i \in DOMAIN sent /\ sent'[i] = sent[i]) \/ sent'[i] = x
      BY <1>0, <2>1, Elements
    <3> QED BY <1>0, <2>2, <3>1 DEF VerdictInv, CompInv
  <2> QED BY <2>1, <2>2, <2>3 DEF VerdictInv, CompInv, AllJudged
<1>2. CASE (Works /\ Nothing) \/ Finally \/ Exit \/ Callback
  <2>1. UNCHANGED <<gen, out, comp, request, sent>>
    BY <1>2 DEF Works, Nothing, Finally, Exit, Callback, stream
  <2> QED BY <2>1 DEF VerdictInv, CompInv, AllJudged
<1>3. CASE DrainEnds \/ Collect \/ Disconnect \/ Cancel \/ Stopped \/ UNCHANGED vars
  <2>1. UNCHANGED <<comp, out, sent, request>>
        /\ (gen' = gen \/ (gen' \in {"left", "collect", "rest"} /\ gen \notin {"over", "left"}))
    BY <1>3 DEF DrainEnds, Collect, Disconnect, Cancel, Stopped, vars, stream
  <2> QED BY <2>1 DEF VerdictInv, CompInv, AllJudged
<1>4. CASE StartComponent
  <2>1. gen = "next" /\ UNCHANGED <<comp, sent, request>> /\ comp <= LastComponent
    BY <1>4 DEF StartComponent
  <2>2. CASE gen' = "draining" /\ UNCHANGED out
    <3>1. \A i \in DOMAIN sent : sent[i].comp <= comp
      BY DEF VerdictInv, CompInv
    <3> QED BY <2>1, <2>2, <3>1 DEF VerdictInv, CompInv, AllJudged
  <2>3. CASE StreamOver /\ out' = out \o <<Verdict(comp, "failed"), Verdict(All, "completed")>>
    <3> DEFINE v == Verdict(comp, "failed")
               w == Verdict(All, "completed")
               a == Append(out, v)
    <3>1. /\ v \in Verdicts /\ v.by = "stream" /\ v.comp = comp
          /\ w \in Verdicts /\ w.by = "stream" /\ w.comp = All
      <4>1. comp \in 0..Components /\ All \in 0..Components
        BY <1>0, <2>1, LastBounds, KbAssumption DEF TypeOK, All
      <4> QED BY <4>1, EventKinds
    <3>2. a \in Seq(Events \cup Verdicts) /\ Grows(out, v, a) /\ Grows(a, w, out')
      BY <1>0, <2>3, <3>1 DEF Grows
    <3> HIDE DEF v, w, a
    <3>3. Closes(a)
      <4>1. \A i \in DOMAIN out : out[i].by = "stream" => out[i].comp # comp
        BY <1>0, <2>1 DEF VerdictInv, CompInv
      <4> QED BY <1>0, <3>1, <3>2, <4>1, ClosesLonger DEF VerdictInv
    <3>4. Closes(out')
      <4>1. \A i \in DOMAIN a : a[i].by = "stream" => a[i].comp # All
        <5>1. \A i \in DOMAIN out : out[i].by = "stream" => out[i].comp # All
          BY <1>0, <2>1 DEF VerdictInv, CompInv, All
        <5>2. comp # All
          BY <1>0 DEF All
        <5>3. \A i \in DOMAIN a : (i \in DOMAIN out /\ a[i] = out[i]) \/ a[i] = v
          BY <1>0, <3>2, Elements
        <5> QED BY <3>1, <5>1, <5>2, <5>3
      <4> QED BY <3>1, <3>2, <3>3, <4>1, ClosesLonger
    <3>5. \A i \in DOMAIN out : i \in DOMAIN out' /\ out'[i] = out[i]
      <4>1. DOMAIN out \subseteq DOMAIN a /\ \A i \in DOMAIN out : a[i] = out[i]
        BY <1>0, <3>2, Elements
      <4>2. DOMAIN a \subseteq DOMAIN out' /\ \A i \in DOMAIN a : out'[i] = a[i]
        BY <3>2, Elements
      <4> QED BY <4>1, <4>2
    <3>6. \E i \in DOMAIN out' : out'[i] = w
      BY <3>2, Elements
    <3>7. gen' = "over"
      BY <2>3 DEF StreamOver
    <3>8. CompInv'
      <4>1. \A c \in 1..(comp - 1) : \E i \in DOMAIN out' : out'[i].comp = c /\ out'[i].by = "stream"
        BY <2>1, <3>5 DEF VerdictInv, CompInv
      <4>2. \A i \in DOMAIN sent : sent[i].comp <= comp /\ sent[i].comp < comp
        BY <2>1 DEF VerdictInv, CompInv
      <4> QED BY <2>1, <3>7, <4>1, <4>2 DEF CompInv
    <3>9. AllJudged'
      BY <3>1, <3>6 DEF AllJudged
    <3> QED BY <3>4, <3>8, <3>9 DEF VerdictInv
  <2> QED BY <1>4, <2>2, <2>3 DEF StartComponent
<1>5. CASE Drain \/ Rest
  <2>1. /\ queue # <<>> /\ gen \in Waiting /\ gen' \in Waiting
        /\ UNCHANGED <<request, comp, sent>>
    BY <1>5 DEF Drain, Rest, Waiting
  <2>2. CASE out' = out
    <3>1. gen \notin {"over", "left", "next"} /\ gen' \notin {"over", "left", "next"}
      BY <2>1 DEF Waiting
    <3> QED BY <2>1, <2>2, <3>1 DEF VerdictInv, CompInv, AllJudged
  <2>3. CASE Head(queue) # Done
    <3> DEFINE x == sent[Seen + 1]
    <3>1. x \in Events /\ x.by = "thread" /\ x.comp = comp /\ Grows(out, x, out')
      <4>1. Left >= 1 /\ Head(queue) = x /\ Head(queue) \in Events /\ Head(queue).comp = comp
        BY <2>1, <2>3, FirstItem DEF GenInv
      <4>2. [Head(queue) EXCEPT !.comp = comp] = Head(queue)
        BY <4>1, EventKinds
      <4> QED BY <1>5, <2>3, <4>1, <4>2, EventKinds DEF Drain, Rest, Grows
    <3> HIDE DEF x
    <3>2. gen \notin {"over", "left", "next"} /\ gen' \notin {"over", "left", "next"}
      BY <2>1 DEF Waiting
    <3>3. \A i \in DOMAIN out : out[i].by = "stream" => out[i].comp \in 1..(comp - 1)
      BY <3>2 DEF VerdictInv, CompInv
    <3>4. Closes(out')
      <4>1. \A i \in DOMAIN out : out[i].by = "stream" => out[i].comp # x.comp
        BY <1>0, <3>1, <3>3
      <4> QED BY <1>0, <3>1, <4>1, ClosesLonger DEF VerdictInv
    <3>5. \A i \in DOMAIN out' : out'[i].by = "stream" => out'[i].comp \in 1..(comp - 1)
      BY <1>0, <3>1, <3>3, Elements
    <3>6. \A c \in 1..(comp - 1) : \E i \in DOMAIN out' : out'[i].comp = c /\ out'[i].by = "stream"
      <4> SUFFICES ASSUME NEW c \in 1..(comp - 1)
                   PROVE  \E i \in DOMAIN out' : out'[i].comp = c /\ out'[i].by = "stream"
        OBVIOUS
      <4>1. PICK i \in DOMAIN out : out[i].comp = c /\ out[i].by = "stream"
        BY <3>2 DEF VerdictInv, CompInv
      <4>2. i \in DOMAIN out' /\ out'[i] = out[i]
        BY <1>0, <3>1, Elements
      <4> QED BY <4>1, <4>2
    <3>7. \A i \in DOMAIN sent : sent[i].comp <= comp
      BY DEF VerdictInv, CompInv
    <3>8. CompInv'
      BY <2>1, <3>2, <3>5, <3>6, <3>7 DEF CompInv
    <3> QED BY <3>2, <3>4, <3>8 DEF VerdictInv, AllJudged
  <2> QED BY <1>5, <2>2, <2>3 DEF Drain, Rest
<1>6. CASE Judge
  <2> DEFINE v == Verdict(comp, VerdictOf)
             w == Verdict(All, "completed")
             a == Append(out, v)
  <2>1. /\ gen = "rest" /\ comp' = comp + 1 /\ UNCHANGED <<request, sent>>
        /\ \/ out' = a /\ (gen' = "next" \/ (gen' = "over" /\ request # "kb"))
           \/ out' = Append(a, w) /\ gen' = "over"
    BY <1>6 DEF Judge, StreamOver
  <2>2. /\ v \in Verdicts /\ v.by = "stream" /\ v.comp = comp
        /\ w \in Verdicts /\ w.by = "stream" /\ w.comp = All
    <3>1. comp \in 0..Components /\ All \in 0..Components
      BY <1>0, <2>1, LastBounds, KbAssumption DEF TypeOK, All, GenInv, Waiting
    <3> QED BY <3>1, EventKinds DEF VerdictOf
  <2>3. a \in Seq(Events \cup Verdicts) /\ Grows(out, v, a) /\ Grows(a, w, Append(a, w))
    BY <1>0, <2>2 DEF Grows
  <2> HIDE DEF v, w, a
  <2>4. \A i \in DOMAIN out : out[i].by = "stream" => out[i].comp \in 1..(comp - 1)
    BY <2>1 DEF VerdictInv, CompInv
  <2>5. Closes(a)
    <3>1. \A i \in DOMAIN out : out[i].by = "stream" => out[i].comp # comp
      BY <1>0, <2>4
    <3> QED BY <1>0, <2>2, <2>3, <3>1, ClosesLonger DEF VerdictInv
  <2>6. \A i \in DOMAIN a : a[i].by = "stream" => a[i].comp \in 1..comp
    <3>1. \A i \in DOMAIN a : (i \in DOMAIN out /\ a[i] = out[i]) \/ a[i] = v
      BY <1>0, <2>3, Elements
    <3>2. comp \in 1..comp /\ \A k \in 1..(comp - 1) : k \in 1..comp
      BY <1>0
    <3> QED BY <2>2, <2>4, <3>1, <3>2
  <2>7. \A c \in 1..comp : \E i \in DOMAIN a : a[i].comp = c /\ a[i].by = "stream"
    <3> SUFFICES ASSUME NEW c \in 1..comp
                 PROVE  \E i \in DOMAIN a : a[i].comp = c /\ a[i].by = "stream"
      OBVIOUS
    <3>1. CASE c = comp
      <4>1. PICK i \in DOMAIN a : a[i] = v
        BY <1>0, <2>3, Elements
      <4> QED BY <2>2, <3>1, <4>1
    <3>2. CASE c # comp
      <4>1. c \in 1..(comp - 1)
        BY <1>0, <3>2
      <4>2. PICK i \in DOMAIN out : out[i].comp = c /\ out[i].by = "stream"
        BY <2>1, <4>1 DEF VerdictInv, CompInv
      <4>3. i \in DOMAIN a /\ a[i] = out[i]
        BY <1>0, <2>3, Elements
      <4> QED BY <4>2, <4>3
    <3> QED BY <3>1, <3>2
  <2>8. \A i \in DOMAIN sent : sent[i].comp < comp + 1 /\ sent[i].comp <= comp + 1
    <3>1. \A i \in DOMAIN sent : sent[i].comp <= comp
      BY DEF VerdictInv, CompInv
    <3> QED BY <1>0, <3>1
  <2>9. comp' - 1 = comp
    BY <1>0, <2>1
  <2>10. CASE out' = a /\ (gen' = "next" \/ (gen' = "over" /\ request # "kb"))
    <3>1. CompInv'
      BY <2>1, <2>6, <2>7, <2>8, <2>9, <2>10 DEF CompInv
    <3>2. AllJudged'
      BY <2>1, <2>10 DEF AllJudged
    <3>3. Closes(out')
      BY <2>5, <2>10
    <3> QED BY <3>1, <3>2, <3>3 DEF VerdictInv
  <2>11. CASE out' = Append(a, w) /\ gen' = "over"
    <3>1. Grows(a, w, out')
      BY <2>3, <2>11
    <3>2. Closes(out')
      <4>1. \A i \in DOMAIN a : a[i].by = "stream" => a[i].comp # All
        BY <1>0, <2>6 DEF All
      <4> QED BY <2>2, <2>3, <2>5, <3>1, <4>1, ClosesLonger
    <3>3. \A c \in 1..comp : \E i \in DOMAIN out' : out'[i].comp = c /\ out'[i].by = "stream"
      <4>1. DOMAIN a \subseteq DOMAIN out' /\ \A i \in DOMAIN a : out'[i] = a[i]
        BY <2>3, <3>1, Elements
      <4> QED BY <2>7, <4>1
    <3>4. \E i \in DOMAIN out' : out'[i] = w
      BY <2>3, <3>1, Elements
    <3>5. CompInv'
      BY <2>1, <2>8, <2>9, <2>11, <3>3 DEF CompInv
    <3>6. AllJudged'
      BY <2>2, <3>4 DEF AllJudged
    <3> QED BY <3>2, <3>5, <3>6 DEF VerdictInv
  <2> QED BY <2>1, <2>10, <2>11
<1> QED
  <2>1. WorkComponent \/ DocsOpen \/ DocsResolve \/ DocsDelete \/ DocsProcess => VerdictInv'
    <3>1. Works => (\E s \in Stages : Emit(s)) \/ Nothing
      BY DEF Works
    <3> QED BY <1>1, <1>2, <3>1, WorkKinds
  <2> QED BY <1>2, <1>3, <1>4, <1>5, <1>6, <2>1 DEF Next, Thread, Generator

-----------------------------------------------------------------------------
(* What a cancelled run leaves of the data.                                *)

\* Data is deleted by the one documentation run of a stream, past its last check.
DataInv ==
    /\ ~olddata => request = "docs" /\ gen # "next"
                   /\ worker \notin {"open", "resolve", "delete"}
    /\ request = "docs" /\ gen = "next" => sent = <<>>
    /\ worker \in {"open", "resolve", "delete", "process"} => request = "docs"
    /\ worker \in {"open", "resolve", "delete"} =>
           \A i \in DOMAIN sent : sent[i].stage # "cancelled"
    /\ worker = "working" => request = "kb"
    /\ CancelledKeepsData

\* A run that was told to be cancelled has deleted nothing.
LEMMA DataInit == Init => DataInv
BY DEF Init, DataInv, CancelledKeepsData

\* The last event is the only new one.
LEMMA Emitted ==
    ASSUME TypeOK, NEW s \in Stages, Emit(s)
    PROVE  /\ \A i \in DOMAIN sent' : (i \in DOMAIN sent /\ sent'[i] = sent[i]) \/ sent'[i].stage = s
           /\ sent' # <<>>
<1>1. Grows(sent, Event(job, s), sent') /\ sent \in Seq(Events)
  BY DEF Emit, Grows, TypeOK
<1>2. Event(job, s).stage = s
  BY EventKinds DEF TypeOK
<1>3. sent' # <<>>
  BY <1>1 DEF Grows
<1>4. \A i \in DOMAIN sent' : (i \in DOMAIN sent /\ sent'[i] = sent[i]) \/ sent'[i] = Event(job, s)
  BY <1>1, Elements
<1> QED BY <1>2, <1>3, <1>4

LEMMA DataStep ==
    ASSUME TypeOK, GenInv, DataInv, [Next]_vars
    PROVE  DataInv'
<1>0. /\ gen \in {"next", "over"} => worker = "off"
      /\ gen \in {"next", "draining", "collect", "rest", "over", "left"}
  BY DEF GenInv, TypeOK
<1>1. CASE WorkComponent
  <2>1. /\ UNCHANGED <<request, gen, olddata>> /\ worker = "working"
        /\ worker' \in {"working", "finally"} /\ request = "kb" /\ olddata
    BY <1>1 DEF WorkComponent, Enter, Leave, stream, DataInv
  <2> QED BY <2>1 DEF DataInv, CancelledKeepsData
<1>2. CASE DocsOpen
  <2>1. /\ UNCHANGED <<request, gen, olddata>> /\ worker = "open" /\ olddata /\ gen # "next"
        /\ worker' \in {"resolve", "finally"} /\ request = "docs"
    BY <1>0, <1>2 DEF DocsOpen, Enter, Leave, stream, DataInv
  <2>2. \A i \in DOMAIN sent' : sent'[i].stage # "cancelled"
    <3>1. \A i \in DOMAIN sent : sent[i].stage # "cancelled"
      BY <2>1 DEF DataInv
    <3>2. Emit("failed") \/ Emit("started") \/ Nothing
      BY <1>2 DEF DocsOpen
    <3>3. CASE Nothing
      BY <3>1, <3>3 DEF Nothing
    <3>4. ASSUME NEW s \in {"failed", "started"}, Emit(s)
          PROVE  \A i \in DOMAIN sent' : sent'[i].stage # "cancelled"
      <4>1. s \in Stages /\ s # "cancelled"
        BY DEF Stages
      <4> QED BY <3>1, <3>4, <4>1, Emitted
    <3> QED BY <3>2, <3>3, <3>4
  <2> QED BY <2>1, <2>2 DEF DataInv, CancelledKeepsData
<1>3. CASE DocsResolve
  <2>1. /\ UNCHANGED <<request, gen, olddata>> /\ worker = "resolve" /\ olddata /\ gen # "next"
        /\ request = "docs" /\ worker' \in {"delete", "finally"}
    BY <1>0, <1>3 DEF DocsResolve, GivesUp, Enter, Leave, stream, DataInv
  <2>2. worker' = "delete" => \A i \in DOMAIN sent' : sent'[i].stage # "cancelled"
    <3> SUFFICES ASSUME worker' = "delete"
                 PROVE  \A i \in DOMAIN sent' : sent'[i].stage # "cancelled"
      OBVIOUS
    <3>1. \A i \in DOMAIN sent : sent[i].stage # "cancelled"
      BY <2>1 DEF DataInv
    <3>2. Emit("validated") /\ "validated" \in Stages
      BY <1>3 DEF DocsResolve, GivesUp, Leave, Stages
    <3> QED BY <3>1, <3>2, Emitted
  <2> QED BY <2>1, <2>2 DEF DataInv, CancelledKeepsData
<1>4. CASE DocsDelete
  <2>1. /\ UNCHANGED <<request, gen>> /\ worker = "delete" /\ olddata /\ gen # "next"
        /\ request = "docs" /\ worker' \in {"process", "finally"}
    BY <1>0, <1>4 DEF DocsDelete, GivesUp, Enter, Leave, stream, DataInv
  <2>2. olddata' = olddata \/ sent' = sent
    BY <1>4 DEF DocsDelete, Nothing
  <2>3. \A i \in DOMAIN sent : sent[i].stage # "cancelled"
    BY <2>1 DEF DataInv
  <2> QED BY <2>1, <2>2, <2>3 DEF DataInv, CancelledKeepsData
<1>5. CASE DocsProcess
  <2>1. /\ UNCHANGED <<request, gen, olddata>> /\ worker = "process" /\ gen # "next"
        /\ request = "docs" /\ worker' \in {"process", "finally"}
    BY <1>0, <1>5 DEF DocsProcess, Enter, Leave, stream, DataInv
  <2>2. (\E i \in DOMAIN sent' : sent'[i].stage = "cancelled") =>
            \E i \in DOMAIN sent : sent[i].stage = "cancelled"
    <3>1. \E s \in {"item", "failed", "completed"} : Emit(s)
      BY <1>5 DEF DocsProcess
    <3>2. PICK s \in {"item", "failed", "completed"} : Emit(s)
      BY <3>1
    <3>3. s \in Stages /\ s # "cancelled"
      BY DEF Stages
    <3> QED BY <3>2, <3>3, Emitted
  <2> QED BY <2>1, <2>2 DEF DataInv, CancelledKeepsData
<1>6. CASE Finally \/ Exit
  BY <1>6 DEF Finally, Exit, stream, DataInv, CancelledKeepsData
<1>7. CASE StartComponent
  <2>1. /\ gen = "next" /\ gen' # "next" /\ UNCHANGED <<request, sent, olddata>>
        /\ worker' = worker \/ worker' = Begin
    BY <1>7 DEF StartComponent, StreamOver, Start, thread
  <2>2. worker = "off" /\ olddata
    BY <1>0, <2>1 DEF DataInv
  <2>3. request = "docs" => sent = <<>>
    BY <2>1 DEF DataInv
  <2>4. request \in {"kb", "docs"}
    BY KbAssumption DEF TypeOK
  <2> QED BY <2>1, <2>2, <2>3, <2>4 DEF DataInv, CancelledKeepsData, Begin
<1>8. CASE Callback \/ Drain \/ DrainEnds \/ Collect \/ Rest \/ Disconnect \/ Cancel \/ Stopped
           \/ UNCHANGED vars
  <2>1. /\ UNCHANGED <<request, worker, sent, olddata>>
        /\ gen' = "next" => gen = "next"
    BY <1>8 DEF Callback, Drain, DrainEnds, Collect, Rest, Disconnect, Cancel, Stopped, vars,
                stream, thread
  <2> QED BY <2>1 DEF DataInv, CancelledKeepsData
<1>9. CASE Judge
  <2>1. /\ UNCHANGED <<request, worker, sent, olddata>> /\ gen = "rest"
        /\ gen' = "next" => comp < LastComponent
    BY <1>9 DEF Judge, StreamOver, thread
  <2>2. request = "docs" => gen' # "next"
    <3>1. comp >= 1
      BY DEF TypeOK
    <3> QED BY <2>1, <3>1 DEF LastComponent, TypeOK
  <2> QED BY <2>1, <2>2 DEF DataInv, CancelledKeepsData
<1> QED
  BY <1>1, <1>2, <1>3, <1>4, <1>5, <1>6, <1>7, <1>8, <1>9 DEF Next, Thread, Generator

-----------------------------------------------------------------------------
KbInv == TypeOK /\ LineInv /\ GenInv /\ InOrder(out, sent) /\ VerdictInv /\ DataInv

\* The invariant as a whole.
LEMMA KbCorrect == Spec => []KbInv
<1>1. Init => KbInv
  BY KbTypeInit, LineInit, VerdictInit, DataInit DEF KbInv
<1>2. KbInv /\ [Next]_vars => KbInv'
  <2> SUFFICES ASSUME KbInv, [Next]_vars PROVE KbInv'
    OBVIOUS
  <2>1. TypeOK'
    BY KbTypeStep DEF KbInv, GenInv
  <2>2. LineInv' /\ GenInv' /\ InOrder(out', sent')
    BY LineStep DEF KbInv
  <2>3. VerdictInv' /\ DataInv'
    BY VerdictStep, DataStep DEF KbInv
  <2> QED BY <2>1, <2>2, <2>3 DEF KbInv
<1> QED BY <1>1, <1>2, PTL DEF Spec

\* For any number of components and of events: what the client of bootstrap_stream() or
\* bootstrap_doc_stream() has been sent is what the threads have emitted, in order and under
\* the right component; a stream that ran to its end has left nothing out, and every verdict
\* is the last word on its component, whichever of the sentinel, the time-out and the end of
\* the future the generator sees first.
THEOREM KbStreamCorrect == Spec => []StreamSound
<1>1. KbInv => StreamSound
  <2> SUFFICES ASSUME KbInv PROVE StreamSound
    OBVIOUS
  <2>1. TypeOK /\ LineInv /\ GenInv /\ InOrder(out, sent) /\ VerdictInv
    BY DEF KbInv
  <2>2. EventsInOrder
    BY <2>1 DEF EventsInOrder, InOrder, FromThread, OfThread, RankIn
  <2>3. AllShown
    <3>1. gen = "over" => Left = 0
      BY <2>1 DEF GenInv
    <3>2. gen = "over" => SeenIn(out) = Len(sent)
      BY <2>1, <3>1, LineNumbers DEF Seen
    <3> QED BY <3>2 DEF AllShown, SeenIn, OfThread, FromThread
  <2>4. VerdictsClose
    <3>1. \A i \in DOMAIN out : out[i].by = "stream" =>
              \A j \in DOMAIN out : j > i => out[j].comp # out[i].comp
      BY <2>1 DEF VerdictInv, Closes
    <3>2. ASSUME gen = "over", NEW i \in DOMAIN sent
          PROVE  \E k \in DOMAIN out : out[k].comp = sent[i].comp /\ out[k].by = "stream"
      <4>1. sent[i].comp \in 1..Components
        <5>1. sent[i] \in Events
          BY <2>1 DEF TypeOK
        <5> QED BY <5>1, EventKinds
      <4>2. sent[i].comp \in 1..(comp - 1)
        <5>1. sent[i].comp < comp
          BY <2>1, <3>2 DEF VerdictInv, CompInv
        <5>2. comp \in Nat
          BY <2>1, KbAssumption DEF TypeOK
        <5> QED BY <4>1, <5>1, <5>2, KbAssumption
      <4> QED BY <2>1, <3>2, <4>2 DEF VerdictInv, CompInv
    <3>3. gen = "over" /\ request = "kb" =>
              \E i \in DOMAIN out : out[i].comp = All /\ out[i].by = "stream"
      BY <2>1 DEF VerdictInv, AllJudged
    <3> QED BY <3>1, <3>2, <3>3 DEF VerdictsClose
  <2> QED BY <2>1, <2>2, <2>3, <2>4 DEF StreamSound
<1> QED BY <1>1, KbCorrect, PTL

\* A documentation run that tells its client it was cancelled has deleted nothing, at
\* whichever of its steps the cancel request arrives (init_platform_docs).
THEOREM KbCancelCorrect == Spec => []CancelledKeepsData
<1>1. KbInv => CancelledKeepsData
  BY DEF KbInv, DataInv
<1> QED BY <1>1, KbCorrect, PTL
=============================================================================
