------------------------ MODULE ChannelBridgeProofs -------------------------
(***************************************************************************)
(* The bridge, for any number of messages, handlers and reactors and any   *)
(* caps.  The argument: the ids remembered are the last ones admitted      *)
(* (SeenInv); while the memory of reactions has room, it holds exactly what*)
(* has a feedback run or is about to get one (ReactInv); a handler has     *)
(* answered its message when it says so (HandlerInv), over a platform where*)
(* an open card belongs to a message that has an answer (PostInv); a mark  *)
(* is about to be cleared (MarkInv); and what is remembered of the bot's   *)
(* messages keeps its shape (TrackInv).                                    *)
(***************************************************************************)
EXTENDS ChannelBridge, TLAPS, FiniteSetTheorems, FunctionTheorems, SequenceTheorems

-----------------------------------------------------------------------------
(* Bounded ordered dictionaries.                                           *)

\* The elements of a sequence.
In(d) == {d[i] : i \in DOMAIN d}

\* Its elements are distinct.
Unique(d) == \A i, j \in DOMAIN d : d[i] = d[j] => i = j

\* Membership, as the module and as the proofs say it.
LEMMA InHas == ASSUME NEW d, NEW x PROVE Has(d, x) <=> x \in In(d)
BY DEF Has, In

\* a is d with x at its end, without its first k entries.
Enters(d, x, k, a) ==
    /\ Len(a) = Len(d) + 1 - k
    /\ \A i \in 1..Len(a) : /\ i + k \in 1..(Len(d) + 1)
                            /\ a[i] = IF i + k <= Len(d) THEN d[i + k] ELSE x

Newer(d, x, n, a) == a = Newest(Append(d, x), n)

\* What a bounded dictionary holds after one more entry: all, or all but the oldest.
LEMMA NewestOf ==
    ASSUME NEW X, NEW d \in Seq(X), NEW x \in X, NEW n \in Nat \ {0}, Len(d) <= n,
           NEW a, Newer(d, x, n, a)
    PROVE  /\ a \in Seq(X) /\ Len(a) <= n
           /\ Len(d) < n => Enters(d, x, 0, a)
           /\ Len(d) = n => Enters(d, x, 1, a)
<1> DEFINE e == Append(d, x)
<1>1. /\ e \in Seq(X) /\ Len(e) = Len(d) + 1 /\ Len(d) \in Nat
      /\ e[Len(d) + 1] = x /\ \A i \in 1..Len(d) : e[i] = d[i]
  OBVIOUS
<1>0. a = Newest(e, n)
  BY DEF Newer
<1> HIDE DEF e
<1>2. CASE Len(d) < n
  <2>1. a = e
    BY <1>0, <1>1, <1>2 DEF Newest
  <2>2. \A i \in 1..Len(a) : /\ i + 0 \in 1..(Len(d) + 1)
                             /\ a[i] = IF i + 0 <= Len(d) THEN d[i + 0] ELSE x
    <3> SUFFICES ASSUME NEW i \in 1..Len(a)
                 PROVE  /\ i + 0 \in 1..(Len(d) + 1)
                        /\ a[i] = IF i + 0 <= Len(d) THEN d[i + 0] ELSE x
      OBVIOUS
    <3>1. i + 0 = i /\ i \in 1..(Len(d) + 1)
      BY <1>1, <2>1
    <3>2. CASE i <= Len(d)
      BY <1>1, <2>1, <3>1, <3>2
    <3>3. CASE i = Len(d) + 1
      BY <1>1, <2>1, <3>1, <3>3
    <3> QED BY <1>1, <3>1, <3>2, <3>3
  <2> QED BY <1>1, <1>2, <2>1, <2>2 DEF Enters
<1>3. CASE Len(d) = n
  <2>1. a = SubSeq(e, 2, n + 1)
    BY <1>0, <1>1, <1>3 DEF Newest
  <2>2. a \in Seq(X) /\ Len(a) = n /\ \A i \in 1..n : a[i] = e[i + 1]
    <3>1. 2 \in 1..Len(e) /\ n + 1 \in 1..Len(e)
      BY <1>1, <1>3
    <3> QED BY <1>1, <1>3, <2>1, <3>1
  <2>3. \A i \in 1..Len(a) : /\ i + 1 \in 1..(Len(d) + 1)
                             /\ a[i] = IF i + 1 <= Len(d) THEN d[i + 1] ELSE x
    <3> SUFFICES ASSUME NEW i \in 1..n
                 PROVE  /\ i + 1 \in 1..(Len(d) + 1)
                        /\ a[i] = IF i + 1 <= Len(d) THEN d[i + 1] ELSE x
      BY <2>2
    <3>1. CASE i + 1 <= Len(d)
      BY <1>1, <1>3, <2>2, <3>1
    <3>2. CASE i = Len(d)
      BY <1>1, <1>3, <2>2, <3>2
    <3> QED BY <1>1, <1>3, <3>1, <3>2
  <2> QED BY <1>1, <1>3, <2>2, <2>3 DEF Enters
<1> QED BY <1>1, <1>2, <1>3

\* What comes into a dictionary, and what may leave it.
LEMMA EntersOf ==
    ASSUME NEW X, NEW d \in Seq(X), NEW x, NEW k \in {0, 1}, NEW Y, NEW a \in Seq(Y), Enters(d, x, k, a),
           Len(d) + 1 > k
    PROVE  /\ In(a) \subseteq In(d) \cup {x}
           /\ x \in In(a)
           /\ k = 0 => In(a) = In(d) \cup {x}
           /\ Unique(d) /\ x \notin In(d) => Unique(a)
<1>1. /\ DOMAIN d = 1..Len(d) /\ Len(d) \in Nat /\ DOMAIN a = 1..Len(a) /\ Len(a) \in Nat
      /\ Len(a) = Len(d) + 1 - k
      /\ \A i \in 1..Len(a) : /\ i + k \in 1..(Len(d) + 1)
                              /\ a[i] = IF i + k <= Len(d) THEN d[i + k] ELSE x
  BY DEF Enters
<1>2. \A i \in 1..Len(a) : \/ i + k \in 1..Len(d) /\ a[i] = d[i + k]
                           \/ i + k = Len(d) + 1 /\ a[i] = x
  BY <1>1
<1>3. In(a) \subseteq In(d) \cup {x}
  BY <1>1, <1>2 DEF In
<1>4. x \in In(a)
  <2>1. Len(a) \in 1..Len(a) /\ Len(a) + k = Len(d) + 1
    BY <1>1
  <2> QED BY <1>1, <1>2, <2>1 DEF In
<1>5. k = 0 => In(d) \subseteq In(a)
  <2> SUFFICES ASSUME k = 0, NEW i \in 1..Len(d) PROVE d[i] \in In(a)
    BY <1>1 DEF In
  <2>1. i \in 1..Len(a) /\ i + k = i
    BY <1>1
  <2>2. a[i] = d[i]
    BY <1>1, <2>1
  <2> QED BY <1>1, <2>1, <2>2 DEF In
<1>6. Unique(d) /\ x \notin In(d) => Unique(a)
  <2> SUFFICES ASSUME Unique(d), x \notin In(d), NEW i \in 1..Len(a), NEW j \in 1..Len(a), a[i] = a[j]
               PROVE  i = j
    BY <1>1 DEF Unique
  <2>1. \A l \in 1..Len(d) : d[l] # x
    BY <1>1 DEF In
  <2>2. i + k = j + k
    BY <1>1, <1>2, <2>1 DEF Unique
  <2> QED BY <1>1, <2>2
<1> QED BY <1>3, <1>4, <1>5, <1>6

Puts(d, x, n, a) == a = Put(d, x, n)

\* An entry put into a dictionary, which may push the oldest out.
LEMMA PutOf ==
    ASSUME NEW X, NEW d \in Seq(X), NEW x \in X, NEW n \in Nat \ {0}, Len(d) <= n,
           NEW a, Puts(d, x, n, a)
    PROVE  /\ a \in Seq(X) /\ Len(a) <= n
           /\ In(a) \subseteq In(d) \cup {x}
           /\ x \in In(a)
           /\ x \notin In(d) /\ Unique(d) => Unique(a)
           /\ Len(d) < n => In(a) = In(d) \cup {x}
<1>1. CASE x \in In(d)
  <2>1. a = d
    BY <1>1, InHas DEF Put, Puts
  <2> QED BY <1>1, <2>1
<1>2. CASE x \notin In(d)
  <2>1. Newer(d, x, n, a)
    BY <1>2, InHas DEF Put, Puts, Newer
  <2>2. /\ a \in Seq(X) /\ Len(a) <= n
        /\ Len(d) < n => Enters(d, x, 0, a)
        /\ Len(d) = n => Enters(d, x, 1, a)
    BY <2>1, NewestOf
  <2>3. PICK k \in {0, 1} : Enters(d, x, k, a) /\ (Len(d) < n => k = 0) /\ Len(d) + 1 > k
    <3>1. Len(d) \in Nat
      OBVIOUS
    <3> QED BY <2>2, <3>1
  <2> QED BY <1>2, <2>2, <2>3, EntersOf
<1> QED BY <1>1, <1>2

Pops(d, x, a) == a = Pop(d, x)

\* An entry taken out of a dictionary.
LEMMA PopOf ==
    ASSUME NEW X, NEW d \in Seq(X), Unique(d), NEW x, NEW a, Pops(d, x, a)
    PROVE  /\ a \in Seq(X) /\ Len(a) <= Len(d)
           /\ Unique(a)
           /\ In(a) = In(d) \ {x}
<1>0. DOMAIN d = 1..Len(d) /\ Len(d) \in Nat
  OBVIOUS
<1>1. CASE ~Has(d, x)
  BY <1>0, <1>1, InHas DEF Pop, Pops
<1>2. CASE Has(d, x)
  <2> DEFINE k == CHOOSE i \in DOMAIN d : d[i] = x
             f(i) == IF i < k THEN i ELSE i + 1
             n == Len(d) - 1
  <2>1. k \in 1..Len(d) /\ d[k] = x
    BY <1>0, <1>2 DEF Has
  <2>2. a = [i \in 1..n |-> d[f(i)]]
    BY <1>2 DEF Pop, Pops
  <2> HIDE DEF k
  <2>3. n \in Nat /\ \A i \in 1..n : f(i) \in 1..Len(d) /\ f(i) # k
    BY <1>0, <2>1
  <2>4. \A i, j \in 1..n : f(i) = f(j) => i = j
    BY <2>1, <2>3
  <2>5. \A j \in 1..Len(d) : j # k => \E i \in 1..n : f(i) = j
    <3> SUFFICES ASSUME NEW j \in 1..Len(d), j # k PROVE \E i \in 1..n : f(i) = j
      OBVIOUS
    <3>1. CASE j < k
      <4>1. j \in 1..n /\ f(j) = j
        BY <1>0, <2>1, <2>3, <3>1
      <4> QED BY <4>1
    <3>2. CASE j > k
      <4>1. j - 1 \in 1..n /\ f(j - 1) = j
        BY <1>0, <2>1, <2>3, <3>2
      <4> QED BY <4>1
    <3> QED BY <2>1, <3>1, <3>2
  <2> HIDE DEF f
  <2>6. a \in Seq(X) /\ Len(a) = n /\ DOMAIN a = 1..n /\ \A i \in 1..n : a[i] = d[f(i)]
    <3>1. \A i \in 1..n : d[f(i)] \in X
      BY <2>3
    <3>2. a \in [1..n -> X]
      BY <2>2, <3>1
    <3>3. a \in Seq(X)
      BY <2>3, <3>2
    <3> QED BY <2>2, <2>3, <3>2, <3>3
  <2> HIDE DEF n
  <2>7. Unique(a)
    BY <1>0, <2>3, <2>4, <2>6 DEF Unique
  <2>8. In(a) \subseteq In(d) \ {x}
    BY <1>0, <2>1, <2>3, <2>6 DEF In, Unique
  <2>9. In(d) \ {x} \subseteq In(a)
    <3> SUFFICES ASSUME NEW j \in 1..Len(d), d[j] # x PROVE d[j] \in In(a)
      BY <1>0 DEF In
    <3>1. PICK i \in 1..n : f(i) = j
      BY <2>1, <2>5
    <3> QED BY <2>6, <3>1 DEF In
  <2>10. Len(a) <= Len(d)
    BY <1>0, <2>6 DEF n
  <2> QED BY <2>6, <2>7, <2>8, <2>9, <2>10
<1> QED BY <1>1, <1>2

\* A sequence of distinct elements is no longer than a set that has them all.
LEMMA UniqueFits ==
    ASSUME NEW X, NEW d \in Seq(X), Unique(d), NEW T, IsFiniteSet(T), In(d) \subseteq T
    PROVE  Len(d) <= Cardinality(T)
<1>1. DOMAIN d = 1..Len(d) /\ Len(d) \in Nat
  OBVIOUS
<1>2. [i \in 1..Len(d) |-> d[i]] \in Injection(1..Len(d), T)
  <2>1. \A i \in 1..Len(d) : d[i] \in T
    BY <1>1 DEF In
  <2>2. \A i, j \in 1..Len(d) : d[i] = d[j] => i = j
    BY <1>1 DEF Unique
  <2> QED BY <2>1, <2>2, Fun_IsInj
<1>3. IsFiniteSet(1..Len(d)) /\ Cardinality(1..Len(d)) = Len(d)
  BY <1>1, FS_Interval
<1>4. \E f : f \in Injection(1..Len(d), T)
  BY <1>2
<1>5. Cardinality(1..Len(d)) <= Cardinality(T)
  BY <1>4, FS_Injection
<1> QED BY <1>3, <1>5
-----------------------------------------------------------------------------
(* The deduplication window.                                               *)

\* The ids remembered are the last ones admitted, and none is forgotten before the memory
\* is full.
SeenInv ==
    /\ seen \in Seq(Messages) /\ Len(seen) <= SeenCap /\ admitted \in Seq(Messages)
    /\ \E k \in Nat : /\ Len(admitted) = Len(seen) + k
                      /\ k > 0 => Len(seen) = SeenCap
                      /\ \A i \in 1..Len(seen) : seen[i] = admitted[i + k]
    /\ NoRepeatInWindow

\* The window, step by step.
LEMMA SeenInit == Init => SeenInv
<1> SUFFICES ASSUME Init PROVE SeenInv
  OBVIOUS
<1>1. seen = <<>> /\ admitted = <<>> /\ SeenCap \in Nat
  BY BridgeAssumption DEF Init
<1>2. Len(admitted) = Len(seen) + 0 /\ 1..Len(seen) = {} /\ Len(seen) <= SeenCap
  BY <1>1
<1>3. NoRepeatInWindow
  BY <1>1 DEF NoRepeatInWindow
<1> QED BY <1>1, <1>2, <1>3 DEF SeenInv

LEMMA SeenStep == SeenInv /\ [Next]_vars => SeenInv'
<1> SUFFICES ASSUME SeenInv, [Next]_vars PROVE SeenInv'
  OBVIOUS
<1>1. ASSUME NEW h \in Handlers, NEW m \in Messages, Deliver(h, m) PROVE SeenInv'
  <2>1. /\ seen \in Seq(Messages) /\ Len(seen) <= SeenCap /\ admitted \in Seq(Messages)
        /\ SeenCap \in Nat \ {0} /\ Len(seen) \in Nat /\ Len(admitted) \in Nat
    BY BridgeAssumption DEF SeenInv
  <2>2. PICK k \in Nat : /\ Len(admitted) = Len(seen) + k
                         /\ k > 0 => Len(seen) = SeenCap
                         /\ \A i \in 1..Len(seen) : seen[i] = admitted[i + k]
    BY DEF SeenInv
  <2>3. /\ admitted' \in Seq(Messages) /\ Len(admitted') = Len(admitted) + 1
        /\ admitted'[Len(admitted) + 1] = m
        /\ \A i \in 1..Len(admitted) : admitted'[i] = admitted[i]
        /\ DOMAIN admitted' = 1..(Len(admitted) + 1) /\ DOMAIN admitted = 1..Len(admitted)
    BY <1>1, <2>1 DEF Deliver
  <2>4. \A i \in 1..Len(seen) : seen[i] # m
    BY <1>1, <2>1 DEF Deliver, Has
  <2>5. Newer(seen, m, SeenCap, seen')
    BY <1>1 DEF Deliver, Remember, Newer
  <2>6. /\ seen' \in Seq(Messages) /\ Len(seen') <= SeenCap
        /\ Len(seen) < SeenCap => Enters(seen, m, 0, seen')
        /\ Len(seen) = SeenCap => Enters(seen, m, 1, seen')
    BY <2>1, <2>5, NewestOf
  <2>7. PICK e \in {0, 1} : Enters(seen, m, e, seen') /\ (e = 1 <=> Len(seen) = SeenCap)
    BY <2>1, <2>6
  <2>8. /\ Len(seen') = Len(seen) + 1 - e
        /\ \A i \in 1..Len(seen') : /\ i + e \in 1..(Len(seen) + 1)
                                    /\ seen'[i] = IF i + e <= Len(seen) THEN seen[i + e] ELSE m
    BY <2>7 DEF Enters
  <2>9. /\ k + e \in Nat /\ Len(admitted') = Len(seen') + (k + e)
        /\ k + e > 0 => Len(seen') = SeenCap
    BY <2>1, <2>2, <2>3, <2>7, <2>8
  <2>10. \A i \in 1..Len(seen') : seen'[i] = admitted'[i + (k + e)]
    <3> SUFFICES ASSUME NEW i \in 1..Len(seen') PROVE seen'[i] = admitted'[i + (k + e)]
      OBVIOUS
    <3>1. i + (k + e) = (i + e) + k /\ i + e \in 1..(Len(seen) + 1)
      BY <2>8
    <3>2. CASE i + e <= Len(seen)
      <4>1. i + e \in 1..Len(seen) /\ (i + e) + k \in 1..Len(admitted)
        BY <2>1, <2>2, <3>1, <3>2
      <4>2. seen'[i] = seen[i + e]
        BY <2>8, <3>2
      <4> QED BY <2>2, <2>3, <3>1, <4>1, <4>2
    <3>3. CASE i + e = Len(seen) + 1
      <4>1. (i + e) + k = Len(admitted) + 1
        BY <2>1, <2>2, <3>3
      <4>2. seen'[i] = m
        BY <2>1, <2>8, <3>3
      <4> QED BY <2>3, <3>1, <4>1, <4>2
    <3> QED BY <2>1, <3>1, <3>2, <3>3
  <2>11. NoRepeatInWindow'
    <3> SUFFICES ASSUME NEW i \in DOMAIN admitted', NEW j \in DOMAIN admitted',
                        i < j, admitted'[i] = admitted'[j]
                 PROVE  j - i > SeenCap
      BY DEF NoRepeatInWindow
    <3>1. i \in 1..Len(admitted)
      BY <2>1, <2>3
    <3>2. CASE j \in 1..Len(admitted)
      BY <2>3, <3>1, <3>2 DEF SeenInv, NoRepeatInWindow
    <3>3. CASE j = Len(admitted) + 1
      <4>1. admitted[i] = m
        BY <2>3, <3>1, <3>3
      <4>2. i <= k
        <5> SUFFICES ASSUME i > k PROVE FALSE
          BY <2>2, <3>1
        <5>1. i - k \in 1..Len(seen) /\ (i - k) + k = i
          BY <2>1, <2>2, <3>1
        <5> QED BY <2>2, <2>4, <4>1, <5>1
      <4> QED BY <2>1, <2>2, <3>1, <3>3, <4>2
    <3> QED BY <2>1, <2>3, <3>2, <3>3
  <2> QED BY <2>3, <2>6, <2>9, <2>10, <2>11 DEF SeenInv
<1>2. ASSUME UNCHANGED <<seen, admitted>> PROVE SeenInv'
  BY <1>2 DEF SeenInv, NoRepeatInWindow
<1>3. ASSUME NEW h \in Handlers, Step(h) \/ RunEnds(h) PROVE UNCHANGED <<seen, admitted>>
  BY <1>3 DEF Step, AddProcessing, StartChat, RunEnds, SendBusy, Consume, OpenCard, Track, StreamEnds,
              SendFallback, Finalize, RemoveProcessing, AddOutcome, bridge, past
<1>4. ASSUME NEW r \in Reactors, NEW b, React(r, b) \/ StartFeedback(r) PROVE UNCHANGED <<seen, admitted>>
  BY <1>4 DEF React, StartFeedback, past
<1>5. Quiet \/ UNCHANGED vars => UNCHANGED <<seen, admitted>>
  BY DEF Quiet, vars, bridge, past
<1> QED BY <1>1, <1>2, <1>3, <1>4, <1>5 DEF Next

-----------------------------------------------------------------------------
(* Reactions.                                                              *)

Targets == {target[r] : r \in Reactors} \ {NoId}

\* As long as the memory of reactions can hold every message reacted to, what it holds is
\* those with a feedback run that was started, or is about to be, by one reaction each.
Remembered ==
    /\ \A r \in Reactors : rpc[r] = "starting" =>
           /\ target[r] \in In(reacted) /\ target[r] \notin In(feedback)
           /\ \A q \in Reactors : rpc[q] = "starting" /\ target[q] = target[r] => q = r
    /\ In(feedback) \subseteq In(reacted)
    /\ Unique(feedback)

ReactInv ==
    /\ reacted \in Seq(BotIds) /\ Len(reacted) <= ReactedCap
    /\ rpc \in [Reactors -> {"idle", "starting", "over"}]
    /\ target \in [Reactors -> BotIds \cup {NoId}]
    /\ feedback \in Seq(BotIds)
    /\ \A r \in Reactors : IF rpc[r] = "idle" THEN target[r] = NoId ELSE target[r] \in BotIds \ {NoId}
    /\ Unique(reacted) /\ In(reacted) \subseteq Targets
    /\ Cardinality(Targets) <= ReactedCap => Remembered
    /\ FailureForgotten

\* What reactions leave, step by step.
LEMMA ReactInit == Init => ReactInv
<1> SUFFICES ASSUME Init PROVE ReactInv
  OBVIOUS
<1>1. /\ reacted = <<>> /\ feedback = <<>> /\ ReactedCap \in Nat
      /\ rpc = [r \in Reactors |-> "idle"] /\ target = [r \in Reactors |-> NoId]
  BY BridgeAssumption DEF Init
<1>2. In(reacted) = {} /\ In(feedback) = {} /\ Unique(reacted) /\ Unique(feedback)
  BY <1>1 DEF In, Unique
<1>3. FailureForgotten
  BY <1>1 DEF FailureForgotten
<1> QED BY <1>1, <1>2, <1>3 DEF ReactInv, Remembered

\* There are as many messages reacted to as there are reactors, at most.
LEMMA TargetsFinite == IsFiniteSet(Targets)
<1> DEFINE T == {target[r] : r \in Reactors}
           f == [r \in Reactors |-> target[r]]
<1>1. f \in Surjection(Reactors, T)
  <2>1. f \in [Reactors -> T]
    OBVIOUS
  <2>2. \A t \in T : \E r \in Reactors : f[r] = t
    OBVIOUS
  <2> QED BY <2>1, <2>2, Fun_IsSurj
<1>2. \E g : g \in Surjection(Reactors, T)
  BY <1>1
<1>3. IsFiniteSet(T)
  <2> HIDE DEF T
  <2> QED BY <1>2, FS_Surjection, BridgeAssumption
<1> QED BY <1>3, FS_Subset DEF Targets

\* An entry is remembered for a feedback run: the same, by the elements.
LEMMA ForgottenIn ==
    FailureForgotten <=> \A b \in In(reacted) : \/ b \in In(feedback)
                                                \/ \E r \in Reactors : rpc[r] = "starting" /\ target[r] = b
BY InHas DEF FailureForgotten, In

Adds(d, x, a) == a = Append(d, x)

\* An element appended.
LEMMA AppendIn ==
    ASSUME NEW X, NEW d \in Seq(X), NEW x, NEW a, Adds(d, x, a)
    PROVE  /\ In(a) = In(d) \cup {x}
           /\ Unique(d) /\ x \notin In(d) => Unique(a)
<1>1. /\ DOMAIN d = 1..Len(d) /\ DOMAIN a = 1..(Len(d) + 1) /\ Len(d) \in Nat
      /\ a[Len(d) + 1] = x /\ \A i \in 1..Len(d) : a[i] = d[i]
  BY DEF Adds
<1>2. In(a) = In(d) \cup {x}
  BY <1>1 DEF In
<1>3. Unique(d) /\ x \notin In(d) => Unique(a)
  BY <1>1 DEF Unique, In
<1> QED BY <1>2, <1>3

LEMMA ReactStep ==
    ASSUME ReactInv, posts \in [Messages -> Seq(Nat)], [Next]_vars
    PROVE  ReactInv'
<1>0. /\ reacted \in Seq(BotIds) /\ Len(reacted) <= ReactedCap /\ ReactedCap \in Nat \ {0}
      /\ feedback \in Seq(BotIds) /\ Len(reacted) \in Nat
      /\ Unique(reacted) /\ In(reacted) \subseteq Targets
      /\ rpc \in [Reactors -> {"idle", "starting", "over"}]
      /\ target \in [Reactors -> BotIds \cup {NoId}]
      /\ \A r \in Reactors : IF rpc[r] = "idle" THEN target[r] = NoId ELSE target[r] \in BotIds \ {NoId}
  BY BridgeAssumption DEF ReactInv
<1>1. ASSUME NEW r \in Reactors, NEW m \in Messages, NEW n \in Nat \ {0}, React(r, <<m, n>>)
      PROVE  ReactInv'
  <2> DEFINE b == <<m, n>>
  <2>1. /\ b \in BotIds /\ b # NoId /\ b \notin In(reacted)
        /\ rpc[r] = "idle" /\ target[r] = NoId
        /\ rpc' = [rpc EXCEPT ![r] = "starting"] /\ target' = [target EXCEPT ![r] = b]
        /\ Puts(reacted, b, ReactedCap, reacted') /\ feedback' = feedback
    BY <1>0, <1>1, InHas DEF React, Admits, BotIds, NoId, Puts, past
  <2> HIDE DEF b
  <2>2. /\ reacted' \in Seq(BotIds) /\ Len(reacted') <= ReactedCap
        /\ In(reacted') \subseteq In(reacted) \cup {b} /\ b \in In(reacted') /\ Unique(reacted')
        /\ Len(reacted) < ReactedCap => In(reacted') = In(reacted) \cup {b}
    BY <1>0, <2>1, PutOf
  <2>3. Targets' = Targets \cup {b}
    BY <1>0, <2>1 DEF Targets
  <2>4. /\ rpc' \in [Reactors -> {"idle", "starting", "over"}]
        /\ target' \in [Reactors -> BotIds \cup {NoId}]
        /\ \A q \in Reactors : q # r => rpc'[q] = rpc[q] /\ target'[q] = target[q]
        /\ rpc'[r] = "starting" /\ target'[r] = b
    BY <1>0, <2>1
  <2>5. In(reacted') \subseteq Targets'
    BY <1>0, <2>2, <2>3
  <2>6. FailureForgotten'
    <3>1. ASSUME NEW c \in In(reacted')
          PROVE  \/ c \in In(feedback')
                 \/ \E q \in Reactors : rpc'[q] = "starting" /\ target'[q] = c
      <4>1. CASE c = b
        BY <2>4, <4>1
      <4>2. CASE c \in In(reacted)
        <5>1. \/ c \in In(feedback)
              \/ \E q \in Reactors : rpc[q] = "starting" /\ target[q] = c
          BY <4>2, ForgottenIn DEF ReactInv
        <5>2. ASSUME NEW q \in Reactors, rpc[q] = "starting", target[q] = c
              PROVE  rpc'[q] = "starting" /\ target'[q] = c
          BY <2>1, <2>4, <5>2
        <5> QED BY <2>1, <5>1, <5>2
      <4> QED BY <2>2, <4>1, <4>2
    <3> QED BY <3>1, InHas DEF FailureForgotten, In
  <2>7. ASSUME Cardinality(Targets') <= ReactedCap PROVE Remembered'
    <3>1. IsFiniteSet(Targets') /\ IsFiniteSet(Targets)
      BY <2>3, TargetsFinite, FS_AddElement
    <3>2. Cardinality(Targets) <= Cardinality(Targets')
          /\ Cardinality(Targets) \in Nat /\ Cardinality(Targets') \in Nat
      BY <2>3, <3>1, FS_Subset, FS_CardinalityType
    <3>3. Remembered
      BY <1>0, <2>7, <3>2 DEF ReactInv
    <3>4. Len(reacted) < ReactedCap
      <4> DEFINE e == Append(reacted, b)
      <4>1. e \in Seq(BotIds) /\ Len(e) = Len(reacted) + 1 /\ Adds(reacted, b, e)
        BY <1>0, <2>1 DEF Adds
      <4> HIDE DEF e
      <4>2. In(e) = In(reacted) \cup {b} /\ Unique(e)
        BY <1>0, <2>1, <4>1, AppendIn
      <4>3. In(e) \subseteq Targets'
        BY <1>0, <2>3, <4>2
      <4>4. Len(e) <= Cardinality(Targets')
        BY <3>1, <4>1, <4>2, <4>3, UniqueFits
      <4> QED BY <1>0, <2>7, <3>2, <4>1, <4>4
    <3>5. In(reacted') = In(reacted) \cup {b}
      BY <2>2, <3>4
    <3>6. b \notin In(feedback)
      BY <2>1, <3>3 DEF Remembered
    <3>7. \A q \in Reactors : rpc[q] = "starting" => target[q] # b
      BY <2>1, <3>3 DEF Remembered
    <3>8. ASSUME NEW p \in Reactors, rpc'[p] = "starting"
          PROVE  /\ target'[p] \in In(reacted') /\ target'[p] \notin In(feedback')
                 /\ \A q \in Reactors : rpc'[q] = "starting" /\ target'[q] = target'[p] => q = p
      <4>1. CASE p = r
        BY <2>1, <2>4, <3>5, <3>6, <3>7, <4>1
      <4>2. CASE p # r
        BY <2>1, <2>4, <3>3, <3>5, <3>7, <3>8, <4>2 DEF Remembered
      <4> QED BY <4>1, <4>2
    <3>9. In(feedback') \subseteq In(reacted') /\ Unique(feedback')
      BY <2>1, <3>3, <3>5 DEF Remembered
    <3> QED BY <3>8, <3>9 DEF Remembered
  <2>8. \A q \in Reactors : IF rpc'[q] = "idle" THEN target'[q] = NoId ELSE target'[q] \in BotIds \ {NoId}
    BY <1>0, <2>1, <2>4
  <2>9. feedback' \in Seq(BotIds)
    BY <1>0, <2>1
  <2> QED BY <2>2, <2>4, <2>5, <2>6, <2>7, <2>8, <2>9 DEF ReactInv
<1>2. ASSUME NEW r \in Reactors, StartFeedback(r) PROVE ReactInv'
  <2> DEFINE b == target[r]
  <2>1. /\ rpc[r] = "starting" /\ rpc' = [rpc EXCEPT ![r] = "over"] /\ target' = target
        /\ \/ feedback' = Append(feedback, b) /\ reacted' = reacted
           \/ Pops(reacted, b, reacted') /\ feedback' = feedback
    BY <1>2 DEF StartFeedback, Forget, Pops
  <2>2. b \in BotIds \ {NoId} /\ Targets' = Targets
    BY <1>0, <2>1 DEF Targets
  <2>3. /\ rpc' \in [Reactors -> {"idle", "starting", "over"}]
        /\ \A q \in Reactors : q # r => rpc'[q] = rpc[q]
        /\ rpc'[r] = "over"
    BY <1>0, <2>1
  <2>4. \A q \in Reactors : IF rpc'[q] = "idle" THEN target'[q] = NoId ELSE target'[q] \in BotIds \ {NoId}
    BY <1>0, <2>1, <2>3
  <2>0. \A c \in In(reacted) : \/ c \in In(feedback)
                               \/ \E q \in Reactors : rpc[q] = "starting" /\ target[q] = c
    BY ForgottenIn DEF ReactInv
  <2>5. CASE feedback' = Append(feedback, b) /\ reacted' = reacted
    <3>1. feedback' \in Seq(BotIds) /\ In(feedback') = In(feedback) \cup {b}
          /\ (Unique(feedback) /\ b \notin In(feedback) => Unique(feedback'))
      <4>1. Adds(feedback, b, feedback')
        BY <2>5 DEF Adds
      <4>2. feedback' \in Seq(BotIds)
        BY <1>0, <2>2, <2>5
      <4> QED BY <1>0, <4>1, <4>2, AppendIn
    <3>2. FailureForgotten'
      <4>1. ASSUME NEW c \in In(reacted')
            PROVE  \/ c \in In(feedback')
                   \/ \E q \in Reactors : rpc'[q] = "starting" /\ target'[q] = c
        BY <2>0, <2>1, <2>3, <2>5, <3>1, <4>1
      <4> QED BY <4>1, InHas DEF FailureForgotten, In
    <3>3. Remembered => Remembered'
      BY <2>1, <2>3, <2>5, <3>1 DEF Remembered
    <3> QED BY <1>0, <2>1, <2>2, <2>3, <2>4, <2>5, <3>1, <3>2, <3>3 DEF ReactInv
  <2>6. CASE Pops(reacted, b, reacted') /\ feedback' = feedback
    <3>1. reacted' \in Seq(BotIds) /\ Len(reacted') <= Len(reacted) /\ Unique(reacted')
          /\ In(reacted') = In(reacted) \ {b}
      BY <1>0, <2>6, PopOf
    <3>2. FailureForgotten'
      <4>1. ASSUME NEW c \in In(reacted')
            PROVE  \/ c \in In(feedback')
                   \/ \E q \in Reactors : rpc'[q] = "starting" /\ target'[q] = c
        BY <2>0, <2>1, <2>3, <2>6, <3>1, <4>1
      <4> QED BY <4>1, InHas DEF FailureForgotten, In
    <3>3. Remembered => Remembered'
      BY <2>1, <2>3, <2>6, <3>1 DEF Remembered
    <3>4. Len(reacted') <= ReactedCap
      BY <1>0, <3>1
    <3> QED BY <1>0, <2>1, <2>2, <2>3, <2>4, <2>6, <3>1, <3>2, <3>3, <3>4 DEF ReactInv
  <2> QED BY <2>1, <2>5, <2>6
<1>3. ASSUME UNCHANGED <<reacted, rpc, target, feedback>> PROVE ReactInv'
  BY <1>3 DEF ReactInv, Remembered, Targets, FailureForgotten, Has
<1>4. ASSUME NEW h \in Handlers, Step(h) \/ RunEnds(h) PROVE UNCHANGED <<reacted, rpc, target, feedback>>
  BY <1>4 DEF Step, AddProcessing, StartChat, RunEnds, SendBusy, Consume, OpenCard, Track, StreamEnds,
              SendFallback, Finalize, RemoveProcessing, AddOutcome, bridge, past, reactor
<1>5. ASSUME NEW h \in Handlers, NEW m \in Messages, Deliver(h, m)
      PROVE  UNCHANGED <<reacted, rpc, target, feedback>>
  BY <1>5 DEF Deliver, reactor
<1>6. Quiet \/ UNCHANGED vars => UNCHANGED <<reacted, rpc, target, feedback>>
  BY DEF Quiet, vars, bridge, past, reactor
<1> QED
  <2>1. ASSUME NEW m \in Messages, NEW n \in DOMAIN posts[m], NEW r \in Reactors, React(r, <<m, n>>)
        PROVE  ReactInv'
    <3>1. n \in Nat \ {0}
      OBVIOUS
    <3> QED BY <1>1, <2>1, <3>1
  <2> QED BY <1>2, <1>3, <1>4, <1>5, <1>6, <2>1 DEF Next

-----------------------------------------------------------------------------
(* What handlers say on the platform.                                      *)

\* An open card belongs to a message that has an answer.
PostInv ==
    /\ posts \in [Messages -> Seq(Nat)] /\ cards \in [Messages -> Nat]
    /\ \A m \in Messages : cards[m] # 0 => posts[m] # <<>>

\* A handler posts messages, adds to the card of one, or fails to.
NewPost(m, id) ==
    \E n \in 1..MaxChunks :
        /\ posts' = [posts EXCEPT ![m] = @ \o [i \in 1..n |-> 1]]
        /\ id = <<m, Len(posts[m]) + n>>
        /\ UNCHANGED <<cards, silenced>>
MorePost(m, id) ==
    /\ cards[m] # 0 /\ posts' = [posts EXCEPT ![m][cards[m]] = @ + 1]
    /\ id = NoId
    /\ UNCHANGED <<cards, silenced>>
NoPost(m, id) ==
    \E n \in 0..MaxChunks :
        /\ posts' = [posts EXCEPT ![m] = @ \o [i \in 1..n |-> 1]]
        /\ silenced' = silenced \cup {m}
        /\ id = NoId
        /\ UNCHANGED cards

\* The ways a call to the platform can go.
LEMMA SpeechKinds ==
    ASSUME NEW h, NEW id, Post(h, id) \/ PostFragment(h, id)
    PROVE  NewPost(msg[h], id) \/ MorePost(msg[h], id) \/ NoPost(msg[h], id)
<1>1. ASSUME Post(h, id) PROVE NewPost(msg[h], id) \/ NoPost(msg[h], id)
  <2>0. Chunks \in 1..MaxChunks
    BY BridgeAssumption DEF Chunks
  <2>1. PICK n \in 0..Chunks :
          /\ posts' = [posts EXCEPT ![msg[h]] = @ \o [i \in 1..n |-> 1]]
          /\ \/ /\ n > 0 /\ id = <<msg[h], Len(posts[msg[h]]) + n>>
                /\ UNCHANGED silenced
             \/ /\ n < Chunks /\ id = NoId
                /\ Fails(msg[h])
          /\ UNCHANGED cards
    BY <1>1 DEF Post
  <2>2. CASE n > 0 /\ id = <<msg[h], Len(posts[msg[h]]) + n>> /\ UNCHANGED silenced
    <3>1. n \in 1..MaxChunks
      BY <2>0, <2>2, BridgeAssumption
    <3> QED BY <2>1, <2>2, <3>1 DEF NewPost
  <2>3. CASE id = NoId /\ Fails(msg[h])
    <3>1. n \in 0..MaxChunks
      BY <2>0, BridgeAssumption
    <3> QED BY <2>1, <2>3, <3>1 DEF NoPost, Fails
  <2> QED BY <2>1, <2>2, <2>3
<1>2. ASSUME PostFragment(h, id) PROVE Post(h, id) \/ MorePost(msg[h], id)
  BY <1>2 DEF PostFragment, MorePost
<1> QED BY <1>1, <1>2

\* What holds after a handler spoke: m has a message of the bot, or is silenced, and no
\* message has lost what it had.
Spoken(m, id) ==
    /\ PostInv'
    /\ silenced \subseteq silenced'
    /\ posts'[m] # <<>> \/ m \in silenced'
    /\ \A x \in Messages : posts[x] # <<>> => posts'[x] # <<>>
    /\ id \in BotIds \cup {NoId}
    /\ id # NoId => posts'[m] # <<>>

Extends(s, n, a) == a = s \o [i \in 1..n |-> 1]

\* More messages under the old ones.
LEMMA ExtendsOf ==
    ASSUME NEW s \in Seq(Nat), NEW n \in Nat, NEW a, Extends(s, n, a)
    PROVE  a \in Seq(Nat) /\ (s # <<>> \/ n > 0 => a # <<>>)
<1> DEFINE o == [i \in 1..n |-> 1]
<1>1. o \in Seq(Nat) /\ Len(o) = n
  OBVIOUS
<1>2. a = s \o o
  BY DEF Extends
<1> HIDE DEF o
<1>3. a \in Seq(Nat) /\ Len(a) = Len(s) + Len(o)
  BY <1>1, <1>2, ConcatProperties
<1>4. s # <<>> => Len(s) > 0
  BY EmptySeq
<1>5. s # <<>> \/ n > 0 => Len(a) > 0
  <2>1. Len(s) \in Nat
    OBVIOUS
  <2> QED BY <1>1, <1>3, <1>4, <2>1
<1>6. a = <<>> => Len(a) = 0
  OBVIOUS
<1> QED BY <1>3, <1>5, <1>6

\* They all keep PostInv, and what was settled.
LEMMA SpokenOf ==
    ASSUME PostInv, NEW m \in Messages, NEW id,
           NewPost(m, id) \/ MorePost(m, id) \/ NoPost(m, id)
    PROVE  Spoken(m, id)
<1>0. /\ posts \in [Messages -> Seq(Nat)] /\ cards \in [Messages -> Nat]
      /\ posts[m] \in Seq(Nat) /\ Len(posts[m]) \in Nat
      /\ \A x \in Messages : cards[x] # 0 => posts[x] # <<>>
  BY DEF PostInv
<1>1. ASSUME NEW p \in Seq(Nat), posts' = [posts EXCEPT ![m] = p], posts[m] # <<>> => p # <<>>,
             cards' = cards
      PROVE  /\ PostInv' /\ posts'[m] = p
             /\ \A x \in Messages : posts[x] # <<>> => posts'[x] # <<>>
  <2>1. /\ posts' \in [Messages -> Seq(Nat)] /\ posts'[m] = p
        /\ \A x \in Messages : x # m => posts'[x] = posts[x]
    BY <1>0, <1>1
  <2>2. \A x \in Messages : posts[x] # <<>> => posts'[x] # <<>>
    BY <1>1, <2>1
  <2>3. \A x \in Messages : cards'[x] # 0 => posts'[x] # <<>>
    BY <1>0, <1>1, <2>2
  <2> QED BY <1>0, <1>1, <2>1, <2>2, <2>3 DEF PostInv
<1>2. ASSUME NewPost(m, id) PROVE Spoken(m, id)
  <2>1. PICK n \in 1..MaxChunks :
          /\ posts' = [posts EXCEPT ![m] = @ \o [i \in 1..n |-> 1]]
          /\ id = <<m, Len(posts[m]) + n>>
          /\ UNCHANGED <<cards, silenced>>
    BY <1>2 DEF NewPost
  <2> DEFINE p == posts[m] \o [i \in 1..n |-> 1]
  <2>2. Extends(posts[m], n, p) /\ n \in Nat /\ n > 0
    BY BridgeAssumption DEF Extends
  <2>3. posts' = [posts EXCEPT ![m] = p] /\ cards' = cards
    BY <2>1
  <2> HIDE DEF p
  <2>4. p \in Seq(Nat) /\ p # <<>>
    BY <1>0, <2>2, ExtendsOf
  <2>5. id \in BotIds
    BY <1>0, <2>1, <2>2 DEF BotIds
  <2> QED BY <1>1, <2>1, <2>3, <2>4, <2>5 DEF Spoken
<1>3. ASSUME MorePost(m, id) PROVE Spoken(m, id)
  <2> DEFINE c == cards[m]
             p == [posts[m] EXCEPT ![c] = @ + 1]
  <2>1. posts' = [posts EXCEPT ![m] = p] /\ posts[m] # <<>>
        /\ id = NoId /\ UNCHANGED <<cards, silenced>>
    BY <1>0, <1>3 DEF MorePost
  <2>2. p \in Seq(Nat) /\ p # <<>>
    <3>0. posts[m] \in [1..Len(posts[m]) -> Nat]
      BY <1>0
    <3>1. p \in [1..Len(posts[m]) -> Nat]
      <4>1. \A i \in 1..Len(posts[m]) : posts[m][i] \in Nat /\ posts[m][i] + 1 \in Nat
        BY <3>0
      <4>2. DOMAIN p = 1..Len(posts[m])
            /\ \A i \in 1..Len(posts[m]) : p[i] \in {posts[m][i], posts[m][i] + 1}
        BY <3>0
      <4> QED BY <3>0, <4>1, <4>2
    <3>2. p \in Seq(Nat)
      BY <1>0, <3>1
    <3>3. Len(posts[m]) # 0
      BY <1>0, <2>1, EmptySeq
    <3>4. DOMAIN p # {}
      BY <1>0, <3>1, <3>3
    <3> HIDE DEF p
    <3>5. p # <<>>
      BY <3>4
    <3> QED BY <3>2, <3>5
  <2> HIDE DEF p
  <2> QED BY <1>1, <2>1, <2>2 DEF Spoken
<1>4. ASSUME NoPost(m, id) PROVE Spoken(m, id)
  <2>1. PICK n \in 0..MaxChunks :
          /\ posts' = [posts EXCEPT ![m] = @ \o [i \in 1..n |-> 1]]
          /\ silenced' = silenced \cup {m}
          /\ id = NoId
          /\ UNCHANGED cards
    BY <1>4 DEF NoPost
  <2> DEFINE p == posts[m] \o [i \in 1..n |-> 1]
  <2>2. Extends(posts[m], n, p) /\ n \in Nat
    BY BridgeAssumption DEF Extends
  <2>3. posts' = [posts EXCEPT ![m] = p] /\ cards' = cards
    BY <2>1
  <2> HIDE DEF p
  <2>4. p \in Seq(Nat) /\ (posts[m] # <<>> => p # <<>>)
    BY <1>0, <2>2, ExtendsOf
  <2> QED BY <1>1, <2>1, <2>3, <2>4 DEF Spoken
<1> QED BY <1>2, <1>3, <1>4

-----------------------------------------------------------------------------
(* Handlers.                                                               *)

Working == {"react", "start", "busy", "consume", "card", "track", "fallback", "last",
            "finalize", "unmark", "mark"}

\* The message has an answer, or a call for it failed.
Settled(p, s, m) == p[m] # <<>> \/ m \in s

\* A handler has answered its message when it says so, and before it closes.
HandlerInv ==
    /\ pc \in [Handlers -> Working \cup {"idle", "over", "raised"}]
    /\ msg \in [Handlers -> Messages \cup {Nobody}]
    /\ run \in [Handlers -> {"none", "live", "ended"}]
    /\ events \in [Handlers -> 0..MaxEvents]
    /\ anySent \in [Handlers -> BOOLEAN] /\ hasError \in [Handlers -> BOOLEAN]
    /\ \A h \in Handlers :
           /\ pc[h] \in Working \cup {"over"} => msg[h] \in Messages
           /\ pc[h] \in {"idle", "react", "start", "busy"} => ~anySent[h]
           /\ anySent[h] \/ pc[h] \in {"last", "finalize", "unmark", "mark", "over"} =>
                  pc[h] \in Working \cup {"over"} /\ Settled(posts, silenced, msg[h])
           /\ pc[h] = "card" => posts[msg[h]] # <<>>

\* A step of one handler that leaves the other handlers, and what was settled, alone.
Moves(h) ==
    /\ pc[h] \in Working
    /\ \E p \in Working \cup {"over", "raised"} : At(h, p)
    /\ msg' = msg
    /\ run' \in [Handlers -> {"none", "live", "ended"}]
    /\ events' \in [Handlers -> 0..MaxEvents]
    /\ anySent' \in [Handlers -> BOOLEAN] /\ hasError' \in [Handlers -> BOOLEAN]
    /\ \A g \in Handlers : g # h => anySent'[g] = anySent[g]
    /\ \A m \in Messages : /\ Settled(posts, silenced, m) => Settled(posts', silenced', m)
                           /\ posts[m] # <<>> => posts'[m] # <<>>

LEMMA MovesOf ==
    ASSUME HandlerInv, NEW h \in Handlers, Moves(h),
           pc'[h] \in {"react", "start", "busy"} => ~anySent'[h],
           anySent'[h] \/ pc'[h] \in {"last", "finalize", "unmark", "mark", "over"} =>
               pc'[h] # "raised" /\ Settled(posts', silenced', msg[h]),
           pc'[h] = "card" => posts'[msg[h]] # <<>>
    PROVE  HandlerInv'
<1>1. /\ pc' \in [Handlers -> Working \cup {"idle", "over", "raised"}]
      /\ \A g \in Handlers : g # h => pc'[g] = pc[g]
      /\ pc'[h] \in Working \cup {"over", "raised"}
  BY DEF HandlerInv, Moves, At
<1>2. \A g \in Handlers :
           /\ pc'[g] \in Working \cup {"over"} => msg[g] \in Messages
           /\ pc'[g] \in {"idle", "react", "start", "busy"} => ~anySent'[g]
           /\ anySent'[g] \/ pc'[g] \in {"last", "finalize", "unmark", "mark", "over"} =>
                  pc'[g] \in Working \cup {"over"} /\ Settled(posts', silenced', msg[g])
           /\ pc'[g] = "card" => posts'[msg[g]] # <<>>
  <2> SUFFICES ASSUME NEW g \in Handlers
               PROVE  /\ pc'[g] \in Working \cup {"over"} => msg[g] \in Messages
                      /\ pc'[g] \in {"idle", "react", "start", "busy"} => ~anySent'[g]
                      /\ anySent'[g] \/ pc'[g] \in {"last", "finalize", "unmark", "mark", "over"} =>
                             pc'[g] \in Working \cup {"over"} /\ Settled(posts', silenced', msg[g])
                      /\ pc'[g] = "card" => posts'[msg[g]] # <<>>
    OBVIOUS
  <2>1. CASE g = h
    <3>1. msg[h] \in Messages
      BY DEF HandlerInv, Moves
    <3>2. pc'[h] # "idle"
      BY <1>1 DEF Working
    <3> QED BY <1>1, <2>1, <3>1, <3>2
  <2>2. CASE g # h
    <3>1. pc'[g] = pc[g] /\ anySent'[g] = anySent[g]
      BY <1>1, <2>2 DEF Moves
    <3>2. /\ pc[g] \in Working \cup {"over"} => msg[g] \in Messages
          /\ pc[g] \in {"idle", "react", "start", "busy"} => ~anySent[g]
          /\ anySent[g] \/ pc[g] \in {"last", "finalize", "unmark", "mark", "over"} =>
                 pc[g] \in Working \cup {"over"} /\ Settled(posts, silenced, msg[g])
          /\ pc[g] = "card" => posts[msg[g]] # <<>>
      BY DEF HandlerInv
    <3>3. \A m \in Messages : /\ Settled(posts, silenced, m) => Settled(posts', silenced', m)
                              /\ posts[m] # <<>> => posts'[m] # <<>>
      BY DEF Moves
    <3>4. pc[g] = "card" => msg[g] \in Messages
      BY <3>2 DEF Working
    <3> QED BY <3>1, <3>2, <3>3, <3>4
  <2> QED BY <2>1, <2>2
<1>3. /\ msg' = msg /\ msg \in [Handlers -> Messages \cup {Nobody}]
      /\ run' \in [Handlers -> {"none", "live", "ended"}]
      /\ events' \in [Handlers -> 0..MaxEvents]
      /\ anySent' \in [Handlers -> BOOLEAN] /\ hasError' \in [Handlers -> BOOLEAN]
  BY DEF HandlerInv, Moves
<1>4. \A g \in Handlers : /\ anySent'[g] \/ pc'[g] \in {"last", "finalize", "unmark", "mark", "over"} =>
                                 Settled(posts', silenced', msg'[g])
                          /\ pc'[g] = "card" => posts'[msg'[g]] # <<>>
  BY <1>2, <1>3
<1> QED BY <1>1, <1>2, <1>3, <1>4 DEF HandlerInv

\* Speaking settles the message, and unsettles none.
LEMMA SpokenSettles ==
    ASSUME PostInv, HandlerInv, NEW h \in Handlers, pc[h] \in Working, NEW id,
           Post(h, id) \/ PostFragment(h, id)
    PROVE  /\ Spoken(msg[h], id)
           /\ Settled(posts', silenced', msg[h])
           /\ \A m \in Messages : /\ Settled(posts, silenced, m) => Settled(posts', silenced', m)
                                  /\ posts[m] # <<>> => posts'[m] # <<>>
           /\ id # NoId => posts'[msg[h]] # <<>>
<1>1. msg[h] \in Messages
  BY DEF HandlerInv
<1>2. Spoken(msg[h], id)
  BY <1>1, SpeechKinds, SpokenOf
<1> QED BY <1>2 DEF Spoken, Settled

\* What handlers have said, step by step.
LEMMA HandlerInit == Init => HandlerInv
<1>1. 0 \in 0..MaxEvents
  BY BridgeAssumption
<1> QED BY <1>1 DEF Init, HandlerInv, Working

LEMMA HandlerStep ==
    ASSUME PostInv, HandlerInv, [Next]_vars
    PROVE  HandlerInv'
<1>0. /\ pc \in [Handlers -> Working \cup {"idle", "over", "raised"}]
      /\ msg \in [Handlers -> Messages \cup {Nobody}]
      /\ run \in [Handlers -> {"none", "live", "ended"}]
      /\ events \in [Handlers -> 0..MaxEvents] /\ MaxEvents \in Nat
      /\ anySent \in [Handlers -> BOOLEAN] /\ hasError \in [Handlers -> BOOLEAN]
      /\ \A h \in Handlers :
           /\ pc[h] \in Working \cup {"over"} => msg[h] \in Messages
           /\ pc[h] \in {"idle", "react", "start", "busy"} => ~anySent[h]
           /\ anySent[h] \/ pc[h] \in {"last", "finalize", "unmark", "mark", "over"} =>
                  pc[h] \in Working \cup {"over"} /\ Settled(posts, silenced, msg[h])
           /\ pc[h] = "card" => posts[msg[h]] # <<>>
  BY BridgeAssumption DEF HandlerInv
<1>1. ASSUME NEW h \in Handlers, NEW m \in Messages, Deliver(h, m) PROVE HandlerInv'
  <2>1. UNCHANGED <<run, events, anySent, hasError, posts, silenced>> /\ pc[h] = "idle"
    BY <1>1 DEF Deliver, platform
  <2>2. CASE UNCHANGED <<pc, msg>>
    BY <1>0, <2>1, <2>2 DEF HandlerInv
  <2>3. CASE At(h, "react") /\ msg' = [msg EXCEPT ![h] = m]
    BY <1>0, <2>1, <2>3 DEF HandlerInv, At, Working
  <2> QED BY <1>1, <2>2, <2>3 DEF Deliver
<1>2. ASSUME NEW h \in Handlers, RunEnds(h) PROVE HandlerInv'
  BY <1>0, <1>2 DEF RunEnds, HandlerInv, platform, past
<1>3. ASSUME NEW h \in Handlers, AddProcessing(h) PROVE HandlerInv'
  <2>1. Moves(h) /\ pc'[h] = "start" /\ ~anySent'[h]
    <3>1. /\ pc[h] = "react" /\ At(h, "start") /\ UNCHANGED <<msg, run, events, anySent, hasError, posts>>
          /\ silenced \subseteq silenced'
      BY <1>3 DEF AddProcessing, Mark, Fails
    <3> QED BY <1>0, <3>1 DEF Moves, Working, At, Settled
  <2> QED BY <2>1, MovesOf
<1>4. ASSUME NEW h \in Handlers, StartChat(h) PROVE HandlerInv'
  <2>1. /\ Moves(h) /\ pc'[h] \in {"busy", "consume", "raised"} /\ ~anySent'[h]
    <3>1. /\ pc[h] = "start" /\ UNCHANGED <<msg, events, anySent, hasError, posts>>
          /\ (At(h, "busy") \/ At(h, "consume") \/ At(h, "raised"))
          /\ run' \in [Handlers -> {"none", "live", "ended"}]
          /\ silenced \subseteq silenced'
      BY <1>0, <1>4 DEF StartChat, Fails, platform
    <3> QED BY <1>0, <3>1 DEF Moves, Working, At, Settled
  <2> QED BY <2>1, MovesOf
<1>5. ASSUME NEW h \in Handlers, SendBusy(h) PROVE HandlerInv'
  <2>1. /\ pc[h] = "busy" /\ At(h, "finalize") /\ UNCHANGED <<msg, run, events>>
        /\ hasError' = [hasError EXCEPT ![h] = TRUE] /\ anySent' = [anySent EXCEPT ![h] = TRUE]
        /\ \E id \in Ids(h) : Post(h, id)
    BY <1>5 DEF SendBusy
  <2>2. /\ Settled(posts', silenced', msg[h])
        /\ \A m \in Messages : /\ Settled(posts, silenced, m) => Settled(posts', silenced', m)
                               /\ posts[m] # <<>> => posts'[m] # <<>>
    BY <2>1, SpokenSettles DEF Working
  <2>3. Moves(h) /\ pc'[h] = "finalize"
    BY <1>0, <2>1, <2>2 DEF Moves, Working, At
  <2> QED BY <2>2, <2>3, MovesOf
<1>6. ASSUME NEW h \in Handlers, Consume(h) PROVE HandlerInv'
  <2>1. PICK k \in Kinds :
          /\ anySent' = [anySent EXCEPT ![h] = @ \/ Sent(k)]
          /\ events' = [events EXCEPT ![h] = IF Skips(k) THEN @ ELSE @ + 1]
          /\ \/ /\ Skips(k)
                /\ UNCHANGED <<cards, pc, hasError, toTrack, posts, silenced>>
             \/ /\ k = "error"
                /\ hasError' = [hasError EXCEPT ![h] = TRUE]
                /\ \E id \in Ids(h) : Post(h, id)
                /\ UNCHANGED <<pc, toTrack>>
             \/ /\ ~Skips(k) /\ k # "error"
                /\ \E id \in Ids(h) :
                      /\ IF Streaming THEN PostFragment(h, id) ELSE Post(h, id)
                      /\ toTrack' = [toTrack EXCEPT ![h] = id]
                      /\ At(h, IF Streaming /\ id # NoId THEN "card" ELSE "track")
                /\ UNCHANGED hasError
    BY <1>6 DEF Consume
  <2>2. /\ pc[h] = "consume" /\ UNCHANGED <<msg, run>> /\ events[h] < MaxEvents
    BY <1>6 DEF Consume
  <2>3. events' \in [Handlers -> 0..MaxEvents]
    <3>1. events[h] \in 0..MaxEvents /\ events[h] + 1 \in 0..MaxEvents
      BY <1>0, <2>2
    <3> QED BY <1>0, <2>1, <3>1
  <2>4. /\ anySent' \in [Handlers -> BOOLEAN] /\ anySent'[h] = (anySent[h] \/ Sent(k))
        /\ \A g \in Handlers : g # h => anySent'[g] = anySent[g]
    <3>1. (anySent[h] \/ Sent(k)) \in BOOLEAN
      OBVIOUS
    <3> HIDE DEF Sent
    <3> QED BY <1>0, <2>1, <3>1
  <2>5. hasError' \in [Handlers -> BOOLEAN]
    BY <1>0, <2>1
  <2>6. CASE Skips(k) /\ UNCHANGED <<cards, pc, hasError, toTrack, posts, silenced>>
    <3>1. anySent'[h] = anySent[h]
      BY <1>0, <2>4, <2>6 DEF Sent
    <3>0. At(h, "consume")
      BY <1>0, <2>2, <2>6 DEF At
    <3>2. Moves(h)
      BY <1>0, <2>2, <2>3, <2>4, <2>5, <2>6, <3>0 DEF Moves, Working
    <3>3. pc'[h] = "consume" /\ (anySent'[h] => Settled(posts', silenced', msg[h]))
      BY <1>0, <2>2, <2>6, <3>1
    <3> QED BY <3>2, <3>3, MovesOf
  <2>7. ASSUME NEW id \in Ids(h), Post(h, id) \/ PostFragment(h, id),
               NEW p \in {"consume", "card", "track"}, At(h, p), p = "card" => id # NoId
        PROVE  HandlerInv'
    <3>1. /\ Settled(posts', silenced', msg[h])
          /\ \A m \in Messages : /\ Settled(posts, silenced, m) => Settled(posts', silenced', m)
                                 /\ posts[m] # <<>> => posts'[m] # <<>>
          /\ id # NoId => posts'[msg[h]] # <<>>
      BY <2>2, <2>7, SpokenSettles DEF Working
    <3>2. Moves(h) /\ pc'[h] = p
      BY <1>0, <2>2, <2>3, <2>4, <2>5, <2>7, <3>1 DEF Moves, Working, At
    <3> QED BY <2>7, <3>1, <3>2, MovesOf
  <2>8. CASE UNCHANGED pc /\ \E id \in Ids(h) : Post(h, id)
    <3>1. At(h, "consume")
      BY <1>0, <2>2, <2>8 DEF At
    <3> QED BY <2>7, <2>8, <3>1
  <2>9. CASE \E id \in Ids(h) :
                /\ IF Streaming THEN PostFragment(h, id) ELSE Post(h, id)
                /\ At(h, IF Streaming /\ id # NoId THEN "card" ELSE "track")
    BY <2>7, <2>9
  <2> QED BY <2>1, <2>6, <2>8, <2>9
<1>7. ASSUME NEW h \in Handlers, Track(h) PROVE HandlerInv'
  <2>1. /\ pc[h] \in {"track", "last"} /\ At(h, IF pc[h] = "track" THEN "consume" ELSE "finalize")
        /\ UNCHANGED <<msg, run, events, anySent, hasError, posts, silenced>>
    BY <1>7 DEF Track, platform, past
  <2>2. Moves(h) /\ pc'[h] \in {"consume", "finalize"}
    BY <1>0, <2>1 DEF Moves, Working, At
  <2>3. anySent'[h] \/ pc'[h] = "finalize" => Settled(posts', silenced', msg[h])
    BY <1>0, <2>1 DEF At
  <2> QED BY <2>2, <2>3, MovesOf
<1>8. ASSUME NEW h \in Handlers, StreamEnds(h) PROVE HandlerInv'
  <2>1. /\ pc[h] = "consume" /\ At(h, IF anySent[h] THEN "finalize" ELSE "fallback")
        /\ UNCHANGED <<msg, run, events, anySent, hasError, posts, silenced>>
    BY <1>8 DEF StreamEnds, platform, past
  <2>2. Moves(h) /\ pc'[h] = (IF anySent[h] THEN "finalize" ELSE "fallback")
    BY <1>0, <2>1 DEF Moves, Working, At
  <2>3. anySent'[h] => Settled(posts', silenced', msg[h])
    BY <1>0, <2>1
  <2> QED BY <2>1, <2>2, <2>3, MovesOf
<1>9. ASSUME NEW h \in Handlers, SendFallback(h) PROVE HandlerInv'
  <2>1. /\ pc[h] = "fallback" /\ At(h, "last") /\ UNCHANGED <<msg, run, events, anySent, hasError>>
        /\ \E id \in Ids(h) : Post(h, id)
    BY <1>9 DEF SendFallback
  <2>2. /\ Settled(posts', silenced', msg[h])
        /\ \A m \in Messages : /\ Settled(posts, silenced, m) => Settled(posts', silenced', m)
                               /\ posts[m] # <<>> => posts'[m] # <<>>
    BY <2>1, SpokenSettles DEF Working
  <2>3. Moves(h) /\ pc'[h] = "last"
    BY <1>0, <2>1, <2>2 DEF Moves, Working, At
  <2> QED BY <2>2, <2>3, MovesOf
<1>10. ASSUME NEW h \in Handlers, Finalize(h) \/ RemoveProcessing(h) PROVE HandlerInv'
  <2>1. /\ pc[h] \in {"finalize", "unmark"} /\ (At(h, "unmark") \/ At(h, "mark"))
        /\ UNCHANGED <<msg, run, events, anySent, hasError, posts>> /\ silenced \subseteq silenced'
    BY <1>10 DEF Finalize, RemoveProcessing, platform, past, Fails
  <2>2. Moves(h) /\ pc'[h] \in {"unmark", "mark"}
    BY <1>0, <2>1 DEF Moves, Working, At, Settled
  <2>3. Settled(posts', silenced', msg[h])
    BY <1>0, <2>1 DEF Settled
  <2> QED BY <2>2, <2>3, MovesOf
<1>11. ASSUME NEW h \in Handlers, AddOutcome(h) PROVE HandlerInv'
  <2>1. /\ pc[h] = "mark" /\ At(h, "over") /\ UNCHANGED <<msg, posts>> /\ silenced \subseteq silenced'
        /\ run' = [run EXCEPT ![h] = "none"] /\ events' = [events EXCEPT ![h] = 0]
        /\ anySent' = [anySent EXCEPT ![h] = FALSE] /\ hasError' = [hasError EXCEPT ![h] = FALSE]
    BY <1>11 DEF AddOutcome, Mark, Fails
  <2>2. Moves(h) /\ pc'[h] = "over"
    <3>1. 0 \in 0..MaxEvents
      BY <1>0
    <3> QED BY <1>0, <2>1, <3>1 DEF Moves, Working, At, Settled
  <2>3. Settled(posts', silenced', msg[h])
    BY <1>0, <2>1 DEF Settled
  <2> QED BY <2>2, <2>3, MovesOf
<1>15. ASSUME NEW h \in Handlers, OpenCard(h) PROVE HandlerInv'
  <2>1. /\ pc[h] = "card" /\ At(h, "track")
        /\ UNCHANGED <<msg, run, events, anySent, hasError, posts, silenced>>
    BY <1>15 DEF OpenCard, platform, past
  <2>2. Moves(h) /\ pc'[h] = "track"
    BY <1>0, <2>1 DEF Moves, Working, At
  <2>3. anySent'[h] => Settled(posts', silenced', msg[h])
    BY <1>0, <2>1
  <2> QED BY <2>2, <2>3, MovesOf
<1>12. ASSUME UNCHANGED <<handler, posts, silenced>> PROVE HandlerInv'
  BY <1>12 DEF handler, HandlerInv
<1>13. ASSUME NEW r \in Reactors, NEW b, React(r, b) \/ StartFeedback(r)
       PROVE  UNCHANGED <<handler, posts, silenced>>
  BY <1>13 DEF React, StartFeedback, platform, past
<1>14. Quiet \/ UNCHANGED vars => UNCHANGED <<handler, posts, silenced>>
  BY DEF Quiet, vars, platform, past
<1> QED
  BY <1>1, <1>2, <1>3, <1>4, <1>5, <1>6, <1>7, <1>8, <1>9, <1>10, <1>11, <1>12, <1>13, <1>14,
     <1>15 DEF Next, Step

\* Which steps speak: all others leave the platform's messages alone.
LEMMA Speakers ==
    ASSUME HandlerInv, [Next]_vars
    PROVE  \/ UNCHANGED <<posts, cards>>
           \/ \E h \in Handlers : Finalize(h) \/ OpenCard(h)
           \/ \E h \in Handlers : \E id : pc[h] \in Working /\ (Post(h, id) \/ PostFragment(h, id))
<1>1. ASSUME NEW h \in Handlers, SendBusy(h) \/ Consume(h) \/ SendFallback(h)
      PROVE  \/ UNCHANGED <<posts, cards>>
             \/ \E id : pc[h] \in Working /\ (Post(h, id) \/ PostFragment(h, id))
  BY <1>1 DEF SendBusy, Consume, SendFallback, Working
<1>2. ASSUME NEW h \in Handlers, AddProcessing(h) \/ StartChat(h) \/ Track(h) \/ StreamEnds(h)
                                 \/ RemoveProcessing(h) \/ AddOutcome(h) \/ RunEnds(h)
      PROVE  UNCHANGED <<posts, cards>>
  BY <1>2 DEF AddProcessing, StartChat, Track, StreamEnds, RemoveProcessing, AddOutcome, RunEnds, platform
<1>3. ASSUME NEW h \in Handlers, NEW m \in Messages, Deliver(h, m) PROVE UNCHANGED <<posts, cards>>
  BY <1>3 DEF Deliver, platform
<1>4. ASSUME NEW r \in Reactors, NEW b, React(r, b) \/ StartFeedback(r) PROVE UNCHANGED <<posts, cards>>
  BY <1>4 DEF React, StartFeedback, platform
<1>5. Quiet \/ UNCHANGED vars => UNCHANGED <<posts, cards>>
  BY DEF Quiet, vars, platform
<1> QED BY <1>1, <1>2, <1>3, <1>4, <1>5 DEF Next, Step

\* The platform's messages stay.
LEMMA PostStep ==
    ASSUME PostInv, HandlerInv, toTrack \in [Handlers -> BotIds \cup {NoId}], [Next]_vars
    PROVE  PostInv'
<1>1. CASE UNCHANGED <<posts, cards>>
  BY <1>1 DEF PostInv
<1>2. ASSUME NEW h \in Handlers, NEW n \in Nat, posts' = posts,
             cards' = [cards EXCEPT ![msg[h]] = n],
             msg[h] \in Messages, n # 0 => posts[msg[h]] # <<>>
      PROVE  PostInv'
  BY <1>2 DEF PostInv
<1>3. ASSUME NEW h \in Handlers, Finalize(h) PROVE PostInv'
  <2>1. posts' = posts /\ cards' = [cards EXCEPT ![msg[h]] = 0] /\ msg[h] \in Messages
    BY <1>3 DEF Finalize, platform, HandlerInv, Working
  <2> QED BY <1>2, <2>1
<1>4. ASSUME NEW h \in Handlers, OpenCard(h) PROVE PostInv'
  <2>1. /\ posts' = posts /\ cards' \in {cards, [cards EXCEPT ![msg[h]] = toTrack[h][2]]}
        /\ msg[h] \in Messages /\ posts[msg[h]] # <<>>
    BY <1>4 DEF OpenCard, platform, HandlerInv, Working
  <2>2. toTrack[h][2] \in Nat
    BY DEF BotIds, NoId
  <2> QED BY <1>1, <1>2, <2>1, <2>2
<1>5. ASSUME NEW h \in Handlers, NEW id, pc[h] \in Working, Post(h, id) \/ PostFragment(h, id)
      PROVE  PostInv'
  BY <1>5, SpokenSettles DEF Spoken
<1> QED BY <1>1, <1>3, <1>4, <1>5, Speakers

LEMMA PostInit == Init => PostInv
BY DEF Init, PostInv

\* A mark on a message is about to be cleared, or was kept by a failed call.
MarkInv ==
    /\ marks \in [Messages -> SUBSET {"processing", "done", "error"}]
    /\ \A m \in Messages : "processing" \in marks[m] =>
           m \in silenced \/ \E h \in Handlers : pc[h] \in Working \ {"mark"} /\ msg[h] = m

\* Marks, step by step.
LEMMA MarkInit == Init => MarkInv
BY DEF Init, MarkInv

LEMMA MarkStep ==
    ASSUME MarkInv, HandlerInv, [Next]_vars
    PROVE  MarkInv'
<1>0. /\ marks \in [Messages -> SUBSET {"processing", "done", "error"}]
      /\ pc \in [Handlers -> Working \cup {"idle", "over", "raised"}]
      /\ msg \in [Handlers -> Messages \cup {Nobody}]
      /\ \A h \in Handlers : pc[h] \in Working => msg[h] \in Messages
  BY DEF MarkInv, HandlerInv
\* A handler that works on keeps its mark accounted for.
<1>a. ASSUME NEW h \in Handlers, marks' = marks, msg' = msg, silenced \subseteq silenced',
             \/ pc' = pc
             \/ \E p \in Working \ {"mark"} : At(h, p)
             \/ (pc[h] \notin Working \ {"mark"} \/ msg[h] \in silenced') /\ \E p : At(h, p)
      PROVE  MarkInv'
  <2> SUFFICES ASSUME NEW m \in Messages, "processing" \in marks[m], m \notin silenced'
               PROVE  \E g \in Handlers : pc'[g] \in Working \ {"mark"} /\ msg[g] = m
    BY <1>0, <1>a DEF MarkInv
  <2>1. PICK g \in Handlers : pc[g] \in Working \ {"mark"} /\ msg[g] = m
    BY <1>a DEF MarkInv
  <2>2. CASE g # h
    BY <1>0, <1>a, <2>1, <2>2 DEF At
  <2>3. CASE g = h
    BY <1>0, <1>a, <2>1, <2>3 DEF At
  <2> QED BY <2>2, <2>3
<1>1. ASSUME NEW h \in Handlers, NEW m \in Messages, Deliver(h, m) PROVE MarkInv'
  <2>1. marks' = marks /\ silenced' = silenced /\ pc[h] = "idle"
        /\ (UNCHANGED <<pc, msg>> \/ (At(h, "react") /\ msg' = [msg EXCEPT ![h] = m]))
    BY <1>1 DEF Deliver, platform
  <2>2. \A g \in Handlers : pc[g] \in Working => pc'[g] = pc[g] /\ msg'[g] = msg[g]
    BY <1>0, <2>1 DEF At, Working
  <2>3. ASSUME NEW x \in Messages, "processing" \in marks[x], x \notin silenced
        PROVE  \E g \in Handlers : pc'[g] \in Working \ {"mark"} /\ msg'[g] = x
    BY <2>2, <2>3 DEF MarkInv
  <2> QED BY <2>1, <2>3 DEF MarkInv
<1>2. ASSUME NEW h \in Handlers, AddProcessing(h) PROVE MarkInv'
  <2>1. /\ pc[h] = "react" /\ At(h, "start") /\ msg' = msg /\ silenced \subseteq silenced'
        /\ marks' = marks \/ marks' = [marks EXCEPT ![msg[h]] = @ \cup {"processing"}]
    BY <1>2 DEF AddProcessing, Mark, Fails
  <2>2. msg[h] \in Messages
    BY <1>0, <2>1 DEF Working
  <2>3. CASE marks' = marks
    BY <1>a, <2>1, <2>3 DEF Working
  <2>4. CASE marks' = [marks EXCEPT ![msg[h]] = @ \cup {"processing"}]
    <3>1. marks' \in [Messages -> SUBSET {"processing", "done", "error"}]
          /\ \A x \in Messages : x # msg[h] => marks'[x] = marks[x]
      BY <1>0, <2>2, <2>4
    <3>2. pc'[h] = "start" /\ \A g \in Handlers : g # h => pc'[g] = pc[g]
      BY <1>0, <2>1 DEF At
    <3>3. ASSUME NEW x \in Messages, "processing" \in marks'[x], x \notin silenced'
          PROVE  \E g \in Handlers : pc'[g] \in Working \ {"mark"} /\ msg'[g] = x
      <4>1. CASE x = msg[h]
        BY <2>1, <3>2, <4>1 DEF Working
      <4>2. CASE x # msg[h]
        <5>1. PICK g \in Handlers : pc[g] \in Working \ {"mark"} /\ msg[g] = x
          BY <2>1, <3>1, <3>3, <4>2 DEF MarkInv
        <5> QED BY <2>1, <3>2, <4>2, <5>1
      <4> QED BY <4>1, <4>2
    <3> QED BY <3>1, <3>3 DEF MarkInv
  <2> QED BY <2>1, <2>3, <2>4
<1>3. ASSUME NEW h \in Handlers, StartChat(h) PROVE MarkInv'
  <2>1. /\ marks' = marks /\ msg' = msg /\ silenced \subseteq silenced'
        /\ (At(h, "busy") \/ At(h, "consume") \/ (At(h, "raised") /\ msg[h] \in silenced'))
    BY <1>3 DEF StartChat, Fails, platform
  <2> QED BY <1>a, <2>1 DEF Working
<1>4. ASSUME NEW h \in Handlers,
             SendBusy(h) \/ Consume(h) \/ SendFallback(h) PROVE MarkInv'
  <2>1. /\ marks' = marks /\ msg' = msg
        /\ (pc' = pc \/ At(h, "finalize") \/ At(h, "card") \/ At(h, "track") \/ At(h, "last"))
    BY <1>4 DEF SendBusy, Consume, SendFallback
  <2>2. silenced \subseteq silenced'
    <3>1. ASSUME NEW id, Post(h, id) \/ PostFragment(h, id) PROVE silenced \subseteq silenced'
      BY <3>1, SpeechKinds DEF NewPost, MorePost, NoPost
    <3> QED BY <1>4, <3>1 DEF SendBusy, Consume, SendFallback
  <2> QED BY <1>a, <2>1, <2>2 DEF Working
<1>5. ASSUME NEW h \in Handlers, OpenCard(h) \/ Track(h) \/ StreamEnds(h) \/ Finalize(h)
      PROVE  MarkInv'
  <2>1. /\ marks' = marks /\ msg' = msg /\ silenced' = silenced
        /\ \E p \in {"track", "consume", "finalize", "fallback", "unmark"} : At(h, p)
    BY <1>5 DEF OpenCard, Track, StreamEnds, Finalize, platform, past
  <2> QED BY <1>a, <2>1 DEF Working
<1>6. ASSUME NEW h \in Handlers, RemoveProcessing(h) PROVE MarkInv'
  <2>1. /\ pc[h] = "unmark" /\ At(h, "mark") /\ msg' = msg
        /\ \/ marks' = [marks EXCEPT ![msg[h]] = @ \ {"processing"}] /\ silenced' = silenced
           \/ silenced' = silenced \cup {msg[h]} /\ marks' = marks
    BY <1>6 DEF RemoveProcessing, Fails
  <2>2. CASE silenced' = silenced \cup {msg[h]} /\ marks' = marks
    BY <1>a, <2>1, <2>2
  <2>3. CASE marks' = [marks EXCEPT ![msg[h]] = @ \ {"processing"}] /\ silenced' = silenced
    <3>1. msg[h] \in Messages
      BY <1>0, <2>1 DEF Working
    <3>2. marks' \in [Messages -> SUBSET {"processing", "done", "error"}]
          /\ (\A x \in Messages : x # msg[h] => marks'[x] = marks[x])
          /\ "processing" \notin marks'[msg[h]]
      BY <1>0, <2>3, <3>1
    <3>3. \A g \in Handlers : g # h => pc'[g] = pc[g]
      BY <1>0, <2>1 DEF At
    <3>4. ASSUME NEW x \in Messages, "processing" \in marks'[x], x \notin silenced'
          PROVE  \E g \in Handlers : pc'[g] \in Working \ {"mark"} /\ msg'[g] = x
      <4>1. x # msg[h] /\ "processing" \in marks[x] /\ x \notin silenced
        BY <2>3, <3>2, <3>4
      <4>2. PICK g \in Handlers : pc[g] \in Working \ {"mark"} /\ msg[g] = x
        BY <4>1 DEF MarkInv
      <4>3. g # h
        BY <4>1, <4>2
      <4> QED BY <2>1, <3>3, <4>2, <4>3
    <3> QED BY <3>2, <3>4 DEF MarkInv
  <2> QED BY <2>1, <2>2, <2>3
<1>7. ASSUME NEW h \in Handlers, AddOutcome(h) PROVE MarkInv'
  <2>1. /\ pc[h] = "mark" /\ At(h, "over") /\ msg' = msg /\ silenced \subseteq silenced'
        /\ \/ marks' = marks
           \/ \E e \in {"error", "done"} : marks' = [marks EXCEPT ![msg[h]] = @ \cup {e}]
    BY <1>7 DEF AddOutcome, Mark, Fails
  <2>2. /\ marks' \in [Messages -> SUBSET {"processing", "done", "error"}]
        /\ \A x \in Messages : "processing" \in marks'[x] => "processing" \in marks[x]
    BY <1>0, <2>1
  <2>3. \A g \in Handlers : pc[g] \in Working \ {"mark"} => pc'[g] = pc[g]
    BY <1>0, <2>1 DEF At
  <2>4. ASSUME NEW x \in Messages, "processing" \in marks'[x], x \notin silenced'
        PROVE  \E g \in Handlers : pc'[g] \in Working \ {"mark"} /\ msg'[g] = x
    <3>1. "processing" \in marks[x] /\ x \notin silenced
      BY <2>1, <2>2, <2>4
    <3>2. PICK g \in Handlers : pc[g] \in Working \ {"mark"} /\ msg[g] = x
      BY <3>1 DEF MarkInv
    <3> QED BY <2>1, <2>3, <3>2
  <2> QED BY <2>2, <2>4 DEF MarkInv
<1>8. ASSUME UNCHANGED <<marks, silenced, pc, msg>> PROVE MarkInv'
  BY <1>8 DEF MarkInv
<1>9. ASSUME NEW h \in Handlers, RunEnds(h) PROVE UNCHANGED <<marks, silenced, pc, msg>>
  BY <1>9 DEF RunEnds, platform, past
<1>10. ASSUME NEW r \in Reactors, NEW b, React(r, b) \/ StartFeedback(r)
       PROVE  UNCHANGED <<marks, silenced, pc, msg>>
  BY <1>10 DEF React, StartFeedback, platform, past, handler
<1>11. Quiet \/ UNCHANGED vars => UNCHANGED <<marks, silenced, pc, msg>>
  BY DEF Quiet, vars, platform, past, handler
<1> QED BY <1>1, <1>2, <1>3, <1>4, <1>5, <1>6, <1>7, <1>8, <1>9, <1>10, <1>11 DEF Next, Step

-----------------------------------------------------------------------------
(* What is remembered of the bot's messages.                               *)

\* Each of the ids remembered has its text, and a handler has an id to record or none.
TrackInv ==
    /\ botMsgs \in Seq(BotIds) /\ Len(botMsgs) <= BotCap
    /\ DOMAIN botText = In(botMsgs)
    /\ toTrack \in [Handlers -> BotIds \cup {NoId}]

\* What is recorded of the bot's messages, step by step.
LEMMA TrackInit == Init => TrackInv
<1> SUFFICES ASSUME Init PROVE TrackInv
  OBVIOUS
<1>1. /\ botMsgs = <<>> /\ DOMAIN botText = {} /\ BotCap \in Nat
      /\ toTrack = [h \in Handlers |-> NoId]
  BY BridgeAssumption DEF Init
<1>2. In(botMsgs) = {} /\ Len(botMsgs) <= BotCap /\ botMsgs \in Seq(BotIds)
  BY <1>1 DEF In
<1> QED BY <1>1, <1>2 DEF TrackInv

LEMMA TrackStep ==
    ASSUME TrackInv, PostInv, HandlerInv, [Next]_vars
    PROVE  TrackInv'
<1>0. /\ botMsgs \in Seq(BotIds) /\ Len(botMsgs) <= BotCap /\ BotCap \in Nat \ {0}
      /\ DOMAIN botText = In(botMsgs)
      /\ toTrack \in [Handlers -> BotIds \cup {NoId}]
  BY BridgeAssumption DEF TrackInv
<1>1. ASSUME NEW h \in Handlers, SendBusy(h) \/ Consume(h) \/ SendFallback(h) PROVE TrackInv'
  <2>1. /\ pc[h] \in Working /\ UNCHANGED <<botMsgs, botText>>
        /\ \/ UNCHANGED toTrack
           \/ \E id : /\ (Post(h, id) \/ PostFragment(h, id))
                       /\ toTrack' = [toTrack EXCEPT ![h] = id]
    BY <1>1 DEF SendBusy, Consume, SendFallback, Working, bridge
  <2>2. ASSUME NEW id, Post(h, id) \/ PostFragment(h, id) PROVE id \in BotIds \cup {NoId}
    BY <2>1, <2>2, SpokenSettles DEF Spoken
  <2>3. toTrack' \in [Handlers -> BotIds \cup {NoId}]
    BY <1>0, <2>1, <2>2
  <2> QED BY <1>0, <2>1, <2>3 DEF TrackInv
<1>2. ASSUME NEW h \in Handlers, Track(h) PROVE TrackInv'
  <2> DEFINE b == toTrack[h]
  <2>1. /\ TrackId(b) /\ toTrack' = [toTrack EXCEPT ![h] = NoId]
    BY <1>2 DEF Track
  <2>2. toTrack' \in [Handlers -> BotIds \cup {NoId}]
    BY <1>0, <2>1
  <2>3. CASE b = NoId
    BY <1>0, <2>1, <2>2, <2>3 DEF TrackInv, TrackId
  <2>4. CASE b # NoId
    <3>1. b \in BotIds
      BY <1>0, <2>4
    <3>2. Puts(botMsgs, b, BotCap, botMsgs') /\ DOMAIN botText' = In(botMsgs')
      BY <2>1, <2>4 DEF TrackId, Puts, In
    <3> HIDE DEF b
    <3>3. botMsgs' \in Seq(BotIds) /\ Len(botMsgs') <= BotCap
      BY <1>0, <3>1, <3>2, PutOf
    <3> QED BY <2>2, <3>2, <3>3 DEF TrackInv
  <2> QED BY <2>3, <2>4
<1>3. ASSUME UNCHANGED <<botMsgs, botText, toTrack>> PROVE TrackInv'
  BY <1>3 DEF TrackInv
<1>4. ASSUME NEW h \in Handlers, AddProcessing(h) \/ StartChat(h) \/ OpenCard(h) \/ StreamEnds(h)
                                 \/ Finalize(h) \/ RemoveProcessing(h) \/ AddOutcome(h) \/ RunEnds(h)
      PROVE  UNCHANGED <<botMsgs, botText, toTrack>>
  BY <1>4 DEF AddProcessing, StartChat, OpenCard, StreamEnds, Finalize, RemoveProcessing, AddOutcome,
              RunEnds, bridge
<1>5. ASSUME NEW h \in Handlers, NEW m \in Messages, Deliver(h, m)
      PROVE  UNCHANGED <<botMsgs, botText, toTrack>>
  BY <1>5 DEF Deliver
<1>6. ASSUME NEW r \in Reactors, NEW b, React(r, b) \/ StartFeedback(r)
      PROVE  UNCHANGED <<botMsgs, botText, toTrack>>
  BY <1>6 DEF React, StartFeedback, handler
<1>7. Quiet \/ UNCHANGED vars => UNCHANGED <<botMsgs, botText, toTrack>>
  BY DEF Quiet, vars, bridge, handler
<1> QED BY <1>1, <1>2, <1>3, <1>4, <1>5, <1>6, <1>7 DEF Next, Step

-----------------------------------------------------------------------------
(* The invariant as a whole, and what it says.                             *)

BridgeInv ==
    /\ adapter \in Adapters
    /\ SeenInv /\ ReactInv /\ PostInv /\ HandlerInv /\ MarkInv /\ TrackInv

\* What the invariant says of messages and of reactions.
LEMMA BridgeSettled == BridgeInv => MessagesSettled
<1> SUFFICES ASSUME BridgeInv PROVE MessagesSettled
  OBVIOUS
<1>1. TypeOK
  <2>1. \A h \in Handlers : Live(h) \/ pc[h] \in {"idle", "over", "raised"}
    BY DEF BridgeInv, HandlerInv, Working, Live
  <2> QED BY <2>1 DEF TypeOK, BridgeInv, SeenInv, ReactInv, PostInv, HandlerInv, MarkInv, TrackInv, In
<1>2. NeverSilent
  BY DEF BridgeInv, HandlerInv, NeverSilent, Settled
<1>3. ProcessingCleared
  BY DEF BridgeInv, MarkInv, ProcessingCleared, Live, Working
<1> QED BY <1>1, <1>2, <1>3 DEF MessagesSettled, BridgeInv, SeenInv

LEMMA BridgeFeedback == BridgeInv => FeedbackSound
BY DEF BridgeInv, ReactInv, FeedbackSound, FeedbackOnce, Targets, Remembered, Unique

\* The invariant holds in every run.
LEMMA BridgeCorrect == Spec => []BridgeInv
<1>1. Init => BridgeInv
  BY SeenInit, ReactInit, PostInit, HandlerInit, MarkInit, TrackInit DEF BridgeInv, Init
<1>2. BridgeInv /\ [Next]_vars => BridgeInv'
  <2> SUFFICES ASSUME BridgeInv, [Next]_vars PROVE BridgeInv'
    OBVIOUS
  <2>1. SeenInv /\ ReactInv /\ PostInv /\ HandlerInv /\ MarkInv /\ TrackInv
    BY DEF BridgeInv
  <2>2. posts \in [Messages -> Seq(Nat)]
    BY <2>1 DEF PostInv
  <2>3. SeenInv'
    BY <2>1, SeenStep
  <2>4. ReactInv'
    BY <2>1, <2>2, ReactStep
  <2>5. PostInv'
    BY <2>1, PostStep DEF TrackInv
  <2>6. HandlerInv'
    BY <2>1, HandlerStep
  <2>7. MarkInv'
    BY <2>1, MarkStep
  <2>8. TrackInv'
    BY <2>1, TrackStep
  <2>9. adapter' \in Adapters
    BY DEF BridgeInv, Next, vars
  <2> QED BY <2>3, <2>4, <2>5, <2>6, <2>7, <2>8, <2>9 DEF BridgeInv
<1> QED BY <1>1, <1>2, PTL DEF Spec

\* For any messages, handlers and caps: a message is taken once per window of _max_seen_ids,
\* a handler that ends has told its user something unless the platform refused a message,
\* and no message is left marked as being processed (handle_message, its finally block).
THEOREM BridgeMessagesCorrect == Spec => []MessagesSettled
BY BridgeCorrect, BridgeSettled, PTL

\* However many reactions come at once: while the memory of reactions does not overflow, one
\* feedback run per message of the bot, and none forgotten for a start that failed
\* (handle_reaction, _reacted_bot_messages).
THEOREM BridgeFeedbackCorrect == Spec => []FeedbackSound
BY BridgeCorrect, BridgeFeedback, PTL
=============================================================================
