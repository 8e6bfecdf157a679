----------------------- MODULE InteractionBrokerProofs -----------------------
(***************************************************************************)
(* Type correctness of InteractionBroker, that answers go to the questions *)
(* they were accepted for, and that the dialogue is shown in its order and *)
(* whole, for any number of questions, passes and other actions.           *)
(***************************************************************************)
EXTENDS InteractionBroker, ProxiedTools, TLAPS, FiniteSetTheorems, FunctionTheorems, SequenceTheorems

-----------------------------------------------------------------------------
(* Types.                                                                  *)

\* Everything that travels is a member of Queued.
LEMMA Items ==
    /\ \A q \in Questions : Ask(q) \in Shown /\ Echo(q) \in Shown
    /\ Other \in Shown /\ Action \in Shown
    /\ Shown \subseteq Queued
    /\ Stop \in Queued /\ Done \in Queued
    /\ \A x \in Queued : x \notin {Stop, Done} => x \in Shown
BY DEF Shown, Queued

\* An item put into a queue, and one taken from it.
LEMMA QueueTypes ==
    ASSUME NEW S, NEW s \in Seq(S)
    PROVE  /\ \A x \in S : Append(s, x) \in Seq(S)
           /\ s # <<>> => Head(s) \in S /\ Tail(s) \in Seq(S)
OBVIOUS

LEMMA TwoMore ==
    ASSUME NEW S, NEW s \in Seq(S), NEW x \in S, NEW y \in S
    PROVE  s \o <<x, y>> \in Seq(S)
<1>1. <<x, y>> \in Seq(S)
  OBVIOUS
<1> QED
  BY <1>1

\* Emitting keeps the types of the broker's queue and of its history.
LEMMA EmitTypes ==
    ASSUME TypeOK, NEW x \in Shown, Emit(x)
    PROVE  output' \in Seq(Queued) /\ emitted' \in Seq(Shown)
<1>1. x \in Queued
  BY Items
<1>2. output \in Seq(Queued) /\ emitted \in Seq(Shown)
  BY DEF TypeOK
<1>3. output' = Append(output, x) /\ emitted' = Append(emitted, x)
  BY DEF Emit
<1> HIDE DEF Queued, Shown
<1> QED
  BY <1>1, <1>2, <1>3, QueueTypes

\* Every action keeps every variable in its type.
LEMMA TypeStep == TypeOK /\ [Next]_vars => TypeOK'
<1> SUFFICES ASSUME TypeOK, [Next]_vars PROVE TypeOK'
  OBVIOUS
<1> USE BrokerAssumption
<1> HIDE DEF Queued, Shown, Ask, Echo, Other, Action, Stop, Done
<1>1. CASE StartPass
  <2>1. <<>> \in Seq(Queued) /\ <<>> \in Seq(Shown)
    OBVIOUS
  <2>2. passes' \in 0..MaxPasses /\ seen' \in 0..Expected
    BY <1>1 DEF StartPass, TypeOK, Expected
  <2> QED
    BY <1>1, <2>1, <2>2 DEF StartPass, TypeOK, asking
<1>2. CASE Send
  <2>1. output' \in Seq(Queued) /\ emitted' \in Seq(Shown)
    BY <1>2, Items, EmitTypes DEF Send
  <2> QED
    BY <1>2, <2>1 DEF Send, TypeOK, stream, asking
<1>3. CASE Stream
  <2>1. bus' \in Seq(Queued)
    BY <1>3, Items, QueueTypes DEF Stream, TypeOK
  <2> QED
    BY <1>3, <2>1 DEF Stream, TypeOK, broker, asking
<1>4. CASE Fetch
  <2>1. Head(output) \in Queued /\ Tail(output) \in Seq(Queued)
    BY <1>4, QueueTypes DEF Fetch, TypeOK
  <2>2. bus' \in Seq(Queued)
    BY <1>4, <2>1, Items, QueueTypes DEF Fetch, TypeOK
  <2>3. fetching' \in BOOLEAN
    BY <1>4 DEF Fetch, TypeOK
  <2> QED
    BY <1>4, <2>1, <2>2, <2>3 DEF Fetch, TypeOK, asking, past
<1>5. CASE Count
  <2>1. Tail(bus) \in Seq(Queued)
    BY <1>5, QueueTypes DEF Count, TypeOK
  <2>2. seen' \in 0..Expected
    BY <1>5 DEF Count, TypeOK, Expected
  <2>3. pass' \in {"merging", "raised", "over"}
    BY <1>5 DEF Count
  <2> QED
    BY <1>5, <2>1, <2>2, <2>3 DEF Count, TypeOK, broker, asking, past
<1>6. CASE Yield
  <2>1. Head(bus) \in Queued /\ Tail(bus) \in Seq(Queued)
    BY <1>6, QueueTypes DEF Yield, TypeOK
  <2>2. Head(bus) \in Shown
    BY <1>6, <2>1, Items DEF Yield
  <2>3. Append(shown, Head(bus)) \in Seq(Shown)
    BY <2>2, QueueTypes DEF TypeOK
  <2>4. shown' \in Seq(Shown)
    BY <1>6, <2>3 DEF Yield, TypeOK
  <2> QED
    BY <1>6, <2>1, <2>4 DEF Yield, TypeOK, broker, asking
<1>7. CASE Interrupt \/ Cancel \/ CleanUp
  BY <1>7 DEF Interrupt, Cancel, CleanUp, TypeOK, broker, asking, past
<1>8. ASSUME NEW how \in {"finished", "failed"}, PrimaryEnds(how)
      PROVE  TypeOK'
  <2>1. output' \in Seq(Queued)
    BY <1>8, Items, QueueTypes DEF PrimaryEnds, TypeOK
  <2>2. bus' \in Seq(Queued)
    BY <1>8, Items, TwoMore DEF PrimaryEnds, TypeOK
  <2>3. soon' \in [Questions -> {"none", "result", "error"}]
    BY <1>8 DEF PrimaryEnds, Released, TypeOK
  <2> QED
    BY <1>8, <2>1, <2>2, <2>3 DEF PrimaryEnds, TypeOK, past
<1>9. ASSUME NEW q \in Questions, Request(q)
      PROVE  TypeOK'
  <2>1. output' \in Seq(Queued) /\ emitted' \in Seq(Shown)
    BY <1>9, Items, EmitTypes DEF Request, TypeOK
  <2>2. /\ request' \in [Questions -> {"idle", "waiting", "answered", "refused"}]
        /\ future' \in [Questions -> {"none", "open", "result", "error", "cancelled"}]
        /\ pending' \in SUBSET Questions
    BY <1>9 DEF Request, TypeOK
  <2> QED
    BY <1>9, <2>1, <2>2 DEF Request, TypeOK, stream
<1>10. ASSUME NEW q \in Questions, Submit(q)
       PROVE  TypeOK'
  <2>1. output' \in Seq(Queued) /\ emitted' \in Seq(Shown)
    BY <1>10, Items, EmitTypes DEF Submit, TypeOK
  <2>2. /\ soon' \in [Questions -> {"none", "result", "error"}]
        /\ pending' \in SUBSET Questions /\ accepted' \in SUBSET Questions
    BY <1>10 DEF Submit, TypeOK
  <2> QED
    BY <1>10, <2>1, <2>2 DEF Submit, TypeOK, stream
<1>11. ASSUME NEW q \in Questions, Settle(q)
       PROVE  TypeOK'
  BY <1>11 DEF Settle, TypeOK, stream, broker, past
<1>12. ASSUME NEW q \in Questions, Resume(q)
       PROVE  TypeOK'
  BY <1>12 DEF Resume, TypeOK, stream, past
<1>13. CASE Rest \/ UNCHANGED vars
  BY <1>13 DEF Rest, vars, stream, broker, asking, past, TypeOK
<1> QED
  BY <1>1, <1>2, <1>3, <1>4, <1>5, <1>6, <1>7, <1>8, <1>9, <1>10, <1>11, <1>12, <1>13 DEF Next

\* Every variable keeps its type.
LEMMA TypeCorrect == Spec => []TypeOK
<1>1. Init => TypeOK
  <2>1. <<>> \in Seq(Queued) /\ <<>> \in Seq(Shown)
    OBVIOUS
  <2>2. 0 \in 0..MaxPasses /\ 0 \in 0..MaxActions /\ 0 \in 0..Expected
    BY BrokerAssumption DEF Expected
  <2>3. {} \in SUBSET Questions
    OBVIOUS
  <2> QED
    BY <2>1, <2>2, <2>3 DEF Init, TypeOK
<1> QED
  BY <1>1, TypeStep, PTL DEF Spec

-----------------------------------------------------------------------------
(* Answers.                                                                *)

\* The life of question q: not used before it is asked; while its request waits
\* there is a future; a result is due or there only for an accepted answer, and
\* an error only for a question nobody can answer any more.
LifeOf(q) ==
    /\ request[q] = "idle" =>
           future[q] = "none" /\ soon[q] = "none" /\ q \notin pending \cup accepted
    /\ request[q] = "waiting" => future[q] # "none"
    /\ soon[q] = "result" \/ future[q] = "result" => q \in accepted
    /\ soon[q] = "error" \/ future[q] = "error" => q \notin pending \cup accepted

\* AnswersAreAccepted and PendingWaits, for one question.
AnswerOf(q) ==
    /\ request[q] = "answered" => q \in accepted
    /\ q \in accepted /\ request[q] = "waiting" =>
           soon[q] = "result" \/ future[q] \in {"result", "cancelled"}
    /\ q \in pending => request[q] = "waiting" /\ q \notin accepted

AnswerInv == \A q \in Questions : LifeOf(q) /\ AnswerOf(q)

LEMMA AnswerStep == TypeOK /\ AnswerInv /\ [Next]_vars => AnswerInv'
<1> SUFFICES ASSUME TypeOK, AnswerInv, [Next]_vars, NEW q \in Questions
             PROVE  LifeOf(q)' /\ AnswerOf(q)'
  BY DEF AnswerInv
<1> DEFINE same == UNCHANGED <<pending, request, future, soon, accepted>>
<1>0. LifeOf(q) /\ AnswerOf(q)
  BY DEF AnswerInv
<1>1. CASE same
  BY <1>0, <1>1 DEF LifeOf, AnswerOf
<1>2. CASE CleanUp
  BY <1>0, <1>2 DEF CleanUp, TypeOK, LifeOf, AnswerOf, broker, past
<1>3. ASSUME NEW how \in {"finished", "failed"}, PrimaryEnds(how)
      PROVE  LifeOf(q)' /\ AnswerOf(q)'
  BY <1>0, <1>3 DEF PrimaryEnds, Released, TypeOK, LifeOf, AnswerOf, past
<1>4. ASSUME NEW r \in Questions, Request(r)
      PROVE  LifeOf(q)' /\ AnswerOf(q)'
  <2>1. CASE closed
    BY <1>0, <1>4, <2>1 DEF Request, TypeOK, LifeOf, AnswerOf
  <2>2. CASE ~closed
    BY <1>0, <1>4, <2>2 DEF Request, TypeOK, LifeOf, AnswerOf
  <2> QED
    BY <2>1, <2>2
<1>5. ASSUME NEW r \in Questions, Submit(r)
      PROVE  LifeOf(q)' /\ AnswerOf(q)'
  <2>1. UNCHANGED <<request, future>>
    BY <1>5 DEF Submit
  <2>2. CASE q = r
    BY <1>0, <1>5, <2>1, <2>2 DEF Submit, TypeOK, LifeOf, AnswerOf
  <2>3. CASE q # r
    BY <1>0, <1>5, <2>1, <2>3 DEF Submit, TypeOK, LifeOf, AnswerOf
  <2> QED
    BY <2>2, <2>3
<1>6. ASSUME NEW r \in Questions, Settle(r)
      PROVE  LifeOf(q)' /\ AnswerOf(q)'
  BY <1>0, <1>6 DEF Settle, TypeOK, LifeOf, AnswerOf, broker, past
<1>7. ASSUME NEW r \in Questions, Resume(r)
      PROVE  LifeOf(q)' /\ AnswerOf(q)'
  BY <1>0, <1>7 DEF Resume, TypeOK, LifeOf, AnswerOf, past
<1>8. StartPass \/ Send \/ Stream \/ Fetch \/ Count \/ Yield \/ Interrupt \/ Cancel
          \/ Rest \/ UNCHANGED vars => same
  BY DEF StartPass, Send, Stream, Fetch, Count, Yield, Interrupt, Cancel, Rest,
         vars, stream, broker, asking, past
<1> QED
  BY <1>1, <1>2, <1>3, <1>4, <1>5, <1>6, <1>7, <1>8 DEF Next

\* A request returns an answer only if one was accepted for it, an accepted one
\* is on its way until the request ends, and only a waiting question that has no
\* answer yet can be answered: submit() after close, cancel or another submit()
\* finds nothing.
THEOREM AnswersCorrect == Spec => []AnswersSound
<1>1. Init => AnswerInv
  BY DEF Init, AnswerInv, LifeOf, AnswerOf
<1>2. TypeOK /\ AnswerInv => AnswersSound
  BY DEF TypeOK, AnswerInv, AnswerOf, AnswersSound, AnswersAreAccepted, PendingWaits
<1> QED
  BY <1>1, <1>2, AnswerStep, TypeCorrect, PTL DEF Spec
-----------------------------------------------------------------------------
(* Items of a kind in a queue.                                             *)

\* The positions of s that hold an item of T, how many there are, and how many
\* up to position i.
Of(T, s) == {i \in DOMAIN s : s[i] \in T}
Number(T, s) == Cardinality(Of(T, s))
Rank(T, s, i) == Cardinality({j \in Of(T, s) : j <= i})

\* The items of T in s are, in their order, those of e after the first k.
Follows(T, s, e, k) ==
    /\ k + Number(T, s) <= Len(e)
    /\ \A i \in Of(T, s) : s[i] = e[k + Rank(T, s, i)]

\* a is s with x put at its end; t is s without its first item.
Adds(s, x, a) == a = Append(s, x)
Takes(s, t)   == s # <<>> /\ t = Tail(s)

\* The positions counted are finitely many, and ranks number them.
LEMMA Counted ==
    ASSUME NEW S, NEW T, NEW s \in Seq(S)
    PROVE  /\ Of(T, s) \subseteq 1..Len(s)
           /\ IsFiniteSet(Of(T, s))
           /\ Number(T, s) \in Nat
           /\ Number(T, s) = 0 => Of(T, s) = {}
           /\ \A i \in Int : Rank(T, s, i) \in Nat /\ Rank(T, s, i) <= Number(T, s)
           /\ \A i \in Of(T, s) : i \in Int /\ Rank(T, s, i) \in 1..Number(T, s)
<1>1. Of(T, s) \subseteq 1..Len(s)
  BY DEF Of
<1>2. IsFiniteSet(Of(T, s))
  <2>1. IsFiniteSet(1..Len(s))
    BY FS_Interval
  <2> QED
    BY <1>1, <2>1, FS_Subset
<1>3. Number(T, s) \in Nat /\ (Number(T, s) = 0 => Of(T, s) = {})
  BY <1>2, FS_CardinalityType, FS_EmptySet DEF Number
<1>4. ASSUME NEW i \in Int
      PROVE  Rank(T, s, i) \in Nat /\ Rank(T, s, i) <= Number(T, s)
  <2> DEFINE low == {j \in Of(T, s) : j <= i}
  <2>1. IsFiniteSet(low) /\ Cardinality(low) <= Cardinality(Of(T, s))
    BY <1>2, FS_Subset
  <2> QED
    BY <2>1, FS_CardinalityType DEF Rank, Number
<1>5. ASSUME NEW i \in Of(T, s)
      PROVE  Rank(T, s, i) >= 1
  <2> DEFINE low == {j \in Of(T, s) : j <= i}
  <2>1. i \in low
    BY <1>1
  <2>2. IsFiniteSet(low)
    BY <1>2, FS_Subset
  <2>3. Cardinality(low) \in Nat /\ Cardinality(low) # 0
    BY <2>1, <2>2, FS_CardinalityType, FS_EmptySet
  <2> QED
    BY <2>3 DEF Rank
<1>6. \A i \in Of(T, s) : i \in Int /\ Rank(T, s, i) \in 1..Number(T, s)
  BY <1>1, <1>3, <1>4, <1>5
<1> QED
  BY <1>1, <1>2, <1>3, <1>4, <1>6

\* An empty sequence has none.
LEMMA NoneIn ==
    ASSUME NEW T, NEW s, s = <<>>
    PROVE  Number(T, s) = 0 /\ Follows(T, s, s, 0)
<1>1. Of(T, s) = {} /\ Len(s) = 0
  BY DEF Of
<1>2. Number(T, s) = 0
  BY <1>1, FS_EmptySet DEF Number
<1> QED
  BY <1>1, <1>2 DEF Follows

\* What an item at the end adds.
LEMMA OfAppend ==
    ASSUME NEW S, NEW T, NEW s \in Seq(S), NEW x \in S, NEW a, Adds(s, x, a)
    PROVE  Of(T, a) = IF x \in T THEN Of(T, s) \cup {Len(s) + 1} ELSE Of(T, s)
BY DEF Of, Adds

\* How many there are then.
LEMMA NumberAppend ==
    ASSUME NEW S, NEW T, NEW s \in Seq(S), NEW x \in S, NEW a, Adds(s, x, a)
    PROVE  /\ a \in Seq(S) /\ Len(a) = Len(s) + 1 /\ a[Len(a)] = x
           /\ x \in T => Number(T, a) = Number(T, s) + 1
           /\ x \notin T => Number(T, a) = Number(T, s)
<1>0. Of(T, s) \subseteq 1..Len(s) /\ IsFiniteSet(Of(T, s))
  BY Counted
<1>1. a \in Seq(S) /\ Len(a) = Len(s) + 1 /\ a[Len(a)] = x /\ Len(s) \in Nat
  BY DEF Adds
<1>2. Of(T, a) = IF x \in T THEN Of(T, s) \cup {Len(s) + 1} ELSE Of(T, s)
  BY OfAppend
<1>3. Len(s) + 1 \notin Of(T, s)
  BY <1>0, <1>1
<1>4. Cardinality(Of(T, s) \cup {Len(s) + 1}) = Cardinality(Of(T, s)) + 1
  BY <1>0, <1>3, FS_AddElement
<1>5. x \in T => Number(T, a) = Number(T, s) + 1
  BY <1>2, <1>4 DEF Number
<1>6. x \notin T => Number(T, a) = Number(T, s)
  BY <1>2 DEF Number
<1> QED
  BY <1>1, <1>5, <1>6

\* The ranks of those before it stay.
LEMMA CountedAppend ==
    ASSUME NEW S, NEW T, NEW s \in Seq(S), NEW x \in S, NEW a, Adds(s, x, a)
    PROVE  /\ x \notin T => /\ Of(T, a) = Of(T, s)
                            /\ Number(T, a) = Number(T, s)
           /\ x \in T => /\ Of(T, a) = Of(T, s) \cup {Len(s) + 1}
                         /\ Number(T, a) = Number(T, s) + 1
                         /\ Rank(T, a, Len(s) + 1) = Number(T, s) + 1
           /\ \A i \in Of(T, s) : Rank(T, a, i) = Rank(T, s, i)
<1>0. Of(T, s) \subseteq 1..Len(s) /\ Len(s) \in Nat
  BY Counted
<1>1. Of(T, a) = IF x \in T THEN Of(T, s) \cup {Len(s) + 1} ELSE Of(T, s)
  BY OfAppend
<1>2. /\ x \in T => Number(T, a) = Number(T, s) + 1
      /\ x \notin T => Number(T, a) = Number(T, s)
  BY NumberAppend
<1>3. ASSUME x \in T
      PROVE  Rank(T, a, Len(s) + 1) = Number(T, a)
  <2>1. {j \in Of(T, a) : j <= Len(s) + 1} = Of(T, a)
    BY <1>0, <1>1
  <2> QED
    BY <2>1 DEF Rank, Number
<1>4. ASSUME NEW i \in Of(T, s)
      PROVE  Rank(T, a, i) = Rank(T, s, i)
  <2>1. {j \in Of(T, a) : j <= i} = {j \in Of(T, s) : j <= i}
    BY <1>0, <1>1
  <2> QED
    BY <2>1 DEF Rank
<1> QED
  BY <1>1, <1>2, <1>3, <1>4

\* A set of numbers moved down by one keeps its size.
LEMMA Shifted ==
    ASSUME NEW P, P \subseteq Int, IsFiniteSet(P)
    PROVE  Cardinality({i - 1 : i \in P}) = Cardinality(P)
<1> DEFINE Q == {i - 1 : i \in P}
           f == [i \in P |-> i - 1]
<1>1. f \in Bijection(P, Q)
  <2>1. f \in [P -> Q]
    OBVIOUS
  <2>2. \A i, j \in P : f[i] = f[j] => i = j
    OBVIOUS
  <2>3. \A n \in Q : \E i \in P : f[i] = n
    OBVIOUS
  <2> QED
    BY <2>1, <2>2, <2>3, Fun_IsBij
<1>2. ExistsBijection(P, Q)
  BY <1>1 DEF ExistsBijection
<1> QED
  BY <1>2, FS_Bijection

\* What the first item takes with it.
LEMMA CountedTail ==
    ASSUME NEW S, NEW T, NEW s \in Seq(S), NEW t, Takes(s, t)
    PROVE  /\ \A i \in Of(T, t) : i \in Int /\ i + 1 \in Of(T, s)
           /\ s[1] \in T <=> 1 \in Of(T, s)
           /\ 1 \in Of(T, s) =>
                  /\ Rank(T, s, 1) = 1
                  /\ Number(T, t) = Number(T, s) - 1
                  /\ \A i \in Of(T, t) : Rank(T, t, i) = Rank(T, s, i + 1) - 1
           /\ 1 \notin Of(T, s) =>
                  /\ Number(T, t) = Number(T, s)
                  /\ \A i \in Of(T, t) : Rank(T, t, i) = Rank(T, s, i + 1)
<1> DEFINE O == Of(T, s)
           R == Of(T, t)
<1>0. /\ O \subseteq 1..Len(s) /\ IsFiniteSet(O) /\ Len(s) \in Nat /\ Len(s) >= 1
      /\ t \in Seq(S) /\ Len(t) = Len(s) - 1
      /\ \A i \in 1..(Len(s) - 1) : t[i] = s[i + 1]
  <2>1. O \subseteq 1..Len(s) /\ IsFiniteSet(O)
    BY Counted
  <2> QED
    BY <2>1 DEF Takes
<1>1. R = {i - 1 : i \in O \ {1}}
  <2>1. ASSUME NEW n \in R
        PROVE  n + 1 \in O \ {1} /\ n = (n + 1) - 1
    BY <1>0 DEF Of
  <2>2. ASSUME NEW i \in O \ {1}
        PROVE  i - 1 \in R
    BY <1>0 DEF Of
  <2> QED
    BY <2>1, <2>2
<1>2. 1 \in O <=> s[1] \in T
  BY <1>0 DEF Of
<1> HIDE DEF O, R
<1>3. O \subseteq Int /\ O \ {1} \subseteq Int /\ IsFiniteSet(O \ {1})
  BY <1>0, FS_RemoveElement
<1>4. Cardinality(R) = Cardinality(O \ {1})
  BY <1>1, <1>3, Shifted
<1>5. Cardinality(O \ {1}) = IF 1 \in O THEN Cardinality(O) - 1 ELSE Cardinality(O)
  BY <1>0, FS_RemoveElement
<1>6. ASSUME NEW n \in R
      PROVE  Cardinality({j \in R : j <= n}) =
                 IF 1 \in O THEN Cardinality({j \in O : j <= n + 1}) - 1
                            ELSE Cardinality({j \in O : j <= n + 1})
  <2> DEFINE U == {j \in O : j <= n + 1}
  <2>1. n \in Int /\ n >= 1
    BY <1>0, <1>1
  <2>2. {j \in R : j <= n} = {i - 1 : i \in U \ {1}}
    BY <1>1, <1>3, <2>1
  <2>3. IsFiniteSet(U) /\ U \subseteq Int
    BY <1>0, <1>3, FS_Subset
  <2>4. IsFiniteSet(U \ {1}) /\ U \ {1} \subseteq Int
    BY <2>3, FS_RemoveElement
  <2>5. Cardinality({i - 1 : i \in U \ {1}}) = Cardinality(U \ {1})
    BY <2>4, Shifted
  <2>6. 1 \in U <=> 1 \in O
    BY <2>1
  <2> HIDE DEF U
  <2>7. Cardinality(U \ {1}) = IF 1 \in U THEN Cardinality(U) - 1 ELSE Cardinality(U)
    BY <2>3, FS_RemoveElement
  <2>8. Cardinality({j \in R : j <= n})
            = IF 1 \in O THEN Cardinality(U) - 1 ELSE Cardinality(U)
    BY <2>2, <2>5, <2>6, <2>7
  <2> QED
    BY <2>8 DEF U
<1>7. ASSUME 1 \in O
      PROVE  Rank(T, s, 1) = 1
  <2>1. \A j \in O : j \in Int /\ j >= 1
    BY <1>0
  <2>2. {j \in O : j <= 1} = {1}
    BY <1>7, <2>1
  <2> QED
    BY <2>2, FS_Singleton DEF Rank, O
<1>8. \A i \in R : i \in Int /\ i + 1 \in O
  <2> TAKE n \in R
  <2>1. PICK i \in O \ {1} : n = i - 1
    BY <1>1
  <2>2. i \in Int
    BY <1>3
  <2> QED
    BY <2>1, <2>2
<1> QED
  BY <1>8, <1>2, <1>4, <1>5, <1>6, <1>7 DEF Rank, Number, O, R

\* Only how many, and the last item.
LEMMA NumberTail ==
    ASSUME NEW S, NEW T, NEW s \in Seq(S), NEW t, Takes(s, t)
    PROVE  /\ t \in Seq(S) /\ Len(t) = Len(s) - 1
           /\ t # <<>> => t[Len(t)] = s[Len(s)]
           /\ s[1] \in T => Number(T, t) = Number(T, s) - 1
           /\ s[1] \notin T => Number(T, t) = Number(T, s)
<1>1. /\ s[1] \in T => Number(T, t) = Number(T, s) - 1
      /\ s[1] \notin T => Number(T, t) = Number(T, s)
  <2>1. s[1] \in T <=> 1 \in Of(T, s)
    BY CountedTail
  <2>2. 1 \in Of(T, s) => Number(T, t) = Number(T, s) - 1
    BY CountedTail
  <2>3. 1 \notin Of(T, s) => Number(T, t) = Number(T, s)
    BY CountedTail
  <2> QED
    BY <2>1, <2>2, <2>3
<1>2. /\ t \in Seq(S) /\ Len(t) = Len(s) - 1
      /\ t # <<>> => t[Len(t)] = s[Len(s)]
  BY DEF Takes
<1> QED
  BY <1>1, <1>2

\* An item that is there is counted; if it is the only one it is in one place.
LEMMA OnlyOne ==
    ASSUME NEW S, NEW T, NEW s \in Seq(S), NEW i \in 1..Len(s), s[i] \in T
    PROVE  /\ Number(T, s) >= 1
           /\ Number(T, s) = 1 => \A j \in 1..Len(s) : s[j] \in T => j = i
<1>1. i \in Of(T, s) /\ \A j \in 1..Len(s) : s[j] \in T => j \in Of(T, s)
  BY DEF Of
<1>2. IsFiniteSet(Of(T, s)) /\ Number(T, s) \in Nat
  BY Counted
<1>3. Number(T, s) # 0
  BY <1>1, <1>2, FS_EmptySet DEF Number
<1>4. ASSUME Number(T, s) = 1
      PROVE  \E x : Of(T, s) = {x}
  BY <1>2, <1>4, FS_Singleton DEF Number
<1> QED
  BY <1>1, <1>2, <1>3, <1>4

-----------------------------------------------------------------------------
(* Queues that follow a history.                                           *)

\* The history grows.
LEMMA FollowsLonger ==
    ASSUME NEW S, NEW T, NEW s \in Seq(S), NEW e \in Seq(S), NEW k \in Nat, NEW x \in S,
           NEW f, Adds(e, x, f),
           Follows(T, s, e, k)
    PROVE  Follows(T, s, f, k)
<1>0. Number(T, s) \in Nat /\ Len(e) \in Nat
  <2>1. Number(T, s) \in Nat
    BY Counted
  <2> QED
    BY <2>1
<1>1. \A i \in Of(T, s) : k + Rank(T, s, i) \in 1..Len(e)
  <2>1. \A i \in Of(T, s) : Rank(T, s, i) \in 1..Number(T, s)
    BY Counted
  <2> QED
    BY <1>0, <2>1 DEF Follows
<1>2. \A n \in 1..Len(e) : f[n] = e[n]
  BY DEF Adds
<1>3. k + Number(T, s) <= Len(f)
  BY <1>0 DEF Follows, Adds
<1> QED
  BY <1>1, <1>2, <1>3 DEF Follows

\* An item is put at the end of the queue.
LEMMA FollowsAppend ==
    ASSUME NEW S, NEW T, NEW s \in Seq(S), NEW e \in Seq(S), NEW k \in Nat, NEW x \in S,
           NEW a, Adds(s, x, a),
           Follows(T, s, e, k),
           x \in T => k + Number(T, s) + 1 <= Len(e) /\ x = e[k + Number(T, s) + 1]
    PROVE  Follows(T, a, e, k)
<1>1. \A i \in Of(T, s) : a[i] = s[i]
  <2>1. Of(T, s) \subseteq 1..Len(s)
    BY Counted
  <2> QED
    BY <2>1 DEF Adds
<1>2. a[Len(s) + 1] = x /\ Number(T, s) \in Nat
  <2>1. Number(T, s) \in Nat
    BY Counted
  <2> QED
    BY <2>1 DEF Adds
<1>3. CASE x \notin T
  <2>1. Of(T, a) = Of(T, s) /\ Number(T, a) = Number(T, s)
        /\ \A i \in Of(T, s) : Rank(T, a, i) = Rank(T, s, i)
    BY <1>3, CountedAppend
  <2> QED
    BY <1>1, <2>1 DEF Follows
<1>4. CASE x \in T
  <2>1. /\ Of(T, a) = Of(T, s) \cup {Len(s) + 1} /\ Number(T, a) = Number(T, s) + 1
        /\ Rank(T, a, Len(s) + 1) = Number(T, s) + 1
        /\ \A i \in Of(T, s) : Rank(T, a, i) = Rank(T, s, i)
    BY <1>4, CountedAppend
  <2>2. k + Number(T, a) <= Len(e)
    BY <1>2, <1>4, <2>1
  <2>3. \A i \in Of(T, a) : a[i] = e[k + Rank(T, a, i)]
    BY <1>1, <1>2, <1>4, <2>1 DEF Follows
  <2> QED
    BY <2>2, <2>3 DEF Follows
<1> QED
  BY <1>3, <1>4

\* The first item of the queue is taken.
LEMMA FollowsTail ==
    ASSUME NEW S, NEW T, NEW s \in Seq(S), NEW e \in Seq(S), NEW k \in Nat,
           Follows(T, s, e, k), NEW t, Takes(s, t)
    PROVE  /\ s[1] \in T => /\ Number(T, t) = Number(T, s) - 1
                               /\ k + 1 <= Len(e) /\ s[1] = e[k + 1]
                               /\ Follows(T, t, e, k + 1)
           /\ s[1] \notin T => /\ Number(T, t) = Number(T, s)
                                  /\ Follows(T, t, e, k)
<1>0. /\ t \in Seq(S)
      /\ \A i \in 1..Len(t) : t[i] = s[i + 1]
  BY DEF Takes
<1>1. /\ Of(T, t) \subseteq 1..Len(t)
      /\ Number(T, t) \in Nat
      /\ \A i \in Of(T, t) : Rank(T, t, i) \in Nat
  BY <1>0, Counted
<1>6. /\ Number(T, s) \in Nat
      /\ \A i \in Of(T, s) : Rank(T, s, i) \in 1..Number(T, s)
  BY Counted
<1>2. \A i \in Of(T, t) : i \in Int /\ i + 1 \in Of(T, s)
  BY CountedTail
<1>7. s[1] \in T <=> 1 \in Of(T, s)
  BY CountedTail
<1>3. \A i \in Of(T, t) : i + 1 \in Of(T, s) /\ i \in Int /\ t[i] = e[k + Rank(T, s, i + 1)]
  BY <1>0, <1>1, <1>2 DEF Follows
<1>4. ASSUME s[1] \in T
      PROVE  /\ Number(T, t) = Number(T, s) - 1
             /\ k + 1 <= Len(e) /\ s[1] = e[k + 1]
             /\ Follows(T, t, e, k + 1)
  <2>1. /\ 1 \in Of(T, s) /\ Rank(T, s, 1) = 1
        /\ Number(T, t) = Number(T, s) - 1
        /\ \A i \in Of(T, t) : Rank(T, t, i) = Rank(T, s, i + 1) - 1
    BY <1>4, <1>7, CountedTail
  <2>2. s[1] = e[k + 1] /\ k + 1 <= Len(e) /\ k + 1 + Number(T, t) <= Len(e)
    BY <1>0, <1>1, <1>6, <2>1 DEF Follows
  <2>3. \A i \in Of(T, t) : k + Rank(T, s, i + 1) = (k + 1) + Rank(T, t, i)
    <3> SUFFICES ASSUME NEW i \in Of(T, t)
                 PROVE  k + Rank(T, s, i + 1) = (k + 1) + Rank(T, t, i)
      OBVIOUS
    <3>1. Rank(T, s, i + 1) \in Nat /\ Rank(T, t, i) \in Nat
      BY <1>1, <1>3, <1>6
    <3> QED
      BY <2>1, <3>1
  <2>4. \A i \in Of(T, t) : t[i] = e[(k + 1) + Rank(T, t, i)]
    BY <1>3, <2>3
  <2> QED
    BY <2>1, <2>2, <2>4 DEF Follows
<1>5. ASSUME s[1] \notin T
      PROVE  Number(T, t) = Number(T, s) /\ Follows(T, t, e, k)
  <2>1. /\ Number(T, t) = Number(T, s)
        /\ \A i \in Of(T, t) : Rank(T, t, i) = Rank(T, s, i + 1)
    BY <1>5, <1>7, CountedTail
  <2> QED
    BY <1>3, <2>1 DEF Follows
<1> QED
  BY <1>4, <1>5

-----------------------------------------------------------------------------
(* The dialogue.                                                           *)

\* What the broker queues, and the sentinels.
Said  == Shown \ {Action}
Marks == {Stop, Done}

\* What was shown, what the bus holds and what the broker's queue holds are, one
\* after the other, what the broker queued; past a pass that was cut short only the
\* shown part is.
FlowInv ==
    /\ Follows(Said, shown, emitted, 0)
    /\ pass = "merging" =>
           /\ Follows(Said, bus, emitted, Number(Said, shown))
           /\ Follows(Said, output, emitted, Number(Said, shown) + Number(Said, bus))
           /\ Len(emitted) = Number(Said, shown) + Number(Said, bus) + Number(Said, output)

\* While the primary runs there is no sentinel anywhere.  Once it has ended, the
\* broker's queue ends with its _STOP until the pump has taken it, and then the
\* bus ends with the pump's _DONE, the third sentinel.
MarksInv ==
    IF primary = "on"
    THEN /\ ~closed /\ fetching /\ seen = 0
         /\ Number(Marks, bus) = 0 /\ Number(Marks, output) = 0
    ELSE /\ closed
         /\ fetching  => /\ output # <<>> /\ output[Len(output)] = Stop
                         /\ Number(Marks, output) = 1
                         /\ seen + Number(Marks, bus) = Expected - 1
         /\ ~fetching => /\ output = <<>>
                         /\ bus # <<>> /\ bus[Len(bus)] = Done
                         /\ seen + Number(Marks, bus) = Expected

EndInv ==
    /\ pass = "merging" => seen < Expected /\ MarksInv
    /\ pass = "interrupted" => seen < Expected
    /\ pass = "raised" => primary = "failed"
    /\ pass \in {"off", "over"} => primary # "on"
    /\ pass = "over" /\ seen = Expected /\ primary = "finished" =>
           closed /\ bus = <<>> /\ output = <<>> /\ Len(emitted) = Number(Said, shown)

\* What a pass that was cut short leaves behind: questions whose futures are
\* cancelled.  A primary that ended by itself leaves none.
CutInv ==
    /\ primary \in {"finished", "failed"} => closed /\ pending = {}
    /\ primary = "off" => \A q \in pending : future[q] = "cancelled"
    /\ pass \in {"merging", "interrupted", "raised"} => primary # "off"

\* An item but an insert is queued once: a question by the request that leaves
\* "idle" with it, its echo by the answer that takes it from pending.  A question
\* that can be answered was queued by this pass, or its future is cancelled.
OnceInv ==
    /\ \A i, j \in DOMAIN emitted : emitted[i] = emitted[j] /\ emitted[i] # Other => i = j
    /\ \A q \in Questions : \A i \in DOMAIN emitted :
           /\ emitted[i] = Ask(q) => request[q] # "idle"
           /\ emitted[i] = Echo(q) => request[q] # "idle" /\ q \notin pending
           /\ emitted[i] = Echo(q) =>
                  \/ \E j \in 1..(i - 1) : emitted[j] = Ask(q)
                  \/ future[q] = "cancelled"
    /\ \A q \in pending :
           (\E j \in DOMAIN emitted : emitted[j] = Ask(q)) \/ future[q] = "cancelled"

\* What is an item of the broker and what a sentinel.
LEMMA ItemKinds ==
    /\ \A q \in Questions : Ask(q) \in Said /\ Echo(q) \in Said
    /\ Other \in Said /\ Action \notin Said /\ Action \notin Marks
    /\ Stop \notin Said /\ Done \notin Said /\ Stop \in Marks /\ Done \in Marks
    /\ Said \subseteq Shown /\ Said \subseteq Queued /\ Shown \subseteq Queued
    /\ \A x \in Said : x \notin Marks
    /\ \A x \in Queued : x \in Said \/ x = Action \/ x \in Marks
<1>1. Other # Action /\ Stop # Action /\ Done # Action
  BY DEF Other, Action, Plain, Stop, Done
<1>2. \A q \in Questions :
          /\ Ask(q) \notin {Action, Stop, Done}
          /\ Echo(q) \notin {Action, Stop, Done}
  BY DEF Ask, Echo, Action, Plain, Stop, Done
<1>3. Other \notin {Stop, Done} /\ Action \notin {Stop, Done}
  BY DEF Other, Action, Plain, Stop, Done
<1> HIDE DEF Ask, Echo, Other, Action, Plain, Stop, Done
<1>4. /\ \A q \in Questions : Ask(q) \in Said /\ Echo(q) \in Said
      /\ Other \in Said /\ Action \notin Said /\ Action \notin Marks
  BY <1>1, <1>2, <1>3 DEF Said, Marks, Shown
<1>5. \A x \in Said : x \notin Marks
  BY <1>2, <1>3 DEF Said, Marks, Shown
<1>6. Stop \in Marks /\ Done \in Marks /\ Stop \notin Said /\ Done \notin Said
  BY <1>5 DEF Marks
<1>7. Said \subseteq Shown /\ Shown \subseteq Queued /\ Said \subseteq Queued
  BY DEF Said, Queued
<1>8. \A x \in Queued : x \in Said \/ x = Action \/ x \in Marks
  BY DEF Said, Marks, Queued
<1> QED
  BY <1>4, <1>5, <1>6, <1>7, <1>8

\* The types of the queues, and the numbers in them.
LEMMA QueueNumbers ==
    ASSUME TypeOK
    PROVE  /\ output \in Seq(Queued) /\ bus \in Seq(Queued)
           /\ shown \in Seq(Queued) /\ emitted \in Seq(Queued)
           /\ Number(Said, shown) \in Nat /\ Number(Said, bus) \in Nat
           /\ Number(Said, output) \in Nat
           /\ Number(Marks, bus) \in Nat /\ Number(Marks, output) \in Nat
<1>1. output \in Seq(Queued) /\ bus \in Seq(Queued)
  BY DEF TypeOK
<1>2. shown \in Seq(Queued) /\ emitted \in Seq(Queued)
  <2>1. Shown \subseteq Queued
    BY ItemKinds
  <2> HIDE DEF Shown, Queued
  <2> QED
    BY <2>1 DEF TypeOK
<1> HIDE DEF Queued, Said, Marks
<1> QED
  BY <1>1, <1>2, Counted

\* Emitting x keeps the order.
LEMMA EmitFlow ==
    ASSUME TypeOK, FlowInv, NEW x \in Said, Emit(x), UNCHANGED <<shown, bus, pass>>
    PROVE  FlowInv'
<1> DEFINE k == Number(Said, shown) + Number(Said, bus)
<1>0. x \in Queued /\ Adds(output, x, output') /\ Adds(emitted, x, emitted')
  BY ItemKinds DEF Emit, Adds
<1> HIDE DEF Queued, Said
<1>1. Follows(Said, shown, emitted', 0)
  BY <1>0, QueueNumbers, FollowsLonger DEF FlowInv
<1>2. ASSUME pass = "merging"
      PROVE  /\ Follows(Said, bus, emitted', Number(Said, shown))
             /\ Follows(Said, output', emitted', k)
             /\ Len(emitted') = k + Number(Said, output')
  <2>1. k \in Nat /\ Number(Said, output) \in Nat
    BY QueueNumbers
  <2>2. Len(emitted) = k + Number(Said, output)
    BY <1>2 DEF FlowInv
  <2>3. Follows(Said, bus, emitted', Number(Said, shown))
    BY <1>0, <1>2, QueueNumbers, FollowsLonger DEF FlowInv
  <2>4. Follows(Said, output, emitted, k)
    BY <1>2 DEF FlowInv
  <2> HIDE DEF k
  <2>5. Follows(Said, output, emitted', k)
    BY <1>0, <2>1, <2>4, QueueNumbers, FollowsLonger
  <2>6. Len(emitted') = Len(emitted) + 1 /\ emitted'[Len(emitted) + 1] = x
        /\ emitted' \in Seq(Queued)
    BY <1>0, QueueNumbers DEF Adds
  <2>7. Follows(Said, output', emitted', k)
    BY <1>0, <2>1, <2>2, <2>5, <2>6, QueueNumbers, FollowsAppend
  <2>8. Number(Said, output') = Number(Said, output) + 1
    BY <1>0, QueueNumbers, NumberAppend
  <2> QED
    BY <2>1, <2>2, <2>3, <2>6, <2>7, <2>8
<1> QED
  BY <1>1, <1>2 DEF FlowInv

\* An item that is none of Said goes to the end of a queue.
LEMMA OtherFlow ==
    ASSUME NEW s \in Seq(Queued), NEW e \in Seq(Queued), NEW k \in Nat,
           Follows(Said, s, e, k), NEW x \in Queued, x \notin Said,
           NEW t, Adds(s, x, t)
    PROVE  t \in Seq(Queued) /\ Number(Said, t) = Number(Said, s) /\ Follows(Said, t, e, k)
<1> HIDE DEF Queued, Said
<1>1. t \in Seq(Queued)
  BY DEF Adds
<1>2. Number(Said, t) = Number(Said, s)
  BY NumberAppend
<1> QED
  BY <1>1, <1>2, FollowsAppend

\* Every action keeps what flows in its order.
LEMMA FlowStep == TypeOK /\ FlowInv /\ EndInv /\ [Next]_vars => FlowInv'
<1> SUFFICES ASSUME TypeOK, FlowInv, EndInv, [Next]_vars PROVE FlowInv'
  OBVIOUS
<1> HIDE DEF Queued, Said, Marks, Shown
<1> DEFINE k == Number(Said, shown)
<1>0. /\ output \in Seq(Queued) /\ bus \in Seq(Queued)
      /\ shown \in Seq(Queued) /\ emitted \in Seq(Queued)
      /\ k \in Nat /\ Number(Said, bus) \in Nat /\ Number(Said, output) \in Nat
  BY QueueNumbers
<1>1. CASE StartPass
  <2>1. /\ shown' = <<>> /\ bus' = <<>> /\ output' = <<>> /\ emitted' = <<>>
    BY <1>1 DEF StartPass
  <2>2. Number(Said, <<>>) = 0 /\ Follows(Said, <<>>, <<>>, 0)
    BY NoneIn
  <2>3. Len(<<>>) = 0 /\ 0 + 0 = 0
    OBVIOUS
  <2> QED
    BY <2>1, <2>2, <2>3 DEF FlowInv
<1>2. CASE Send
  <2>1. Emit(Other) /\ UNCHANGED <<shown, bus, pass>>
    BY <1>2 DEF Send, stream
  <2> QED
    BY <2>1, ItemKinds, EmitFlow
<1>3. CASE Stream
  <2>1. bus' = Append(bus, Action) /\ UNCHANGED <<output, shown, emitted, pass>>
    BY <1>3 DEF Stream, broker
  <2>2. Action \in Queued /\ Action \notin Said
    BY Items, ItemKinds
  <2>3. Adds(bus, Action, bus')
    BY <2>1 DEF Adds
  <2>4. CASE pass = "merging"
    <3>1. Follows(Said, bus, emitted, k)
      BY <2>4 DEF FlowInv
    <3> HIDE DEF k
    <3>2. Number(Said, bus') = Number(Said, bus) /\ Follows(Said, bus', emitted, k)
      BY <1>0, <2>2, <2>3, <3>1, OtherFlow
    <3> QED
      BY <2>1, <2>4, <3>2 DEF FlowInv, k
  <2>5. CASE pass # "merging"
    BY <2>1, <2>5 DEF FlowInv
  <2> QED
    BY <2>4, <2>5
<1>4. CASE Fetch
  <2>1. output # <<>> /\ output' = Tail(output) /\ UNCHANGED <<pass, shown, emitted>>
        /\ (Head(output) = Stop => bus' = Append(bus, Done))
        /\ (Head(output) # Stop => bus' = Append(bus, Head(output)))
    BY <1>4 DEF Fetch, past
  <2>2. Head(output) \in Queued /\ Done \in Queued /\ Done \notin Said /\ Stop \notin Said
    BY <1>0, <2>1, ItemKinds, Items
  <2>3. CASE pass # "merging"
    BY <2>1, <2>3 DEF FlowInv
  <2>4. CASE pass = "merging" /\ Head(output) \in Said
    <3>1. Follows(Said, bus, emitted, k) /\ Follows(Said, output, emitted, k + Number(Said, bus))
          /\ Len(emitted) = k + Number(Said, bus) + Number(Said, output)
      BY <2>4 DEF FlowInv
    <3>2. bus' = Append(bus, Head(output))
      BY <2>1, <2>2, <2>4
    <3> DEFINE m == k + Number(Said, bus)
               x == Head(output)
    <3>3. m \in Nat /\ x = output[1]
      BY <1>0, <2>1
    <3>9. Takes(output, output') /\ Adds(bus, x, bus')
      BY <2>1, <3>2 DEF Takes, Adds
    <3> HIDE DEF m, x
    <3>4. /\ Number(Said, output') = Number(Said, output) - 1
          /\ m + 1 <= Len(emitted) /\ x = emitted[m + 1]
          /\ Follows(Said, output', emitted, m + 1)
      BY <1>0, <2>4, <3>1, <3>3, <3>9, FollowsTail DEF m, x
    <3>5. Number(Said, bus') = Number(Said, bus) + 1
      BY <1>0, <2>2, <2>4, <3>9, NumberAppend DEF x
    <3> HIDE DEF k
    <3>6. k + Number(Said, bus) + 1 <= Len(emitted) /\ x = emitted[k + Number(Said, bus) + 1]
      BY <3>4 DEF m
    <3>7. Follows(Said, bus', emitted, k)
      BY <1>0, <2>2, <3>1, <3>6, <3>9, FollowsAppend DEF x
    <3>8. m + 1 = k + Number(Said, bus') /\ Len(emitted) = k + Number(Said, bus') + Number(Said, output')
      <4>1. /\ Len(emitted) = m + Number(Said, output)
            /\ Number(Said, output') = Number(Said, output) - 1
        BY <3>1, <3>4 DEF m, k
      <4>2. m = k + Number(Said, bus)
        BY DEF m
      <4>3. Number(Said, bus') = Number(Said, bus) + 1
        BY <3>5
      <4>4. k \in Nat /\ Number(Said, bus) \in Nat /\ Number(Said, output) \in Nat
        BY <1>0
      <4> QED
        BY <4>1, <4>2, <4>3, <4>4
    <3> QED
      BY <2>1, <3>2, <3>4, <3>7, <3>8 DEF FlowInv, x, k
  <2>5. CASE pass = "merging" /\ Head(output) \notin Said
    <3> DEFINE y == IF Head(output) = Stop THEN Done ELSE Head(output)
               m == k + Number(Said, bus)
    <3>1. Follows(Said, bus, emitted, k) /\ Follows(Said, output, emitted, m)
          /\ Len(emitted) = m + Number(Said, output)
      BY <2>5 DEF FlowInv
    <3>2. bus' = Append(bus, y) /\ y \in Queued /\ y \notin Said
      BY <2>1, <2>2, <2>5
    <3>3. m \in Nat /\ output[1] = Head(output)
      BY <1>0, <2>1
    <3>9. Takes(output, output') /\ Adds(bus, y, bus')
      BY <2>1, <3>2 DEF Takes, Adds
    <3> HIDE DEF m, y
    <3>4. Number(Said, output') = Number(Said, output) /\ Follows(Said, output', emitted, m)
      BY <1>0, <2>5, <3>1, <3>3, <3>9, FollowsTail
    <3> HIDE DEF k
    <3>5. Number(Said, bus') = Number(Said, bus) /\ Follows(Said, bus', emitted, k)
      BY <1>0, <3>1, <3>2, <3>9, OtherFlow
    <3> QED
      BY <2>1, <3>1, <3>4, <3>5 DEF FlowInv, m, k
  <2> QED
    BY <2>3, <2>4, <2>5
<1>5. CASE Count
  <2>1. bus # <<>> /\ bus' = Tail(bus) /\ Head(bus) \in Marks
        /\ UNCHANGED <<output, shown, emitted>> /\ pass = "merging"
    BY <1>5 DEF Count, broker, past, Marks
  <2>2. Head(bus) \notin Said
    BY <2>1, ItemKinds
  <2>4. Takes(bus, bus') /\ bus[1] = Head(bus)
    BY <1>0, <2>1 DEF Takes
  <2>5. Follows(Said, bus, emitted, k)
    BY <2>1 DEF FlowInv
  <2>3. Number(Said, bus') = Number(Said, bus) /\ Follows(Said, bus', emitted, k)
    BY <1>0, <2>2, <2>4, <2>5, FollowsTail
  <2> QED
    BY <2>1, <2>3 DEF FlowInv
<1>6. CASE Yield
  <2>1. bus # <<>> /\ bus' = Tail(bus) /\ Head(bus) \notin Marks
        /\ UNCHANGED <<output, emitted>> /\ pass = "merging"
        /\ (interrupt => pass' = "interrupted" /\ shown' = shown)
        /\ (~interrupt => shown' = Append(shown, Head(bus)))
    BY <1>6 DEF Yield, broker, Marks
  <2>2. Head(bus) \in Queued /\ bus[1] = Head(bus)
        /\ Takes(bus, bus') /\ (~interrupt => Adds(shown, Head(bus), shown'))
    BY <1>0, <2>1 DEF Takes, Adds
  <2>3. Follows(Said, shown, emitted, 0) /\ Follows(Said, bus, emitted, k)
        /\ Follows(Said, output, emitted, k + Number(Said, bus))
        /\ Len(emitted) = k + Number(Said, bus) + Number(Said, output)
    BY <2>1 DEF FlowInv
  <2>4. CASE interrupt
    BY <2>1, <2>3, <2>4 DEF FlowInv
  <2>5. CASE ~interrupt /\ Head(bus) \in Said
    <3>1. /\ Number(Said, bus') = Number(Said, bus) - 1
          /\ k + 1 <= Len(emitted) /\ Head(bus) = emitted[k + 1]
          /\ Follows(Said, bus', emitted, k + 1)
      BY <1>0, <2>2, <2>3, <2>5, FollowsTail
    <3>2. Number(Said, shown') = k + 1
      BY <1>0, <2>2, <2>5, NumberAppend
    <3>3. Follows(Said, shown', emitted, 0)
      <4>1. 0 + Number(Said, shown) + 1 <= Len(emitted)
            /\ Head(bus) = emitted[0 + Number(Said, shown) + 1] /\ 0 \in Nat
        BY <1>0, <3>1
      <4> QED
        BY <1>0, <2>2, <2>3, <2>5, <4>1, FollowsAppend
    <3>4. k + Number(Said, bus) = Number(Said, shown') + Number(Said, bus')
      BY <1>0, <3>1, <3>2
    <3> HIDE DEF k
    <3> QED
      BY <2>1, <2>3, <3>1, <3>2, <3>3, <3>4 DEF FlowInv
  <2>6. CASE ~interrupt /\ Head(bus) \notin Said
    <3>1. Number(Said, bus') = Number(Said, bus) /\ Follows(Said, bus', emitted, k)
      BY <1>0, <2>2, <2>3, <2>6, FollowsTail
    <3>2. Number(Said, shown') = k
      BY <1>0, <2>2, <2>6, NumberAppend
    <3>3. Follows(Said, shown', emitted, 0)
      <4>1. 0 \in Nat
        OBVIOUS
      <4> QED
        BY <1>0, <2>2, <2>3, <2>6, <4>1, FollowsAppend
    <3> QED
      BY <2>1, <2>3, <3>1, <3>2, <3>3 DEF FlowInv
  <2> QED
    BY <2>4, <2>5, <2>6
<1>7. CASE Interrupt \/ Cancel \/ CleanUp
  <2>1. UNCHANGED <<output, bus, shown, emitted>> /\ (pass' = "merging" => pass = "merging")
    BY <1>7 DEF Interrupt, Cancel, CleanUp, broker, past
  <2> QED
    BY <2>1 DEF FlowInv
<1>8. ASSUME NEW how \in {"finished", "failed"}, PrimaryEnds(how)
      PROVE  FlowInv'
  <2>1. output' = Append(output, Stop) /\ bus' = bus \o <<Stop, Done>>
        /\ UNCHANGED <<shown, emitted, pass>>
    BY <1>8 DEF PrimaryEnds, past
  <2> DEFINE b == Append(bus, Stop)
  <2>2. Adds(output, Stop, output') /\ Adds(bus, Stop, b) /\ Adds(b, Done, bus')
    BY <1>0, <2>1 DEF Adds
  <2>3. Stop \in Queued /\ Stop \notin Said /\ Done \in Queued /\ Done \notin Said
    BY Items, ItemKinds
  <2>4. CASE pass = "merging"
    <3> DEFINE m == k + Number(Said, bus)
    <3>1. Follows(Said, bus, emitted, k) /\ Follows(Said, output, emitted, m)
      BY <2>4 DEF FlowInv
    <3>2. m \in Nat
      BY <1>0
    <3> HIDE DEF b, k, m
    <3>3. b \in Seq(Queued) /\ Number(Said, b) = Number(Said, bus) /\ Follows(Said, b, emitted, k)
      BY <1>0, <2>2, <2>3, <3>1, OtherFlow
    <3>4. Number(Said, bus') = Number(Said, b) /\ Follows(Said, bus', emitted, k)
      BY <1>0, <2>2, <2>3, <3>3, OtherFlow
    <3>5. Number(Said, output') = Number(Said, output) /\ Follows(Said, output', emitted, m)
      BY <1>0, <2>2, <2>3, <3>1, <3>2, OtherFlow
    <3> QED
      BY <2>1, <2>4, <3>3, <3>4, <3>5 DEF FlowInv, k, m
  <2>5. CASE pass # "merging"
    BY <2>1, <2>5 DEF FlowInv
  <2> QED
    BY <2>4, <2>5
<1>9. ASSUME NEW q \in Questions, Request(q)
      PROVE  FlowInv'
  <2>1. UNCHANGED <<shown, bus, pass>>
        /\ (Emit(Ask(q)) \/ UNCHANGED <<output, emitted>>)
    BY <1>9 DEF Request, stream
  <2>2. Ask(q) \in Said
    BY ItemKinds
  <2> QED
    BY <2>1, <2>2, EmitFlow DEF FlowInv
<1>10. ASSUME NEW q \in Questions, Submit(q)
       PROVE  FlowInv'
  <2>1. UNCHANGED <<shown, bus, pass>>
        /\ (Emit(Echo(q)) \/ UNCHANGED <<output, emitted>>)
    BY <1>10 DEF Submit, stream
  <2>2. Echo(q) \in Said
    BY ItemKinds
  <2> QED
    BY <2>1, <2>2, EmitFlow DEF FlowInv
<1>11. CASE (\E q \in Questions : Settle(q) \/ Resume(q)) \/ Rest \/ UNCHANGED vars
  <2>1. UNCHANGED <<output, bus, shown, emitted, pass>>
    BY <1>11 DEF Settle, Resume, Rest, vars, stream, broker, past
  <2> QED
    BY <2>1 DEF FlowInv
<1> QED
  BY <1>1, <1>2, <1>3, <1>4, <1>5, <1>6, <1>7, <1>8, <1>9, <1>10, <1>11 DEF Next

\* Emitting changes nothing about the sentinels: it needs an open broker.
LEMMA EmitEnd ==
    ASSUME TypeOK, EndInv, NEW x \in Said, Emit(x), ~closed,
           UNCHANGED <<stream, closed, shown>>
    PROVE  EndInv'
<1> HIDE DEF Queued, Said, Marks
<1>1. Adds(output, x, output') /\ x \in Queued /\ x \notin Marks
  BY ItemKinds DEF Emit, Adds
<1>2. Number(Marks, output') = Number(Marks, output)
  BY <1>1, QueueNumbers, NumberAppend
<1> QED
  BY <1>2 DEF EndInv, MarksInv, stream

\* Every action keeps the sentinels in their places.
LEMMA EndStep == TypeOK /\ FlowInv /\ EndInv /\ [Next]_vars => EndInv'
<1> SUFFICES ASSUME TypeOK, FlowInv, EndInv, [Next]_vars PROVE EndInv'
  OBVIOUS
<1> HIDE DEF Queued, Said, Marks, Shown
<1>0. /\ output \in Seq(Queued) /\ bus \in Seq(Queued)
      /\ Number(Marks, bus) \in Nat /\ Number(Marks, output) \in Nat
      /\ seen \in 0..3 /\ Expected = 3
  BY QueueNumbers DEF TypeOK, Expected
<1>1. CASE StartPass
  <2>1. /\ bus' = <<>> /\ output' = <<>> /\ pass' = "merging" /\ primary' = "on"
        /\ closed' = FALSE /\ fetching' = TRUE /\ seen' = 0
    BY <1>1 DEF StartPass
  <2>2. Number(Marks, bus') = 0 /\ Number(Marks, output') = 0
    BY <2>1, NoneIn
  <2> QED
    BY <1>0, <2>1, <2>2 DEF EndInv, MarksInv
<1>2. CASE Send
  <2>1. Emit(Other) /\ ~closed /\ UNCHANGED <<stream, closed, shown>>
    BY <1>2 DEF Send
  <2> QED
    BY <2>1, ItemKinds, EmitEnd
<1>3. CASE Stream
  <2>1. Adds(bus, Action, bus') /\ primary = "on"
        /\ UNCHANGED <<pass, primary, fetching, seen, closed, output, emitted, shown>>
    BY <1>3 DEF Stream, broker, Adds
  <2>2. Number(Marks, bus') = Number(Marks, bus)
    BY <1>0, <2>1, Items, ItemKinds, NumberAppend
  <2> QED
    BY <2>1, <2>2 DEF EndInv, MarksInv
<1>4. CASE Fetch
  <2>1. Takes(output, output') /\ fetching /\ output[1] = Head(output)
        /\ (Head(output) = Stop => fetching' = FALSE /\ Adds(bus, Done, bus'))
        /\ (Head(output) # Stop => fetching' = fetching /\ Adds(bus, Head(output), bus'))
        /\ UNCHANGED <<pass, primary, seen, closed, emitted, shown>>
    <3>1. Takes(output, output') /\ fetching /\ output[1] = Head(output)
      BY <1>0, <1>4 DEF Fetch, Takes
    <3>2. Head(output) = Stop => fetching' = FALSE /\ Adds(bus, Done, bus')
      BY <1>4 DEF Fetch, Adds
    <3>3. Head(output) # Stop => fetching' = fetching /\ Adds(bus, Head(output), bus')
      BY <1>4 DEF Fetch, Adds
    <3>4. UNCHANGED <<pass, primary, seen, closed, emitted, shown>>
      BY <1>4 DEF Fetch, past
    <3> QED
      BY <3>1, <3>2, <3>3, <3>4
  <2>2. output # <<>> /\ Head(output) \in Queued /\ Done \in Queued /\ Stop \in Marks /\ Done \in Marks
        /\ 1 \in 1..Len(output) /\ Len(output) \in 1..Len(output)
    BY <1>0, <1>4, Items, ItemKinds DEF Fetch
  <2>3. /\ output' \in Seq(Queued) /\ Len(output') = Len(output) - 1
        /\ output' # <<>> => output'[Len(output')] = output[Len(output)]
        /\ Head(output) \notin Marks => Number(Marks, output') = Number(Marks, output)
    BY <1>0, <2>1, NumberTail
  <2>4. CASE pass # "merging"
    BY <2>1, <2>2, <2>4 DEF EndInv
  <2>5. CASE pass = "merging" /\ primary = "on"
    <3>1. ~closed /\ seen = 0 /\ Number(Marks, bus) = 0 /\ Number(Marks, output) = 0
      BY <2>5 DEF EndInv, MarksInv
    <3>2. Head(output) \notin Marks
      BY <1>0, <2>1, <2>2, <3>1, OnlyOne
    <3>3. Adds(bus, Head(output), bus') /\ fetching'
      BY <2>1, <2>2, <3>2
    <3>4. Number(Marks, bus') = Number(Marks, bus)
      BY <1>0, <2>2, <3>2, <3>3, NumberAppend
    <3> QED
      BY <1>0, <2>1, <2>3, <2>5, <3>1, <3>2, <3>3, <3>4 DEF EndInv, MarksInv
  <2>6. CASE pass = "merging" /\ primary # "on" /\ Head(output) = Stop
    <3>1. closed /\ Number(Marks, output) = 1 /\ seen + Number(Marks, bus) = Expected - 1
          /\ output[Len(output)] = Stop
      BY <2>1, <2>6 DEF EndInv, MarksInv
    <3>2. Len(output) = 1
      <4>1. output[1] \in Marks /\ output[Len(output)] \in Marks
        BY <2>1, <2>2, <2>6, <3>1
      <4> QED
        BY <1>0, <2>2, <3>1, <4>1, OnlyOne
    <3>3. output' = <<>>
      BY <2>3, <3>2
    <3>4. Adds(bus, Done, bus') /\ ~fetching'
      BY <2>1, <2>6
    <3>5. /\ Number(Marks, bus') = Number(Marks, bus) + 1
          /\ bus' \in Seq(Queued) /\ Len(bus') = Len(bus) + 1 /\ bus'[Len(bus')] = Done
      BY <1>0, <2>2, <3>4, NumberAppend
    <3>6. bus' # <<>> /\ seen + Number(Marks, bus') = Expected
      BY <1>0, <3>1, <3>5
    <3> QED
      BY <2>1, <2>6, <3>1, <3>3, <3>4, <3>5, <3>6 DEF EndInv, MarksInv
  <2>7. CASE pass = "merging" /\ primary # "on" /\ Head(output) # Stop
    <3>1. closed /\ Number(Marks, output) = 1 /\ seen + Number(Marks, bus) = Expected - 1
          /\ output[Len(output)] = Stop
      BY <2>1, <2>7 DEF EndInv, MarksInv
    <3>2. Head(output) \notin Marks /\ Len(output) # 1
      BY <1>0, <2>1, <2>2, <2>7, <3>1, OnlyOne
    <3>3. Adds(bus, Head(output), bus') /\ fetching'
      BY <2>1, <2>7
    <3>4. Number(Marks, bus') = Number(Marks, bus)
      BY <1>0, <2>2, <3>2, <3>3, NumberAppend
    <3>5. output' # <<>>
      BY <1>0, <2>2, <2>3, <3>2
    <3> QED
      BY <2>1, <2>3, <2>7, <3>1, <3>2, <3>3, <3>4, <3>5 DEF EndInv, MarksInv
  <2> QED
    BY <2>4, <2>5, <2>6, <2>7
<1>5. CASE Count
  <2>1. /\ pass = "merging" /\ seen' = seen + 1 /\ Takes(bus, bus') /\ bus[1] = Head(bus)
        /\ Head(bus) \in Marks /\ 1 \in 1..Len(bus) /\ Len(bus) \in 1..Len(bus)
        /\ pass' = IF Head(bus) = Stop /\ primary = "failed" THEN "raised"
                   ELSE IF seen' = Expected THEN "over" ELSE "merging"
        /\ UNCHANGED <<primary, fetching, closed, output, shown, emitted>>
    BY <1>0, <1>5 DEF Count, broker, past, Takes, Marks
  <2>2. MarksInv
    BY <2>1 DEF EndInv
  <2>3. Number(Marks, bus) >= 1
    BY <1>0, <2>1, OnlyOne
  <2>4. primary # "on" /\ closed
    BY <2>2, <2>3 DEF MarksInv
  <2>5. /\ Number(Marks, bus') = Number(Marks, bus) - 1
        /\ bus' \in Seq(Queued) /\ Len(bus') = Len(bus) - 1
        /\ bus' # <<>> => bus'[Len(bus')] = bus[Len(bus)]
    BY <1>0, <2>1, NumberTail
  <2>6. CASE fetching
    <3>1. output # <<>> /\ output[Len(output)] = Stop /\ Number(Marks, output) = 1
          /\ seen + Number(Marks, bus) = Expected - 1
      BY <2>2, <2>4, <2>6 DEF MarksInv
    <3>2. seen' < Expected /\ seen' # Expected /\ seen' + Number(Marks, bus') = Expected - 1
      BY <1>0, <2>1, <2>3, <2>5, <3>1
    <3> QED
      BY <2>1, <2>4, <2>6, <3>1, <3>2 DEF EndInv, MarksInv
  <2>7. CASE ~fetching
    <3>1. output = <<>> /\ bus[Len(bus)] = Done /\ seen + Number(Marks, bus) = Expected
      BY <2>2, <2>4, <2>7 DEF MarksInv
    <3>2. seen' + Number(Marks, bus') = Expected
      BY <1>0, <2>1, <2>5, <3>1
    <3>3. CASE seen' = Expected
      <4>1. Number(Marks, bus) = 1
        BY <1>0, <2>1, <3>1, <3>3
      <4>2. Len(bus) = 1
        <5>1. bus[1] \in Marks /\ bus[Len(bus)] \in Marks
          BY <2>1, <3>1, ItemKinds
        <5> QED
          BY <1>0, <2>1, <4>1, <5>1, OnlyOne
      <4>3. bus' = <<>>
        BY <2>5, <4>2
      <4>4. Number(Said, bus') = 0 /\ Number(Said, output') = 0
        BY <2>1, <3>1, <4>3, NoneIn
      <4>5. Number(Said, bus) = Number(Said, bus')
        BY <1>0, <2>1, ItemKinds, NumberTail
      <4>6. Len(emitted) = Number(Said, shown) + Number(Said, bus) + Number(Said, output)
            /\ Number(Said, shown) \in Nat
        BY <2>1, QueueNumbers DEF FlowInv
      <4>7. Len(emitted) = Number(Said, shown)
        BY <2>1, <4>4, <4>5, <4>6
      <4> QED
        BY <2>1, <2>4, <3>1, <3>3, <4>3, <4>7 DEF EndInv
    <3>4. CASE seen' # Expected
      <4>1. Number(Marks, bus') # 0 /\ seen' < Expected
        <5>1. seen < Expected
          BY <2>1 DEF EndInv
        <5> QED
          BY <1>0, <2>1, <3>2, <3>4, <5>1
      <4>2. bus' # <<>>
        BY <4>1, NoneIn
      <4> QED
        BY <2>1, <2>4, <2>5, <2>7, <3>1, <3>2, <3>4, <4>1, <4>2 DEF EndInv, MarksInv
    <3> QED
      BY <3>3, <3>4
  <2> QED
    BY <2>6, <2>7
<1>6. CASE Yield
  <2>1. /\ pass = "merging" /\ Takes(bus, bus') /\ bus[1] = Head(bus) /\ Head(bus) \notin Marks
        /\ pass' \in {"merging", "interrupted"}
        /\ UNCHANGED <<primary, fetching, seen, closed, output, emitted>>
    BY <1>0, <1>6 DEF Yield, broker, Takes, Marks
  <2>2. /\ Number(Marks, bus') = Number(Marks, bus)
        /\ bus' \in Seq(Queued) /\ Len(bus') = Len(bus) - 1
        /\ bus' # <<>> => bus'[Len(bus')] = bus[Len(bus)]
    BY <1>0, <2>1, NumberTail
  <2>3. MarksInv /\ seen < Expected
    BY <2>1 DEF EndInv
  <2>4. primary # "on" /\ ~fetching => bus' # <<>>
    <3>1. ASSUME primary # "on", ~fetching, bus' = <<>>
          PROVE  FALSE
      <4>1. bus # <<>> /\ bus[Len(bus)] = Done /\ Len(bus) = 1
        BY <1>0, <2>2, <2>3, <3>1 DEF MarksInv
      <4> QED
        BY <2>1, <4>1, ItemKinds
    <3> QED
      BY <3>1
  <2> QED
    BY <2>1, <2>2, <2>3, <2>4 DEF EndInv, MarksInv
<1>7. CASE Interrupt \/ Cancel
  <2>1. /\ pass = "merging" /\ pass' \in {"merging", "interrupted"}
        /\ UNCHANGED <<primary, fetching, seen, closed, bus, output>>
    BY <1>7 DEF Interrupt, Cancel, broker
  <2> QED
    BY <2>1 DEF EndInv, MarksInv
<1>8. CASE CleanUp
  <2>1. /\ pass \in {"interrupted", "raised"} /\ pass' = "over"
        /\ primary' = IF primary = "on" THEN "off" ELSE primary
        /\ UNCHANGED seen
    BY <1>8 DEF CleanUp
  <2>2. primary' # "on" /\ ~(seen' = Expected /\ primary' = "finished")
    BY <1>0, <2>1 DEF EndInv
  <2> QED
    BY <2>1, <2>2 DEF EndInv
<1>9. ASSUME NEW how \in {"finished", "failed"}, PrimaryEnds(how)
      PROVE  EndInv'
  <2> DEFINE b == Append(bus, Stop)
  <2>1. /\ primary = "on" /\ primary' = how /\ closed' = TRUE
        /\ Adds(output, Stop, output') /\ Adds(bus, Stop, b) /\ Adds(b, Done, bus')
        /\ UNCHANGED <<pass, fetching, seen, shown, emitted>>
    BY <1>0, <1>9 DEF PrimaryEnds, past, Adds
  <2>2. Stop \in Queued /\ Done \in Queued /\ Stop \in Marks /\ Done \in Marks
    BY Items, ItemKinds
  <2> HIDE DEF b
  <2>3. b \in Seq(Queued) /\ Number(Marks, b) = Number(Marks, bus) + 1
    BY <1>0, <2>1, <2>2, NumberAppend
  <2>4. Number(Marks, bus') = Number(Marks, b) + 1
    BY <2>1, <2>2, <2>3, NumberAppend
  <2>5. Number(Marks, output') = Number(Marks, output) + 1
        /\ output' \in Seq(Queued) /\ Len(output') = Len(output) + 1 /\ output'[Len(output')] = Stop
    BY <1>0, <2>1, <2>2, NumberAppend
  <2>6. pass \notin {"off", "over", "raised"}
    BY <2>1 DEF EndInv
  <2>7. CASE pass = "merging"
    <3>1. fetching /\ seen = 0 /\ Number(Marks, bus) = 0 /\ Number(Marks, output) = 0
      BY <2>1, <2>7 DEF EndInv, MarksInv
    <3>2. /\ output' # <<>> /\ Number(Marks, output') = 1
          /\ seen + Number(Marks, bus') = Expected - 1
      BY <1>0, <2>3, <2>4, <2>5, <3>1
    <3> QED
      BY <1>0, <2>1, <2>5, <2>7, <3>1, <3>2 DEF EndInv, MarksInv
  <2>8. CASE pass # "merging"
    BY <2>1, <2>6, <2>8 DEF EndInv
  <2> QED
    BY <2>7, <2>8
<1>10. ASSUME NEW q \in Questions, Request(q)
       PROVE  EndInv'
  <2>1. UNCHANGED <<stream, closed, shown>>
        /\ ((Emit(Ask(q)) /\ ~closed) \/ UNCHANGED <<output, emitted>>)
    BY <1>10 DEF Request
  <2>2. Ask(q) \in Said
    BY ItemKinds
  <2>3. CASE UNCHANGED <<output, emitted>>
    BY <2>1, <2>3 DEF EndInv, MarksInv, stream
  <2> QED
    BY <2>1, <2>2, <2>3, EmitEnd
<1>11. ASSUME NEW q \in Questions, Submit(q)
       PROVE  EndInv'
  <2>1. UNCHANGED <<stream, closed, shown>>
        /\ ((Emit(Echo(q)) /\ ~closed) \/ UNCHANGED <<output, emitted>>)
    BY <1>11 DEF Submit
  <2>2. Echo(q) \in Said
    BY ItemKinds
  <2>3. CASE UNCHANGED <<output, emitted>>
    BY <2>1, <2>3 DEF EndInv, MarksInv, stream
  <2> QED
    BY <2>1, <2>2, <2>3, EmitEnd
<1>12. CASE (\E q \in Questions : Settle(q) \/ Resume(q)) \/ Rest \/ UNCHANGED vars
  <2>1. UNCHANGED <<stream, closed, output, shown, emitted>>
    BY <1>12 DEF Settle, Resume, Rest, vars, broker, past
  <2> QED
    BY <2>1 DEF EndInv, MarksInv, stream
<1> QED
  BY <1>1, <1>2, <1>3, <1>4, <1>5, <1>6, <1>7, <1>8, <1>9, <1>10, <1>11, <1>12 DEF Next

\* The items of the dialogue differ from each other.
LEMMA ItemsDiffer ==
    /\ \A q, r \in Questions :
           /\ Ask(q) # Echo(r) /\ Ask(q) # Other /\ Echo(q) # Other
           /\ Ask(q) = Ask(r) => q = r
           /\ Echo(q) = Echo(r) => q = r
BY DEF Ask, Echo, Other, Plain

\* OnceInv, when nothing was emitted.
LEMMA OnceSame ==
    ASSUME OnceInv, UNCHANGED emitted,
           \A q \in Questions : future[q] = "cancelled" => future'[q] = "cancelled",
           \A q \in Questions : request'[q] = "idle" <=> request[q] = "idle",
           pending' \subseteq pending, pending \subseteq Questions
    PROVE  OnceInv'
BY DEF OnceInv

\* OnceInv, when x was.
LEMMA OnceEmit ==
    ASSUME TypeOK, OnceInv, NEW x \in Said, Emit(x),
           \A q \in Questions : future[q] = "cancelled" => future'[q] = "cancelled",
           \A i \in DOMAIN emitted : emitted[i] = x => x = Other,
           \A q \in Questions : request[q] # "idle" => request'[q] # "idle",
           \A q \in Questions :
               /\ x = Ask(q) => request'[q] # "idle"
               /\ x = Echo(q) => request'[q] # "idle" /\ q \notin pending' /\ q \in pending
               /\ q \in pending' => q \in pending \/ x = Ask(q),
           pending' \subseteq Questions,
           \A q \in Questions : request[q] = "idle" => q \notin pending,
           \A q \in Questions, i \in DOMAIN emitted :
               emitted[i] = Echo(q) => q \notin pending'
    PROVE  OnceInv'
<1> DEFINE n == Len(emitted)
<1>0. /\ n \in Nat /\ DOMAIN emitted = 1..n
      /\ Len(emitted') = n + 1 /\ DOMAIN emitted' = 1..(n + 1)
      /\ \A i \in 1..n : emitted'[i] = emitted[i]
      /\ emitted'[n + 1] = x
  <2>1. emitted \in Seq(Shown) /\ emitted' = Append(emitted, x)
    BY DEF TypeOK, Emit
  <2> HIDE DEF Shown
  <2> QED
    BY <2>1
<1> HIDE DEF n, Said, Shown, Ask, Echo, Other
<1>1. \A i, j \in DOMAIN emitted' : emitted'[i] = emitted'[j] /\ emitted'[i] # Other => i = j
  <2> SUFFICES ASSUME NEW i \in 1..(n + 1), NEW j \in 1..(n + 1),
                      emitted'[i] = emitted'[j], emitted'[i] # Other
               PROVE  i = j
    BY <1>0
  <2>1. CASE i \in 1..n /\ j \in 1..n
    BY <1>0, <2>1 DEF OnceInv
  <2>2. CASE i = n + 1 /\ j \in 1..n
    BY <1>0, <2>2
  <2>3. CASE j = n + 1 /\ i \in 1..n
    BY <1>0, <2>3
  <2> QED
    BY <1>0, <2>1, <2>2, <2>3
<1>2. ASSUME NEW q \in Questions, NEW i \in 1..(n + 1)
      PROVE  /\ emitted'[i] = Ask(q) => request'[q] # "idle"
             /\ emitted'[i] = Echo(q) => request'[q] # "idle" /\ q \notin pending'
             /\ emitted'[i] = Echo(q) =>
                    \/ \E j \in 1..(i - 1) : emitted'[j] = Ask(q)
                    \/ future'[q] = "cancelled"
  <2>1. CASE i \in 1..n
    <3>1. \A j \in 1..(i - 1) : j \in 1..n
      BY <1>0, <2>1
    <3> QED
      BY <1>0, <2>1, <3>1 DEF OnceInv
  <2>2. CASE i = n + 1
    <3>1. ASSUME emitted'[i] = Echo(q)
          PROVE  (\E j \in 1..n : emitted'[j] = Ask(q)) \/ future'[q] = "cancelled"
      <4>1. q \in pending
        BY <1>0, <2>2, <3>1
      <4>2. (\E j \in 1..n : emitted[j] = Ask(q)) \/ future[q] = "cancelled"
        BY <1>0, <3>1, <4>1 DEF OnceInv
      <4> QED
        BY <1>0, <4>2
    <3>2. i - 1 = n
      BY <1>0, <2>2
    <3> QED
      BY <1>0, <2>2, <3>1, <3>2
  <2> QED
    BY <1>0, <2>1, <2>2
<1>3. ASSUME NEW q \in pending'
      PROVE  (\E j \in 1..(n + 1) : emitted'[j] = Ask(q)) \/ future'[q] = "cancelled"
  <2>1. CASE x = Ask(q)
    BY <1>0, <2>1
  <2>2. CASE x # Ask(q)
    <3>1. q \in pending /\ q \in Questions
      BY <1>3, <2>2
    <3>2. (\E j \in 1..n : emitted[j] = Ask(q)) \/ future[q] = "cancelled"
      BY <1>0, <1>3, <3>1 DEF OnceInv
    <3> QED
      BY <1>0, <3>1, <3>2
  <2> QED
    BY <2>1, <2>2
<1> QED
  BY <1>0, <1>1, <1>2, <1>3 DEF OnceInv

\* Every action keeps what a cut pass leaves behind.
LEMMA CutStep == TypeOK /\ AnswerInv /\ EndInv /\ CutInv /\ [Next]_vars => CutInv'
<1> SUFFICES ASSUME TypeOK, AnswerInv, EndInv, CutInv, [Next]_vars PROVE CutInv'
  OBVIOUS
<1> HIDE DEF Ask, Echo, Other, Action, Stop, Done, Said, Shown, Queued
<1>0. pending \subseteq Questions /\ \A q \in pending : request[q] = "waiting"
  BY DEF TypeOK, AnswerInv, AnswerOf
<1>1. CASE StartPass
  BY <1>1 DEF StartPass, CutInv
<1>2. CASE Send \/ Stream \/ Fetch \/ Interrupt \/ Rest \/ UNCHANGED vars
  <2>1. UNCHANGED <<pass, primary, closed, pending, future>>
    BY <1>2 DEF Send, Stream, Fetch, Interrupt, Rest, vars, stream, broker, asking
  <2> QED
    BY <2>1 DEF CutInv
<1>3. CASE Count \/ Yield \/ Cancel
  <2>1. UNCHANGED <<primary, closed, pending, future>> /\ pass = "merging"
    BY <1>3 DEF Count, Yield, Cancel, broker, asking
  <2> QED
    BY <2>1 DEF CutInv
<1>4. CASE CleanUp
  <2>1. /\ pass \in {"interrupted", "raised"} /\ pass' = "over" /\ UNCHANGED <<closed, pending>>
        /\ primary' = IF primary = "on" THEN "off" ELSE primary
        /\ \A q \in Questions : primary = "on" /\ request[q] = "waiting" => future'[q] = "cancelled"
    BY <1>4 DEF CleanUp, broker
  <2> QED
    BY <1>0, <2>1 DEF CutInv
<1>5. ASSUME NEW how \in {"finished", "failed"}, PrimaryEnds(how)
      PROVE  CutInv'
  BY <1>5 DEF PrimaryEnds, CutInv
<1>6. ASSUME NEW q \in Questions, Request(q)
      PROVE  CutInv'
  <2>1. UNCHANGED <<pass, primary, closed>> /\ primary \in {"on", "failed"}
    BY <1>6 DEF Request, ToolRuns, stream
  <2>2. closed => UNCHANGED pending
    BY <1>6 DEF Request
  <2> QED
    BY <2>1, <2>2 DEF CutInv
<1>7. ASSUME NEW q \in Questions, Submit(q) \/ Settle(q) \/ Resume(q)
      PROVE  CutInv'
  <2>1. /\ UNCHANGED <<pass, primary, closed>> /\ pending' \subseteq pending
        /\ \A r \in Questions : future[r] = "cancelled" => future'[r] = "cancelled"
    BY <1>7 DEF Submit, Settle, Resume, stream, broker, TypeOK
  <2> QED
    BY <1>0, <2>1 DEF CutInv
<1> QED
  BY <1>1, <1>2, <1>3, <1>4, <1>5, <1>6, <1>7 DEF Next

\* Every action keeps the items of the dialogue apart.
LEMMA OnceStep ==
    TypeOK /\ AnswerInv /\ EndInv /\ CutInv /\ OnceInv /\ [Next]_vars => OnceInv'
<1> SUFFICES ASSUME TypeOK, AnswerInv, EndInv, CutInv, OnceInv, [Next]_vars PROVE OnceInv'
  OBVIOUS
<1> HIDE DEF Ask, Echo, Other, Action, Stop, Done, Said, Shown, Queued
<1>0. /\ pending \subseteq Questions
      /\ \A q \in Questions : request[q] = "idle" => q \notin pending /\ future[q] = "none"
  BY DEF TypeOK, AnswerInv, LifeOf
<1>1. CASE StartPass
  <2>1. emitted' = <<>> /\ DOMAIN emitted' = {} /\ UNCHANGED <<pending, request, future>>
    BY <1>1 DEF StartPass, asking
  <2>2. \A q \in pending : future[q] = "cancelled"
    <3>1. pass \in {"off", "over"}
      BY <1>1 DEF StartPass
    <3>2. primary \in {"off", "finished", "failed"}
      BY <3>1 DEF TypeOK, EndInv
    <3> QED
      BY <3>2 DEF CutInv
  <2> QED
    BY <2>1, <2>2 DEF OnceInv
<1>2. CASE Send
  <2>1. Emit(Other) /\ UNCHANGED <<request, pending, future>>
    BY <1>2 DEF Send, asking
  <2>2. Other \in Said /\ \A q \in Questions : Ask(q) # Other /\ Echo(q) # Other
    BY ItemKinds, ItemsDiffer
  <2>3. \A q \in Questions, i \in DOMAIN emitted : emitted[i] = Echo(q) => q \notin pending
    BY DEF OnceInv
  <2> QED
    BY <1>0, <2>1, <2>2, <2>3, OnceEmit
<1>3. CASE Stream \/ Fetch \/ Count \/ Yield \/ Interrupt \/ Cancel
  <2>1. UNCHANGED <<emitted, request, pending, future>>
    BY <1>3 DEF Stream, Fetch, Count, Yield, Interrupt, Cancel, broker, asking, past
  <2> QED
    BY <1>0, <2>1, OnceSame
<1>4. CASE CleanUp
  <2>1. /\ UNCHANGED <<emitted, request, pending>>
        /\ \A q \in Questions : future[q] = "cancelled" => future'[q] = "cancelled"
    BY <1>4 DEF CleanUp, broker, past
  <2> QED
    BY <1>0, <2>1, OnceSame
<1>5. ASSUME NEW how \in {"finished", "failed"}, PrimaryEnds(how)
      PROVE  OnceInv'
  <2>1. UNCHANGED <<emitted, request, future>> /\ pending' = {}
    BY <1>5 DEF PrimaryEnds, past
  <2> QED
    BY <1>0, <2>1, OnceSame
<1>6. ASSUME NEW q \in Questions, Request(q)
      PROVE  OnceInv'
  <2>1. /\ request[q] = "idle"
        /\ \A r \in Questions : future[r] = "cancelled" => future'[r] = "cancelled"
    BY <1>0, <1>6 DEF Request, TypeOK
  <2>2. CASE closed
    <3>1. UNCHANGED <<emitted, pending>>
          /\ \A r \in Questions : request[r] # "idle" => request'[r] # "idle"
      BY <1>6, <2>2 DEF Request, TypeOK
    <3> QED
      BY <1>0, <2>1, <3>1 DEF OnceInv
  <2>3. CASE ~closed
    <3>1. Emit(Ask(q)) /\ pending' = pending \cup {q}
          /\ \A r \in Questions : request'[r] = IF r = q THEN "waiting" ELSE request[r]
      BY <1>6, <2>3 DEF Request, TypeOK
    <3>2. \A i \in DOMAIN emitted : emitted[i] # Ask(q) /\ emitted[i] # Echo(q)
      BY <2>1 DEF OnceInv
    <3>3. Ask(q) \in Said /\ \A r \in Questions : Ask(q) # Echo(r) /\ (Ask(q) = Ask(r) => q = r)
      BY ItemKinds, ItemsDiffer
    <3>4. \A r \in Questions, i \in DOMAIN emitted : emitted[i] = Echo(r) => r \notin pending'
      BY <3>1, <3>2 DEF OnceInv
    <3>5. \A r \in Questions :
               /\ request[r] # "idle" => request'[r] # "idle"
               /\ Ask(q) = Ask(r) => request'[r] # "idle"
               /\ r \in pending' => r \in pending \/ Ask(q) = Ask(r)
      BY <3>1, <3>3
    <3>6. pending' \subseteq Questions
      BY <1>0, <3>1
    <3> QED
      BY <1>0, <2>1, <3>1, <3>2, <3>3, <3>4, <3>5, <3>6, OnceEmit
  <2> QED
    BY <2>2, <2>3
<1>7. ASSUME NEW q \in Questions, Submit(q)
      PROVE  OnceInv'
  <2>1. /\ q \in pending /\ pending' = pending \ {q}
        /\ UNCHANGED <<request, future>>
    BY <1>7 DEF Submit
  <2>2. CASE closed
    <3>1. UNCHANGED emitted
      BY <1>7, <2>2 DEF Submit
    <3> QED
      BY <1>0, <2>1, <3>1, OnceSame
  <2>3. CASE ~closed
    <3>1. Emit(Echo(q)) /\ request[q] # "idle"
      BY <1>0, <1>7, <2>1, <2>3 DEF Submit
    <3>2. \A i \in DOMAIN emitted : emitted[i] # Echo(q)
      BY <2>1 DEF OnceInv
    <3>3. Echo(q) \in Said /\ \A r \in Questions : Ask(r) # Echo(q) /\ (Echo(q) = Echo(r) => q = r)
      BY ItemKinds, ItemsDiffer
    <3>4. \A r \in Questions, i \in DOMAIN emitted : emitted[i] = Echo(r) => r \notin pending'
      BY <2>1 DEF OnceInv
    <3>5. \A r \in Questions :
               /\ Echo(q) = Echo(r) => request'[r] # "idle" /\ r \notin pending' /\ r \in pending
               /\ r \in pending' => r \in pending
      BY <2>1, <3>1, <3>3
    <3>6. pending' \subseteq Questions
      BY <1>0, <2>1
    <3> QED
      BY <1>0, <2>1, <3>1, <3>2, <3>3, <3>4, <3>5, <3>6, OnceEmit
  <2> QED
    BY <2>2, <2>3
<1>8. ASSUME NEW q \in Questions, Settle(q) \/ Resume(q)
      PROVE  OnceInv'
  <2>1. /\ UNCHANGED emitted /\ pending' \subseteq pending
        /\ \A r \in Questions : future[r] = "cancelled" => future'[r] = "cancelled"
        /\ \A r \in Questions : request'[r] = "idle" <=> request[r] = "idle"
    BY <1>8 DEF Settle, Resume, stream, broker, past, TypeOK
  <2> QED
    BY <1>0, <2>1, OnceSame
<1>9. CASE Rest \/ UNCHANGED vars
  <2>1. UNCHANGED <<emitted, request, pending, future>>
    BY <1>9 DEF Rest, vars, stream, broker, asking, past
  <2> QED
    BY <1>0, <2>1, OnceSame
<1> QED
  BY <1>1, <1>2, <1>3, <1>4, <1>5, <1>6, <1>7, <1>8, <1>9 DEF Next

\* What a pass shows is what was queued and the primary's own actions.
LEMMA ShownCount ==
    ASSUME TypeOK
    PROVE  /\ Len(shown) = Number(Said, shown)
                           + Cardinality({i \in DOMAIN shown : shown[i] = Action})
           /\ \A i \in DOMAIN shown : shown[i] # Action =>
                  /\ i \in Of(Said, shown)
                  /\ Cardinality({j \in 1..i : shown[j] # Action}) = Rank(Said, shown, i)
<1> DEFINE P == Of(Said, shown)
           A == {i \in DOMAIN shown : shown[i] = Action}
<1>0. shown \in Seq(Shown) /\ DOMAIN shown = 1..Len(shown) /\ Len(shown) \in Nat
      /\ \A i \in 1..Len(shown) : shown[i] \in Shown
  <2>1. shown \in Seq(Shown)
    BY DEF TypeOK
  <2> HIDE DEF Shown
  <2> QED
    BY <2>1
<1>1. P \cup A = 1..Len(shown) /\ P \cap A = {}
  BY <1>0 DEF Of, Said
<1>2. IsFiniteSet(1..Len(shown)) /\ Cardinality(1..Len(shown)) = Len(shown)
  <2>1. IsFiniteSet(1..Len(shown))
        /\ Cardinality(1..Len(shown)) = IF 1 > Len(shown) THEN 0 ELSE Len(shown) - 1 + 1
    BY <1>0, FS_Interval
  <2> QED
    BY <1>0, <2>1
<1>3. IsFiniteSet(P) /\ IsFiniteSet(A)
  BY <1>1, <1>2, FS_Subset
<1>4. Cardinality(P \cup A) = Cardinality(P) + Cardinality(A)
  <2>1. Cardinality(P \cup A) = Cardinality(P) + Cardinality(A) - Cardinality(P \cap A)
    BY <1>3, FS_Union
  <2>2. Cardinality(P \cap A) = 0 /\ Cardinality(P) \in Nat /\ Cardinality(A) \in Nat
    BY <1>1, <1>3, FS_EmptySet, FS_CardinalityType
  <2> QED
    BY <2>1, <2>2
<1>5. ASSUME NEW i \in DOMAIN shown, shown[i] # Action
      PROVE  i \in P /\ {j \in 1..i : shown[j] # Action} = {j \in P : j <= i}
  BY <1>0, <1>5 DEF Of, Said
<1> QED
  BY <1>1, <1>2, <1>4, <1>5 DEF Number, Rank

\* The n-th item of the broker a pass has shown is the n-th the broker queued; no
\* question and no answer is shown twice; an answer follows its question, but for one
\* to a request an earlier pass cancelled; and a pass that ends without error,
\* interrupt or cancellation leaves nothing in its queues.
THEOREM DialogueCorrect == Spec => []DialogueShown
<1> DEFINE IInv == AnswerInv /\ FlowInv /\ EndInv /\ CutInv /\ OnceInv
<1>1. Init => IInv
  <2> SUFFICES ASSUME Init PROVE IInv
    OBVIOUS
  <2>1. AnswerInv
    BY DEF Init, AnswerInv, LifeOf, AnswerOf
  <2>2. FlowInv
    <3>1. Number(Said, shown) = 0 /\ Follows(Said, shown, emitted, 0) /\ pass # "merging"
      BY NoneIn DEF Init
    <3> QED
      BY <3>1 DEF FlowInv
  <2>3. EndInv
    BY DEF Init, EndInv
  <2>4. OnceInv
    <3>1. DOMAIN emitted = {}
      BY DEF Init
    <3> QED
      BY <3>1 DEF Init, OnceInv
  <2>5. CutInv
    BY DEF Init, CutInv
  <2> QED
    BY <2>1, <2>2, <2>3, <2>4, <2>5
<1>2. TypeOK /\ IInv /\ [Next]_vars => IInv'
  BY AnswerStep, FlowStep, EndStep, CutStep, OnceStep
<1>3. TypeOK /\ IInv => DialogueShown
  <2> SUFFICES ASSUME TypeOK, IInv PROVE DialogueShown
    OBVIOUS
  <2>1. ASSUME NEW i \in DOMAIN shown, shown[i] # Action
        PROVE  LET n == Cardinality({j \in 1..i : shown[j] # Action})
               IN  n <= Len(emitted) /\ shown[i] = emitted[n]
    <3> DEFINE n == Cardinality({j \in 1..i : shown[j] # Action})
    <3>1. i \in Of(Said, shown) /\ n = Rank(Said, shown, i)
      BY <2>1, ShownCount
    <3> HIDE DEF n
    <3>2. shown \in Seq(Queued)
      BY QueueNumbers
    <3>3. n \in 1..Number(Said, shown) /\ Number(Said, shown) \in Nat
      BY <3>1, <3>2, Counted
    <3>4. 0 + Number(Said, shown) <= Len(emitted) /\ shown[i] = emitted[0 + n]
      BY <3>1 DEF FlowInv, Follows
    <3>5. n <= Len(emitted) /\ shown[i] = emitted[n]
      <4>1. Len(emitted) \in Nat
        <5>1. emitted \in Seq(Queued)
          BY QueueNumbers
        <5> HIDE DEF Queued
        <5> QED
          BY <5>1
      <4> QED
        BY <3>3, <3>4, <4>1
    <3> QED
      BY <3>5 DEF n
  <2>2. DialogueInOrder
    BY <2>1 DEF DialogueInOrder, OnceInv
  <2>3. NormalEndShowsAll
    BY ShownCount DEF NormalEndShowsAll, EndInv
  <2> QED
    BY <2>2, <2>3 DEF DialogueShown
<1> HIDE DEF IInv
<1> QED
  BY <1>1, <1>2, <1>3, TypeCorrect, PTL DEF Spec

-----------------------------------------------------------------------------
(***************************************************************************)
(* The other place where the agent loop waits for its client: the channel  *)
(* of proxied tools, ToolResultChannel.  Until cancel_all() empties it,    *)
(* what a call's future says fixes where its tool is (FutureTellsTool);    *)
(* and once it has been emptied nobody publishes any more (EmptiedIsLast), *)
(* because the dispatch loop ends with it.                                 *)
(***************************************************************************)
EmptiedIsLast ==
    /\ running # "stdin" => reader = Channel!Over
    /\ running \in {"http", "kept"} => ~emptied
    /\ emptied => reader = Channel!Over

FutureTellsTool ==
    \A c \in Calls :
        /\ callFuture[c] = "absent" /\ ~emptied => tool[c] = "idle"
        /\ callFuture[c] = "pending" => tool[c] = "waiting"
        /\ callFuture[c] = "cancelled" => tool[c] = "failed"

ChannelInv ==
    /\ EmptiedIsLast /\ FutureTellsTool
    /\ Channel!TypeOK /\ Channel!WaiterRegistered /\ Channel!AcceptedKept

-----------------------------------------------------------------------------
\* What publish() does, as far as the invariant is concerned.
LEMMA PublishTypes ==
    ASSUME Channel!TypeOK, NEW c \in Calls, Channel!Publish(c)
    PROVE  /\ tool' \in [Calls -> {"idle", "waiting", "woken"} \cup Channel!Ended]
           /\ callFuture' \in [Calls -> {"absent", "pending", "result", "cancelled"}]
           /\ delivered' \in SUBSET Calls
BY DEF Channel!TypeOK, Channel!Publish, Channel!Ended

LEMMA ChannelTypeInit ==
    ASSUME MaxReports \in Nat
    PROVE  Channel!Init => Channel!TypeOK
<1>1. <<>> \in Seq(Calls) /\ 0 \in 0 .. MaxReports
  OBVIOUS
<1> QED BY <1>1 DEF Channel!Init, Channel!TypeOK, Channel!Ended

LEMMA ChannelTypeNext ==
    ASSUME MaxReports \in Nat
    PROVE  Channel!TypeOK /\ [Channel!Next]_(Channel!vars) => Channel!TypeOK'
<1> SUFFICES ASSUME Channel!TypeOK, [Channel!Next]_(Channel!vars) PROVE Channel!TypeOK'
  OBVIOUS
<1>1. ASSUME NEW c \in Calls, Channel!ToolStep(c) PROVE Channel!TypeOK'
  BY <1>1 DEF Channel!TypeOK, Channel!ToolStep, Channel!WaitFor, Channel!Resume, Channel!GiveUp,
              Channel!client, Channel!past, Channel!Ended
<1>2. ASSUME NEW c \in Calls, Channel!Post(c) PROVE Channel!TypeOK'
  <2>1. reports' \in 0 .. MaxReports
    BY <1>2 DEF Channel!TypeOK, Channel!Post
  <2> QED BY <1>2, <2>1, PublishTypes DEF Channel!TypeOK, Channel!Post
<1>3. ASSUME NEW c \in Calls, Channel!Write(c) PROVE Channel!TypeOK'
  <2>1. reports' \in 0 .. MaxReports
    BY <1>3 DEF Channel!TypeOK, Channel!Write
  <2>2. pipe' \in Seq(Calls)
    BY <1>3, AppendProperties DEF Channel!TypeOK, Channel!Write
  <2> QED BY <1>3, <2>1, <2>2 DEF Channel!TypeOK, Channel!Write, Channel!past
<1>4. CASE Channel!Close
  BY <1>4 DEF Channel!TypeOK, Channel!Close, Channel!past
<1>5. CASE Channel!ReadLine
  <2>1. ASSUME NEW n \in 1 .. Len(pipe), pipe' = SubSeq(pipe, n + 1, Len(pipe)),
               reader' = Channel!Line(Head(pipe))
        PROVE  pipe' \in Seq(Calls) /\ reader' \in {Channel!Line(c) : c \in Calls}
    <3>1. pipe \in Seq(Calls) /\ Len(pipe) \in Nat /\ pipe # <<>>
      BY <2>1, LenProperties DEF Channel!TypeOK
    <3>2. Head(pipe) \in Calls
      BY <3>1, HeadTailProperties
    <3>3. SubSeq(pipe, n + 1, Len(pipe)) \in Seq(Calls)
      BY <3>1
    <3> QED BY <2>1, <3>2, <3>3
  <2>2. /\ pipe' \in Seq(Calls)
        /\ reader' \in {Channel!Reading, Channel!Over, Channel!Eof} \cup {Channel!Line(c) : c \in Calls}
    BY <1>5, <2>1 DEF Channel!ReadLine, Channel!TypeOK
  <2> QED BY <1>5, <2>2 DEF Channel!ReadLine, Channel!TypeOK, Channel!past
<1>6. CASE Channel!Dispatch
  <2>1. CASE \E c \in Calls : Channel!Publish(c) /\ reader' = Channel!Reading
                                   /\ UNCHANGED <<emptied, dropped>>
    BY <1>6, <2>1, PublishTypes DEF Channel!TypeOK, Channel!Dispatch, Channel!client
  <2>2. CASE Channel!CancelAll /\ reader' = Channel!Over /\ UNCHANGED delivered
    BY <1>6, <2>2 DEF Channel!TypeOK, Channel!Dispatch, Channel!CancelAll, Channel!client,
                      Channel!Ended
  <2> QED BY <1>6, <2>1, <2>2 DEF Channel!Dispatch
<1>7. CASE Channel!RunEnds \/ Channel!Purge
  BY <1>7 DEF Channel!TypeOK, Channel!RunEnds, Channel!Purge, Channel!Calling, Channel!CancelAll,
              Channel!client, Channel!past, Channel!Ended
<1>8. CASE Channel!Finished \/ UNCHANGED Channel!vars
  BY <1>8 DEF Channel!TypeOK, Channel!Finished, Channel!vars, Channel!client, Channel!past
<1> QED BY <1>1, <1>2, <1>3, <1>4, <1>5, <1>6, <1>7, <1>8 DEF Channel!Next

\* The state has its shape: what a callFuture, a tool and the dispatch loop can be.
LEMMA ChannelTypeCorrect ==
    ASSUME MaxReports \in Nat
    PROVE  Channel!Spec => []Channel!TypeOK
BY ChannelTypeInit, ChannelTypeNext, PTL DEF Channel!Spec

-----------------------------------------------------------------------------
LEMMA PublishKeeps ==
    ASSUME ChannelInv, NEW c \in Calls, Channel!Publish(c), ~emptied,
           UNCHANGED <<running, emptied, dropped>>
    PROVE  FutureTellsTool' /\ Channel!WaiterRegistered' /\ Channel!AcceptedKept'
<1>1. CASE callFuture[c] \in {"result", "cancelled"}
  BY <1>1 DEF ChannelInv, Channel!TypeOK, Channel!Publish, FutureTellsTool,
              Channel!WaiterRegistered, Channel!AcceptedKept
<1>2. CASE callFuture[c] \notin {"result", "cancelled"}
  <2>1. /\ callFuture' = [callFuture EXCEPT ![c] = "result"]
        /\ tool' = [tool EXCEPT ![c] = IF @ = "waiting" THEN "woken" ELSE @]
        /\ delivered' = delivered \cup {c}
    BY <1>2 DEF Channel!Publish
  <2>2. tool[c] \in {"idle", "waiting"}
    BY <1>2 DEF ChannelInv, Channel!TypeOK, FutureTellsTool
  <2> QED BY <2>1, <2>2 DEF ChannelInv, Channel!TypeOK, FutureTellsTool, Channel!WaiterRegistered,
                            Channel!AcceptedKept
<1> QED BY <1>1, <1>2

LEMMA ChannelInit ==
    ASSUME MaxReports \in Nat
    PROVE  Channel!Init => ChannelInv
BY ChannelTypeInit DEF Channel!Init, ChannelInv, EmptiedIsLast, FutureTellsTool,
                       Channel!WaiterRegistered, Channel!AcceptedKept

LEMMA ChannelNext ==
    ASSUME MaxReports \in Nat
    PROVE  ChannelInv /\ [Channel!Next]_(Channel!vars) => ChannelInv'
<1> SUFFICES ASSUME ChannelInv, [Channel!Next]_(Channel!vars) PROVE ChannelInv'
  OBVIOUS
<1>1. Channel!TypeOK'
  BY ChannelTypeNext DEF ChannelInv
<1>2. EmptiedIsLast'
  BY DEF ChannelInv, EmptiedIsLast, Channel!Next, Channel!ToolStep, Channel!WaitFor,
         Channel!Resume, Channel!GiveUp, Channel!Post, Channel!Write, Channel!Close,
         Channel!ReadLine, Channel!Dispatch, Channel!CancelAll, Channel!RunEnds, Channel!Purge,
         Channel!Calling, Channel!Finished, Channel!vars, Channel!client, Channel!past,
         Channel!Reading, Channel!Over, Channel!Eof, Channel!Line
<1>3. FutureTellsTool' /\ Channel!WaiterRegistered' /\ Channel!AcceptedKept'
  <2>1. ASSUME NEW c \in Calls, Channel!ToolStep(c)
        PROVE  FutureTellsTool' /\ Channel!WaiterRegistered' /\ Channel!AcceptedKept'
    <3>1. CASE Channel!WaitFor(c)
      <4>1. CASE callFuture[c] = "absent"
        <5>1. /\ callFuture' = [callFuture EXCEPT ![c] = "pending"]
              /\ tool' = [tool EXCEPT ![c] = "waiting"]
              /\ tool[c] = "idle" /\ running # "over"
              /\ UNCHANGED <<running, delivered, emptied, dropped>>
          BY <3>1, <4>1 DEF Channel!WaitFor, Channel!Calling, Channel!past
        <5>2. FutureTellsTool'
          BY <4>1, <5>1 DEF ChannelInv, Channel!TypeOK, FutureTellsTool
        <5>3. Channel!WaiterRegistered'
          BY <4>1, <5>1 DEF ChannelInv, Channel!TypeOK, Channel!WaiterRegistered
        <5>4. Channel!AcceptedKept'
          BY <4>1, <5>1 DEF ChannelInv, Channel!TypeOK, Channel!AcceptedKept
        <5> QED BY <5>2, <5>3, <5>4
      <4>2. CASE callFuture[c] = "result"
        <5>1. /\ tool' = [tool EXCEPT ![c] = "value"]
              /\ tool[c] = "idle"
              /\ UNCHANGED <<callFuture, running, delivered, emptied, dropped>>
          BY <3>1, <4>2 DEF Channel!WaitFor, Channel!past
        <5> QED
          BY <4>2, <5>1 DEF ChannelInv, Channel!TypeOK, FutureTellsTool,
                            Channel!WaiterRegistered, Channel!AcceptedKept
      <4> QED BY <3>1, <4>1, <4>2 DEF Channel!WaitFor
    <3>2. CASE Channel!Resume(c)
      BY <3>2 DEF ChannelInv, Channel!TypeOK, FutureTellsTool, Channel!WaiterRegistered,
                  Channel!AcceptedKept, Channel!Resume, Channel!past
    <3>3. CASE Channel!GiveUp(c)
      <4>1. FutureTellsTool' /\ Channel!WaiterRegistered'
        BY <3>3 DEF ChannelInv, Channel!TypeOK, FutureTellsTool, Channel!WaiterRegistered,
                    Channel!GiveUp, Channel!past
      <4>2. Channel!AcceptedKept'
        BY <3>3 DEF ChannelInv, Channel!TypeOK, FutureTellsTool, Channel!AcceptedKept,
                    Channel!GiveUp, Channel!past
      <4> QED BY <4>1, <4>2
    <3> QED BY <2>1, <3>1, <3>2, <3>3 DEF Channel!ToolStep
  <2>2. ASSUME NEW c \in Calls, Channel!Post(c)
        PROVE  FutureTellsTool' /\ Channel!WaiterRegistered' /\ Channel!AcceptedKept'
    BY <2>2, PublishKeeps DEF Channel!Post, ChannelInv, EmptiedIsLast
  <2>3. CASE Channel!Close \/ Channel!ReadLine \/ \E c \in Calls : Channel!Write(c)
    BY <2>3 DEF ChannelInv, FutureTellsTool, Channel!WaiterRegistered, Channel!AcceptedKept,
                Channel!Close, Channel!ReadLine, Channel!Write, Channel!past
  <2>4. CASE Channel!Dispatch
    <3>1. ASSUME NEW c \in Calls, reader = Channel!Line(c), Channel!Publish(c),
                 UNCHANGED <<running, emptied, dropped>>
          PROVE  FutureTellsTool' /\ Channel!WaiterRegistered' /\ Channel!AcceptedKept'
      BY <3>1, PublishKeeps DEF ChannelInv, EmptiedIsLast, Channel!Line, Channel!Over
    <3>2. CASE Channel!CancelAll /\ reader = Channel!Eof /\ UNCHANGED <<running, delivered>>
      BY <3>2 DEF ChannelInv, Channel!TypeOK, EmptiedIsLast, FutureTellsTool,
                  Channel!WaiterRegistered, Channel!AcceptedKept, Channel!CancelAll
    <3>3. UNCHANGED running
      BY <2>4 DEF Channel!Dispatch
    <3> QED BY <2>4, <3>1, <3>2, <3>3 DEF Channel!Dispatch
  <2>5. CASE Channel!RunEnds
    BY <2>5 DEF ChannelInv, Channel!TypeOK, Channel!past, EmptiedIsLast, FutureTellsTool,
                Channel!WaiterRegistered, Channel!AcceptedKept, Channel!CancelAll, Channel!RunEnds,
                Channel!Calling
  <2>7. CASE Channel!Purge
    BY <2>7 DEF ChannelInv, EmptiedIsLast, FutureTellsTool, Channel!WaiterRegistered,
                Channel!AcceptedKept, Channel!Purge, Channel!past
  <2>6. CASE Channel!Finished \/ UNCHANGED Channel!vars
    BY <2>6 DEF ChannelInv, FutureTellsTool, Channel!WaiterRegistered, Channel!AcceptedKept,
                Channel!Finished, Channel!vars, Channel!past
  <2> QED BY <2>1, <2>2, <2>3, <2>4, <2>5, <2>6, <2>7 DEF Channel!Next
<1> QED BY <1>1, <1>2, <1>3 DEF ChannelInv

LEMMA ChannelCorrect ==
    ASSUME MaxReports \in Nat
    PROVE  Channel!Spec => []ChannelInv
BY ChannelInit, ChannelNext, PTL DEF Channel!Spec

\* For any number of calls and reports: a tool that waits can still be answered and print
\* mode leaves none waiting behind; and an accepted report, early or not, is there for its
\* tool, also when it comes after the run, unless cancel_all() forgot it before the tool
\* asked or the tool was cancelled over it (publish, wait_for, cancel_all).
THEOREM ChannelSoundCorrect == ToolsSpec => []ChannelSound
<1>1. MaxReports \in Nat
  BY ChannelAssumption DEF Channel!ChannelConstants
<1>2. ChannelInv => ChannelSound
  BY DEF ChannelInv, ChannelSound, Channel!ChannelSound
<1> QED BY <1>1, <1>2, ChannelCorrect, PTL DEF ToolsSpec

\* No report is accepted for a call whose tool has given up or returned, however late
\* the route finds the run (publish, submit_tool_result).
THEOREM InTimeCorrect == ToolsSpec => AcceptedInTime
<1>1. MaxReports \in Nat
  BY ChannelAssumption DEF Channel!ChannelConstants
<1>2. ChannelInv /\ [Channel!Next]_(Channel!vars) => 
        [\A c \in delivered' \ delivered : tool[c] \in {"idle", "waiting"}]_(Channel!vars)
  <2> SUFFICES ASSUME ChannelInv, Channel!Next, NEW c \in delivered', c \notin delivered
               PROVE  tool[c] \in {"idle", "waiting"}
    OBVIOUS
  <2>1. c \in Calls
    BY <1>1, ChannelTypeNext DEF ChannelInv, Channel!TypeOK
  <2>2. Channel!Publish(c) /\ ~emptied
    BY DEF Channel!Next, Channel!ToolStep, Channel!WaitFor, Channel!Resume, Channel!GiveUp,
           Channel!Post, Channel!Write, Channel!Close, Channel!ReadLine, Channel!Dispatch,
           Channel!Publish,
           Channel!RunEnds, Channel!Purge, Channel!Finished, Channel!vars, Channel!client, Channel!past,
           ChannelInv, EmptiedIsLast, Channel!Over, Channel!Line, Channel!Eof
  <2>3. callFuture[c] \in {"absent", "pending"}
    BY <2>1, <2>2 DEF Channel!Publish, ChannelInv, Channel!TypeOK
  <2> QED BY <2>1, <2>2, <2>3 DEF ChannelInv, FutureTellsTool
<1> QED
  BY <1>1, <1>2, ChannelCorrect, PTL
     DEF ToolsSpec, Channel!Spec, AcceptedInTime, Channel!AcceptedInTime
=============================================================================
