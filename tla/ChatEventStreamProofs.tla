----------------------- MODULE ChatEventStreamProofs -----------------------
(***************************************************************************)
(* Proofs about ChatEventStream, for every number of clients, every way of *)
(* reconnecting, every window and every bound, and about _coalesce_deltas  *)
(* for buffers of every length.                                            *)
(***************************************************************************)
EXTENDS MCChatEventStream, SequenceTheorems, FiniteSetTheorems,
        WellFoundedInduction, TLAPS

-----------------------------------------------------------------------------
\* Least-number principle, from the well-foundedness of finite sets: of the
\* initial segments 0..n of the members, one contains no other.
LEMMA LeastNatural ==
  ASSUME NEW S \in SUBSET Nat, S # {}
  PROVE  \E m \in S : \A k \in S : m <= k
<1> DEFINE seg == {0..n : n \in S}
<1>1. seg \subseteq FiniteSubsetsOf(Nat)
  <2> SUFFICES ASSUME NEW n \in S PROVE 0..n \in FiniteSubsetsOf(Nat)
    OBVIOUS
  <2>1. IsFiniteSet(0..n)
    BY FS_Interval
  <2> QED BY <2>1 DEF FiniteSubsetsOf
<1>2. seg # {}
  OBVIOUS
<1>3. IsWellFoundedOn(StrictSubsetOrdering(Nat), FiniteSubsetsOf(Nat))
  BY FS_StrictSubsetOrderingWellFounded
<1> HIDE DEF seg
<1>4. PICK x \in seg : \A y \in seg : ~(<<y, x>> \in StrictSubsetOrdering(Nat))
  BY <1>1, <1>2, <1>3, WFMin, Zenon
<1>5. PICK m \in S : x = 0..m
  BY DEF seg
<1>6. ASSUME NEW k \in S PROVE m <= k
  <2>1. 0..k \in seg
    BY DEF seg
  <2>2. ~(<<0..k, 0..m>> \in StrictSubsetOrdering(Nat))
    BY <1>4, <1>5, <2>1
  <2>3. ~(0..k \subseteq 0..m) \/ 0..k = 0..m
    BY <2>2 DEF StrictSubsetOrdering
  <2> SUFFICES ASSUME k < m PROVE FALSE
    OBVIOUS
  <2>4. 0..k \subseteq 0..m
    OBVIOUS
  <2>5. m \in 0..m /\ m \notin 0..k
    OBVIOUS
  <2> QED BY <2>3, <2>4, <2>5
<1> QED BY <1>6

\* A piece that starts at an available position ends at one.
LEMMA RunEndInRange ==
  ASSUME NEW evs, NEW lo \in Nat, NEW hi \in Nat, lo <= hi
  PROVE  RunEnd(evs, lo, hi) \in lo..hi
<1> DEFINE stops == {e \in lo..hi : e = hi \/ ~Joined(evs, e)}
<1>1. stops \in SUBSET Nat /\ hi \in stops
  OBVIOUS
<1>2. PICK m \in stops : \A k \in stops : m <= k
  BY <1>1, LeastNatural
<1>3. ASSUME NEW i \in lo..(m - 1) PROVE Joined(evs, i)
  BY <1>2
<1>4. m \in lo..hi /\ (m < hi => ~Joined(evs, m))
  BY <1>2
<1>5. \E e \in lo..hi : /\ \A i \in lo..(e - 1) : Joined(evs, i)
                        /\ e < hi => ~Joined(evs, e)
  BY <1>3, <1>4
<1> QED BY <1>5 DEF RunEnd

-----------------------------------------------------------------------------
\* Types.

LEMMA TypeInit == Init => TypeOK
  BY StreamAssumption DEF Init, TypeOK, Kinds, Piece

LEMMA NotifiedType ==
  ASSUME TypeOK
  PROVE  Notified \in [Clients -> {"closed", "waiting", "notified", "sending", "over"}]
  BY DEF TypeOK, Notified

LEMMA PollType ==
  ASSUME TypeOK, NEW c \in Clients, NEW k \in 0..MaxEvents, Poll(c, k)
  PROVE  /\ cursor' \in [Clients -> 0..MaxEvents]
         /\ pos' \in [Clients -> 0..MaxEvents]
         /\ phase' \in [Clients -> {"closed", "waiting", "notified", "sending", "over"}]
         /\ upto' \in [Clients -> 0..MaxEvents]
         /\ is_done' \in [Clients -> BOOLEAN]
<1>1. Len(events) \in 0..MaxEvents
  BY LenProperties, StreamAssumption DEF TypeOK
<1>2. /\ cursor' \in [Clients -> 0..MaxEvents]
      /\ pos' \in [Clients -> 0..MaxEvents]
      /\ phase' \in [Clients -> {"closed", "waiting", "notified", "sending", "over"}]
      /\ upto' \in [Clients -> 0..MaxEvents]
  BY <1>1 DEF Poll, TypeOK
<1>3. is_done' \in [Clients -> BOOLEAN]
  BY DEF Poll, TypeOK
<1> QED BY <1>2, <1>3

LEMMA StartType ==
  ASSUME TypeOK, NEW c \in Clients, NEW how \in Resumes
  PROVE  StartFrom(c, how) \in 0..MaxEvents
<1>1. got[c] \in Seq(Piece) /\ consumer_offset \in 0..MaxEvents /\ MaxEvents \in Nat
  BY StreamAssumption DEF TypeOK
<1>2. NextId(c) \in 0..MaxEvents
  <2>1. CASE got[c] = <<>>
    BY <1>1, <2>1 DEF NextId
  <2>2. CASE got[c] # <<>>
    <3>1. Len(got[c]) \in 1..Len(got[c])
      BY <1>1, <2>2, LenProperties, EmptySeq
    <3>2. got[c][Len(got[c])] \in Piece
      BY <1>1, <3>1, ElementOfSeq
    <3> QED BY <1>1, <2>2, <3>2 DEF NextId, Piece
  <2> QED BY <2>1, <2>2
<1> QED BY <1>1, <1>2 DEF StartFrom

LEMMA TypeNext == TypeOK /\ [Next]_vars => TypeOK'
<1> SUFFICES ASSUME TypeOK, [Next]_vars PROVE TypeOK'
  OBVIOUS
<1> USE StreamAssumption
<1>1. ASSUME NEW kind \in Kinds, Push(kind) PROVE TypeOK'
  <2>1. /\ events' \in Seq(Kinds) /\ Len(events') = Len(events) + 1
        /\ Len(events) < MaxEvents /\ Len(events) \in Nat
    BY <1>1, AppendProperties, LenProperties DEF Push, TypeOK
  <2>2. phase' \in [Clients -> {"closed", "waiting", "notified", "sending", "over"}]
    BY <1>1, NotifiedType DEF Push
  <2>3. /\ Len(events') <= MaxEvents
        /\ UNCHANGED <<status, consumer_offset, cursor, upto, pos, is_done, client>>
    BY <1>1, <2>1 DEF Push
  <2> QED BY <2>1, <2>2, <2>3 DEF TypeOK, client
<1>2. ASSUME NEW said \in BOOLEAN, End(said) PROVE TypeOK'
  <2>1. events' \in Seq(Kinds) /\ Len(events') <= MaxEvents
    <3>1. CASE said
      <4>1. Whole \in Kinds /\ events' = Append(events, Whole) /\ Len(events) < MaxEvents
        BY <1>2, <3>1 DEF End, Kinds
      <4>2. /\ events' \in Seq(Kinds) /\ Len(events') = Len(events) + 1
            /\ Len(events) \in Nat
        BY <4>1, AppendProperties, LenProperties DEF TypeOK
      <4> QED BY <4>1, <4>2
    <3>2. CASE ~said
      BY <1>2, <3>2 DEF End, TypeOK
    <3> QED BY <3>1, <3>2
  <2>2. phase' \in [Clients -> {"closed", "waiting", "notified", "sending", "over"}]
    BY <1>2, NotifiedType DEF End
  <2>3. /\ status' = "ended"
        /\ UNCHANGED <<consumer_offset, cursor, upto, pos, is_done, client>>
    BY <1>2 DEF End
  <2> QED BY <2>1, <2>2, <2>3 DEF TypeOK, client
<1>3. ASSUME NEW c \in Clients, NEW how \in Resumes, Connect(c, how) PROVE TypeOK'
  <2>1. StartFrom(c, how) \in 0..MaxEvents
    BY StartType
  <2>2. Poll(c, StartFrom(c, how))
    BY <1>3 DEF Connect
  <2>3. /\ connects' \in [Clients -> 0..MaxConnects]
        /\ from' \in [Clients -> 0..MaxEvents]
        /\ UNCHANGED <<source, consumer_offset, sent, read, got>>
    BY <1>3, <2>1 DEF Connect, TypeOK
  <2> QED BY <2>1, <2>2, <2>3, PollType DEF TypeOK, source
<1>4. ASSUME NEW c \in Clients, Wake(c) PROVE TypeOK'
  <2>1. cursor[c] \in 0..MaxEvents
    BY DEF TypeOK
  <2>2. Poll(c, cursor[c]) /\ UNCHANGED <<source, consumer_offset, client>>
    BY <1>4 DEF Wake
  <2> QED BY <2>1, <2>2, PollType DEF TypeOK, source, client
<1>5. ASSUME NEW c \in Clients, Heartbeat(c) PROVE TypeOK'
  BY <1>5 DEF Heartbeat, TypeOK, source, client
<1>6. ASSUME NEW c \in Clients, Yield(c) PROVE TypeOK'
  <2> DEFINE hi == RunEnd(events, pos[c] + 1, upto[c])
             piece == [lo |-> pos[c] + 1, hi |-> hi]
  <2>1. /\ pos[c] \in Nat /\ upto[c] \in 0..MaxEvents /\ pos[c] < upto[c]
        /\ sent' = [sent EXCEPT ![c] = Append(sent[c], piece)]
        /\ pos' = [pos EXCEPT ![c] = hi]
        /\ sent[c] \in Seq(Piece)
    BY <1>6 DEF Yield, TypeOK
  <2>2. hi \in (pos[c] + 1)..upto[c]
    BY <2>1, RunEndInRange
  <2> HIDE DEF hi
  <2>3. piece \in Piece /\ hi \in 0..MaxEvents
    BY <2>1, <2>2 DEF Piece
  <2> HIDE DEF piece
  <2>4. Append(sent[c], piece) \in Seq(Piece)
    BY <2>1, <2>3, AppendProperties
  <2>5. sent' \in [Clients -> Seq(Piece)] /\ pos' \in [Clients -> 0..MaxEvents]
    BY <2>1, <2>3, <2>4 DEF TypeOK
  <2>6. UNCHANGED <<source, consumer_offset, phase, cursor, upto, is_done, read, got,
                    from, connects>>
    BY <1>6 DEF Yield
  <2> QED BY <2>5, <2>6 DEF TypeOK, source
<1>7. ASSUME NEW c \in Clients, BatchDone(c) PROVE TypeOK'
  <2>1. upto[c] \in 0..MaxEvents
    BY DEF TypeOK
  <2>2. consumer_offset' \in 0..MaxEvents /\ UNCHANGED <<source, client>>
    BY <1>7, <2>1 DEF BatchDone, Advanced
  <2>3. CASE is_done[c] /\ upto[c] >= Len(events)
    <3>1. /\ phase' = [phase EXCEPT ![c] = "over"]
          /\ cursor' = [cursor EXCEPT ![c] = upto[c]]
          /\ UNCHANGED <<upto, pos, is_done>>
      BY <1>7, <2>3 DEF BatchDone, Advanced
    <3> QED BY <2>1, <2>2, <3>1 DEF TypeOK, source, client
  <2>4. CASE ~(is_done[c] /\ upto[c] >= Len(events))
    <3>1. Poll(c, upto[c])
      BY <1>7, <2>4 DEF BatchDone, Advanced
    <3> QED BY <2>1, <2>2, <3>1, PollType DEF TypeOK, source, client
  <2> QED BY <2>3, <2>4
<1>8. ASSUME NEW c \in Clients, Receive(c) PROVE TypeOK'
  <2>1. /\ sent[c] \in Seq(Piece) /\ got[c] \in Seq(Piece)
        /\ read[c] \in Nat /\ read[c] < Len(sent[c])
        /\ got' = [got EXCEPT ![c] = Append(got[c], sent[c][read[c] + 1])]
        /\ read' = [read EXCEPT ![c] = read[c] + 1]
    BY <1>8 DEF Receive, TypeOK
  <2>2. sent[c][read[c] + 1] \in Piece
    BY <2>1, LenProperties, ElementOfSeq
  <2>3. Append(got[c], sent[c][read[c] + 1]) \in Seq(Piece)
    BY <2>1, <2>2, AppendProperties
  <2>4. got' \in [Clients -> Seq(Piece)] /\ read' \in [Clients -> Nat]
    BY <2>1, <2>3 DEF TypeOK
  <2>5. UNCHANGED <<source, consumer_offset, gen, sent, from, connects>>
    BY <1>8 DEF Receive
  <2> QED BY <2>4, <2>5 DEF TypeOK, source, gen
<1>9. ASSUME NEW c \in Clients, Disconnect(c) PROVE TypeOK'
  <2>1. <<>> \in Seq(Piece)
    BY EmptySeq
  <2>2. sent' \in [Clients -> Seq(Piece)] /\ read' \in [Clients -> Nat]
    BY <1>9, <2>1 DEF Disconnect, TypeOK
  <2>3. phase' \in [Clients -> {"closed", "waiting", "notified", "sending", "over"}]
    BY <1>9 DEF Disconnect, TypeOK
  <2>4. UNCHANGED <<source, consumer_offset, cursor, upto, pos, is_done, got,
                    from, connects>>
    BY <1>9 DEF Disconnect
  <2> QED BY <2>2, <2>3, <2>4 DEF TypeOK, source
<1>10. ASSUME UNCHANGED vars PROVE TypeOK'
  BY <1>10 DEF TypeOK, vars, source, gen, client
<1> QED BY <1>1, <1>2, <1>3, <1>4, <1>5, <1>6, <1>7, <1>8, <1>9, <1>10 DEF Next, Quiet

\* The type invariant, for every value of the constants.
LEMMA TypeCorrect == Spec => []TypeOK
  BY TypeInit, TypeNext, PTL DEF Spec

-----------------------------------------------------------------------------
\* The pieces of a connection tile the buffer.

\* Where a suspended generator stands.  A waiting one has nothing left to send;
\* one that saw the run over does not forget it.
Placed(c) ==
    /\ phase[c] = "closed" => sent[c] = <<>>
    /\ phase[c] # "closed" => cursor[c] <= Len(events) /\ pos[c] <= Len(events)
    /\ phase[c] \in {"waiting", "notified", "over"} => pos[c] = cursor[c]
    /\ phase[c] = "waiting" => status = "running" /\ cursor[c] = Len(events)
    /\ phase[c] = "sending" =>
           /\ pos[c] <= upto[c] /\ upto[c] <= Len(events)
           /\ is_done[c] => status = "ended"
    /\ phase[c] = "over" => status = "ended" /\ cursor[c] = Len(events)

\* ConnectionTiles, of one client.
Tiled(c) ==
    phase[c] # "closed" =>
        /\ \A i \in 1..(Len(sent[c]) - 1) : sent[c][i + 1].lo = sent[c][i].hi + 1
        /\ IF Len(sent[c]) = 0 THEN pos[c] = from[c]
           ELSE sent[c][1].lo = from[c] + 1 /\ sent[c][Len(sent[c])].hi = pos[c]

\* Nothing is sent or resumed from beyond the buffer.
Behind(c) ==
    /\ \A i \in 1..Len(sent[c]) : sent[c][i].lo <= Len(events)
    /\ \A i \in 1..Len(got[c]) : got[c][i].lo <= Len(events)

StreamInv ==
    /\ consumer_offset <= Len(events)
    /\ \A c \in Clients : Placed(c) /\ Tiled(c) /\ Behind(c)

LEMMA StreamInit == Init => StreamInv
<1> SUFFICES ASSUME Init PROVE StreamInv
  OBVIOUS
<1>1. Len(events) = 0 /\ \A c \in Clients : Len(sent[c]) = 0 /\ Len(got[c]) = 0
  BY EmptySeq DEF Init
<1> QED BY <1>1 DEF Init, StreamInv, Placed, Tiled, Behind

\* The buffer grew or its run ended: waiting generators are notified, the
\* others stand where they stood.
LEMMA SourceMoves ==
  ASSUME TypeOK, StreamInv, phase' = Notified,
         Len(events') \in Nat, Len(events) <= Len(events'),
         status = "running",
         UNCHANGED <<consumer_offset, cursor, upto, pos, is_done, client>>
  PROVE  StreamInv'
<1>1. Len(events) \in Nat /\ consumer_offset \in Nat
  BY LenProperties DEF TypeOK
<1> SUFFICES ASSUME NEW c \in Clients PROVE (Placed(c) /\ Tiled(c) /\ Behind(c))'
  BY <1>1 DEF StreamInv
<1>2. Placed(c) /\ Tiled(c) /\ Behind(c)
  BY DEF StreamInv
<1>3. /\ phase'[c] = IF phase[c] = "waiting" THEN "notified" ELSE phase[c]
      /\ cursor[c] \in Nat /\ pos[c] \in Nat /\ upto[c] \in Nat
      /\ \A i \in 1..Len(sent[c]) : sent[c][i].lo \in Nat
      /\ \A i \in 1..Len(got[c]) : got[c][i].lo \in Nat
  <2>1. sent[c] \in Seq(Piece) /\ got[c] \in Seq(Piece)
    BY DEF TypeOK
  <2>1a. \A p \in Piece : p.lo \in Nat
    BY StreamAssumption DEF Piece
  <2>1b. /\ \A i \in 1..Len(sent[c]) : sent[c][i] \in Piece
         /\ \A i \in 1..Len(got[c]) : got[c][i] \in Piece
    BY <2>1, ElementOfSeq
  <2>2. /\ \A i \in 1..Len(sent[c]) : sent[c][i].lo \in Nat
        /\ \A i \in 1..Len(got[c]) : got[c][i].lo \in Nat
    BY <2>1a, <2>1b
  <2> QED BY <2>2, StreamAssumption DEF TypeOK, Notified
<1>4. Placed(c)'
  BY <1>1, <1>2, <1>3 DEF Placed, client
<1>5. Tiled(c)'
  BY <1>2, <1>3 DEF Tiled, client
<1>6. Behind(c)'
  BY <1>1, <1>2, <1>3 DEF Behind, client
<1> QED BY <1>4, <1>5, <1>6

\* The head of the loop leaves the generator well placed, at its cursor.
LEMMA PollPlaces ==
  ASSUME TypeOK, NEW c \in Clients, NEW k \in 0..MaxEvents, k <= Len(events),
         Poll(c, k), UNCHANGED source
  PROVE  /\ phase'[c] # "closed" /\ pos'[c] = k
         /\ Placed(c)'
         /\ \A u \in Clients \ {c} :
               UNCHANGED <<phase[u], cursor[u], pos[u], upto[u], is_done[u]>>
<1>1. Len(events) \in Nat /\ k \in Nat /\ UNCHANGED <<events, status>>
  BY LenProperties, StreamAssumption DEF TypeOK, source
<1>2. cursor'[c] = k /\ pos'[c] = k
  BY DEF Poll, TypeOK
<1>3. \A u \in Clients \ {c} : cursor'[u] = cursor[u] /\ pos'[u] = pos[u]
  BY DEF Poll, TypeOK
<1>4. CASE k >= Len(events) /\ status = "running"
  <2>1. phase' = [phase EXCEPT ![c] = "waiting"] /\ UNCHANGED <<upto, is_done>>
    BY <1>4 DEF Poll
  <2>2. phase'[c] = "waiting" /\ \A u \in Clients \ {c} : phase'[u] = phase[u]
    BY <2>1 DEF TypeOK
  <2> QED BY <1>1, <1>2, <1>3, <1>4, <2>1, <2>2 DEF Placed
<1>5. CASE ~(k >= Len(events) /\ status = "running")
  <2>1. /\ phase' = [phase EXCEPT ![c] = "sending"]
        /\ upto' = [upto EXCEPT ![c] = IF k < Len(events) THEN Len(events) ELSE k]
        /\ is_done' = [is_done EXCEPT ![c] = status # "running"]
    BY <1>5 DEF Poll
  <2>2. phase'[c] = "sending" /\ \A u \in Clients \ {c} : phase'[u] = phase[u]
    BY <2>1 DEF TypeOK
  <2>3. /\ upto'[c] = (IF k < Len(events) THEN Len(events) ELSE k)
        /\ \A u \in Clients \ {c} : upto'[u] = upto[u]
    BY <2>1 DEF TypeOK
  <2>4. \A u \in Clients \ {c} : is_done'[u] = is_done[u]
    BY <2>1 DEF TypeOK
  <2>5. is_done'[c] = (status # "running")
    BY <2>1 DEF TypeOK
  <2>6. is_done'[c] => status' = "ended"
    BY <1>1, <2>5 DEF TypeOK
  <2>7. Placed(c)'
    BY <1>1, <1>2, <2>2, <2>3, <2>6 DEF Placed
  <2> QED BY <1>2, <1>3, <2>2, <2>3, <2>4, <2>7
<1> QED BY <1>4, <1>5

\* A client that is not concerned by a step stands as before.
LEMMA OthersStand ==
  ASSUME NEW u \in Clients, Placed(u), Tiled(u), Behind(u),
         UNCHANGED <<source, phase[u], cursor[u], pos[u], upto[u], is_done[u],
                     sent[u], got[u], from[u]>>
  PROVE  (Placed(u) /\ Tiled(u) /\ Behind(u))'
  BY DEF Placed, Tiled, Behind, source

\* A reconnecting client starts within the buffer.
LEMMA StartBehind ==
  ASSUME TypeOK, StreamInv, NEW c \in Clients, NEW how \in Resumes
  PROVE  StartFrom(c, how) <= Len(events)
<1>1. /\ Len(events) \in Nat /\ consumer_offset \in Nat
      /\ consumer_offset <= Len(events)
      /\ got[c] \in Seq(Piece) /\ Behind(c)
  BY LenProperties DEF TypeOK, StreamInv
<1>2. NextId(c) <= Len(events)
  <2>1. CASE got[c] = <<>>
    BY <1>1, <2>1 DEF NextId
  <2>2. CASE got[c] # <<>>
    <3>1. Len(got[c]) \in 1..Len(got[c])
      BY <1>1, <2>2, LenProperties, EmptySeq
    <3> QED BY <1>1, <2>2, <3>1 DEF NextId, Behind
  <2> QED BY <2>1, <2>2
<1> QED BY <1>1, <1>2 DEF StartFrom

LEMMA StreamConnect ==
  ASSUME TypeOK, StreamInv, NEW c \in Clients, NEW how \in Resumes, Connect(c, how)
  PROVE  StreamInv'
<1> DEFINE k == StartFrom(c, how)
<1>1. k \in 0..MaxEvents /\ k <= Len(events)
  BY StartType, StartBehind
<1>2. Poll(c, k) /\ UNCHANGED <<source, consumer_offset, sent, read, got>>
  BY DEF Connect
<1>3. from'[c] = k /\ \A u \in Clients \ {c} : from'[u] = from[u]
  BY DEF Connect, TypeOK
<1>4. sent[c] = <<>> /\ Len(sent[c]) = 0
  BY EmptySeq DEF Connect, StreamInv, Placed
<1> HIDE DEF k
<1>5. /\ pos'[c] = k /\ Placed(c)'
      /\ \A u \in Clients \ {c} :
            UNCHANGED <<phase[u], cursor[u], pos[u], upto[u], is_done[u]>>
  BY <1>1, <1>2, PollPlaces
<1>6. Tiled(c)' /\ Behind(c)'
  BY <1>2, <1>3, <1>4, <1>5 DEF Tiled, Behind, StreamInv, source
<1>7. \A u \in Clients \ {c} : (Placed(u) /\ Tiled(u) /\ Behind(u))'
  BY <1>2, <1>3, <1>5, OthersStand DEF StreamInv
<1> QED BY <1>2, <1>5, <1>6, <1>7 DEF StreamInv, source

LEMMA StreamYield ==
  ASSUME TypeOK, StreamInv, NEW c \in Clients, Yield(c)
  PROVE  StreamInv'
<1> DEFINE hi == RunEnd(events, pos[c] + 1, upto[c])
           piece == [lo |-> pos[c] + 1, hi |-> hi]
           n == Len(sent[c])
<1>1. /\ pos[c] \in Nat /\ upto[c] \in Nat /\ pos[c] < upto[c] /\ upto[c] <= Len(events)
      /\ Len(events) \in Nat /\ phase[c] = "sending" /\ sent[c] \in Seq(Piece) /\ n \in Nat
      /\ cursor[c] <= Len(events) /\ (is_done[c] => status = "ended")
      /\ Tiled(c) /\ Behind(c)
  BY LenProperties, StreamAssumption DEF Yield, Ready, TypeOK, StreamInv, Placed
<1>2. hi \in (pos[c] + 1)..upto[c]
  BY <1>1, RunEndInRange
<1>3. /\ sent' = [sent EXCEPT ![c] = Append(sent[c], piece)]
      /\ pos' = [pos EXCEPT ![c] = hi]
      /\ UNCHANGED <<source, consumer_offset, phase, cursor, upto, is_done, got, from>>
  BY DEF Yield
<1> HIDE DEF hi
<1>4. piece \in Piece
  <2>1. upto[c] \in 0..MaxEvents /\ MaxEvents \in Nat
    BY StreamAssumption DEF TypeOK
  <2> QED BY <1>1, <1>2, <2>1 DEF Piece
<1>5. piece.lo = pos[c] + 1 /\ piece.hi = hi
  OBVIOUS
<1> HIDE DEF piece, n
<1>6. /\ pos'[c] = hi /\ sent'[c] = Append(sent[c], piece)
      /\ \A u \in Clients \ {c} : pos'[u] = pos[u] /\ sent'[u] = sent[u]
  BY <1>3 DEF TypeOK
<1>7. /\ Len(sent'[c]) = n + 1
      /\ \A i \in 1..n : sent'[c][i] = sent[c][i]
      /\ sent'[c][n + 1] = piece
  BY <1>1, <1>4, <1>6, AppendProperties DEF n
<1>8. Placed(c)'
  BY <1>1, <1>2, <1>3, <1>6 DEF Placed, source
<1>9. Tiled(c)'
  <2>1. CASE n = 0
    BY <1>1, <1>3, <1>5, <1>6, <1>7, <2>1 DEF Tiled, n
  <2>2. CASE n # 0
    <3>1. /\ sent[c][n].hi = pos[c] /\ sent[c][1].lo = from[c] + 1
          /\ \A i \in 1..(n - 1) : sent[c][i + 1].lo = sent[c][i].hi + 1
      BY <1>1, <2>2 DEF Tiled, n
    <3>2. \A i \in 1..n : sent'[c][i + 1].lo = sent'[c][i].hi + 1
      <4> TAKE i \in 1..n
      <4>1. CASE i = n
        BY <1>1, <1>5, <1>7, <3>1, <4>1
      <4>2. CASE i # n
        <5>1. i \in 1..(n - 1) /\ i + 1 \in 1..n
          BY <1>1, <4>2
        <5> QED BY <1>7, <3>1, <5>1
      <4> QED BY <4>1, <4>2
    <3>3. sent'[c][1].lo = from'[c] + 1
      BY <1>1, <1>3, <1>7, <2>2, <3>1
    <3> QED BY <1>1, <1>5, <1>6, <1>7, <3>2, <3>3 DEF Tiled
  <2> QED BY <2>1, <2>2
<1>10. Behind(c)'
  <2>1. pos[c] + 1 <= Len(events)
    BY <1>1
  <2>2. \A i \in 1..(n + 1) : sent'[c][i].lo <= Len(events)
    <3> TAKE i \in 1..(n + 1)
    <3>1. CASE i = n + 1
      BY <1>5, <1>7, <2>1, <3>1
    <3>2. CASE i \in 1..n
      BY <1>1, <1>7, <3>2 DEF Behind, n
    <3> QED BY <1>1, <3>1, <3>2
  <2> QED BY <1>1, <1>3, <1>7, <2>2 DEF Behind, source
<1>11. \A u \in Clients \ {c} : (Placed(u) /\ Tiled(u) /\ Behind(u))'
  BY <1>3, <1>6, OthersStand DEF StreamInv
<1> QED BY <1>3, <1>8, <1>9, <1>10, <1>11 DEF StreamInv, source

LEMMA StreamBatchDone ==
  ASSUME TypeOK, StreamInv, NEW c \in Clients, BatchDone(c)
  PROVE  StreamInv'
<1>1. /\ phase[c] = "sending" /\ pos[c] = upto[c] /\ upto[c] <= Len(events)
      /\ upto[c] \in 0..MaxEvents /\ Len(events) \in Nat /\ upto[c] \in Nat
      /\ is_done[c] => status = "ended"
      /\ consumer_offset' = upto[c] /\ UNCHANGED <<source, client>>
  BY LenProperties, StreamAssumption DEF BatchDone, Ready, Advanced, TypeOK, StreamInv, Placed
<1>2. Tiled(c) /\ Behind(c)
  BY DEF StreamInv
<1>3. /\ phase'[c] # "closed" /\ pos'[c] = pos[c] /\ Placed(c)'
      /\ \A u \in Clients \ {c} :
            UNCHANGED <<phase[u], cursor[u], pos[u], upto[u], is_done[u]>>
  <2>1. CASE is_done[c] /\ upto[c] >= Len(events)
    <3>1. /\ phase' = [phase EXCEPT ![c] = "over"]
          /\ cursor' = [cursor EXCEPT ![c] = upto[c]]
          /\ UNCHANGED <<upto, pos, is_done>>
      BY <2>1 DEF BatchDone, Advanced
    <3>2. /\ phase'[c] = "over" /\ cursor'[c] = upto[c]
          /\ \A u \in Clients \ {c} : phase'[u] = phase[u] /\ cursor'[u] = cursor[u]
      BY <3>1 DEF TypeOK
    <3> QED BY <1>1, <2>1, <3>1, <3>2 DEF Placed, source
  <2>2. CASE ~(is_done[c] /\ upto[c] >= Len(events))
    <3>1. Poll(c, upto[c])
      BY <2>2 DEF BatchDone, Advanced
    <3> QED BY <1>1, <3>1, PollPlaces
  <2> QED BY <2>1, <2>2
<1>4. Tiled(c)' /\ Behind(c)'
  BY <1>1, <1>2, <1>3 DEF Tiled, Behind, source, client
<1>5. \A u \in Clients \ {c} : (Placed(u) /\ Tiled(u) /\ Behind(u))'
  BY <1>1, <1>3, OthersStand DEF StreamInv, client
<1> QED BY <1>1, <1>3, <1>4, <1>5 DEF StreamInv, source

LEMMA StreamReceive ==
  ASSUME TypeOK, StreamInv, NEW c \in Clients, Receive(c)
  PROVE  StreamInv'
<1> DEFINE r == read[c] + 1
<1>1. /\ r \in 1..Len(sent[c]) /\ got[c] \in Seq(Piece) /\ sent[c] \in Seq(Piece)
      /\ got' = [got EXCEPT ![c] = Append(got[c], sent[c][r])]
      /\ UNCHANGED <<source, consumer_offset, gen, sent, from>>
      /\ Placed(c) /\ Tiled(c) /\ Behind(c)
  BY LenProperties DEF Receive, TypeOK, StreamInv
<1> HIDE DEF r
<1>2. sent[c][r] \in Piece /\ sent[c][r].lo <= Len(events)
  BY <1>1, ElementOfSeq DEF Behind
<1>3. got'[c] = Append(got[c], sent[c][r]) /\ \A u \in Clients \ {c} : got'[u] = got[u]
  BY <1>1 DEF TypeOK
<1>4. /\ Len(got'[c]) = Len(got[c]) + 1
      /\ \A i \in 1..Len(got[c]) : got'[c][i] = got[c][i]
      /\ got'[c][Len(got[c]) + 1] = sent[c][r]
      /\ Len(got[c]) \in Nat
  BY <1>1, <1>2, <1>3, AppendProperties, LenProperties
<1>5. \A i \in 1..Len(got'[c]) : got'[c][i].lo <= Len(events)
  BY <1>1, <1>2, <1>4 DEF Behind
<1>6. Placed(c)' /\ Tiled(c)' /\ Behind(c)'
  BY <1>1, <1>5 DEF Placed, Tiled, Behind, source, gen
<1>7. \A u \in Clients \ {c} : (Placed(u) /\ Tiled(u) /\ Behind(u))'
  BY <1>1, <1>3, OthersStand DEF StreamInv, gen
<1> QED BY <1>1, <1>6, <1>7 DEF StreamInv, source

LEMMA StreamNext == TypeOK /\ StreamInv /\ [Next]_vars => StreamInv'
<1> SUFFICES ASSUME TypeOK, StreamInv, [Next]_vars PROVE StreamInv'
  OBVIOUS
<1>1. ASSUME NEW kind \in Kinds, Push(kind) PROVE StreamInv'
  <2>1. /\ Len(events') = Len(events) + 1 /\ Len(events) \in Nat
    BY <1>1, AppendProperties, LenProperties DEF Push, TypeOK
  <2> QED BY <1>1, <2>1, SourceMoves DEF Push
<1>2. ASSUME NEW said \in BOOLEAN, End(said) PROVE StreamInv'
  <2>1. Len(events') \in Nat /\ Len(events) <= Len(events')
    <3>1. CASE said
      <4>1. Whole \in Kinds /\ events' = Append(events, Whole)
        BY <1>2, <3>1 DEF End, Kinds
      <4> QED BY <4>1, AppendProperties, LenProperties DEF TypeOK
    <3>2. CASE ~said
      <4>1. events' = events
        BY <1>2, <3>2 DEF End
      <4> QED BY <4>1, LenProperties DEF TypeOK
    <3> QED BY <3>1, <3>2
  <2> QED BY <1>2, <2>1, SourceMoves DEF End
<1>3. ASSUME NEW c \in Clients, Wake(c) PROVE StreamInv'
  <2>1. /\ Poll(c, cursor[c]) /\ UNCHANGED <<source, consumer_offset, client>>
        /\ cursor[c] \in 0..MaxEvents /\ cursor[c] <= Len(events) /\ pos[c] = cursor[c]
        /\ phase[c] # "closed" /\ Tiled(c) /\ Behind(c)
    BY <1>3 DEF Wake, TypeOK, StreamInv, Placed
  <2>2. /\ phase'[c] # "closed" /\ pos'[c] = pos[c] /\ Placed(c)'
        /\ \A u \in Clients \ {c} :
              UNCHANGED <<phase[u], cursor[u], pos[u], upto[u], is_done[u]>>
    BY <2>1, PollPlaces
  <2>3. Tiled(c)' /\ Behind(c)'
    BY <2>1, <2>2 DEF Tiled, Behind, source, client
  <2>4. \A u \in Clients \ {c} : (Placed(u) /\ Tiled(u) /\ Behind(u))'
    BY <2>1, <2>2, OthersStand DEF StreamInv, client
  <2> QED BY <2>1, <2>2, <2>3, <2>4 DEF StreamInv, source
<1>4. ASSUME NEW c \in Clients, Heartbeat(c) PROVE StreamInv'
  <2>1. /\ phase'[c] = "sending" /\ upto'[c] = cursor[c] /\ is_done'[c] = FALSE
        /\ \A u \in Clients \ {c} : UNCHANGED <<phase[u], upto[u], is_done[u]>>
        /\ UNCHANGED <<source, consumer_offset, cursor, pos, client>>
    BY <1>4 DEF Heartbeat, TypeOK
  <2>2. /\ phase[c] = "waiting" /\ Placed(c) /\ Tiled(c) /\ Behind(c)
        /\ cursor[c] \in Nat
    BY <1>4, StreamAssumption DEF Heartbeat, StreamInv, TypeOK
  <2>3. Placed(c)'
    BY <2>1, <2>2 DEF Placed, source
  <2>4. Tiled(c)' /\ Behind(c)'
    BY <2>1, <2>2 DEF Tiled, Behind, source, client
  <2>5. \A u \in Clients \ {c} : (Placed(u) /\ Tiled(u) /\ Behind(u))'
    BY <2>1, OthersStand DEF StreamInv, client
  <2> QED BY <2>1, <2>3, <2>4, <2>5 DEF StreamInv, source
<1>5. ASSUME NEW c \in Clients, Disconnect(c) PROVE StreamInv'
  <2>1. /\ phase'[c] = "closed" /\ sent'[c] = <<>> /\ Len(sent'[c]) = 0
        /\ \A u \in Clients \ {c} : UNCHANGED <<phase[u], sent[u]>>
        /\ UNCHANGED <<source, consumer_offset, cursor, upto, pos, is_done, got, from>>
    BY <1>5, EmptySeq DEF Disconnect, TypeOK
  <2>2. Placed(c)' /\ Tiled(c)' /\ Behind(c)'
    BY <2>1 DEF Placed, Tiled, Behind, StreamInv, source
  <2>3. \A u \in Clients \ {c} : (Placed(u) /\ Tiled(u) /\ Behind(u))'
    BY <2>1, OthersStand DEF StreamInv
  <2> QED BY <2>1, <2>2, <2>3 DEF StreamInv, source
<1>6. ASSUME UNCHANGED vars PROVE StreamInv'
  BY <1>6 DEF StreamInv, Placed, Tiled, Behind, vars, source, gen, client
<1> QED BY <1>1, <1>2, <1>3, <1>4, <1>5, <1>6, StreamConnect, StreamYield,
           StreamBatchDone, StreamReceive DEF Next, Quiet

\* Every connection delivers, from where it started, a gapless and repetition-free
\* tiling of the buffer; a finished stream delivered all of it, and no generator
\* sleeps while there is something to send.
THEOREM ConnectionCorrect == Spec => [](ConnectionsSound /\ EndsComplete)
<1>1. TypeOK /\ StreamInv => ConnectionsSound
  BY DEF StreamInv, Tiled, ConnectionsSound, ConnectionTiles
<1>2. TypeOK /\ StreamInv => EndsComplete
  BY DEF StreamInv, Placed, EndsComplete
<1> QED BY <1>1, <1>2, StreamInit, StreamNext, TypeCorrect, PTL DEF Spec

\* Of that: a generator that ended delivered the whole buffer of an ended run, and
\* notify_all leaves no consumer asleep over news.
THEOREM EndsCorrect == Spec => []EndsComplete
  BY ConnectionCorrect, PTL

-----------------------------------------------------------------------------
(***************************************************************************)
(* _coalesce_deltas, for buffers of every length.  The loop's function     *)
(* exists (TurnsExist) and keeps LoopInv, both by a least number for which *)
(* it would be otherwise.                                                  *)
(***************************************************************************)

\* g is the loop's state after each of n turns.
Turns(evs, n, g) ==
    g = [i \in 0..n |-> IF i = 0 THEN Fresh ELSE Collect(evs, g[i - 1], i)]

LEMMA TurnsExist ==
  ASSUME NEW evs, NEW n \in Nat
  PROVE  \E g : Turns(evs, n, g)
<1> DEFINE bad == {k \in Nat : ~ \E g : Turns(evs, k, g)}
<1> SUFFICES ASSUME bad # {} PROVE FALSE
  OBVIOUS
<1>1. PICK m \in bad : \A k \in bad : m <= k
  BY LeastNatural
<1>2. CASE m = 0
  <2> DEFINE g == [i \in 0..0 |-> Fresh]
  <2>1. g = [i \in 0..0 |-> IF i = 0 THEN Fresh ELSE Collect(evs, g[i - 1], i)]
    OBVIOUS
  <2> HIDE DEF g
  <2>2. Turns(evs, 0, g)
    BY <2>1 DEF Turns
  <2> QED BY <1>1, <1>2, <2>2
<1>3. CASE m # 0
  <2>1. m - 1 \in Nat /\ m - 1 \notin bad
    BY <1>1, <1>3
  <2>2. PICK g : Turns(evs, m - 1, g)
    BY <2>1
  <2> DEFINE last == Collect(evs, g[m - 1], m)
             h == [i \in 0..m |-> IF i = m THEN last ELSE g[i]]
  <2>3. ASSUME NEW i \in 0..m
        PROVE  h[i] = IF i = 0 THEN Fresh ELSE Collect(evs, h[i - 1], i)
    <3>1. CASE i = m
      <4>1. h[i] = last /\ h[i - 1] = g[m - 1] /\ i # 0
        BY <1>3, <3>1
      <4> QED BY <3>1, <4>1
    <3>2. CASE i # m
      <4>1. i \in 0..(m - 1) /\ h[i] = g[i] /\ (i # 0 => h[i - 1] = g[i - 1])
        BY <3>2
      <4>2. g[i] = IF i = 0 THEN Fresh ELSE Collect(evs, g[i - 1], i)
        BY <2>2, <4>1, Zenon DEF Turns
      <4> QED BY <4>1, <4>2
    <3> QED BY <3>1, <3>2
  <2>4. h = [i \in 0..m |-> h[i]]
    OBVIOUS
  <2> HIDE DEF h
  <2>5. Turns(evs, m, h)
    BY <2>3, <2>4, Zenon DEF Turns
  <2> QED BY <1>1, <2>5
<1> QED BY <1>2, <1>3

LEMMA CollectedTurns ==
  ASSUME NEW S, NEW evs \in Seq(S)
  PROVE  \E g : Turns(evs, Len(evs), g) /\ Collected(evs) = g[Len(evs)]
<1>1. \E g : Turns(evs, Len(evs), g)
  BY TurnsExist, LenProperties
<1> DEFINE after == CHOOSE g : Turns(evs, Len(evs), g)
<1>2. Turns(evs, Len(evs), after)
  BY <1>1, Zenon
<1>3. Collected(evs) = after[Len(evs)]
  BY DEF Collected, Turns
<1> QED BY <1>2, <1>3

-----------------------------------------------------------------------------
\* From lo to hi is a run of deltas of one message, or one event, that cannot be longer.
MaxRun(evs, n, lo, hi) ==
    /\ lo \in Nat /\ hi \in Nat /\ 1 <= lo /\ lo <= hi /\ hi <= n
    /\ \A i \in lo..(hi - 1) : Joined(evs, i)
    /\ hi < n => ~Joined(evs, hi)

\* The pieces lie end to end over the first e events.
TilesTo(evs, n, out, e) ==
    /\ out \in Seq(Nat \X Nat)
    /\ out = <<>> <=> e = 0
    /\ out # <<>> => out[1][1] = 1 /\ out[Len(out)][2] = e
    /\ \A j \in 1..(Len(out) - 1) : out[j + 1][1] = out[j][2] + 1
    /\ \A j \in 1..Len(out) : MaxRun(evs, n, out[j][1], out[j][2])

State(out, start, msg) == [result |-> out, run_start |-> start, run_msg_id |-> msg]

\* After i turns the finished pieces lie before the run being collected.
LoopInv(evs, n, acc, i) ==
    \E out, msg : \E start \in 0..i :
        /\ acc = State(out, start, msg)
        /\ TilesTo(evs, n, out, IF start = 0 THEN i ELSE start - 1)
        /\ start # 0 => msg # Whole /\ \A k \in start..i : evs[k] = msg

LEMMA RunEndIs ==
  ASSUME NEW evs, NEW n \in Nat, NEW lo, NEW hi, MaxRun(evs, n, lo, hi)
  PROVE  RunEnd(evs, lo, n) = hi
<1> DEFINE Is(e) == (\A i \in lo..(e - 1) : Joined(evs, i)) /\ (e < n => ~Joined(evs, e))
<1>1. hi \in lo..n /\ Is(hi) /\ lo \in Nat /\ hi \in Nat
  BY DEF MaxRun
<1>2. ASSUME NEW e \in lo..n, Is(e) PROVE e = hi
  <2>1. CASE e < hi
    <3>1. e \in lo..(hi - 1) /\ e < n
      BY <1>1, <2>1
    <3> QED BY <1>1, <1>2, <3>1
  <2>2. CASE hi < e
    <3>1. hi \in lo..(e - 1) /\ hi < n
      BY <1>1, <2>2
    <3> QED BY <1>1, <1>2, <3>1
  <2> QED BY <1>1, <2>1, <2>2
<1>3. RunEnd(evs, lo, n) = CHOOSE e \in lo..n : Is(e)
  BY DEF RunEnd
<1> HIDE DEF Is
<1> QED BY <1>1, <1>2, <1>3

\* One more piece behind the others.
LEMMA TilesMore ==
  ASSUME NEW evs, NEW n \in Nat, NEW out, NEW e \in Nat, NEW hi, TilesTo(evs, n, out, e),
         MaxRun(evs, n, e + 1, hi)
  PROVE  TilesTo(evs, n, Append(out, <<e + 1, hi>>), hi)
<1> DEFINE more == Append(out, <<e + 1, hi>>)
           l == Len(out)
<1>1. hi \in Nat /\ e + 1 \in Nat /\ hi # 0 /\ out \in Seq(Nat \X Nat) /\ l \in Nat
  BY LenProperties DEF MaxRun, TilesTo
<1>2. <<e + 1, hi>> \in Nat \X Nat
  BY <1>1
<1>3. /\ more \in Seq(Nat \X Nat) /\ Len(more) = l + 1
      /\ \A j \in 1..l : more[j] = out[j]
      /\ more[l + 1] = <<e + 1, hi>>
  BY <1>1, <1>2, AppendProperties
<1>4. more # <<>>
  BY <1>1, <1>3, EmptySeq
<1>5. l = 0 <=> out = <<>>
  BY <1>1, EmptySeq
<1> HIDE DEF more, l
<1>6. /\ more[l + 1][1] = e + 1 /\ more[l + 1][2] = hi
  BY <1>3
<1>7. more[1][1] = 1
  <2>1. CASE l = 0
    <3>1. e = 0
      BY <1>5, <2>1 DEF TilesTo
    <3> QED BY <1>6, <2>1, <3>1
  <2>2. CASE l # 0
    <3>1. more[1] = out[1]
      BY <1>1, <1>3, <2>2
    <3>2. out[1][1] = 1
      BY <1>5, <2>2 DEF TilesTo
    <3> QED BY <3>1, <3>2
  <2> QED BY <2>1, <2>2
<1>8. ASSUME NEW j \in 1..l PROVE more[j + 1][1] = more[j][2] + 1
  <2>1. more[j] = out[j]
    BY <1>3
  <2>2. CASE j = l
    <3>1. out[l][2] = e
      BY <1>1, <1>5, <2>2 DEF TilesTo, l
    <3> QED BY <1>6, <2>1, <2>2, <3>1
  <2>3. CASE j # l
    <3>1. j \in 1..(l - 1) /\ j + 1 \in 1..l
      BY <1>1, <2>3
    <3>2. out[j + 1][1] = out[j][2] + 1
      BY <3>1 DEF TilesTo, l
    <3>3. more[j + 1] = out[j + 1]
      BY <1>3, <3>1
    <3> QED BY <2>1, <3>2, <3>3
  <2> QED BY <2>2, <2>3
<1>9. ASSUME NEW j \in 1..(l + 1) PROVE MaxRun(evs, n, more[j][1], more[j][2])
  <2>1. CASE j = l + 1
    BY <1>6, <2>1
  <2>2. CASE j # l + 1
    <3>1. j \in 1..l
      BY <1>1, <2>2
    <3>2. MaxRun(evs, n, out[j][1], out[j][2])
      BY <3>1 DEF TilesTo, l
    <3> QED BY <1>3, <3>1, <3>2
  <2> QED BY <2>1, <2>2
<1>10. (l + 1) - 1 = l
  BY <1>1
<1>11. TilesTo(evs, n, more, hi)
  BY <1>1, <1>3, <1>4, <1>6, <1>7, <1>8, <1>9, <1>10, Zenon DEF TilesTo
<1> QED BY <1>11 DEF more

\* The collected run is flushed at position i, where it ends.
LEMMA FlushKeeps ==
  ASSUME NEW evs, NEW n \in Nat, NEW i \in 1..(n + 1), NEW out, NEW msg, NEW start \in 0..(i - 1),
         TilesTo(evs, n, out, IF start = 0 THEN i - 1 ELSE start - 1),
         start # 0 => /\ msg # Whole
                      /\ \A k \in start..(i - 1) : evs[k] = msg
                      /\ i <= n => evs[i] # msg
  PROVE  TilesTo(evs, n, Flushed(State(out, start, msg), i), i - 1)
<1>1. CASE start = 0
  <2>1. Flushed(State(out, start, msg), i) = out
    BY <1>1 DEF Flushed, State
  <2> QED BY <1>1, <2>1
<1>2. CASE start # 0
  <2>1. Flushed(State(out, start, msg), i) = Append(out, <<start, i - 1>>)
    BY <1>2 DEF Flushed, State
  <2>2. MaxRun(evs, n, start, i - 1)
    <3>1. ASSUME NEW k \in start..((i - 1) - 1) PROVE Joined(evs, k)
      <4>1. k \in start..(i - 1) /\ k + 1 \in start..(i - 1)
        OBVIOUS
      <4> QED BY <1>2, <4>1 DEF Joined
    <3>2. ASSUME i - 1 < n PROVE ~Joined(evs, i - 1)
      <4>1. i <= n /\ i - 1 \in start..(i - 1) /\ (i - 1) + 1 = i
        BY <3>2
      <4>2. evs[i - 1] = msg /\ evs[i] # msg
        BY <1>2, <4>1
      <4> QED BY <4>1, <4>2 DEF Joined
    <3>3. start \in Nat /\ i - 1 \in Nat /\ 1 <= start /\ start <= i - 1 /\ i - 1 <= n
      BY <1>2
    <3> QED BY <3>1, <3>2, <3>3, Zenon DEF MaxRun
  <2>3. (start - 1) + 1 = start /\ start - 1 \in Nat
    BY <1>2
  <2>4. TilesTo(evs, n, out, start - 1)
    BY <1>2
  <2>5. MaxRun(evs, n, (start - 1) + 1, i - 1)
    BY <2>2, <2>3, Zenon
  <2>6. TilesTo(evs, n, Append(out, <<(start - 1) + 1, i - 1>>), i - 1)
    BY <2>3, <2>4, <2>5, TilesMore, Zenon
  <2> QED BY <2>1, <2>3, <2>6, Zenon
<1> QED BY <1>1, <1>2

\* One turn of the loop.
LEMMA CollectKeeps ==
  ASSUME NEW evs, NEW n \in Nat, NEW i \in 1..n, NEW acc, LoopInv(evs, n, acc, i - 1)
  PROVE  LoopInv(evs, n, Collect(evs, acc, i), i)
<1>1. PICK out, msg : \E start \in 0..(i - 1) :
        /\ acc = State(out, start, msg)
        /\ TilesTo(evs, n, out, IF start = 0 THEN i - 1 ELSE start - 1)
        /\ start # 0 => msg # Whole /\ \A k \in start..(i - 1) : evs[k] = msg
  BY DEF LoopInv
<1>2. PICK start \in 0..(i - 1) :
        /\ acc = State(out, start, msg)
        /\ TilesTo(evs, n, out, IF start = 0 THEN i - 1 ELSE start - 1)
        /\ start # 0 => msg # Whole /\ \A k \in start..(i - 1) : evs[k] = msg
  BY <1>1
<1>3. acc.run_start = start /\ acc.run_msg_id = msg /\ acc.result = out
  BY <1>2 DEF State
<1>4. i \in Nat /\ i - 1 \in Nat /\ i \in 1..(n + 1) /\ i <= n /\ (i - 1) + 1 = i
  OBVIOUS
<1> DEFINE flushed == Flushed(acc, i)
<1>5. ASSUME start # 0 => evs[i] # msg PROVE TilesTo(evs, n, flushed, i - 1)
  BY <1>2, <1>4, <1>5, FlushKeeps, Zenon
<1>6. CASE evs[i] = Whole
  <2>1. TilesTo(evs, n, flushed, i - 1)
    BY <1>2, <1>5, <1>6
  <2>2. ~Joined(evs, i)
    BY <1>6 DEF Joined
  <2>3. MaxRun(evs, n, i, i)
    BY <2>2 DEF MaxRun
  <2> HIDE DEF flushed
  <2>4. TilesTo(evs, n, Append(flushed, <<(i - 1) + 1, i>>), i)
    <3>1. MaxRun(evs, n, (i - 1) + 1, i)
      BY <1>4, <2>3, Zenon
    <3> QED BY <1>4, <2>1, <3>1, TilesMore, Zenon
  <2>5. TilesTo(evs, n, Append(flushed, <<i, i>>), i)
    BY <1>4, <2>4, Zenon
  <2>6. Collect(evs, acc, i) = [acc EXCEPT !.result = Append(flushed, <<i, i>>), !.run_start = 0]
    BY <1>6 DEF Collect, flushed
  <2> DEFINE more == Append(flushed, <<i, i>>)
  <2> HIDE DEF more
  <2>7. Collect(evs, acc, i) = State(more, 0, msg)
    BY <1>2, <2>6 DEF State, more
  <2> QED BY <1>4, <2>5, <2>7 DEF LoopInv, more
<1>7. CASE evs[i] # Whole /\ start = 0
  <2>1. Collect(evs, acc, i) = [acc EXCEPT !.run_start = i, !.run_msg_id = evs[i]]
    BY <1>3, <1>7 DEF Collect
  <2>2. Collect(evs, acc, i) = State(out, i, evs[i])
    BY <1>2, <2>1 DEF State
  <2>3. TilesTo(evs, n, out, i - 1)
    BY <1>2, <1>7
  <2>4. \A k \in i..i : evs[k] = evs[i]
    OBVIOUS
  <2> QED BY <1>4, <1>7, <2>2, <2>3, <2>4 DEF LoopInv
<1>8. CASE evs[i] # Whole /\ start # 0 /\ evs[i] # msg
  <2>1. TilesTo(evs, n, flushed, i - 1)
    BY <1>5, <1>8
  <2>2. Collect(evs, acc, i) = State(flushed, i, evs[i])
    BY <1>3, <1>8 DEF Collect, State
  <2> HIDE DEF flushed
  <2>3. \A k \in i..i : evs[k] = evs[i]
    OBVIOUS
  <2> QED BY <1>4, <1>8, <2>1, <2>2, <2>3 DEF LoopInv
<1>9. CASE evs[i] # Whole /\ start # 0 /\ evs[i] = msg
  <2>1. Collect(evs, acc, i) = acc
    BY <1>3, <1>9 DEF Collect
  <2>2. start \in 0..i /\ \A k \in start..i : k = i \/ k \in start..(i - 1)
    OBVIOUS
  <2>3. \A k \in start..i : evs[k] = msg
    BY <1>2, <1>9, <2>2
  <2>4. TilesTo(evs, n, out, start - 1)
    BY <1>2, <1>9
  <2> QED BY <1>2, <1>9, <2>1, <2>2, <2>3, <2>4 DEF LoopInv
<1> QED BY <1>6, <1>7, <1>8, <1>9

LEMMA CollectedInv ==
  ASSUME NEW S, NEW evs \in Seq(S)
  PROVE  LoopInv(evs, Len(evs), Collected(evs), Len(evs))
<1> DEFINE n == Len(evs)
<1>1. n \in Nat
  BY LenProperties
<1>2. PICK g : Turns(evs, n, g) /\ Collected(evs) = g[n]
  BY CollectedTurns
<1> HIDE DEF n
<1>3. ASSUME NEW i \in 0..n PROVE g[i] = IF i = 0 THEN Fresh ELSE Collect(evs, g[i - 1], i)
  BY <1>2, Zenon DEF Turns
<1>4. \A i \in 0..n : LoopInv(evs, n, g[i], i)
  <2> DEFINE bad == {i \in 0..n : ~LoopInv(evs, n, g[i], i)}
  <2> SUFFICES ASSUME bad # {} PROVE FALSE
    OBVIOUS
  <2>1. bad \in SUBSET Nat
    BY <1>1
  <2>2. PICK m \in bad : \A k \in bad : m <= k
    <3> HIDE DEF bad
    <3> QED BY <2>1, LeastNatural
  <2>3. CASE m = 0
    <3>1. g[0] = State(<<>>, 0, Whole)
      BY <1>1, <1>3 DEF Fresh, State
    <3>2. TilesTo(evs, n, <<>>, 0)
      BY DEF TilesTo
    <3>3. LoopInv(evs, n, g[0], 0)
      <4>1. 0 \in 0..0 /\ TilesTo(evs, n, <<>>, IF 0 = 0 THEN 0 ELSE 0 - 1)
        BY <3>2
      <4> QED BY <3>1, <4>1 DEF LoopInv
    <3> QED BY <2>2, <2>3, <3>3
  <2>4. CASE m # 0
    <3>1. m \in 1..n /\ m - 1 \in 0..n /\ m - 1 < m
      BY <1>1, <2>4
    <3>2. LoopInv(evs, n, g[m - 1], m - 1)
      BY <2>2, <3>1
    <3>3. g[m] = Collect(evs, g[m - 1], m)
      BY <1>3, <2>4
    <3>4. LoopInv(evs, n, g[m], m)
      BY <1>1, <3>1, <3>2, <3>3, CollectKeeps, Zenon
    <3> QED BY <2>2, <3>4
  <2> QED BY <2>3, <2>4
<1>5. n \in 0..n
  BY <1>1
<1> QED BY <1>2, <1>4, <1>5 DEF n

\* _coalesce_deltas, given any list of events: it loses and repeats nothing and merges
\* exactly the maximal runs of deltas of one message.
THEOREM EveryBufferTiled ==
  ASSUME NEW S, NEW evs \in Seq(S)
  PROVE  Tiles(Coalesce(evs), evs)
<1> DEFINE n == Len(evs)
           full == Coalesce(evs)
<1>1. n \in Nat /\ (n = 0 <=> evs = <<>>)
  BY LenProperties, EmptySeq
<1>2. PICK out, msg : \E start \in 0..n :
        /\ Collected(evs) = State(out, start, msg)
        /\ TilesTo(evs, n, out, IF start = 0 THEN n ELSE start - 1)
        /\ start # 0 => msg # Whole /\ \A k \in start..n : evs[k] = msg
  BY CollectedInv DEF LoopInv
<1>3. PICK start \in 0..n :
        /\ Collected(evs) = State(out, start, msg)
        /\ TilesTo(evs, n, out, IF start = 0 THEN n ELSE start - 1)
        /\ start # 0 => msg # Whole /\ \A k \in start..n : evs[k] = msg
  BY <1>2
<1>4. full = Flushed(State(out, start, msg), n + 1)
  BY <1>3 DEF Coalesce
<1> HIDE DEF n, full
<1>5. n + 1 \in 1..(n + 1) /\ (n + 1) - 1 = n /\ ~ (n + 1 <= n)
  BY <1>1
<1>6. TilesTo(evs, n, full, n)
  BY <1>1, <1>3, <1>4, <1>5, FlushKeeps
<1>7. DOMAIN full = 1..Len(full)
  BY <1>6, LenProperties DEF TilesTo
<1>8. \A j \in DOMAIN full : full[j][2] = RunEnd(evs, full[j][1], n)
  BY <1>1, <1>6, <1>7, RunEndIs DEF TilesTo
<1> QED BY <1>1, <1>6, <1>8 DEF Tiles, TilesTo, n, full

\* The same of the buffers the run enumerates (consume_events, _coalesce_deltas).
THEOREM CoalesceCorrect == Spec => []CoalesceTilesTheBuffer
<1>1. TypeOK => CoalesceTilesTheBuffer
  <2> SUFFICES ASSUME TypeOK, NEW more \in Additions
               PROVE  Tiles(Coalesce(events \o more), events \o more)
    BY DEF CoalesceTilesTheBuffer
  <2> DEFINE S == Kinds \cup {"other"}
  <2>1. PICK k \in 0..MaxBuffer : more \in [1..k -> Messages \cup {"other", Whole}]
    BY DEF Additions
  <2>2. more \in Seq(S)
    BY <2>1 DEF Kinds
  <2>3. events \in Seq(S)
    BY DEF TypeOK
  <2>4. events \o more \in Seq(S)
    BY <2>2, <2>3
  <2> HIDE DEF S
  <2> QED BY <2>4, EveryBufferTiled
<1> QED BY <1>1, TypeCorrect, PTL

=============================================================================
