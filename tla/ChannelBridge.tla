--------------------------- MODULE ChannelBridge ---------------------------
(***************************************************************************)
(* The bridge between instant-messaging channels and the chat manager      *)
(* (datus/gateway/bridge.py), with what its adapters do for it             *)
(* (datus/gateway/adapters/feishu.py, slack.py): a message of a user is    *)
(* deduplicated, marked as being processed, run as a chat, answered event  *)
(* by event and marked as done; a user's first reaction to one of the      *)
(* bot's messages starts a feedback run.                                   *)
(*                                                                         *)
(* Every delivery is a coroutine of its own on one event loop.  The chat   *)
(* manager is what its callers see of it: one live run per session, a      *)
(* start that fails when there is one, or for a reason of its own.  An     *)
(* adapter catches every error of its platform: a message it cannot send   *)
(* has no id, a reaction it cannot set is not set.                         *)
(***************************************************************************)
EXTENDS Integers, Sequences, FiniteSets

CONSTANTS
    Messages,       \* message ids of the platform
    SessionOf,      \* message -> session (conversation and thread)
    KindOf,         \* message -> "chat", "command", or "reply": to a thread, no mention
    Adapters,       \* of the platforms modelled: "feishu", "slack"
    MaxChunks,      \* bound: messages Slack's adapter splits a long text into
    SeenCap,        \* _max_seen_ids
    BotCap,         \* _MAX_BOT_MSG_MAP
    ReactedCap,     \* _MAX_REACTED_MSG
    Handlers,       \* coroutines of handle_message
    Reactors,       \* coroutines of handle_reaction
    MaxAdmitted,    \* bound: messages that pass the deduplication
    MaxEvents,      \* bound: events of one run that are shown
    MaxSilenced     \* bound: messages for which a call to the platform or a start fails

ASSUME BridgeAssumption ==
    /\ KindOf \in [Messages -> {"chat", "command", "reply"}]
    /\ DOMAIN SessionOf = Messages
    /\ Adapters \subseteq {"feishu", "slack"} /\ MaxChunks \in Nat \ {0}
    /\ IsFiniteSet(Reactors)
    /\ {SeenCap, BotCap, ReactedCap} \subseteq Nat \ {0} /\ {MaxAdmitted, MaxEvents, MaxSilenced} \subseteq Nat

VARIABLES
    adapter,    \* that of the conversation
    seen,       \* _seen_message_ids
    botMsgs,    \* _bot_message_map: the ids, oldest first
    botText,    \* ... and how many fragments of text each entry holds
    reacted,    \* _reacted_bot_messages
    cards,      \* FeishuAdapter._streams: message -> number of its open card, or 0
    pc,         \* where a handler is
    msg,        \* the message it handles
    run,        \* its chat run
    events,     \* events of the run it has shown
    anySent,    \* the handler's any_sent
    hasError,   \* the handler's has_error
    toTrack,    \* the id its last send returned, or will
    rpc,        \* where a reactor is
    target,     \* the bot message it is about
    sessions,   \* sessions with a history
    posts,      \* the platform: fragments under each id, per message answered; a card
                \* is always sent whole, so its next update makes up for a failed one
    marks,      \* the platform: the bot's reactions on a message
    admitted,   \* history: messages that passed the deduplication
    silenced,   \* history: messages with a call to the platform, or a start, that failed
    feedback    \* history: bot messages whose feedback run was started

bridge   == <<seen, botMsgs, botText, reacted>>
handler  == <<pc, msg, run, events, anySent, hasError, toTrack>>
reactor  == <<rpc, target>>
platform == <<posts, marks>>
past     == <<admitted, silenced, feedback>>
vars     == <<adapter, bridge, cards, handler, reactor, sessions, platform, past>>

Nobody == "nobody"
NoId   == <<"none", 0>>
BotIds == Messages \X Nat
Live(h) == pc[h] \in {"react", "start", "busy", "consume", "card", "track", "fallback",
                      "last", "finalize", "unmark", "mark"}

TypeOK ==
    /\ adapter \in Adapters
    /\ seen \in Seq(Messages) /\ Len(seen) <= SeenCap
    /\ botMsgs \in Seq(BotIds) /\ Len(botMsgs) <= BotCap
    /\ DOMAIN botText = {botMsgs[i] : i \in DOMAIN botMsgs}
    /\ reacted \in Seq(BotIds) /\ Len(reacted) <= ReactedCap
    /\ cards \in [Messages -> Nat]
    /\ \A h \in Handlers : Live(h) \/ pc[h] \in {"idle", "over", "raised"}
    /\ msg \in [Handlers -> Messages \cup {Nobody}]
    /\ run \in [Handlers -> {"none", "live", "ended"}]
    /\ events \in [Handlers -> 0..MaxEvents]
    /\ anySent \in [Handlers -> BOOLEAN] /\ hasError \in [Handlers -> BOOLEAN]
    /\ toTrack \in [Handlers -> BotIds \cup {NoId}]
    /\ rpc \in [Reactors -> {"idle", "starting", "over"}]
    /\ target \in [Reactors -> BotIds \cup {NoId}]
    /\ posts \in [Messages -> Seq(Nat)]
    /\ marks \in [Messages -> SUBSET {"processing", "done", "error"}]
    /\ admitted \in Seq(Messages) /\ feedback \in Seq(BotIds)

Init ==
    /\ adapter \in Adapters
    /\ seen = <<>> /\ botMsgs = <<>> /\ botText = << >> /\ reacted = <<>>
    /\ cards = [m \in Messages |-> 0]
    /\ pc = [h \in Handlers |-> "idle"] /\ msg = [h \in Handlers |-> Nobody]
    /\ run = [h \in Handlers |-> "none"] /\ events = [h \in Handlers |-> 0]
    /\ anySent = [h \in Handlers |-> FALSE] /\ hasError = [h \in Handlers |-> FALSE]
    /\ toTrack = [h \in Handlers |-> NoId]
    /\ rpc = [r \in Reactors |-> "idle"] /\ target = [r \in Reactors |-> NoId]
    /\ sessions = {}
    /\ posts = [m \in Messages |-> <<>>] /\ marks = [m \in Messages |-> {}]
    /\ admitted = <<>> /\ silenced = {} /\ feedback = <<>>

-----------------------------------------------------------------------------
\* Bounded ordered dictionaries.

Has(d, x)    == \E i \in DOMAIN d : d[i] = x
Newest(d, n) == IF Len(d) > n THEN SubSeq(d, Len(d) - n + 1, Len(d)) ELSE d
Put(d, x, n) == IF Has(d, x) THEN d ELSE Newest(Append(d, x), n)
Pop(d, x)    == IF ~Has(d, x) THEN d ELSE
                LET k == CHOOSE i \in DOMAIN d : d[i] = x
                IN  [i \in 1..(Len(d) - 1) |-> d[IF i < k THEN i ELSE i + 1]]

\* Feishu's adapter streams into one card, Slack's splits what is too long.
Streaming == adapter = "feishu"
Chunks    == IF Streaming THEN 1 ELSE MaxChunks

At(h, p) == pc' = [pc EXCEPT ![h] = p]

-----------------------------------------------------------------------------
\* handle_message().

Remember(m) == seen' = Newest(Append(seen, m), SeenCap)

\* A message arrives, and it is not one the bridge remembers: that one leaves
\* no trace.  Without an await the handler drops a reply that was not meant for
\* the bot, and runs a command, of which some clear the session.
Deliver(h, m) ==
    /\ pc[h] = "idle" /\ ~Has(seen, m) /\ Len(admitted) < MaxAdmitted
    /\ Remember(m)
    /\ admitted' = Append(admitted, m)
    /\ \/ /\ KindOf[m] = "reply" /\ SessionOf[m] \notin sessions
          /\ UNCHANGED <<pc, msg, sessions>>
       \/ /\ KindOf[m] = "command"
          /\ sessions' \in {sessions, sessions \ {SessionOf[m]}}
          /\ UNCHANGED <<pc, msg>>
       \/ /\ KindOf[m] = "chat" \/ (KindOf[m] = "reply" /\ SessionOf[m] \in sessions)
          /\ At(h, "react")
          /\ msg' = [msg EXCEPT ![h] = m]
          /\ UNCHANGED sessions
    /\ UNCHANGED <<botMsgs, botText, reacted, cards, run, events, anySent, hasError, toTrack,
                   reactor, platform, silenced, feedback>>

Fails(m) ==
    /\ Cardinality(silenced \cup {m}) <= MaxSilenced
    /\ silenced' = silenced \cup {m}

\* The platform sets a reaction, or does not.
Mark(m, e) == \/ marks' = [marks EXCEPT ![m] = @ \cup {e}] /\ UNCHANGED silenced
              \/ Fails(m) /\ UNCHANGED marks

AddProcessing(h) ==
    /\ pc[h] = "react" /\ At(h, "start")
    /\ Mark(msg[h], "processing")
    /\ UNCHANGED <<bridge, cards, msg, run, events, anySent, hasError, toTrack, reactor,
                   sessions, posts, admitted, feedback>>

Running(s) == \E h \in Handlers : run[h] = "live" /\ SessionOf[msg[h]] = s

\* start_chat(): there is a run already, or it starts, or raises what the
\* bridge does not catch - before the try whose finally clears the mark.
StartChat(h) ==
    /\ pc[h] = "start"
    /\ \/ /\ Running(SessionOf[msg[h]])
          /\ At(h, "busy")
          /\ UNCHANGED <<run, sessions, silenced>>
       \/ /\ ~Running(SessionOf[msg[h]])
          /\ run' = [run EXCEPT ![h] = "live"]
          /\ sessions' = sessions \cup {SessionOf[msg[h]]}
          /\ At(h, "consume") /\ UNCHANGED silenced
       \/ /\ At(h, "raised")
          /\ Fails(msg[h])
          /\ UNCHANGED <<run, sessions>>
    /\ UNCHANGED <<bridge, cards, msg, events, anySent, hasError, toTrack, reactor, platform,
                   admitted, feedback>>

\* The run frees its session; its last events may still have to be read.
RunEnds(h) ==
    /\ run[h] = "live"
    /\ run' = [run EXCEPT ![h] = "ended"]
    /\ UNCHANGED <<bridge, cards, pc, msg, events, anySent, hasError, toTrack, reactor,
                   sessions, platform, past>>

\* A message of its own, or several for a long text, one after the other: the id
\* is the last one's.  When a call fails what was posted before stays, without id.
Post(h, id) ==
    LET m == msg[h] IN
    \E n \in 0..Chunks :
        /\ posts' = [posts EXCEPT ![m] = @ \o [i \in 1..n |-> 1]]
        /\ \/ /\ n > 0 /\ id = <<m, Len(posts[m]) + n>>
              /\ UNCHANGED silenced
           \/ /\ n < Chunks /\ id = NoId
              /\ Fails(m)
        /\ UNCHANGED cards

\* A fragment of a stream: a message of its own when no card is open, or one more
\* fragment of the card, and no id.
PostFragment(h, id) ==
    LET m == msg[h]
        n == cards[m]
    IN  \/ n = 0 /\ Post(h, id)
        \/ /\ n # 0 /\ id = NoId
           /\ posts' = [posts EXCEPT ![m][n] = @ + 1]
           /\ UNCHANGED <<cards, silenced>>

Ids(h) == {NoId} \cup {<<msg[h], Len(posts[msg[h]]) + n>> : n \in 1..Chunks}

\* Mutant of SendBusy: the busy answer is taken for a chat that was answered.
BusyLeaves(h) ==
    /\ pc[h] = "busy" /\ At(h, "over")
    /\ hasError' = [hasError EXCEPT ![h] = TRUE]
    /\ anySent' = [anySent EXCEPT ![h] = TRUE]
    /\ \E id \in Ids(h) : Post(h, id)
    /\ UNCHANGED <<bridge, msg, run, events, toTrack, reactor, sessions, marks, admitted, feedback>>

SendBusy(h) ==
    /\ pc[h] = "busy" /\ At(h, "finalize")
    /\ hasError' = [hasError EXCEPT ![h] = TRUE]
    /\ anySent' = [anySent EXCEPT ![h] = TRUE]
    /\ \E id \in Ids(h) : Post(h, id)
    /\ UNCHANGED <<bridge, msg, run, events, toTrack, reactor, sessions, marks, admitted, feedback>>

Kinds == {"text", "delta", "update", "hidden", "error"}

\* A streamed card has had the text of an update; without one a delta waits
\* for its update.  A tool call is shown with its result.
Skips(k) == k \in {"hidden", IF Streaming THEN "update" ELSE "delta"}

Sent(k) == ~Skips(k)

\* The next event of the run.
Consume(h) ==
    /\ pc[h] = "consume" /\ events[h] < MaxEvents
    /\ \E k \in Kinds :
          /\ anySent' = [anySent EXCEPT ![h] = @ \/ Sent(k)]
          /\ events' = [events EXCEPT ![h] = IF Skips(k) THEN @ ELSE @ + 1]
          /\ \/ /\ Skips(k)
                /\ UNCHANGED <<cards, pc, hasError, toTrack, posts, silenced>>
             \/ /\ k = "error"
                /\ hasError' = [hasError EXCEPT ![h] = TRUE]
                /\ \E id \in Ids(h) : Post(h, id)
                /\ UNCHANGED <<pc, toTrack>>
             \/ /\ ~Skips(k) /\ k # "error"
                /\ \E id \in Ids(h) :
                      /\ IF Streaming THEN PostFragment(h, id) ELSE Post(h, id)
                      /\ toTrack' = [toTrack EXCEPT ![h] = id]
                      /\ At(h, IF Streaming /\ id # NoId THEN "card" ELSE "track")
                /\ UNCHANGED hasError
    /\ UNCHANGED <<bridge, msg, run, reactor, sessions, marks, admitted, feedback>>

\* The message posted is turned into a card, which the next fragments are added
\* to; or that fails, and it stays a message.
OpenCard(h) ==
    /\ pc[h] = "card" /\ At(h, "track")
    /\ cards' \in {cards, [cards EXCEPT ![msg[h]] = toTrack[h][2]]}
    /\ UNCHANGED <<bridge, msg, run, events, anySent, hasError, toTrack, reactor, sessions,
                   platform, past>>

\* _track_bot_message(): a known id gets one more fragment, a new one may push
\* the oldest out.
TrackId(id) ==
    IF id = NoId THEN UNCHANGED <<botMsgs, botText>> ELSE
    /\ botMsgs' = Put(botMsgs, id, BotCap)
    /\ botText' = [b \in {botMsgs'[i] : i \in DOMAIN botMsgs'} |->
                      (IF b \in DOMAIN botText THEN botText[b] ELSE 0) + (IF b = id THEN 1 ELSE 0)]

Track(h) ==
    /\ pc[h] \in {"track", "last"}
    /\ TrackId(toTrack[h])
    /\ toTrack' = [toTrack EXCEPT ![h] = NoId]
    /\ At(h, IF pc[h] = "track" THEN "consume" ELSE "finalize")
    /\ UNCHANGED <<seen, reacted, cards, msg, run, events, anySent, hasError, reactor, sessions,
                   platform, past>>

\* The run has no more events.
StreamEnds(h) ==
    /\ pc[h] = "consume" /\ run[h] = "ended"
    /\ At(h, IF anySent[h] THEN "finalize" ELSE "fallback")
    /\ UNCHANGED <<bridge, cards, msg, run, events, anySent, hasError, toTrack, reactor, sessions,
                   platform, past>>

SendFallback(h) ==
    /\ pc[h] = "fallback" /\ At(h, "last")
    /\ \E id \in Ids(h) : Post(h, id) /\ toTrack' = [toTrack EXCEPT ![h] = id]
    /\ UNCHANGED <<bridge, msg, run, events, anySent, hasError, reactor, sessions, marks,
                   admitted, feedback>>

\* The finally block: the card is closed, the mark exchanged.
Finalize(h) ==
    /\ pc[h] = "finalize" /\ At(h, "unmark")
    /\ cards' = [cards EXCEPT ![msg[h]] = 0]
    /\ UNCHANGED <<bridge, msg, run, events, anySent, hasError, toTrack, reactor, sessions,
                   platform, past>>

RemoveProcessing(h) ==
    /\ pc[h] = "unmark" /\ At(h, "mark")
    /\ \/ marks' = [marks EXCEPT ![msg[h]] = @ \ {"processing"}] /\ UNCHANGED silenced
       \/ Fails(msg[h]) /\ UNCHANGED marks
    /\ UNCHANGED <<bridge, cards, msg, run, events, anySent, hasError, toTrack, reactor, sessions,
                   posts, admitted, feedback>>

AddOutcome(h) ==
    /\ pc[h] = "mark" /\ At(h, "over")
    /\ Mark(msg[h], IF hasError[h] THEN "error" ELSE "done")
    /\ run' = [run EXCEPT ![h] = "none"] /\ events' = [events EXCEPT ![h] = 0]
    /\ anySent' = [anySent EXCEPT ![h] = FALSE] /\ hasError' = [hasError EXCEPT ![h] = FALSE]
    /\ UNCHANGED <<bridge, cards, msg, toTrack, reactor, sessions, posts, admitted, feedback>>

-----------------------------------------------------------------------------
\* handle_reaction().

\* Mutant of Admits: a second reaction starts a second feedback run.
AdmitsTracked(b) == Has(botMsgs, b)

Admits(b) == Has(botMsgs, b) /\ ~Has(reacted, b)

\* A reaction on a message of the bot: the first one is remembered before the
\* feedback run is started, any other is dropped without a trace.
React(r, b) ==
    /\ rpc[r] = "idle" /\ Admits(b)
    /\ target' = [target EXCEPT ![r] = b]
    /\ rpc' = [rpc EXCEPT ![r] = "starting"]
    /\ reacted' = Put(reacted, b, ReactedCap)
    /\ UNCHANGED <<seen, botMsgs, botText, cards, handler, sessions, platform, past>>

Forget(b) == reacted' = Pop(reacted, b)

StartFeedback(r) ==
    /\ rpc[r] = "starting"
    /\ rpc' = [rpc EXCEPT ![r] = "over"]
    /\ \/ feedback' = Append(feedback, target[r]) /\ UNCHANGED reacted
       \/ Forget(target[r]) /\ UNCHANGED feedback
    /\ UNCHANGED <<seen, botMsgs, botText, cards, handler, target, sessions, platform, admitted, silenced>>

-----------------------------------------------------------------------------
Step(h) ==
    \/ AddProcessing(h) \/ StartChat(h) \/ SendBusy(h) \/ Consume(h) \/ OpenCard(h)
    \/ Track(h) \/ StreamEnds(h) \/ SendFallback(h) \/ Finalize(h) \/ RemoveProcessing(h) \/ AddOutcome(h)

\* The platform knows no more deliveries and reactions.
Quiet ==
    /\ \A h \in Handlers : ~Live(h) /\ run[h] # "live"
    /\ UNCHANGED vars

Next ==
    /\ UNCHANGED adapter
    /\ \/ \E h \in Handlers : (\E m \in Messages : Deliver(h, m)) \/ Step(h) \/ RunEnds(h)
       \/ \E r \in Reactors :
             \/ \E m \in Messages : \E n \in DOMAIN posts[m] : React(r, <<m, n>>)
             \/ StartFeedback(r)
       \/ Quiet

Spec == Init /\ [][Next]_vars

-----------------------------------------------------------------------------
\* A message the platform delivers again is dropped, unless _max_seen_ids other
\* messages have come in between.
NoRepeatInWindow ==
    \A i, j \in DOMAIN admitted : i < j /\ admitted[i] = admitted[j] => j - i > SeenCap

\* A handler that came to its end has told the user something, if only that
\* there is nothing to tell, unless the platform refused a message.
NeverSilent ==
    \A h \in Handlers : pc[h] = "over" => posts[msg[h]] # <<>> \/ msg[h] \in silenced

\* A message looks as if it were being processed only while some handler is at
\* work on it, unless its chat failed to start or the platform kept the mark.
ProcessingCleared ==
    \A m \in Messages : "processing" \in marks[m] =>
        m \in silenced \/ \E h \in Handlers : Live(h) /\ msg[h] = m

\* A message is taken once, answered, and no longer marked as being processed.
MessagesSettled == TypeOK /\ NoRepeatInWindow /\ NeverSilent /\ ProcessingCleared

\* As long as the memory of reactions does not overflow, one message of the bot
\* gives rise to one feedback run, however many reactions come at once and
\* whatever becomes of the first.
FeedbackOnce ==
    Cardinality({target[r] : r \in Reactors} \ {NoId}) <= ReactedCap =>
        \A i, j \in DOMAIN feedback : feedback[i] = feedback[j] => i = j

\* A message that is remembered as having had its reaction has a feedback run,
\* or one about to start: a start that failed leaves the next reaction its turn.
FailureForgotten ==
    \A i \in DOMAIN reacted : \/ Has(feedback, reacted[i])
                              \/ \E r \in Reactors : rpc[r] = "starting" /\ target[r] = reacted[i]

\* A message of the bot has its feedback run once a reaction was accepted, and one.
FeedbackSound == FeedbackOnce /\ FailureForgotten

=============================================================================
