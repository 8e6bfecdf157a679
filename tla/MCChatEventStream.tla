------------------------- MODULE MCChatEventStream -------------------------
(* Model-checking instances of ChatEventStream, and _coalesce_deltas on every *)
(* short buffer of the deltas of two messages.                                *)
EXTENDS ChatEventStream

CONSTANT MaxBuffer    \* bound: what is added to the buffer before it is coalesced

Additions == UNION {[1..k -> Messages \cup {"other", Whole}] : k \in 0..MaxBuffer}

\* Stated of the buffers a first client finds, whatever the run adds to them.
Untouched == \A c \in Clients : connects[c] = 0

\* _coalesce_deltas loses and repeats no text and merges exactly the maximal
\* runs of deltas of one message: its events tile the buffer, and each one ends
\* where Yield's RunEnd says.
CoalesceTilesTheBuffer ==
    Untouched => \A more \in Additions : Tiles(Coalesce(events \o more), events \o more)

=============================================================================
