------------------------- MODULE MCChannelBridge -------------------------
(* Two messages of one conversation, and another's command or reply.         *)
EXTENDS ChannelBridge, TLC

CONSTANTS m1, m2, m3

TheMessages == {m1, m2, m3}
TheSessions == (m1 :> "s") @@ (m2 :> "s") @@ (m3 :> "s")
TheKinds    == (m1 :> "chat") @@ (m2 :> "command") @@ (m3 :> "reply")

Coroutines == Permutations(Handlers) \cup Permutations(Reactors)
=============================================================================
