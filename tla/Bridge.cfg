\* Two chats at a time in one conversation, a dedup window of one message.
SPECIFICATION Spec
CONSTANTS
    m1 = m1
    m2 = m2
    m3 = m3
    Messages <- TheMessages
    SessionOf <- TheSessions
    KindOf <- TheKinds
    Adapters = {"feishu", "slack"}
    MaxChunks = 2
    SeenCap = 1
    BotCap = 2
    ReactedCap = 2
    Handlers = {h1, h2}
    Reactors = {r1, r2}
    MaxEvents = 1
    MaxAdmitted = 3
    MaxSilenced = 1
SYMMETRY Coroutines
INVARIANTS MessagesSettled FeedbackSound
