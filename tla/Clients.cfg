\* A question and two other actions over two passes; or two proxied calls and three
\* reports, of print mode or over HTTP, also after the run.
SPECIFICATION ClientSpec
CONSTANTS
    Questions = {q1}
    MaxPasses = 2
    MaxActions = 2
    Calls = {c1, c2}
    MaxReports = 3
INVARIANTS DialogueShown AnswersSound ChannelSound
PROPERTIES NobodyLeftWaiting PassEnds AcceptedInTime ToolsReturn
