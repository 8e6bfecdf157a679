---------------------------- MODULE ProxiedTools ----------------------------
(***************************************************************************)
(* The proxied tools of a run, next to its questions: ToolResultChannel    *)
(* under names that InteractionBroker does not use for something else, so  *)
(* that the two places where an agent loop waits for its client can stand  *)
(* in one module.                                                          *)
(***************************************************************************)
EXTENDS Integers, Sequences

CONSTANTS
    Calls,          \* ids of the proxied tool calls of one run
    MaxReports      \* bound: reports the client sends

VARIABLES
    tool, running, pipe, reader, reports, emptied, dropped, \* those of ToolResultChannel
    callFuture,     \* its future
    stdinClosed,    \* its closed
    delivered       \* its accepted

Channel == INSTANCE ToolResultChannel
             WITH future <- callFuture, closed <- stdinClosed, accepted <- delivered

ASSUME ChannelAssumption == Channel!ChannelConstants

ToolsSpec == Channel!Spec

\* A tool that waits can be answered, and an accepted report is there for its tool
\* (ToolResultChannel.wait_for, publish).
ChannelSound == Channel!ChannelSound

\* No report is accepted for a call whose tool has given up or returned (publish,
\* proxy_invoke).
AcceptedInTime == Channel!AcceptedInTime

\* Every tool that waits returns (proxy_invoke, the timeout of wait_for).
ToolsReturn == Channel!ToolsReturn
=============================================================================
