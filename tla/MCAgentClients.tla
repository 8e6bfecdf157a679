--------------------------- MODULE MCAgentClients ---------------------------
(***************************************************************************)
(* The two places where an agent loop waits for its client: the questions  *)
(* it asks through the broker, and the tools the client runs for it.  They *)
(* share no state, so a behaviour is one of either, and the other rests.   *)
(***************************************************************************)
EXTENDS InteractionBroker, ProxiedTools

VARIABLE asks       \* the client is asked questions, rather than to run tools

toolVars   == <<tool, running, pipe, reader, reports, emptied, dropped, callFuture,
                stdinClosed, delivered>>
clientVars == <<asks, vars, toolVars>>

ClientInit ==
    /\ asks \in BOOLEAN /\ Init /\ Channel!Init
    /\ asks => running = "http"

ClientNext ==
    /\ UNCHANGED asks
    /\ \/ asks /\ Next /\ UNCHANGED toolVars
       \/ ~asks /\ Channel!Next /\ UNCHANGED vars

ClientSpec ==
    /\ ClientInit /\ [][ClientNext]_clientVars
    /\ asks => Fairness
    /\ ~asks => Channel!Fairness
=============================================================================
