-------------------------- MODULE MCWorkflowEngine --------------------------
(***************************************************************************)
(* The workflow engine: plans that are walked with reflection, or one step  *)
(* of a plan, a parallel node with what follows it.  The built-in plans have *)
(* no parallel node, so a behaviour is one of either, and the other rests.  *)
(***************************************************************************)
EXTENDS MCWorkflowRunner, MCParallelNode

VARIABLE walks      \* a built-in plan is walked, rather than a parallel step taken

stepVars   == <<sql_contexts, input, last_record, written, state, found, iterations,
                selected, final, layout, place, phase>>
engineVars == <<walks, vars, stepVars>>

EngineInit ==
    /\ walks \in BOOLEAN /\ Init /\ Parallel!Init
    /\ walks => layout = Only(<<>>)
    /\ ~walks => plan = <<>> /\ maxRound = 0 /\ ~streaming

EngineNext ==
    /\ UNCHANGED walks
    /\ \/ walks /\ Next /\ UNCHANGED stepVars
       \/ ~walks /\ Parallel!Next /\ UNCHANGED vars

EngineSpec == EngineInit /\ [][EngineNext]_engineVars
=============================================================================
