---------------------------- MODULE ParallelStep ----------------------------
(***************************************************************************)
(* A parallel node as a step of a plan: ParallelNode under names that      *)
(* WorkflowRunner, which walks the plan around it, does not use for        *)
(* something else, so that the two can stand in one module.                *)
(***************************************************************************)
EXTENDS Integers, Sequences

CONSTANTS Children, Configurations, Nobody, MaxIterations, MaxRecords

VARIABLES sql_contexts, input, last_record, written, state, found, iterations, selected, final,
                       \* those of ParallelNode
          layout,      \* its plan
          place,       \* its at
          phase        \* its pc

Parallel == INSTANCE ParallelNode WITH plan <- layout, at <- place, pc <- phase

ASSUME ParallelAssumption == Parallel!ParallelConstants

ParallelSpec == Parallel!Spec

\* A lone sub-workflow runs its own SQL, no record shows the result of later SQL, a
\* selected action's SQL is what is executed, and a rejected action leaves no record
\* (ParallelNode.execute, SelectionNode, execute_sql).
RecordsSound == Parallel!RecordsSound

\* Records are only added, and no thread of the parallel node writes to one once the
\* node has ended (update_context).
RecordsOnlyGrow == Parallel!RecordsOnlyGrow
=============================================================================
