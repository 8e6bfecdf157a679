--------------------------- MODULE WorkflowRunner ---------------------------
(***************************************************************************)
(* The workflow engine of agent/workflow_runner.py: a runner walks the     *)
(* nodes of a plan in order, sets up the next node's input after each one, *)
(* and lets a reflect node insert further nodes behind itself, for a       *)
(* bounded number of rounds.  One run of one runner, synchronous (run) or  *)
(* streaming (run_stream), over one of the configured plans.               *)
(*                                                                         *)
(* Of the workflow context only the last SQL record is kept, as what is    *)
(* known of it: "none" there is no record, "made" it was generated, "run"  *)
(* it was executed.                                                        *)
(***************************************************************************)
EXTENDS Integers, Sequences

CONSTANTS NodeTypes,        \* the types a node can have
          Plans,            \* the plans a task may name: sequences of node types
          ReflectionNodes,  \* the configured node sequence of each strategy
          RoundLimits,      \* values MAX_REFLECTION_ROUNDS may have
          MaxSteps          \* args.max_steps

Strategies == {"SUCCESS", "DOC_SEARCH", "SIMPLE_REGENERATE", "SCHEMA_LINKING",
               "REASONING", "COLUMN_EXPLORATION", "UNKNOWN"}

\* The strategies _execute_reflection_strategy has a branch for.
Repairs == {"DOC_SEARCH", "SIMPLE_REGENERATE", "SCHEMA_LINKING", "REASONING"}

ASSUME RepairsAssumption == DOMAIN ReflectionNodes = Repairs
ASSUME NodeTypesAssumption == "start" \in NodeTypes
ASSUME PlansAssumption == \A p \in Plans : p \in Seq(NodeTypes)
ASSUME ReflectionNodesAssumption == \A s \in Repairs : ReflectionNodes[s] \in Seq(NodeTypes)
\* Node ids are round and type: a strategy that listed a type twice would give
\* two places of the order the same node.
ASSUME DistinctTypesAssumption ==
  \A s \in Repairs : \A i, j \in DOMAIN ReflectionNodes[s] :
    ReflectionNodes[s][i] = ReflectionNodes[s][j] => i = j
ASSUME RoundLimitsAssumption == RoundLimits \subseteq Int
ASSUME MaxStepsAssumption == MaxSteps \in Nat \ {0}

VARIABLES plan,              \* the plan of this run
          streaming,         \* run_stream rather than run
          maxRound,          \* MAX_REFLECTION_ROUNDS
          node_order,        \* Workflow.node_order
          status,            \* Workflow.nodes: node id -> Node.status
          index,             \* current_node_index, counted from 1
          wfStatus,          \* Workflow.status
          reflection_round,  \* Workflow.reflection_round
          step_count,
          sql,               \* the last SQL record of the context
          strategy,          \* strategy of the last reflect result
          fault,             \* history: some node, setup or model call failed by itself
          pc
request == <<plan, streaming, maxRound>>
workflow == <<node_order, index, reflection_round>>
vars == <<plan, streaming, maxRound, node_order, status, index, wfStatus,
          reflection_round, step_count, sql, strategy, fault, pc>>

-----------------------------------------------------------------------------
\* node_<k> of a plan, and reflect_<round>_<type> of a reflection round.
PlanNode(k, type) == [round |-> 0, pos |-> k, type |-> type]
\* Mutant of ReflectNodeId: the round is left out of the id.
ReflectNodeIdOfType(round, type) == [round |-> 1, pos |-> 0, type |-> type]
ReflectNodeId(round, type) == [round |-> round, pos |-> 0, type |-> type]

\* create_nodes_from_config: the start node, then one node per plan entry.
PlanOrder(p) == [k \in 1 .. Len(p) + 1 |->
                   PlanNode(k - 1, IF k = 1 THEN "start" ELSE p[k - 1])]
NodesOf(order) == {order[k] : k \in 1 .. Len(order)}

\* setup_input of these reads get_last_sqlcontext, which raises without a record.
NeedsSql == {"execute_sql", "output", "fix"}
MayMakeSql == {"gen_sql", "fix"}  \* update_context appends a record if there is SQL
MakesSql == {"reasoning"}

\* execute_stream of these leaves Node.result unset (or calls a method the action
\* history does not have), so run_stream fails the node whatever it did.
ResultLostInStream == {"reasoning", "date_parser", "compare", "parallel", "selection"}

\* Mutant of Insert: the batch is not reversed.
InsertUnreversed(order, at, batch) ==
  [k \in 1 .. Len(order) + Len(batch) |->
     IF k <= at THEN order[k]
     ELSE IF k <= at + Len(batch) THEN batch[Len(batch) + 1 - (k - at)]
     ELSE order[k - Len(batch)]]

\* Workflow.add_node at current_node_index + 1, for each of the batch in reverse.
Insert(order, at, batch) ==
  [k \in 1 .. Len(order) + Len(batch) |->
     IF k <= at THEN order[k]
     ELSE IF k <= at + Len(batch) THEN batch[k - at]
     ELSE order[k - Len(batch)]]

\* Mutant of Repair: the round is not compared with the limit.
RepairUncapped(s, r) == IF s = "SUCCESS" THEN {} ELSE {s} \cap Repairs

\* Mutant of Repair: the limit is compared one round late.
RepairOnceMore(s, r) == IF s = "SUCCESS" \/ r > maxRound + 1 THEN {}
                        ELSE IF r = maxRound + 1 THEN {"REASONING"}
                        ELSE {s} \cap Repairs

\* The strategy _execute_reflection_strategy acts on in round r, if any.
Repair(s, r) == IF s = "SUCCESS" \/ r > maxRound THEN {}
                ELSE IF r = maxRound THEN {"REASONING"}
                ELSE {s} \cap Repairs

-----------------------------------------------------------------------------
Init == /\ plan \in Plans /\ streaming \in BOOLEAN /\ maxRound \in RoundLimits
        /\ node_order = PlanOrder(plan)
        /\ status = [n \in NodesOf(node_order) |-> "pending"]
        /\ index = 1
        /\ wfStatus = "pending"
        /\ reflection_round = 0
        /\ step_count = 0
        /\ sql = "none"
        /\ strategy = "UNKNOWN"
        /\ fault = FALSE
        /\ pc = "init"

current == node_order[index]

(***************************************************************************)
(* _prepare_first_node: the start node completes unrun and the first real  *)
(* node gets its input.  What setup_node_input raises here leaves run; what *)
(* it returns is not looked at.                                            *)
(***************************************************************************)
PrepareFirst == /\ pc = "init"
                /\ status' = [status EXCEPT ![current] = "completed"]
                /\ \/ /\ Len(node_order) > 1
                      /\ index' = 2
                      /\ \/ /\ node_order[2].type \notin NeedsSql
                            /\ pc' = "loop" /\ fault' = fault
                         \/ /\ pc' = "raised" /\ fault' = TRUE
                      /\ UNCHANGED wfStatus
                   \/ /\ Len(node_order) = 1
                      /\ wfStatus' = "completed"
                      /\ pc' = "raised"
                      /\ UNCHANGED <<index, fault>>
                /\ UNCHANGED <<request, node_order, reflection_round, step_count, sql, strategy>>

EnterNode == /\ pc = "loop"
             /\ wfStatus # "completed"
             /\ step_count < MaxSteps
             /\ UNCHANGED <<request, workflow, wfStatus, step_count, sql>>

\* Node.run / Node.run_stream with a result: for a reflect node, a classification.
NodeCompletes == /\ EnterNode
                 /\ ~(streaming /\ current.type \in ResultLostInStream)
                 /\ IF current.type = "reflect"
                    THEN sql # "none" /\ strategy' \in Strategies
                    ELSE UNCHANGED strategy
                 /\ status' = [status EXCEPT ![current] = "completed"]
                 /\ pc' = "evaluate"
                 /\ UNCHANGED fault

\* The node raises or its result says failure; a reflect node also when there is
\* no SQL record, or the model's evaluation failed.
NodeFails == /\ EnterNode
             /\ status' = [status EXCEPT ![current] = "failed"]
             /\ pc' = "finalize"
             /\ fault' = TRUE
             /\ UNCHANGED strategy

\* The node did its work in the stream and left no result.
ResultLost == /\ EnterNode
              /\ streaming /\ current.type \in ResultLostInStream
              /\ status' = [status EXCEPT ![current] = "failed"]
              /\ pc' = "finalize"
              /\ UNCHANGED <<strategy, fault>>

LoopEnds == /\ pc = "loop"
            /\ wfStatus = "completed" \/ step_count >= MaxSteps
            /\ pc' = "finalize"
            /\ UNCHANGED <<request, workflow, status, wfStatus, step_count, sql, strategy, fault>>

\* advance_to_next_node over the order as it now is.
Advance == /\ IF index >= Len(node_order')
              THEN wfStatus' = "completed" /\ UNCHANGED index
              ELSE index' = index + 1 /\ UNCHANGED wfStatus
           /\ step_count' = step_count + 1
           /\ pc' = "loop"

(***************************************************************************)
(* The second half of evaluate_result, for a context updated to sql' with  *)
(* or without trouble: set up the next node's input.  A setup that fails   *)
(* or raises makes the current node failed and ends the loop; it does so   *)
(* for certain when the next node needs an SQL record and there is none.   *)
(***************************************************************************)
SetUpNext(nodes, trouble) ==
  LET more == index < Len(node_order')
      blind == more /\ node_order'[index + 1].type \in NeedsSql /\ sql' = "none"
  IN \/ /\ ~blind
        /\ status' = nodes
        /\ fault' = (fault \/ trouble)
        /\ Advance
     \/ /\ more
        /\ status' = [nodes EXCEPT ![current] = "failed"]
        /\ fault' = (fault \/ trouble \/ ~blind)
        /\ pc' = "finalize"
        /\ UNCHANGED <<index, wfStatus, step_count>>

\* evaluate_result of a node other than reflect.  execute_sql writes its result
\* into the last record; a gen_sql that found no SQL appends none.
Evaluate == /\ pc = "evaluate"
            /\ current.type # "reflect"
            /\ UNCHANGED <<request, node_order, reflection_round, strategy>>
            /\ \/ /\ current.type \in MakesSql \union MayMakeSql
                  /\ sql' = "made"
                  /\ SetUpNext(status, FALSE)
               \/ /\ current.type \in MayMakeSql
                  /\ sql' = sql
                  /\ SetUpNext(status, TRUE)
               \/ /\ current.type \notin MakesSql \union MayMakeSql
                  /\ sql' = IF current.type = "execute_sql" /\ sql # "none" THEN "run" ELSE sql
                  /\ SetUpNext(status, FALSE)

(***************************************************************************)
(* evaluate_result of a reflect node: ReflectNode.update_context counts the *)
(* round and inserts the repair's nodes right behind the reflect node.     *)
(* SIMPLE_REGENERATE first appends the corrected SQL, if the model gave    *)
(* one.  A node id already in use is overwritten by the new node.          *)
(* _execute_strategy catches exceptions, and part of a repair is then in   *)
(* place; two causes are excluded by assumption: every repair has nodes    *)
(* configured (RepairsAssumption), of types there are (NodeTypes).  That   *)
(* the constructor of a node raises is left out.                           *)
(***************************************************************************)
EvaluateReflect ==
  /\ pc = "evaluate"
  /\ current.type = "reflect"
  /\ reflection_round' = reflection_round + 1
  /\ LET repair == Repair(strategy, reflection_round')
         types == IF repair = {} THEN <<>> ELSE ReflectionNodes[CHOOSE s \in repair : TRUE]
         batch == [k \in 1 .. Len(types) |-> ReflectNodeId(reflection_round', types[k])]
     IN /\ sql' \in IF repair = {"SIMPLE_REGENERATE"} THEN {"made", sql} ELSE {sql}
        /\ node_order' = Insert(node_order, index, batch)
        /\ SetUpNext([n \in NodesOf(node_order') |->
                        IF n \in NodesOf(batch) THEN "pending" ELSE status[n]], FALSE)
  /\ UNCHANGED <<request, strategy>>

\* _finalize_workflow: the state is saved and the final result collected.
Finalize == /\ pc = "finalize"
            /\ pc' = "done"
            /\ UNCHANGED <<request, workflow, status, wfStatus, step_count, sql, strategy, fault>>

Ended == pc \in {"done", "raised"} /\ UNCHANGED vars

RunStep == \/ PrepareFirst \/ NodeCompletes \/ NodeFails \/ ResultLost
           \/ LoopEnds \/ Evaluate \/ EvaluateReflect \/ Finalize
Next == RunStep \/ Ended

Spec == Init /\ [][Next]_vars
-----------------------------------------------------------------------------
\* The state has its shape: one status per node of the order.
TypeOK == /\ plan \in Plans /\ streaming \in BOOLEAN /\ maxRound \in RoundLimits
          /\ node_order \in Seq([round : Nat, pos : Nat, type : NodeTypes])
          /\ status \in [NodesOf(node_order) -> {"pending", "completed", "failed"}]
          /\ index \in 1 .. Len(node_order)
          /\ wfStatus \in {"pending", "completed"}
          /\ reflection_round \in Nat
          /\ step_count \in 0 .. MaxSteps
          /\ sql \in {"none", "made", "run"}
          /\ strategy \in Strategies
          /\ fault \in BOOLEAN
          /\ pc \in {"init", "loop", "evaluate", "finalize", "done", "raised"}

\* However often reflect nodes rebuild the order, no node stands in it twice, so
\* none is run a second time or has its finished result replaced by a fresh node.
NoNodeTwice == \A i, j \in 1 .. Len(node_order) : node_order[i] = node_order[j] => i = j

\* The nodes are worked off in order: all before the current one are completed,
\* all behind it are untouched, whatever was inserted in between.
WorkedInOrder == /\ \A k \in 1 .. index - 1 : status[node_order[k]] = "completed"
                 /\ \A k \in index + 1 .. Len(node_order) : status[node_order[k]] = "pending"
                 /\ pc = "loop" => status[current] = IF wfStatus = "completed"
                                                      THEN "completed" ELSE "pending"

\* A workflow is reported completed only when every node it ever had is completed,
\* the inserted ones too.
CompletedMeansAll == wfStatus = "completed" => \A n \in DOMAIN status : status[n] = "completed"

\* The runner walks the order it edits without skipping or repeating a node.
OrderSound == TypeOK /\ NoNodeTwice /\ WorkedInOrder /\ CompletedMeansAll

\* Whatever repairs were inserted, the SQL that a reflect node judges or the output
\* node hands out is one that was executed, not a later one that never ran.
JudgedSqlWasExecuted == pc = "loop" /\ wfStatus # "completed" /\ current.type \in {"reflect", "output"}
                        => sql = "run"

\* The plan generates SQL before the first node that needs some.
Generates(p) == \A k \in DOMAIN p : p[k] \in NeedsSql =>
                  \E j \in 1 .. k - 1 : p[j] \in MakesSql \union MayMakeSql

\* Of such a plan, a run in which nothing failed by itself ends with the workflow
\* completed: the engine loses no node's work, and the step limit does not cut the
\* repairs short.  In a streaming run only where no node's result is lost.
WorkCompletes ==
  /\ pc = "done" /\ ~fault /\ Generates(plan)
  /\ streaming => \A n \in NodesOf(node_order) : n.type \notin ResultLostInStream
  => wfStatus = "completed"

\* A reflection only ever adds nodes right behind the node that asked for them, and
\* none once MAX_REFLECTION_ROUNDS have been used up.
RepairsAreBounded ==
  [][node_order' # node_order =>
       /\ reflection_round < maxRound
       /\ \A k \in 1 .. index : node_order'[k] = node_order[k]
       /\ \A k \in index + 1 .. Len(node_order) :
            node_order'[k + Len(node_order') - Len(node_order)] = node_order[k]]_vars

-----------------------------------------------------------------------------
(***************************************************************************)
(* What the last two properties take of the configuration, and the         *)
(* built-in one has (MCWorkflowRunner).                                    *)
(***************************************************************************)
Makers == MakesSql \union MayMakeSql
Judges == {"reflect", "output"}

\* The SQL there is before the k-th of these types has been executed since it was made.
ExecutedBefore(types, k) ==
  \E j \in 1 .. k - 1 : types[j] = "execute_sql" /\ \A m \in j + 1 .. k - 1 : types[m] \notin Makers

\* Plans and repairs execute SQL before it is judged or handed out, and a repair leaves
\* none behind that was not.
SqlIsExecuted ==
  /\ \A p \in Plans : \A k \in DOMAIN p : p[k] \in Judges => ExecutedBefore(p, k)
  /\ \A s \in Repairs :
       LET r == ReflectionNodes[s]
       IN  /\ \A k \in DOMAIN r : r[k] \in Judges => ExecutedBefore(r, k)
           /\ ExecutedBefore(r, Len(r) + 1)

\* The most nodes that repairs insert within a limit of rounds, when s is the longest:
\* the last round is always REASONING.
MostRepairs(s, limit) ==
  IF limit < 1 THEN 0
  ELSE (limit - 1) * Len(ReflectionNodes[s]) + Len(ReflectionNodes["REASONING"])

Reflecting(p) == \E k \in DOMAIN p : p[k] = "reflect"

\* args.max_steps leaves room for every plan with all its repairs.
StepsSuffice ==
  \A p \in Plans, limit \in RoundLimits, s \in Repairs :
    Len(p) + (IF Reflecting(p) THEN MostRepairs(s, limit) ELSE 0) <= MaxSteps

=============================================================================
