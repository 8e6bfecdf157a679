---------------------------- MODULE ParallelNode ----------------------------
(***************************************************************************)
(* A parallel node followed by selection and execute_sql, as the workflow  *)
(* documentation lays them out (agent/node/parallel_node.py,               *)
(* subworkflow_node.py, selection_node.py).  The children run in a thread  *)
(* each.  An action child (a gen_sql node) only executes; its SQL is in its *)
(* result.  A sub-workflow child walks a plan of its own over a copy of the *)
(* parent's context, and Context.copy() is shallow: the list of SQL records *)
(* is one list for the parent and all its sub-workflows.  An SQL is named   *)
(* by the position of its record in that list.                              *)
(*                                                                         *)
(* Sub-workflow plans here hold no reflect node: WorkflowRunner models      *)
(* reflection.                                                             *)
(***************************************************************************)
EXTENDS Integers, Sequences

CONSTANTS Children,
          Configurations,  \* child -> its plan; <<>> is an action child
          Nobody,
          MaxIterations,   \* loop protection of SubworkflowNode.execute (50)
          MaxRecords       \* bound: reasoning adds steps of its own to shorter lists only

\* What is assumed of them (ASSUMEd by ParallelStep).
ParallelConstants == /\ Configurations \subseteq [Children -> Seq(STRING)]
                     /\ Nobody \notin Children
                     /\ MaxIterations \in Nat \ {0}
                     /\ MaxRecords \in Nat

VARIABLES plan,        \* the configuration of this run
          sql_contexts,\* the shared list: who made the SQL, and for each of the Attributes
                       \* the SQL whose result it shows (0: of none)
          at,          \* child -> index of its current node
          input,       \* child -> the SQL its execute_sql node was set up with
          last_record, \* child -> the record its execute_sql is writing to
          written,     \* child -> how many of its attributes are written
          state,       \* child -> idle, ready, ran, writing, moved, ok, failed
          found,       \* child -> its result carries SQL of its own
          iterations,  \* child -> iteration_count
          selected,    \* selected_source of the selection node
          final,       \* the SQL the parent's execute_sql ran
          pc
vars == <<plan, sql_contexts, at, input, last_record, written, state, found, iterations,
          selected, final, pc>>

\* sql_return, row_count and sql_error, in the order in which they are written.
Attributes == 1 .. 3

Sub(c) == plan[c] # <<>>
node(c) == plan[c][at[c]]
NewRecord(c) == [by |-> c, shown |-> [a \in Attributes |-> 0]]
Ended(c) == state[c] \in {"ok", "failed"}

-----------------------------------------------------------------------------
Init == /\ plan \in Configurations
        /\ sql_contexts = <<>>
        /\ at = [c \in Children |-> 1]
        /\ input = [c \in Children |-> 0]
        /\ last_record = [c \in Children |-> 0]
        /\ written = [c \in Children |-> 0]
        /\ state = [c \in Children |-> "idle"]
        /\ found = [c \in Children |-> FALSE]
        /\ iterations = [c \in Children |-> 0]
        /\ selected = Nobody
        /\ final = 0
        /\ pc = "parallel"

Enters(c, s) == state[c] = s /\ UNCHANGED <<plan, selected, final, pc>>
Goes(c, s) == state' = [state EXCEPT ![c] = s]

\* _execute_child_node of an action child: execute, without update_context.
RunAction(c) == /\ Enters(c, "idle") /\ pc = "parallel"
                /\ ~Sub(c)
                /\ \/ Goes(c, "ok") /\ found' \in {found, [found EXCEPT ![c] = TRUE]}
                   \/ Goes(c, "failed") /\ UNCHANGED found
                /\ UNCHANGED <<sql_contexts, at, input, last_record, written, iterations>>

\* setup_node_input of the k-th node of c: execute_sql takes the last record's SQL
\* and raises when there is none; a setup that fails or raises ends the child.
SetUp(c, k) == \/ /\ plan[c][k] = "execute_sql" => sql_contexts # <<>>
                  /\ input' = [input EXCEPT ![c] = IF plan[c][k] = "execute_sql"
                                                   THEN Len(sql_contexts) ELSE 0]
                  /\ Goes(c, "ready")
               \/ Goes(c, "failed") /\ UNCHANGED input

\* The head of SubworkflowNode.execute: the start node completes, the first node is
\* set up.
StartSub(c) == /\ Enters(c, "idle") /\ pc = "parallel"
               /\ Sub(c)
               /\ SetUp(c, 1)
               /\ UNCHANGED <<sql_contexts, at, last_record, written, found, iterations>>

\* One iteration's execute: the node's result decides; a failure ends the child.
RunNode(c) == /\ Enters(c, "ready")
              /\ iterations' = [iterations EXCEPT ![c] = @ + 1]
              /\ Goes(c, "ran") \/ Goes(c, "failed")
              /\ UNCHANGED <<sql_contexts, at, input, last_record, written, found>>

\* update_context of the nodes that make SQL appends: gen_sql a record if it found
\* SQL, reasoning one for each of its steps and one for its result.
UpdateContext(c) ==
  /\ Enters(c, "ran")
  /\ node(c) # "execute_sql"
  /\ \/ /\ node(c) = "reasoning" /\ Len(sql_contexts) < MaxRecords
        /\ sql_contexts' = Append(sql_contexts, NewRecord(c))
        /\ UNCHANGED state
     \/ /\ node(c) \in {"gen_sql", "reasoning"}
        /\ sql_contexts' = Append(sql_contexts, NewRecord(c))
        /\ Goes(c, "moved")
     \/ UNCHANGED sql_contexts /\ Goes(c, "moved")
  /\ UNCHANGED <<at, input, last_record, written, found, iterations>>

\* update_context of execute_sql first takes the record that is last by now ...
ReadLast(c) == /\ Enters(c, "ran")
               /\ node(c) = "execute_sql"
               /\ last_record' = [last_record EXCEPT ![c] = Len(sql_contexts)]
               /\ written' = [written EXCEPT ![c] = 0]
               /\ Goes(c, "writing")
               /\ UNCHANGED <<sql_contexts, at, input, found, iterations>>

\* ... and then sets its attributes one by one, whatever other threads append or set
\* in between.
WriteAttribute(c) ==
  /\ Enters(c, "writing")
  /\ sql_contexts' = [sql_contexts EXCEPT ![last_record[c]].shown[written[c] + 1] = input[c]]
  /\ written' = [written EXCEPT ![c] = @ + 1]
  /\ IF written'[c] = 3 THEN Goes(c, "moved") ELSE UNCHANGED state
  /\ UNCHANGED <<at, input, last_record, found, iterations>>

\* advance_to_next_node, the next node's setup, and the loop condition: a child that
\* has used up its iterations fails, even when it has just run its last node.
MoveOn(c) == /\ Enters(c, "moved")
             /\ \/ /\ at[c] < Len(plan[c]) /\ iterations[c] < MaxIterations
                   /\ at' = [at EXCEPT ![c] = @ + 1]
                   /\ SetUp(c, at[c] + 1)
                \/ /\ at[c] = Len(plan[c]) /\ iterations[c] < MaxIterations
                   /\ Goes(c, "ok")
                   /\ UNCHANGED <<at, input>>
                \/ /\ iterations[c] >= MaxIterations
                   /\ Goes(c, "failed")
                   /\ UNCHANGED <<at, input>>
             /\ UNCHANGED <<sql_contexts, last_record, written, found, iterations>>

ChildStep(c) == \/ RunAction(c) \/ StartSub(c) \/ RunNode(c) \/ UpdateContext(c)
                \/ ReadLast(c) \/ WriteAttribute(c) \/ MoveOn(c)

children == <<at, input, last_record, written, state, found, iterations>>

\* Mutant of Join: the first success ends the node, whatever is still running.
JoinFirstSuccess == /\ pc = "parallel"
                    /\ \A c \in Children : state[c] # "idle"
                    /\ \/ (\E c \in Children : state[c] = "ok") /\ pc' = "select"
                       \/ (\A c \in Children : state[c] = "failed") /\ pc' = "failed"
                    /\ UNCHANGED <<plan, sql_contexts, children, selected, final>>

\* ParallelNode.execute once as_completed is through: any success is a success.
Join == /\ pc = "parallel"
        /\ \A c \in Children : Ended(c)
        /\ pc' = IF \E c \in Children : state[c] = "ok" THEN "select" ELSE "failed"
        /\ UNCHANGED <<plan, sql_contexts, children, selected, final>>

\* ParallelNode.execute raises: a child cannot be made or submitted.  The executor
\* waits for those that were, and the node fails whatever became of them.
GiveUp == /\ pc = "parallel"
          /\ \E c \in Children : state[c] = "idle"
          /\ \A c \in Children : state[c] = "idle" \/ Ended(c)
          /\ pc' = "failed"
          /\ UNCHANGED <<plan, sql_contexts, children, selected, final>>

\* Mutant of Select: the chosen SQL is not appended.
SelectKeepsSql == /\ pc = "select"
                  /\ selected' \in Children
                  /\ pc' = IF sql_contexts = <<>> THEN "failed" ELSE "execute"
                  /\ UNCHANGED <<plan, sql_contexts, children, final>>

\* The selection node: the model may choose any candidate.  SelectionNode.update_context
\* appends the candidate's SQL if its result has some; a sub-workflow's has none.  The
\* setup of execute_sql then needs a record.
Select == /\ pc = "select"
          /\ selected' \in Children
          /\ sql_contexts' = IF found[selected']
                             THEN Append(sql_contexts, NewRecord(selected'))
                             ELSE sql_contexts
          /\ pc' \in IF sql_contexts' = <<>> THEN {"failed"} ELSE {"failed", "execute"}
          /\ UNCHANGED <<plan, children, final>>

\* The selection fails: no input could be set up for it, or execute raised.
SelectionFails == /\ pc = "select"
                  /\ pc' = "failed"
                  /\ UNCHANGED <<plan, sql_contexts, children, selected, final>>

\* The parent's execute_sql, over the last record; a failed one updates nothing.
Execute == /\ pc = "execute"
           /\ final' = Len(sql_contexts)
           /\ \/ /\ sql_contexts' = [sql_contexts EXCEPT
                                     ![Len(sql_contexts)].shown = [a \in Attributes |-> final']]
                 /\ pc' = "done"
              \/ pc' = "failed" /\ UNCHANGED sql_contexts
           /\ UNCHANGED <<plan, children, selected>>

Over == pc \in {"done", "failed"} /\ UNCHANGED vars

Next == \/ \E c \in Children : ChildStep(c)
        \/ Join \/ GiveUp \/ Select \/ SelectionFails \/ Execute \/ Over

Spec == Init /\ [][Next]_vars
-----------------------------------------------------------------------------
\* The state has its shape.
TypeOK == /\ plan \in Configurations
          /\ sql_contexts \in Seq([by : Children, shown : [Attributes -> Nat]])
          /\ at \in [Children -> Nat \ {0}]
          /\ \A c \in Children : Sub(c) => at[c] <= Len(plan[c])
          /\ input \in [Children -> Nat] /\ last_record \in [Children -> Nat]
          /\ written \in [Children -> 0 .. 3]
          /\ state \in [Children -> {"idle", "ready", "ran", "writing", "moved", "ok", "failed"}]
          /\ found \in [Children -> BOOLEAN]
          /\ iterations \in [Children -> 0 .. MaxIterations]
          /\ selected \in Children \union {Nobody} /\ final \in 0 .. Len(sql_contexts)
          /\ pc \in {"parallel", "select", "execute", "done", "failed"}

\* A sub-workflow whose siblings are all actions runs only SQL it generated, and no
\* attribute of a record shows the result of another record's SQL.
LoneSubIsConsistent ==
  \A c \in Children :
    (\A d \in Children \ {c} : ~Sub(d)) =>
      /\ state[c] \in {"ready", "ran", "writing"} /\ node(c) = "execute_sql" =>
           sql_contexts[input[c]].by = c
      /\ \A k \in 1 .. Len(sql_contexts) : \A a \in Attributes : sql_contexts[k].shown[a] \in {0, k}

\* However the threads of several sub-workflows interleave, what a record shows is
\* never the result of SQL that came after it.
ShownIsNotNewer == \A k \in 1 .. Len(sql_contexts) : \A a \in Attributes : sql_contexts[k].shown[a] <= k

\* When the selection falls on an action that found SQL, that SQL is what the parent
\* executes, whatever sub-workflows appended to the list meanwhile.
SelectedActionIsRun == final # 0 /\ found[selected] => sql_contexts[final].by = selected

\* The SQL of an action that was not selected never gets among the records.
RejectedStaysOut == \A k \in 1 .. Len(sql_contexts) :
                      ~Sub(sql_contexts[k].by) => sql_contexts[k].by = selected

\* What can be relied on although all sub-workflows share one list of records.
RecordsSound == /\ TypeOK /\ LoneSubIsConsistent /\ ShownIsNotNewer
                /\ SelectedActionIsRun /\ RejectedStaysOut

\* Records are only added, and once the node has ended no thread it started writes to
\* one any more: only the last record can still change.
RecordsOnlyGrow ==
  [][\A k \in 1 .. Len(sql_contexts) :
       /\ k <= Len(sql_contexts') /\ sql_contexts'[k].by = sql_contexts[k].by
       /\ pc # "parallel" /\ k < Len(sql_contexts) => sql_contexts'[k] = sql_contexts[k]]_vars
=============================================================================
