-------------------------- MODULE MCWorkflowRunner --------------------------
(***************************************************************************)
(* The engine over the built-in plans of agent/workflow.yml and the default *)
(* reflection nodes of configuration/agent_config.py, with the default      *)
(* limit of 20 steps.                                                       *)
(***************************************************************************)
EXTENDS WorkflowRunner

\* Control and action types of configuration/node_type.py that plans use.
DefaultTypes == {"start", "reflect", "schema_linking", "execute_sql", "output", "reasoning",
                 "doc_search", "search_metrics", "date_parser", "chat", "gen_sql"}

BuiltInPlans == {
  <<"schema_linking", "gen_sql", "execute_sql", "reflect", "output">>,
  <<"schema_linking", "gen_sql", "execute_sql", "output">>,
  <<>>,
  <<"schema_linking", "search_metrics", "date_parser", "gen_sql", "execute_sql", "output">>,
  <<"chat", "execute_sql", "output">>,
  <<"gen_sql", "execute_sql", "output">>}

DefaultReflectionNodes ==
  [s \in Repairs |->
     CASE s = "SCHEMA_LINKING" -> <<"schema_linking", "gen_sql", "execute_sql", "reflect">>
       [] s = "DOC_SEARCH" -> <<"doc_search", "gen_sql", "execute_sql", "reflect">>
       [] s = "SIMPLE_REGENERATE" -> <<"execute_sql", "reflect">>
       [] s = "REASONING" -> <<"reasoning", "execute_sql", "reflect">>]

\* Four rounds are what twenty steps leave room for: 5 + 3 * 4 + 3.
Limits == 0 .. 4

\* What the theorems about executed SQL and about completion assume.
ASSUME BuiltInSqlIsExecuted == SqlIsExecuted
ASSUME TwentyStepsSuffice == StepsSuffice
=============================================================================
