--------------------------- MODULE MCParallelNode ---------------------------
(***************************************************************************)
(* Three children: two sub-workflows and an action (two that execute SQL,   *)
(* one of which does not generate any, or one that executes and one that    *)
(* reasons), one sub-workflow and two actions, and three actions.  The long *)
(* plan has as many nodes as there are iterations.                          *)
(***************************************************************************)
EXTENDS ParallelStep

CONSTANTS a, b, c

Generate == <<"gen_sql", "execute_sql">>
Search == <<"search_metrics", "reasoning">>
Long == <<"gen_sql", "execute_sql", "reasoning">>
Only(p) == [x \in Children |-> IF x = a THEN p ELSE <<>>]
Two(p, q) == [x \in Children |-> CASE x = a -> p [] x = b -> q [] OTHER -> <<>>]

Layouts == {Two(Generate, Generate), Two(Generate, Search),
            Only(Generate), Only(Long), Only(<<>>)}
=============================================================================
