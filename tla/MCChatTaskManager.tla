------------------------- MODULE MCChatTaskManager -------------------------
(* Model-checking instances of ChatTaskManager. *)
EXTENDS ChatTaskManager, TLC

\* Task objects and session ids are interchangeable.
SessionsAndTasks == Permutations(Sessions) \cup Permutations(Tasks)
\* Every way an insert can end fits into one run and three inserts.
NoInserts == [t \in Tasks |-> 0]
InsertsIntoOne == [t \in Tasks |-> IF t = CHOOSE u \in Tasks : TRUE THEN 3 ELSE 0]
=============================================================================
