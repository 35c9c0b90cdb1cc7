--------------------------- MODULE MCTaskService ---------------------------
(* TaskService on small instances.                                         *)
EXTENDS TaskService, TLC

\* The other queue: searches, of which only one still has its owner.
OneOwned == {CHOOSE t \in Tasks : TRUE}
Searches == INSTANCE TaskService WITH QueuedTasks <- Tasks, OwnedTasks <- OneOwned

\* The queue of the operations, or that of the searches.
EitherQueue == (Init \/ Searches!Init) /\ [][Next]_vars

Symmetry == Permutations(Calls) \cup Permutations(Workers)
=============================================================================
