---------------------------- MODULE MCTaskClient ----------------------------
(* TaskClient on small instances.                                          *)
EXTENDS TaskClient, TLC

\* One client at a time.
Alone == {{t} : t \in Tasks}
=============================================================================
