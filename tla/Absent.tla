------------------------------- MODULE Absent -------------------------------
(* What stands for no value, no file and no process in every module.         *)
CONSTANT None
=============================================================================
