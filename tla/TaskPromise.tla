---------------------------- MODULE TaskPromise ----------------------------
(***************************************************************************)
(* What the task queue promises the clients of the package manager:        *)
(* each job is executed at most once, one at a time, and each task is      *)
(* reported finished at most once - as anything but canceled only after    *)
(* its job is over.                                                        *)
(***************************************************************************)
EXTENDS Naturals, Sequences

CONSTANTS Tasks

VARIABLES begun,    \* the tasks whose job was taken for execution
          active,   \* the tasks whose job is executing
          signals   \* the outcomes reported for each task

vars == <<begun, active, signals>>

Init == begun = {} /\ active = {} /\ signals = [t \in Tasks |-> <<>>]

Begin(t) ==
    /\ t \notin begun /\ active = {}
    /\ begun' = begun \cup {t} /\ active' = {t}
    /\ UNCHANGED signals

End(t) ==
    /\ active = {t} /\ active' = {}
    /\ UNCHANGED <<begun, signals>>

Finish(t, o) ==
    /\ signals[t] = <<>>
    /\ o # "Canceled" => t \in begun \ active
    /\ signals' = [signals EXCEPT ![t] = <<o>>]
    /\ UNCHANGED <<begun, active>>

Next == \E t \in Tasks : \/ Begin(t) \/ End(t)
                         \/ \E o \in {"Canceled", "Failed", "Succeed"} : Finish(t, o)

Spec == Init /\ [][Next]_vars
=============================================================================
