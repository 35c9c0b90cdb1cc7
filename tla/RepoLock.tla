------------------------------ MODULE RepoLock ------------------------------
(***************************************************************************)
(* The repository lock (crates/linyaps-core/src/repo_lock.rs): ll-cli      *)
(* takes it shared while it records a running container, the daemon takes  *)
(* it exclusively while it looks for running containers.                   *)
(*                                                                         *)
(* It has two levels.  LOCAL_LOCK, a flag with a condition variable, lets  *)
(* one thread of a process in.  An fcntl record lock on a file arbitrates  *)
(* between processes; the kernel keeps it per process and drops it when    *)
(* the process closes ANY descriptor of the file.  No process of the       *)
(* repository forks with a lock taken, so LocalLockState.pid stays the     *)
(* pid of the process and is left out.                                     *)
(***************************************************************************)
EXTENDS Naturals, FiniteSets

CONSTANTS
    Processes,
    Threads,
    ProcessOf,   \* the process of each thread
    Uses         \* the locks each thread asks for

ASSUME ProcessAssumption == /\ ProcessOf \in [Threads -> Processes]
                            /\ Uses \in [Threads -> SUBSET {"shared", "exclusive"}]

VARIABLES
    pc,      \* where each thread is in shared_at, try_exclusive_at or drop
    mode,    \* what each thread asks for or holds
    held,    \* LocalLockState.held of each process
    record   \* the record lock the kernel keeps for each process

vars == <<pc, mode, held, record>>

Modes == {"none", "shared", "exclusive"}
\* The thread owns the local flag.
OwnPcs == {"open", "lock", "holds", "release", "fail"}
\* In "close" the flag is given back and the descriptor still open.
Pcs == {"idle", "asleep", "woken", "close"} \cup OwnPcs

Init ==
    /\ pc = [t \in Threads |-> "idle"]
    /\ mode = [t \in Threads |-> "none"]
    /\ held = [p \in Processes |-> FALSE]
    /\ record = [p \in Processes |-> "none"]

Peers(t) == {u \in Threads : ProcessOf[u] = ProcessOf[t]}

\* What the kernel grants: the other processes hold nothing that conflicts.
Grantable(p, m) ==
    \A q \in Processes \ {p} :
        record[q] = "none" \/ (m = "shared" /\ record[q] = "shared")

-----------------------------------------------------------------------------
\* reserve_local_blocking: take the flag, or sleep on the condition variable.
ReserveShared(t) ==
    LET p == ProcessOf[t] IN
    /\ pc[t] = "idle" /\ "shared" \in Uses[t]
    /\ mode' = [mode EXCEPT ![t] = "shared"]
    /\ pc' = [pc EXCEPT ![t] = IF held[p] THEN "asleep" ELSE "open"]
    /\ held' = [held EXCEPT ![p] = TRUE]
    /\ UNCHANGED record

\* Mutant: a held flag is not looked at.
ReserveExclusiveAnyway(t) ==
    /\ pc[t] = "idle" /\ "exclusive" \in Uses[t]
    /\ mode' = [mode EXCEPT ![t] = "exclusive"]
    /\ pc' = [pc EXCEPT ![t] = "open"]
    /\ held' = [held EXCEPT ![ProcessOf[t]] = TRUE]
    /\ UNCHANGED record

\* reserve_local_nonblocking: None when another thread has the flag.
ReserveExclusive(t) ==
    LET p == ProcessOf[t] IN
    /\ pc[t] = "idle" /\ "exclusive" \in Uses[t]
    /\ ~held[p]
    /\ mode' = [mode EXCEPT ![t] = "exclusive"]
    /\ pc' = [pc EXCEPT ![t] = "open"]
    /\ held' = [held EXCEPT ![p] = TRUE]
    /\ UNCHANGED record

\* A woken sleeper checks the flag again.
Wake(t) ==
    LET p == ProcessOf[t] IN
    /\ pc[t] = "woken"
    /\ pc' = [pc EXCEPT ![t] = IF held[p] THEN "asleep" ELSE "open"]
    /\ held' = [held EXCEPT ![p] = TRUE]
    /\ UNCHANGED <<mode, record>>

\* open_lock_file; an error releases the flag with no descriptor open.
Open(t) ==
    /\ pc[t] = "open"
    /\ pc' = [pc EXCEPT ![t] = "lock"] \/ pc' = [pc EXCEPT ![t] = "fail"]
    /\ UNCHANGED <<mode, held, record>>

\* Mutant: a process is granted a lock whatever the others hold.
LockExclusiveAnyway(t) ==
    LET p == ProcessOf[t] IN
    /\ pc[t] = "lock" /\ mode[t] = "exclusive"
    /\ pc' = [pc EXCEPT ![t] = "holds"]
    /\ record' = [record EXCEPT ![p] = "exclusive"]
    /\ UNCHANGED <<mode, held>>

\* fcntl_lock(NonBlockingLockExclusive): granted, or the flag is given back
\* before the descriptor is closed.
LockExclusive(t) ==
    LET p == ProcessOf[t] IN
    /\ pc[t] = "lock" /\ mode[t] = "exclusive"
    /\ \/ /\ Grantable(p, "exclusive")
          /\ pc' = [pc EXCEPT ![t] = "holds"]
          /\ record' = [record EXCEPT ![p] = "exclusive"]
       \/ /\ ~Grantable(p, "exclusive")
          /\ pc' = [pc EXCEPT ![t] = "release"]
          /\ UNCHANGED record
    /\ UNCHANGED <<mode, held>>

\* fcntl_lock(LockShared) waits for the other processes.
LockShared(t) ==
    LET p == ProcessOf[t] IN
    /\ pc[t] = "lock" /\ mode[t] = "shared"
    /\ Grantable(p, "shared")
    /\ pc' = [pc EXCEPT ![t] = "holds"]
    /\ record' = [record EXCEPT ![p] = "shared"]
    /\ UNCHANGED <<mode, held>>

\* fcntl_lock fails: open_and_lock closes its descriptor before shared_at
\* gives the flag back, try_exclusive_at closes it after.
LockError(t) ==
    /\ pc[t] = "lock"
    /\ IF mode[t] = "shared"
       THEN /\ record' = [record EXCEPT ![ProcessOf[t]] = "none"]
            /\ pc' = [pc EXCEPT ![t] = "fail"]
       ELSE /\ pc' = [pc EXCEPT ![t] = "release"]
            /\ UNCHANGED record
    /\ UNCHANGED <<mode, held>>

\* The holder lets go; Drop starts with fcntl_lock(Unlock).
Unlock(t) ==
    /\ pc[t] = "holds"
    /\ record' = [record EXCEPT ![ProcessOf[t]] = "none"]
    /\ pc' = [pc EXCEPT ![t] = "release"]
    /\ UNCHANGED <<mode, held>>

\* release_local clears the flag and wakes every sleeper.
Woken(t, l) == [u \in Threads |-> IF u = t THEN l
                                  ELSE IF u \in Peers(t) /\ pc[u] = "asleep" THEN "woken"
                                  ELSE pc[u]]

\* Mutant: the flag is cleared and nobody is notified.
ReleaseSilently(t) ==
    /\ pc[t] = "release"
    /\ held' = [held EXCEPT ![ProcessOf[t]] = FALSE]
    /\ pc' = [pc EXCEPT ![t] = "close"]
    /\ UNCHANGED <<mode, record>>

\* Drop and try_exclusive_at: the descriptor is still open afterwards.
Release(t) ==
    /\ pc[t] = "release"
    /\ held' = [held EXCEPT ![ProcessOf[t]] = FALSE]
    /\ pc' = Woken(t, "close")
    /\ UNCHANGED <<mode, record>>

\* The error paths that have no descriptor left.
Fail(t) ==
    /\ pc[t] = "fail"
    /\ held' = [held EXCEPT ![ProcessOf[t]] = FALSE]
    /\ pc' = Woken(t, "idle")
    /\ mode' = [mode EXCEPT ![t] = "none"]
    /\ UNCHANGED record

\* The field fd is dropped: close(2) takes every record lock of the process.
Close(t) ==
    /\ pc[t] = "close"
    /\ record' = [record EXCEPT ![ProcessOf[t]] = "none"]
    /\ pc' = [pc EXCEPT ![t] = "idle"]
    /\ mode' = [mode EXCEPT ![t] = "none"]
    /\ UNCHANGED held

\* The process dies and is started again.
Exit(p) ==
    LET mine == {t \in Threads : ProcessOf[t] = p} IN
    /\ \E t \in mine : pc[t] # "idle"
    /\ pc' = [t \in Threads |-> IF t \in mine THEN "idle" ELSE pc[t]]
    /\ mode' = [t \in Threads |-> IF t \in mine THEN "none" ELSE mode[t]]
    /\ held' = [held EXCEPT ![p] = FALSE]
    /\ record' = [record EXCEPT ![p] = "none"]

Thread(t) ==
    \/ ReserveShared(t) \/ ReserveExclusive(t) \/ Wake(t) \/ Open(t)
    \/ LockExclusive(t) \/ LockShared(t) \/ LockError(t)
    \/ Unlock(t) \/ Release(t) \/ Fail(t) \/ Close(t)

Next == (\E t \in Threads : Thread(t)) \/ (\E p \in Processes : Exit(p))

Spec == Init /\ [][Next]_vars

-----------------------------------------------------------------------------
(* Properties.                                                             *)

Owner(t) == pc[t] \in OwnPcs

\* The variables have their types, and a thread that is out of repo_lock.rs
\* asks for nothing.
TypeOK ==
    /\ pc \in [Threads -> Pcs]
    /\ mode \in [Threads -> Modes]
    /\ held \in [Processes -> BOOLEAN]
    /\ record \in [Processes -> Modes]
    /\ \A t \in Threads : pc[t] = "idle" <=> mode[t] = "none"

\* One thread of a process at a time is between reserve_local and
\* release_local, so no two of them ever use the record lock together.
LocalExclusion ==
    \A t, u \in Threads :
        t # u /\ ProcessOf[t] = ProcessOf[u] => ~(Owner(t) /\ Owner(u))

\* No lost wake-up: a thread sleeps on the condition variable only while
\* some thread of its process is there to notify it.
SleepersServed ==
    \A t \in Threads : pc[t] = "asleep" => \E u \in Peers(t) : Owner(u)

\* Readers and writers, as the tests of repo_lock.rs have it: while a thread
\* has an exclusive RepoLock no thread of another process has one at all.
CrossExclusion ==
    \A t, u \in Threads :
        /\ ProcessOf[t] # ProcessOf[u]
        /\ pc[t] = "holds" /\ mode[t] = "exclusive"
        => pc[u] # "holds"

\* Readers and writers, among the processes that lock from one thread each (as
\* ll-cli does), next to others that lock from several, fail and die.
LoneExclusion ==
    \A t, u \in Threads :
        /\ pc[t] = "holds" /\ mode[t] = "exclusive"
        /\ t # u /\ Peers(t) = {t} /\ Peers(u) = {u}
        => pc[u] # "holds"
=============================================================================
