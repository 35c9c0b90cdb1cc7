-------------------------- MODULE RunningContainers --------------------------
(* What runs, and who knows of it: `ll-cli run` (runtime.rs) mounts the root *)
(* of a container, starts it with the OCI runtime and records it in a file   *)
(* named by its pid; ll-cli ps, kill and enter (main.rs) join these files    *)
(* with the status the runtime keeps; the daemon (operations.rs) looks at    *)
(* them to know what is in use.  The container's own state is in             *)
(* ContainerSession.                                                         *)
EXTENDS Integers, FiniteSets

CONSTANTS
    Ids,        \* containers; each is of an application of its own
    Runs,       \* numbers of the ll-cli run processes, in the order they start
    MaxPid,
    Hosts,      \* [owner, kernel, release, fuse], what an overlay can be mounted with
    MaxLost,    \* bounds the runs that are killed or fail
    None

VARIABLES
    host,
    cli,        \* of each run: where ll-cli is, the container, what names its file
    runtime,    \* the OCI runtime of each run: its pid, and "off", "starting", "up",
                \* "ending", "zombie" or "over"
    box,        \* of each container the pid its runtime's status.json says, or None
    alive,      \* pids there are in /proc
    files,      \* of each pid, the container its file names, "cut" or None
    rootfs,     \* of each container: None, "made", "kernel" or "fuse"
    lost,       \* runs whose ll-cli was killed, or let go of them by an error
    reused,     \* a pid was given out while a file or a run of its former owner was left
    last        \* the pid that was given out last

Pids == 1..MaxPid

vars == <<host, cli, runtime, box, alive, files, rootfs, lost, reused, last>>
pids == <<alive, reused, last>>

Init == /\ host \in Hosts
        /\ cli = [n \in Runs |-> [at |-> "new", id |-> None, file |-> None]]
        /\ runtime = [n \in Runs |-> [at |-> "off", pid |-> None]]
        /\ box = [i \in Ids |-> None] /\ alive = {}
        /\ files = [p \in Pids |-> None] /\ rootfs = [i \in Ids |-> None]
        /\ lost = {} /\ reused = FALSE /\ last = 0

At(n, where) == cli[n].at = where
Go(n, where) == cli' = [cli EXCEPT ![n].at = where]
Id(n) == cli[n].id

\* Pids are given out in turn; one comes back when its process is gone.
After(p) == (p - last - 1) % MaxPid
NextPid(p) == p \notin alive /\ \A q \in Pids \ alive : After(p) <= After(q)
LeftOf(p) == \/ files[p] # None \/ \E i \in Ids : box[i] = p
             \/ \E n \in Runs : cli[n].file = p /\ ~ At(n, "gone")
Give(p) == /\ NextPid(p) /\ last' = p
           /\ alive' = alive \union {p} /\ reused' = (reused \/ LeftOf(p))

----------------------------------------------------------------------------
(* ll-cli run, which has the startup lock of the container until it ends.    *)

\* select_overlay_mode: the kernel's for layers of one's own.
Mode == CASE host.owner /\ host.kernel /\ host.release -> "kernel"
          [] host.fuse -> "fuse"
          [] OTHER -> None

\* The bundle is cleared before anything else; one whose root is still mounted
\* cannot be.  Where an earlier runtime of the container is still up, the run is
\* sent into it (ContainerSession), or starts a runtime that is refused.
Start(n, i) ==
    /\ At(n, "new") /\ \A m \in Runs : m < n => ~ At(m, "new")
    /\ \A m \in Runs : Id(m) = i => At(m, "gone")
    /\ cli' = [cli EXCEPT ![n] = [at |-> IF Mode = None \/ rootfs[i] \in {"kernel", "fuse"}
                                         THEN "gone" ELSE "mount", id |-> i, file |-> None]]
    /\ rootfs' = [rootfs EXCEPT ![i] = IF @ = "made" /\ Mode # None THEN None ELSE @]
    /\ UNCHANGED <<runtime, box, files, lost, pids, host>>

Mount(n, ok) == /\ At(n, "mount") /\ Go(n, IF ok THEN "spawn" ELSE "clean")
                /\ rootfs' = [rootfs EXCEPT ![Id(n)] = IF ok THEN Mode ELSE "made"]
                /\ UNCHANGED <<runtime, box, files, lost, pids, host>>

Spawn(n, p) == /\ At(n, "spawn") /\ Give(p) /\ Go(n, "wait")
               /\ runtime' = [runtime EXCEPT ![n] = [at |-> "starting", pid |-> p]]
               /\ UNCHANGED <<box, files, rootfs, lost, host>>

\* wait_for_container_pid: the status of the container, or after 10 seconds
\* the runtime itself.
Named(n, p) == /\ At(n, "wait") /\ p \in {box[Id(n)], runtime[n].pid} \ {None}
               /\ cli' = [cli EXCEPT ![n].at = "record", ![n].file = p]
               /\ UNCHANGED <<runtime, box, files, rootfs, lost, pids, host>>

\* write_process_state: the file is emptied and written under the shared
\* RepoLock.
Record(n) == /\ At(n, "record") /\ Go(n, "write")
             /\ files' = [files EXCEPT ![cli[n].file] = "cut"]
             /\ UNCHANGED <<runtime, box, rootfs, lost, pids, host>>
Recorded(n) == /\ At(n, "write") /\ Go(n, "child")
               /\ files' = [files EXCEPT ![cli[n].file] = Id(n)]
               /\ UNCHANGED <<runtime, box, rootfs, lost, pids, host>>

\* The runtime is waited for, then its file removed.
Waited(n) == /\ At(n, "child") /\ runtime[n].at = "zombie" /\ Go(n, "forget")
             /\ runtime' = [runtime EXCEPT ![n].at = "over"]
             /\ alive' = alive \ {runtime[n].pid}
             /\ UNCHANGED <<box, files, rootfs, lost, reused, last, host>>
Forget(n) == /\ At(n, "forget") /\ Go(n, "clean")
             /\ files' = [files EXCEPT ![cli[n].file] = None]
             /\ UNCHANGED <<runtime, box, rootfs, lost, pids, host>>

\* Some runs end as they should not.
Lose(n) == Cardinality(lost) < MaxLost /\ lost' = lost \union {n}

\* An error ends the run with the drops, and leaves the runtime to itself.
Fails(n) == /\ cli[n].at \in {"spawn", "record", "write"} /\ Go(n, "drop")
            /\ Lose(n)
            /\ UNCHANGED <<runtime, box, files, rootfs, pids, host>>

\* Mutant: only the mount of the kernel is taken down.
CleanKernel(n) == /\ cli[n].at \in {"clean", "drop"} /\ Go(n, "gone")
                  /\ rootfs' = [rootfs EXCEPT ![Id(n)] = IF @ = "fuse" THEN @ ELSE None]
                  /\ UNCHANGED <<runtime, box, files, lost, pids, host>>
\* The mount is dropped and the bundle removed, the mount lazily if it is busy.
Clean(n) == /\ cli[n].at \in {"clean", "drop"} /\ Go(n, "gone")
            /\ rootfs' = [rootfs EXCEPT ![Id(n)] = None]
            /\ UNCHANGED <<runtime, box, files, lost, pids, host>>

\* Whoever is left of it gets another parent.
Killed(n) ==
    /\ cli[n].at \notin {"new", "gone"} /\ Go(n, "gone")
    /\ Lose(n)
    /\ runtime' = [runtime EXCEPT ![n].at = IF @ = "zombie" THEN "over" ELSE @]
    /\ alive' = alive \ (IF runtime[n].at = "zombie" THEN {runtime[n].pid} ELSE {})
    /\ UNCHANGED <<box, files, rootfs, reused, last, host>>

----------------------------------------------------------------------------
(* The OCI runtime: external.                                                *)

\* A container whose id is taken is not created.
Up(n, p) == /\ runtime[n].at = "starting" /\ box[Id(n)] = None /\ Give(p)
            /\ runtime' = [runtime EXCEPT ![n].at = "up"]
            /\ box' = [box EXCEPT ![Id(n)] = p]
            /\ UNCHANGED <<cli, files, rootfs, lost, host>>
\* The first process of the container ends, then its runtime, which stays a
\* process until its parent has waited for it.
Ends(n) == /\ runtime' = [runtime EXCEPT ![n].at = IF At(n, "gone") THEN "over" ELSE "zombie"]
           /\ alive' = alive \ (IF At(n, "gone") THEN {runtime[n].pid} ELSE {})
Refused(n) == /\ runtime[n].at = "starting" /\ Ends(n)
              /\ UNCHANGED <<cli, box, files, rootfs, lost, reused, last, host>>
Exits(n) == /\ runtime[n].at = "up"
            /\ runtime' = [runtime EXCEPT ![n].at = "ending"]
            /\ alive' = alive \ {box[Id(n)]}
            /\ UNCHANGED <<cli, box, files, rootfs, lost, reused, last, host>>
Over(n) == /\ runtime[n].at = "ending" /\ Ends(n)
           /\ box' = [box EXCEPT ![Id(n)] = None]
           /\ UNCHANGED <<cli, files, rootfs, lost, reused, last, host>>

----------------------------------------------------------------------------
(* current_containers: a container is listed once for each file that names   *)
(* it, has a process and goes with a status of the runtime.                  *)

\* Mutant: the file of a process that is gone counts.
RowsAll(i) == {p \in Pids : files[p] = i}
Rows(i) == {p \in alive : files[p] = i}

\* matching_container_ids wants exactly one.  The statuses are read before the
\* files, so that of this one may be gone by now or have come back.
KillOne(i) == /\ Cardinality(Rows(i)) = 1
              /\ \E n \in Runs : Id(n) = i /\ Exits(n)

Next == \/ \E n \in Runs :
            \/ \E i \in Ids : Start(n, i)
            \/ \E ok \in BOOLEAN : Mount(n, ok)
            \/ \E p \in Pids : Spawn(n, p) \/ Named(n, p) \/ Up(n, p)
            \/ Record(n) \/ Recorded(n) \/ Waited(n) \/ Forget(n) \/ Fails(n) \/ Clean(n)
            \/ Killed(n) \/ Refused(n) \/ Exits(n) \/ Over(n)
        \/ \E i \in Ids : KillOne(i)

Spec == Init /\ [][Next]_vars

----------------------------------------------------------------------------
\* Something is left of a container; its file is written, and it runs.
Living(i) == \E n \in Runs : Id(n) = i /\ runtime[n].at \notin {"off", "over"}
Known(i)  == \E n \in Runs : Id(n) = i /\ At(n, "child") /\ runtime[n].at = "up"
Lost(i)   == \E n \in lost : Id(n) = i

\* Who looks sees what runs, as long as no pid has come back while an old file
\* or its ll-cli was left.  A file of a living process, which the daemon takes
\* for a package in use, stands for a container of which something is left; and
\* a container that is recorded and up is found, once, by ps, kill and enter,
\* unless its ll-cli was killed or failed.
SeenAsIs ==
    ~ reused => \A i \in Ids :
        /\ Rows(i) # {} => Living(i)
        /\ Known(i) /\ ~ Lost(i) => Cardinality(Rows(i)) = 1

\* Of a container whose ll-cli was neither killed nor failed nothing stays
\* mounted, and the root stays as long as its runtime.
RootKept == \A i \in Ids : ~ Lost(i) =>
    /\ (\A n \in Runs : Id(n) = i => At(n, "gone")) => rootfs[i] = None
    /\ Living(i) => rootfs[i] \in {"kernel", "fuse"}
=============================================================================
