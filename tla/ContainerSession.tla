-------------------------- MODULE ContainerSession --------------------------
(***************************************************************************)
(* The ll-cli run processes of one container id and the init process of    *)
(* their container (apps/ll-cli/src/runtime.rs, apps/ll-init/src/main.rs). *)
(*                                                                         *)
(* The first client takes the startup lock, makes a bundle with a file     *)
(* .lock and starts the container.  The others find the startup lock taken *)
(* and read .lock under a shared record lock: if it says "running" they    *)
(* execute their command in that container and keep the shared lock until  *)
(* the command has ended.  ll-init writes the file under the exclusive     *)
(* lock: it holds it while it starts the application, and has to get it    *)
(* again before it quits.                                                  *)
(*                                                                         *)
(* A file .lock is named by the client that made it: path is the one in    *)
(* the bundle, box the one the container was started with.                 *)
(***************************************************************************)
EXTENDS Naturals, FiniteSets

CONSTANTS
    Clients,      \* ll-cli run processes
    Kids,         \* processes that outlive the one that started them
    None,         \* no client
    StateMayFail, \* a client may leave its container: an error, or it is killed
    InitMayFail   \* a system call of ll-init may fail, or it is killed

App == "main"  \* ll-init's own child

ASSUME SessionAssumption == /\ None \notin Clients
                            /\ App \notin Kids
                            /\ {StateMayFail, InitMayFail} \subseteq BOOLEAN

VARIABLES
    cli,      \* where each client is
    fd,       \* the .lock a client has open
    starter,  \* the holder of the startup lock
    path,     \* the .lock in the bundle
    file,     \* what each .lock says
    init,     \* where ll-init is
    box,      \* the .lock the container was started with
    main,     \* the application: ll-init's own child
    kid,      \* the other processes
    by,       \* the client whose command started one, None for the application
    sigs,     \* signals pending at ll-init's signalfd
    told,     \* SIGTERM has been forwarded to the application
    asked,    \* bound: SIGTERM is sent to a container once
    waiting,  \* waiting_for_lock
    broken    \* history: ll-init was killed or had a system call fail

session   == <<cli, fd, starter, path>>
processes == <<main, kid, by, sigs, told, asked>>
vars == <<cli, fd, starter, path, file, init, box, main, kid, by, sigs, told,
          asked, waiting, broken>>

NewPcs   == {"clear", "prepare", "spawn", "wait", "cleanup", "release"}
ReusePcs == {"open", "share", "look", "exec", "exited"}
CliPcs   == {"start", "done", "gone"} \cup NewPcs \cup ReusePcs
InitPcs  == {"none", "lock", "fork", "announce", "poll", "read", "reap", "check",
             "quit", "leave", "dead"}

Alive == init \notin {"none", "dead"}
\* The record locks: ll-init's exclusive one, and who shares one on a file.
Exclusive(f) == f = box /\ init \in {"fork", "announce"}
Readers(f)   == {c \in Clients : fd[c] = f /\ cli[c] \in {"look", "exec", "exited"}}

\* What waitpid sees: dead children of ll-init, and living ones.
Zombies == {k \in Kids : kid[k] = "zombie"} \cup (IF main = "zombie" THEN {App} ELSE {})
Orphans == {k \in Kids : kid[k] = "orphan"}

Init ==
    /\ cli = [c \in Clients |-> "start"] /\ fd = [c \in Clients |-> None]
    /\ starter = None /\ path = None /\ file = [c \in Clients |-> "none"]
    /\ init = "none" /\ box = None
    /\ main = "none" /\ kid = [k \in Kids |-> "none"] /\ by = [k \in Kids |-> None]
    /\ sigs = {} /\ told = FALSE /\ asked = FALSE /\ waiting = FALSE /\ broken = FALSE

-----------------------------------------------------------------------------
(* acquire_startup_lock_or_reuse and the run that follows it.              *)

Goto(c, l) == cli' = [cli EXCEPT ![c] = l]

\* fcntl_lock(NonBlockingLockExclusive) on the startup lock.
TryStart(c) ==
    /\ cli[c] = "start"
    /\ \/ starter = None /\ starter' = c /\ Goto(c, "clear")
       \/ starter # None /\ Goto(c, "open") /\ UNCHANGED starter
    /\ UNCHANGED <<fd, path, file, init, box, processes, waiting, broken>>

\* clear_path of the bundle.
ClearBundle(c) ==
    /\ cli[c] = "clear"
    /\ path' = None /\ Goto(c, "prepare")
    /\ UNCHANGED <<fd, starter, file, init, box, processes, waiting, broken>>

\* The rest of the bundle; an error drops it again.
Prepare(c) ==
    /\ cli[c] = "prepare"
    /\ path' = c
    /\ file' = [file EXCEPT ![c] = "initializing"]
    /\ Goto(c, "spawn") \/ Goto(c, "cleanup")
    /\ UNCHANGED <<fd, starter, init, box, processes, waiting, broken>>

\* Mutant: the startup lock is let go once the container is started.
SpawnLetsGo(c) ==
    /\ cli[c] = "spawn" /\ ~Alive
    /\ Goto(c, "wait") /\ starter' = None
    /\ init' = "lock" /\ box' = c
    /\ main' = "none" /\ kid' = [k \in Kids |-> "none"] /\ by' = [k \in Kids |-> None]
    /\ sigs' = {} /\ told' = FALSE /\ asked' = FALSE /\ waiting' = FALSE
    /\ UNCHANGED <<fd, path, file, broken>>

\* The OCI runtime starts the container, unless one of this id is running.
Spawn(c) ==
    /\ cli[c] = "spawn"
    /\ IF Alive
       THEN Goto(c, "cleanup") /\ UNCHANGED <<init, box, processes, waiting>>
       ELSE /\ Goto(c, "wait")
            /\ init' = "lock" /\ box' = c
            /\ main' = "none" /\ kid' = [k \in Kids |-> "none"] /\ by' = [k \in Kids |-> None]
            /\ sigs' = {} /\ told' = FALSE /\ asked' = FALSE
            /\ waiting' = FALSE
    /\ UNCHANGED <<fd, starter, path, file, broken>>

\* child.wait returns.
Waited(c) ==
    /\ cli[c] = "wait" /\ init = "dead"
    /\ Goto(c, "cleanup")
    /\ UNCHANGED <<fd, starter, path, file, init, box, processes, waiting, broken>>

\* write_process_state fails: the drops of run clean up the bundle and then let
\* the lock go, and the container goes on.  A client that is killed cleans up
\* nothing.
GiveUp(c) ==
    /\ StateMayFail /\ cli[c] = "wait"
    /\ path' \in {None, path} /\ starter' = None /\ Goto(c, "gone")
    /\ UNCHANGED <<fd, file, init, box, processes, waiting, broken>>

\* BundleCleanup, and only then the startup lock.
Cleanup(c) ==
    /\ cli[c] = "cleanup"
    /\ path' = None /\ Goto(c, "release")
    /\ UNCHANGED <<fd, starter, file, init, box, processes, waiting, broken>>

ReleaseStart(c) ==
    /\ cli[c] = "release"
    /\ starter' = None /\ Goto(c, "done")
    /\ UNCHANGED <<fd, path, file, init, box, processes, waiting, broken>>

-----------------------------------------------------------------------------
(* reuse_running_container.                                                *)

\* A client that may not reuse the container tries again in 50 ms.
Again(c) == Goto(c, "start") /\ fd' = [fd EXCEPT ![c] = None]

Open(c) ==
    /\ cli[c] = "open"
    /\ \/ path = None /\ Again(c)
       \/ path # None /\ fd' = [fd EXCEPT ![c] = path] /\ Goto(c, "share")
    /\ UNCHANGED <<starter, path, file, init, box, processes, waiting, broken>>

Share(c) ==
    /\ cli[c] = "share"
    /\ \/ Exclusive(fd[c]) /\ Again(c)
       \/ ~Exclusive(fd[c]) /\ Goto(c, "look") /\ UNCHANGED fd
    /\ UNCHANGED <<starter, path, file, init, box, processes, waiting, broken>>

\* Mutant: the shared lock is given back once the file has been read.
LookAndLeave(c) ==
    /\ cli[c] = "look"
    /\ \/ file[fd[c]] # "running" /\ Again(c)
       \/ /\ file[fd[c]] = "running" /\ fd' = [fd EXCEPT ![c] = None]
          /\ Goto(c, IF Alive THEN "exec" ELSE "exited")
    /\ UNCHANGED <<starter, path, file, init, box, processes, waiting, broken>>

\* The OCI runtime executes the command in the container that has the id now,
\* and fails if there is none.
Look(c) ==
    /\ cli[c] = "look"
    /\ \/ file[fd[c]] # "running" /\ Again(c)
       \/ /\ file[fd[c]] = "running" /\ UNCHANGED fd
          /\ Goto(c, IF Alive THEN "exec" ELSE "exited")
    /\ UNCHANGED <<starter, path, file, init, box, processes, waiting, broken>>

\* A process of the container ends, and ll-init gets the children it leaves
\* and SIGCHLD for those that are dead.
Bequeath(p) ==
    /\ kid' = [k \in Kids |-> IF by[k] # p THEN kid[k]
                              ELSE CASE kid[k] = "inside" -> "orphan"
                                     [] kid[k] = "lost"   -> "zombie"
                                     [] OTHER             -> kid[k]]

\* delegate_run has waited for the command.
ExecEnds(c) ==
    /\ cli[c] = "exec"
    /\ Goto(c, "exited") /\ Bequeath(c)
    /\ sigs' = IF \E k \in Kids : by[k] = c /\ kid[k] = "lost"
               THEN sigs \cup {"CHLD"} ELSE sigs
    /\ UNCHANGED <<fd, starter, path, file, init, box, main, by, told, asked, waiting, broken>>

CloseLock(c) ==
    /\ cli[c] = "exited"
    /\ Goto(c, "done") /\ fd' = [fd EXCEPT ![c] = None]
    /\ UNCHANGED <<starter, path, file, init, box, processes, waiting, broken>>

Client(c) ==
    \/ TryStart(c) \/ ClearBundle(c) \/ Prepare(c) \/ Spawn(c) \/ Waited(c)
    \/ Cleanup(c) \/ ReleaseStart(c) \/ Open(c) \/ Share(c) \/ Look(c) \/ CloseLock(c)

-----------------------------------------------------------------------------
(* run_init.  Its end kills every process of the container.  SIGTERM stands *)
(* for the signals it forwards.                                            *)

InitGoto(l) == init' = l /\ UNCHANGED <<cli, processes, broken>>

Die(b) ==
    /\ init' = "dead" /\ broken' = b
    /\ main' = "none" /\ kid' = [k \in Kids |-> "none"] /\ by' = [k \in Kids |-> None]
    /\ cli' = [c \in Clients |-> IF cli[c] = "exec" THEN "exited" ELSE cli[c]]
    /\ sigs' = {} /\ told' = FALSE /\ asked' = FALSE

\* F_SETLKW, and the state it expects.
Acquire ==
    /\ init = "lock" /\ Readers(box) = {}
    /\ file[box] = "initializing" /\ InitGoto("fork")
    /\ UNCHANGED <<fd, starter, path, file, box, waiting>>

ForkApp ==
    /\ init = "fork"
    /\ init' = "announce" /\ main' = "alive"
    /\ UNCHANGED <<session, file, box, kid, by, sigs, told, asked, waiting, broken>>

\* Mutant: the lock is given back and the file left as it is.
AnnounceSilently ==
    /\ init = "announce"
    /\ InitGoto("poll")
    /\ UNCHANGED <<fd, starter, path, file, box, waiting>>

\* transition_to_running, which gives the lock back.
Announce ==
    /\ init = "announce"
    /\ file' = [file EXCEPT ![box] = "running"] /\ InitGoto("poll")
    /\ UNCHANGED <<fd, starter, path, box, waiting>>

\* Without waiting_for_lock there is no timeout.
Poll ==
    /\ init = "poll"
    /\ \/ sigs # {} /\ InitGoto("read")
       \/ sigs = {} /\ waiting /\ InitGoto("check")
    /\ UNCHANGED <<fd, starter, path, file, box, waiting>>

\* forward_signal: to the application, or once it was reaped to everybody else,
\* who end when they like.
Forward ==
    /\ sigs' = sigs \ {"TERM"}
    /\ told' = (told \/ main = "alive")

\* Mutant: what is pending besides SIGCHLD is dropped with it.
ReadOnce ==
    /\ init = "read"
    /\ \/ sigs = {} /\ init' = "check" /\ UNCHANGED <<sigs, told>>
       \/ "CHLD" \in sigs /\ init' = "reap" /\ sigs' = {} /\ UNCHANGED told
       \/ "TERM" \in sigs /\ Forward /\ UNCHANGED init
    /\ UNCHANGED <<session, file, box, main, kid, by, asked, waiting, broken>>

\* dispatch_signals reads until there is nothing left.
Read ==
    /\ init = "read"
    /\ \/ sigs = {} /\ init' = "check" /\ UNCHANGED <<sigs, told>>
       \/ "CHLD" \in sigs /\ init' = "reap" /\ sigs' = sigs \ {"CHLD"} /\ UNCHANGED told
       \/ "TERM" \in sigs /\ Forward /\ UNCHANGED init
    /\ UNCHANGED <<session, file, box, main, kid, by, asked, waiting, broken>>

Reaped(z) == IF z = App THEN main' = "reaped" /\ UNCHANGED <<kid, by>>
             ELSE /\ kid' = [kid EXCEPT ![z] = "none"] /\ by' = [by EXCEPT ![z] = None]
                  /\ UNCHANGED main

\* Mutant: one waitpid for one SIGCHLD.
ReapOnce ==
    /\ init = "reap"
    /\ init' = "read"
    /\ \/ Zombies = {} /\ UNCHANGED <<main, kid, by>>
       \/ \E z \in Zombies : Reaped(z)
    /\ UNCHANGED <<session, file, box, sigs, told, asked, waiting, broken>>

\* reap_pending: waitpid(-1, WNOHANG) until it finds no dead child.
Reap ==
    /\ init = "reap"
    /\ \/ Zombies = {} /\ init' = "read" /\ UNCHANGED <<main, kid, by>>
       \/ \E z \in Zombies : Reaped(z) /\ UNCHANGED init
    /\ UNCHANGED <<session, file, box, sigs, told, asked, waiting, broken>>

\* Mutant: the application's end alone is the end of the container.
CheckApp ==
    /\ init = "check"
    /\ init' = IF main = "reaped" THEN "quit" ELSE "poll"
    /\ UNCHANGED <<session, file, box, processes, waiting, broken>>

\* has_exited, and has_children_or_zombies, which reaps one dead child.
Check ==
    /\ init = "check"
    /\ \/ main # "reaped" /\ init' = "poll" /\ UNCHANGED <<main, kid, by>>
       \/ main = "reaped" /\ init' = "poll" /\ \E z \in Zombies : Reaped(z)
       \/ /\ main = "reaped" /\ Zombies = {}
          /\ init' = (IF Orphans # {} THEN "poll" ELSE "quit")
          /\ UNCHANGED <<main, kid, by>>
    /\ UNCHANGED <<session, file, box, sigs, told, asked, waiting, broken>>

\* Mutant: the refused lock is not remembered.
QuitForgets ==
    /\ init = "quit"
    /\ IF Readers(box) = {}
       THEN file' = [file EXCEPT ![box] = "quitting"] /\ InitGoto("leave")
       ELSE InitGoto("poll") /\ UNCHANGED file
    /\ UNCHANGED <<fd, starter, path, box, waiting>>

\* transition_to_quitting, or another try every second.  That the file cannot
\* be written is no reason to stay.
Quit ==
    /\ init = "quit"
    /\ \/ /\ Readers(box) = {}
          /\ file' = [file EXCEPT ![box] = "quitting"]
          /\ InitGoto("leave") /\ UNCHANGED waiting
       \/ /\ Readers(box) = {} /\ InitMayFail
          /\ init' = "leave" /\ broken' = TRUE /\ UNCHANGED <<cli, processes, file, waiting>>
       \/ /\ Readers(box) # {}
          /\ waiting' = TRUE /\ InitGoto("poll") /\ UNCHANGED file
    /\ UNCHANGED <<fd, starter, path, box>>

Leave ==
    /\ init = "leave" /\ Die(broken)
    /\ UNCHANGED <<fd, starter, path, file, box, waiting>>

\* The error paths of run_init return -1 whatever the file says; SIGKILL may
\* come at any step.
InitFails ==
    /\ InitMayFail /\ Alive
    /\ Die(TRUE)
    /\ UNCHANGED <<fd, starter, path, file, box, waiting>>

InitStep ==
    \/ Acquire \/ ForkApp \/ Announce \/ Poll \/ Read \/ Reap \/ Check \/ Quit \/ Leave

-----------------------------------------------------------------------------
(* The processes of the container, and who sends it SIGTERM.               *)

AppEnds ==
    /\ main = "alive"
    /\ main' = "zombie" /\ Bequeath(None)
    /\ sigs' = sigs \cup {"CHLD"}
    /\ told' = FALSE
    /\ UNCHANGED <<session, file, init, box, by, asked, waiting, broken>>

\* The application, or a command a client executes, starts another process.
ForkKid(k) ==
    /\ kid[k] = "none" /\ Alive
    /\ kid' = [kid EXCEPT ![k] = "inside"]
    /\ \/ main = "alive" /\ UNCHANGED by
       \/ \E c \in Clients : cli[c] = "exec" /\ by' = [by EXCEPT ![k] = c]
    /\ UNCHANGED <<session, file, init, box, main, sigs, told, asked, waiting, broken>>

\* It ends: reaped by its own parent, not reaped yet, or a child of ll-init.
KidEnds(k) ==
    /\ kid[k] \in {"inside", "orphan"}
    /\ \/ /\ kid[k] = "inside"
          /\ kid' = [kid EXCEPT ![k] = "none"] /\ by' = [by EXCEPT ![k] = None]
          /\ UNCHANGED sigs
       \/ kid[k] = "inside" /\ kid' = [kid EXCEPT ![k] = "lost"] /\ UNCHANGED <<by, sigs>>
       \/ /\ kid[k] = "orphan"
          /\ kid' = [kid EXCEPT ![k] = "zombie"] /\ sigs' = sigs \cup {"CHLD"}
          /\ UNCHANGED by
    /\ UNCHANGED <<session, file, init, box, main, told, asked, waiting, broken>>

Terminate ==
    /\ Alive /\ ~asked
    /\ sigs' = sigs \cup {"TERM"} /\ asked' = TRUE
    /\ UNCHANGED <<session, file, init, box, main, kid, by, told, waiting, broken>>

Process ==
    \/ AppEnds \/ Terminate
    \/ \E k \in Kids : ForkKid(k) \/ KidEnds(k)
    \/ \E c \in Clients : ExecEnds(c)

Next ==
    \/ \E c \in Clients : Client(c) \/ GiveUp(c)
    \/ InitStep \/ InitFails
    \/ Process

\* Clients and ll-init go on.  A look at the file is short and comes every
\* 50 ms: again and again nobody looks, and F_SETLKW then gets its lock.  The
\* application ends when it is told to.
Fairness ==
    /\ \A c \in Clients : WF_vars(Client(c))
    /\ WF_vars(InitStep) /\ SF_vars(Acquire)
    /\ []<>(init = "lock" => Readers(box) = {})
    /\ WF_vars(told /\ AppEnds)

Spec     == Init /\ [][Next]_vars
FairSpec == Spec /\ Fairness

-----------------------------------------------------------------------------
(* Properties.                                                             *)

\* The variables have their types; a client that looks at a file has it open.
TypeOK ==
    /\ cli \in [Clients -> CliPcs]
    /\ fd \in [Clients -> Clients \cup {None}]
    /\ {starter, path, box} \subseteq Clients \cup {None}
    /\ file \in [Clients -> {"none", "initializing", "running", "quitting"}]
    /\ init \in InitPcs
    /\ main \in {"none", "alive", "zombie", "reaped"}
    /\ kid \in [Kids -> {"none", "inside", "lost", "orphan", "zombie"}]
    /\ by \in [Kids -> Clients \cup {None}]
    /\ sigs \subseteq {"CHLD", "TERM"}
    /\ {told, asked, waiting, broken} \subseteq BOOLEAN
    /\ \A c \in Clients : cli[c] \in {"share", "look", "exec", "exited"} => fd[c] # None

\* A command executed in the container of another client is never cut off by
\* the container's end: ll-init does not quit under it, unless ll-init was
\* killed or could not write the file.
ReuseServed ==
    init = "leave" /\ ~broken => \A c \in Clients : cli[c] # "exec"

\* ll-init leaves no earlier than the last process the application started.
OrphansKept ==
    init = "leave" => main = "reaped" /\ \A k \in Kids : kid[k] # "none" => by[k] # None

\* No lost wake-up: when ll-init sleeps without a timeout and without a signal
\* to read, a child is left whose end will wake it.
WakesUp ==
    init = "poll" /\ ~waiting /\ sigs = {} => main = "alive" \/ Orphans # {}

\* One container at a time: who has the startup lock finds no other running,
\* but one whose client gave up on it.
StartsAlone ==
    \A c \in Clients : cli[c] \in {"clear", "prepare", "spawn"} /\ Alive => cli[box] = "gone"

\* The application is told: a SIGTERM sent to the container, be it before it is
\* running, ends it.
Terminates == "TERM" \in sigs /\ main = "alive" ~> main # "alive"

\* A container with nothing to do ends.
ContainerEnds ==
    []<>(~Alive \/ main = "alive" \/ Orphans # {} \/ \E c \in Clients : cli[c] = "exec")

\* Every client gets in: it executes its command, or has a container or an
\* error, and is not left waiting for the startup lock.
Served == <>(\A c \in Clients :
               cli[c] \in {"exec", "exited", "wait", "cleanup", "release", "done", "gone"})
=============================================================================
