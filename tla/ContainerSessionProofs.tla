----------------------- MODULE ContainerSessionProofs -----------------------
(***************************************************************************)
(* Theorems about ContainerSession for any number of clients and of        *)
(* processes in the container.                                             *)
(***************************************************************************)
EXTENDS ContainerSession, TLAPS

\* Who is between the two ends of the startup lock has it, and a container
\* that runs belongs to a client that waits for it or has given up on it.
StarterHasLock == \A c \in Clients : cli[c] \in NewPcs => starter = c
BoxHasClient   == Alive => box \in Clients /\ cli[box] \in {"wait", "gone"}

\* What the files say.  A file that says "running" belongs to the container
\* that runs; a command that is executed holds a shared lock on that file.
Serving == init \in {"poll", "read", "reap", "check", "quit"}
Unmade  ==
    \A c \in Clients :
        /\ cli[c] \in {"start", "clear", "prepare"} \cup ReusePcs => file[c] = "none"
        /\ cli[c] = "spawn" => file[c] = "initializing"
RunningServes == ~broken => \A f \in Clients : file[f] = "running" <=> f = box /\ Serving
ExecLocks     == ~broken => \A c \in Clients : cli[c] = "exec" => fd[c] = box /\ Serving

\* The processes: what the application leaves behind is ll-init's.
NobodysKids == \A k \in Kids : kid[k] = "none" => by[k] = None
LeftKids    == main # "alive" => \A k \in Kids : kid[k] \in {"inside", "lost"} => by[k] # None
QuitKids    == init \in {"quit", "leave"} =>
                   main = "reaped" /\ \A k \in Kids : kid[k] # "none" => by[k] # None

\* The signals: a dead child not reaped yet is announced, or being looked for.
Announced == Zombies # {} => "CHLD" \in sigs \/ init = "reap"
Forked    == /\ Serving => main # "none"
             /\ init = "announce" => main \in {"alive", "zombie"}

StartInv == TypeOK /\ StarterHasLock /\ BoxHasClient
FileInv  == StartInv /\ Unmade /\ RunningServes /\ ExecLocks
KidInv   == TypeOK /\ NobodysKids /\ LeftKids /\ QuitKids
WakeInv  == TypeOK /\ Announced /\ Forked /\ WakesUp

USE DEF NewPcs, ReusePcs, CliPcs, InitPcs, Goto

LEMMA TypeInit == Init => TypeOK
BY SessionAssumption DEF Init, TypeOK

LEMMA TypeStep == TypeOK /\ [Next]_vars => TypeOK'
<1> SUFFICES ASSUME TypeOK, [Next]_vars PROVE TypeOK'
  OBVIOUS
<1> USE SessionAssumption DEF TypeOK, session, processes
<1>1. ASSUME NEW c \in Clients, Client(c) \/ GiveUp(c) \/ ExecEnds(c) PROVE TypeOK'
  <2>1. CASE TryStart(c)
    BY <2>1 DEF TryStart
  <2>2. CASE ClearBundle(c)
    BY <2>2 DEF ClearBundle
  <2>3. CASE Prepare(c)
    BY <2>3 DEF Prepare
  <2>4. CASE Spawn(c)
    <3>1. CASE Alive
      BY <2>4, <3>1 DEF Spawn
    <3>2. CASE ~Alive
      <4>1. kid' \in [Kids -> {"none", "inside", "lost", "orphan", "zombie"}]
        BY <2>4, <3>2 DEF Spawn
      <4>2. by' \in [Kids -> Clients \cup {None}]
        BY <2>4, <3>2 DEF Spawn
      <4>3. cli' \in [Clients -> CliPcs] /\ fd' = fd /\ file' = file
            /\ \A d \in Clients : cli'[d] \in {"share", "look", "exec", "exited"} => fd'[d] # None
        BY <2>4, <3>2 DEF Spawn
      <4>4. {starter, path, box}' \subseteq Clients \cup {None}
        BY <2>4, <3>2 DEF Spawn
      <4>5. /\ init' = "lock" /\ main' = "none" /\ sigs' = {} /\ broken' = broken
            /\ told' = FALSE /\ asked' = FALSE /\ waiting' = FALSE
        BY <2>4, <3>2 DEF Spawn
      <4> QED BY <4>1, <4>2, <4>3, <4>4, <4>5
    <3> QED BY <3>1, <3>2
  <2>5. CASE Waited(c)
    BY <2>5 DEF Waited
  <2>6. CASE Cleanup(c)
    BY <2>6 DEF Cleanup
  <2>7. CASE ReleaseStart(c)
    BY <2>7 DEF ReleaseStart
  <2>8. CASE Open(c)
    BY <2>8 DEF Open, Again
  <2>9. CASE Share(c)
    BY <2>9 DEF Share, Again
  <2>10. CASE Look(c)
    BY <2>10 DEF Look, Again
  <2>11. CASE CloseLock(c)
    BY <2>11 DEF CloseLock
  <2>12. CASE GiveUp(c)
    BY <2>12 DEF GiveUp
  <2>13. CASE ExecEnds(c)
    BY <2>13 DEF ExecEnds, Bequeath
  <2> QED BY <1>1, <2>1, <2>2, <2>3, <2>4, <2>5, <2>6, <2>7, <2>8, <2>9, <2>10, <2>11, <2>12, <2>13 DEF Client
<1>2. ASSUME InitStep \/ InitFails \/ AppEnds \/ Terminate PROVE TypeOK'
  <2>1. CASE Acquire
    BY <2>1 DEF Acquire, InitGoto
  <2>2. CASE ForkApp
    BY <2>2 DEF ForkApp
  <2>3. CASE Announce
    BY <2>3 DEF Announce, InitGoto
  <2>4. CASE Poll
    BY <2>4 DEF Poll, InitGoto
  <2>5. CASE Read
    BY <2>5 DEF Read, Forward
  <2>6. CASE Reap
    BY <2>6 DEF Reap, Reaped, Zombies, Orphans
  <2>7. CASE Check
    BY <2>7 DEF Check, Reaped, Zombies, Orphans
  <2>8. CASE Quit
    BY <2>8 DEF Quit, InitGoto
  <2>9. CASE Leave
    BY <2>9 DEF Leave, Die
  <2>10. CASE InitFails
    BY <2>10 DEF InitFails, Die
  <2>11. CASE AppEnds
    BY <2>11 DEF AppEnds, Bequeath
  <2>12. CASE Terminate
    BY <2>12 DEF Terminate
  <2> QED BY <1>2, <2>1, <2>2, <2>3, <2>4, <2>5, <2>6, <2>7, <2>8, <2>9, <2>10, <2>11, <2>12 DEF InitStep
<1>3. ASSUME NEW k \in Kids, ForkKid(k) \/ KidEnds(k) PROVE TypeOK'
  <2>1. CASE ForkKid(k)
    BY <2>1 DEF ForkKid
  <2>2. CASE KidEnds(k)
    BY <2>2 DEF KidEnds
  <2> QED BY <1>3, <2>1, <2>2
<1>4. CASE UNCHANGED vars
  BY <1>4 DEF vars, session, processes
<1> QED BY <1>1, <1>2, <1>3, <1>4 DEF Next, Process

-----------------------------------------------------------------------------
LEMMA StartInit == Init => StartInv
BY TypeInit, SessionAssumption DEF Init, StartInv, StarterHasLock, BoxHasClient, Alive

LEMMA StartStep == StartInv /\ [Next]_vars => StartInv'
<1> SUFFICES ASSUME StartInv, [Next]_vars PROVE StartInv'
  OBVIOUS
<1>0. TypeOK /\ TypeOK'
  BY TypeStep DEF StartInv
<1> DEFINE Rest == StarterHasLock /\ BoxHasClient
<1> USE <1>0, SessionAssumption DEF TypeOK, StartInv, StarterHasLock, BoxHasClient, Alive, session, processes
<1>1. ASSUME NEW c \in Clients, Client(c) \/ GiveUp(c) \/ ExecEnds(c) PROVE Rest'
  <2>1. CASE TryStart(c)
    BY <2>1 DEF TryStart
  <2>2. CASE ClearBundle(c)
    BY <2>2 DEF ClearBundle
  <2>3. CASE Prepare(c)
    BY <2>3 DEF Prepare
  <2>4. CASE Spawn(c)
    BY <2>4 DEF Spawn
  <2>5. CASE Waited(c)
    BY <2>5 DEF Waited
  <2>6. CASE Cleanup(c)
    BY <2>6 DEF Cleanup
  <2>7. CASE ReleaseStart(c)
    BY <2>7 DEF ReleaseStart
  <2>8. CASE Open(c)
    BY <2>8 DEF Open, Again
  <2>9. CASE Share(c)
    BY <2>9 DEF Share, Again
  <2>10. CASE Look(c)
    BY <2>10 DEF Look, Again
  <2>11. CASE CloseLock(c)
    BY <2>11 DEF CloseLock
  <2>12. CASE GiveUp(c)
    BY <2>12 DEF GiveUp
  <2>13. CASE ExecEnds(c)
    BY <2>13 DEF ExecEnds, Bequeath
  <2> QED BY <1>1, <2>1, <2>2, <2>3, <2>4, <2>5, <2>6, <2>7, <2>8, <2>9, <2>10, <2>11, <2>12, <2>13 DEF Client
<1>2. ASSUME InitStep \/ InitFails \/ AppEnds \/ Terminate PROVE Rest'
  <2>1. CASE Acquire
    BY <2>1 DEF Acquire, InitGoto
  <2>2. CASE ForkApp
    BY <2>2 DEF ForkApp
  <2>3. CASE Announce
    BY <2>3 DEF Announce, InitGoto
  <2>4. CASE Poll
    BY <2>4 DEF Poll, InitGoto
  <2>5. CASE Read
    BY <2>5 DEF Read, Forward
  <2>6. CASE Reap
    BY <2>6 DEF Reap, Reaped
  <2>7. CASE Check
    BY <2>7 DEF Check, Reaped
  <2>8. CASE Quit
    BY <2>8 DEF Quit, InitGoto
  <2>9. CASE Leave
    BY <2>9 DEF Leave, Die
  <2>10. CASE InitFails
    BY <2>10 DEF InitFails, Die
  <2>11. CASE AppEnds
    BY <2>11 DEF AppEnds, Bequeath
  <2>12. CASE Terminate
    BY <2>12 DEF Terminate
  <2> QED BY <1>2, <2>1, <2>2, <2>3, <2>4, <2>5, <2>6, <2>7, <2>8, <2>9, <2>10, <2>11, <2>12 DEF InitStep
<1>3. ASSUME NEW k \in Kids, ForkKid(k) \/ KidEnds(k) PROVE Rest'
  <2>1. CASE ForkKid(k)
    BY <2>1 DEF ForkKid
  <2>2. CASE KidEnds(k)
    BY <2>2 DEF KidEnds
  <2> QED BY <1>3, <2>1, <2>2
<1>4. CASE UNCHANGED vars
  BY <1>4 DEF vars, session, processes
<1> QED BY <1>1, <1>2, <1>3, <1>4 DEF Next, Process

-----------------------------------------------------------------------------
LEMMA KidInit == Init => KidInv
BY TypeInit, SessionAssumption DEF Init, KidInv, NobodysKids, LeftKids, QuitKids

LEMMA KidStep == KidInv /\ [Next]_vars => KidInv'
<1> SUFFICES ASSUME KidInv, [Next]_vars PROVE KidInv'
  OBVIOUS
<1>0. TypeOK /\ TypeOK'
  BY TypeStep DEF KidInv
<1> DEFINE Rest == NobodysKids /\ LeftKids /\ QuitKids
<1> USE <1>0, SessionAssumption DEF TypeOK, KidInv, NobodysKids, LeftKids, QuitKids, session, processes
<1>1. ASSUME NEW c \in Clients, Client(c) \/ GiveUp(c) \/ ExecEnds(c) PROVE Rest'
  <2>1. CASE TryStart(c)
    BY <2>1 DEF TryStart
  <2>2. CASE ClearBundle(c)
    BY <2>2 DEF ClearBundle
  <2>3. CASE Prepare(c)
    BY <2>3 DEF Prepare
  <2>4. CASE Spawn(c)
    BY <2>4 DEF Spawn
  <2>5. CASE Waited(c)
    BY <2>5 DEF Waited
  <2>6. CASE Cleanup(c)
    BY <2>6 DEF Cleanup
  <2>7. CASE ReleaseStart(c)
    BY <2>7 DEF ReleaseStart
  <2>8. CASE Open(c)
    BY <2>8 DEF Open, Again
  <2>9. CASE Share(c)
    BY <2>9 DEF Share, Again
  <2>10. CASE Look(c)
    BY <2>10 DEF Look, Again
  <2>11. CASE CloseLock(c)
    BY <2>11 DEF CloseLock
  <2>12. CASE GiveUp(c)
    BY <2>12 DEF GiveUp
  <2>13. CASE ExecEnds(c)
    BY <2>13 DEF ExecEnds, Bequeath
  <2> QED BY <1>1, <2>1, <2>2, <2>3, <2>4, <2>5, <2>6, <2>7, <2>8, <2>9, <2>10, <2>11, <2>12, <2>13 DEF Client
<1>2. ASSUME InitStep \/ InitFails \/ AppEnds \/ Terminate PROVE Rest'
  <2>1. CASE Acquire
    BY <2>1 DEF Acquire, InitGoto
  <2>2. CASE ForkApp
    BY <2>2 DEF ForkApp
  <2>3. CASE Announce
    BY <2>3 DEF Announce, InitGoto
  <2>4. CASE Poll
    BY <2>4 DEF Poll, InitGoto
  <2>5. CASE Read
    BY <2>5 DEF Read, Forward
  <2>6. CASE Reap
    BY <2>6 DEF Reap, Reaped, Zombies, Orphans
  <2>7. CASE Check
    BY <2>7 DEF Check, Reaped, Zombies, Orphans
  <2>8. CASE Quit
    BY <2>8 DEF Quit, InitGoto
  <2>9. CASE Leave
    BY <2>9 DEF Leave, Die
  <2>10. CASE InitFails
    BY <2>10 DEF InitFails, Die
  <2>11. CASE AppEnds
    BY <2>11 DEF AppEnds, Bequeath
  <2>12. CASE Terminate
    BY <2>12 DEF Terminate
  <2> QED BY <1>2, <2>1, <2>2, <2>3, <2>4, <2>5, <2>6, <2>7, <2>8, <2>9, <2>10, <2>11, <2>12 DEF InitStep
<1>3. ASSUME NEW k \in Kids, ForkKid(k) \/ KidEnds(k) PROVE Rest'
  <2>1. CASE ForkKid(k)
    BY <2>1 DEF ForkKid
  <2>2. CASE KidEnds(k)
    BY <2>2 DEF KidEnds
  <2> QED BY <1>3, <2>1, <2>2
<1>4. CASE UNCHANGED vars
  BY <1>4 DEF vars, session, processes
<1> QED BY <1>1, <1>2, <1>3, <1>4 DEF Next, Process

-----------------------------------------------------------------------------
LEMMA WakeInit == Init => WakeInv
BY TypeInit, SessionAssumption DEF Init, WakeInv, Announced, Forked, WakesUp, Zombies, Serving

LEMMA WakeStep == WakeInv /\ [Next]_vars => WakeInv'
<1> SUFFICES ASSUME WakeInv, [Next]_vars PROVE WakeInv'
  OBVIOUS
<1>0. TypeOK /\ TypeOK'
  BY TypeStep DEF WakeInv
<1> DEFINE Rest == Announced /\ Forked /\ WakesUp
<1> USE <1>0, SessionAssumption DEF TypeOK, WakeInv, Announced, Forked, WakesUp, Zombies, Orphans, Serving, session, processes
<1>1. ASSUME NEW c \in Clients, Client(c) \/ GiveUp(c) \/ ExecEnds(c) PROVE Rest'
  <2>1. CASE TryStart(c)
    BY <2>1 DEF TryStart
  <2>2. CASE ClearBundle(c)
    BY <2>2 DEF ClearBundle
  <2>3. CASE Prepare(c)
    BY <2>3 DEF Prepare
  <2>4. CASE Spawn(c)
    BY <2>4 DEF Spawn
  <2>5. CASE Waited(c)
    BY <2>5 DEF Waited
  <2>6. CASE Cleanup(c)
    BY <2>6 DEF Cleanup
  <2>7. CASE ReleaseStart(c)
    BY <2>7 DEF ReleaseStart
  <2>8. CASE Open(c)
    BY <2>8 DEF Open, Again
  <2>9. CASE Share(c)
    BY <2>9 DEF Share, Again
  <2>10. CASE Look(c)
    BY <2>10 DEF Look, Again
  <2>11. CASE CloseLock(c)
    BY <2>11 DEF CloseLock
  <2>12. CASE GiveUp(c)
    BY <2>12 DEF GiveUp
  <2>13. CASE ExecEnds(c)
    BY <2>13 DEF ExecEnds, Bequeath
  <2> QED BY <1>1, <2>1, <2>2, <2>3, <2>4, <2>5, <2>6, <2>7, <2>8, <2>9, <2>10, <2>11, <2>12, <2>13 DEF Client
<1>2. ASSUME InitStep \/ InitFails \/ AppEnds \/ Terminate PROVE Rest'
  <2>1. CASE Acquire
    BY <2>1 DEF Acquire, InitGoto
  <2>2. CASE ForkApp
    BY <2>2 DEF ForkApp
  <2>3. CASE Announce
    BY <2>3 DEF Announce, InitGoto
  <2>4. CASE Poll
    BY <2>4 DEF Poll, InitGoto
  <2>5. CASE Read
    BY <2>5 DEF Read, Forward
  <2>6. CASE Reap
    BY <2>6 DEF Reap, Reaped
  <2>7. CASE Check
    BY <2>7 DEF Check, Reaped
  <2>8. CASE Quit
    BY <2>8 DEF Quit, InitGoto
  <2>9. CASE Leave
    BY <2>9 DEF Leave, Die
  <2>10. CASE InitFails
    BY <2>10 DEF InitFails, Die
  <2>11. CASE AppEnds
    BY <2>11 DEF AppEnds, Bequeath
  <2>12. CASE Terminate
    BY <2>12 DEF Terminate
  <2> QED BY <1>2, <2>1, <2>2, <2>3, <2>4, <2>5, <2>6, <2>7, <2>8, <2>9, <2>10, <2>11, <2>12 DEF InitStep
<1>3. ASSUME NEW k \in Kids, ForkKid(k) \/ KidEnds(k) PROVE Rest'
  <2>1. CASE ForkKid(k)
    BY <2>1 DEF ForkKid
  <2>2. CASE KidEnds(k)
    BY <2>2 DEF KidEnds
  <2> QED BY <1>3, <2>1, <2>2
<1>4. CASE UNCHANGED vars
  BY <1>4 DEF vars, session, processes
<1> QED BY <1>1, <1>2, <1>3, <1>4 DEF Next, Process

-----------------------------------------------------------------------------
LEMMA FileInit == Init => FileInv
BY StartInit, SessionAssumption DEF Init, FileInv, Unmade, RunningServes, ExecLocks, Serving

LEMMA FileStep == FileInv /\ [Next]_vars => FileInv'
<1> SUFFICES ASSUME FileInv, [Next]_vars PROVE FileInv'
  OBVIOUS
<1>0. TypeOK /\ TypeOK' /\ StartInv /\ StartInv'
  BY TypeStep, StartStep DEF FileInv, StartInv
<1> DEFINE Rest == Unmade /\ RunningServes /\ ExecLocks
<1> USE <1>0, SessionAssumption DEF TypeOK, FileInv, StartInv, StarterHasLock, BoxHasClient, Unmade, RunningServes, ExecLocks, Serving, Alive, session, processes
<1>1. ASSUME NEW c \in Clients, Client(c) \/ GiveUp(c) \/ ExecEnds(c) PROVE Rest'
  <2>1. CASE TryStart(c)
    BY <2>1 DEF TryStart
  <2>2. CASE ClearBundle(c)
    BY <2>2 DEF ClearBundle
  <2>3. CASE Prepare(c)
    BY <2>3 DEF Prepare
  <2>4. CASE Spawn(c)
    BY <2>4 DEF Spawn
  <2>5. CASE Waited(c)
    BY <2>5 DEF Waited
  <2>6. CASE Cleanup(c)
    BY <2>6 DEF Cleanup
  <2>7. CASE ReleaseStart(c)
    BY <2>7 DEF ReleaseStart
  <2>8. CASE Open(c)
    BY <2>8 DEF Open, Again
  <2>9. CASE Share(c)
    BY <2>9 DEF Share, Again
  <2>10. CASE Look(c)
    BY <2>10 DEF Look, Again
  <2>11. CASE CloseLock(c)
    BY <2>11 DEF CloseLock
  <2>12. CASE GiveUp(c)
    BY <2>12 DEF GiveUp
  <2>13. CASE ExecEnds(c)
    BY <2>13 DEF ExecEnds, Bequeath
  <2> QED BY <1>1, <2>1, <2>2, <2>3, <2>4, <2>5, <2>6, <2>7, <2>8, <2>9, <2>10, <2>11, <2>12, <2>13 DEF Client
<1>2. ASSUME InitStep \/ InitFails \/ AppEnds \/ Terminate PROVE Rest'
  <2>1. CASE Acquire
    BY <2>1 DEF Acquire, InitGoto
  <2>2. CASE ForkApp
    BY <2>2 DEF ForkApp
  <2>3. CASE Announce
    BY <2>3 DEF Announce, InitGoto
  <2>4. CASE Poll
    BY <2>4 DEF Poll, InitGoto
  <2>5. CASE Read
    BY <2>5 DEF Read, Forward
  <2>6. CASE Reap
    BY <2>6 DEF Reap, Reaped
  <2>7. CASE Check
    BY <2>7 DEF Check, Reaped
  <2>8. CASE Quit
    BY <2>8 DEF Quit, InitGoto, Readers
  <2>9. CASE Leave
    BY <2>9 DEF Leave, Die
  <2>10. CASE InitFails
    BY <2>10 DEF InitFails, Die
  <2>11. CASE AppEnds
    BY <2>11 DEF AppEnds, Bequeath
  <2>12. CASE Terminate
    BY <2>12 DEF Terminate
  <2> QED BY <1>2, <2>1, <2>2, <2>3, <2>4, <2>5, <2>6, <2>7, <2>8, <2>9, <2>10, <2>11, <2>12 DEF InitStep
<1>3. ASSUME NEW k \in Kids, ForkKid(k) \/ KidEnds(k) PROVE Rest'
  <2>1. CASE ForkKid(k)
    BY <2>1 DEF ForkKid
  <2>2. CASE KidEnds(k)
    BY <2>2 DEF KidEnds
  <2> QED BY <1>3, <2>1, <2>2
<1>4. CASE UNCHANGED vars
  BY <1>4 DEF vars, session, processes
<1> QED BY <1>1, <1>2, <1>3, <1>4 DEF Next, Process

-----------------------------------------------------------------------------
\* Every variable keeps its type, and a client that looks at a file has it open.
THEOREM TypeOKHolds == Spec => []TypeOK
<1> QED BY TypeInit, TypeStep, PTL DEF Spec

\* One container of an id at a time, for any number of clients: who makes a
\* bundle has the startup lock, which the client of a running container has,
\* too, unless it gave up on it.
THEOREM StartsAloneHolds == Spec => []StartsAlone
<1>1. StartInv => StartsAlone
  BY SessionAssumption DEF StartInv, StarterHasLock, BoxHasClient, StartsAlone, TypeOK
<1> QED BY StartInit, StartStep, <1>1, PTL DEF Spec

\* No command is cut off by the end of the container it was executed in: what
\* is executed holds a shared lock on the one file that says "running".
THEOREM ReuseServedHolds == Spec => []ReuseServed
<1>1. FileInv => ReuseServed
  BY DEF FileInv, ExecLocks, ReuseServed, Serving
<1> QED BY FileInit, FileStep, <1>1, PTL DEF Spec

\* ll-init stays for every process the application leaves behind.
THEOREM OrphansKeptHolds == Spec => []OrphansKept
<1>1. KidInv => OrphansKept
  BY DEF KidInv, QuitKids, OrphansKept
<1> QED BY KidInit, KidStep, <1>1, PTL DEF Spec

\* ll-init never sleeps with nothing left to wake it, however many SIGCHLD
\* become one.
THEOREM WakesUpHolds == Spec => []WakesUp
<1>1. WakeInv => WakesUp
  BY DEF WakeInv
<1> QED BY WakeInit, WakeStep, <1>1, PTL DEF Spec
=============================================================================
