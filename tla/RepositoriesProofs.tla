------------------------- MODULE RepositoriesProofs -------------------------
(***************************************************************************)
(* What processes that share a repository can count on, for every value of *)
(* the constants: the repository lock, the entries of the layers, the      *)
(* configuration that ll-cli edits, versions, and the helper for drivers.  *)
(***************************************************************************)
EXTENDS Repositories, FiniteSetTheorems, WellFoundedInduction, TLAPS

----------------------------------------------------------------------------
(* The repository lock, for any number of processes and threads.           *)

USE DEF OwnPcs, Pcs, Modes

\* The local flag of a process and the threads that own it: an owner has the
\* flag up, a raised flag has an owner, and there is one owner.
OwnerHasFlag == \A t \in Threads : Owner(t) => held[ProcessOf[t]]
FlagHasOwner == \A p \in Processes : held[p] => \E t \in Threads : ProcessOf[t] = p /\ Owner(t)
SleeperSees  == \A t \in Threads : pc[t] = "asleep" => held[ProcessOf[t]]

LocalInv == TypeOK /\ OwnerHasFlag /\ FlagHasOwner /\ SleeperSees /\ LocalExclusion

LEMMA LocalInit == Init => LocalInv
BY ProcessAssumption DEF Init, LocalInv, TypeOK, OwnerHasFlag, FlagHasOwner,
   SleeperSees, LocalExclusion, Owner

LEMMA TypeStep == TypeOK /\ [Next]_vars => TypeOK'
<1> SUFFICES ASSUME TypeOK, [Next]_vars PROVE TypeOK'
  OBVIOUS
<1> USE ProcessAssumption DEF TypeOK
<1>1. ASSUME NEW t \in Threads, Thread(t) PROVE TypeOK'
  <2>1. CASE ReserveShared(t)
    BY <2>1 DEF ReserveShared
  <2>2. CASE ReserveExclusive(t)
    BY <2>2 DEF ReserveExclusive
  <2>3. CASE Wake(t)
    BY <2>3 DEF Wake
  <2>4. CASE Open(t)
    BY <2>4 DEF Open
  <2>5. CASE LockExclusive(t)
    BY <2>5 DEF LockExclusive
  <2>6. CASE LockShared(t)
    BY <2>6 DEF LockShared
  <2>7. CASE LockError(t)
    BY <2>7 DEF LockError
  <2>8. CASE Unlock(t)
    BY <2>8 DEF Unlock
  <2>9. CASE Release(t)
    BY <2>9 DEF Release, Woken
  <2>10. CASE Fail(t)
    BY <2>10 DEF Fail, Woken
  <2>11. CASE Close(t)
    BY <2>11 DEF Close
  <2> QED BY <1>1, <2>1, <2>2, <2>3, <2>4, <2>5, <2>6, <2>7, <2>8, <2>9, <2>10, <2>11 DEF Thread
<1>2. ASSUME NEW p \in Processes, Exit(p) PROVE TypeOK'
  BY <1>2 DEF Exit
<1>3. CASE UNCHANGED vars
  BY <1>3 DEF vars
<1> QED BY <1>1, <1>2, <1>3 DEF Next

LEMMA LocalStep == LocalInv /\ [Next]_vars => LocalInv'
<1> SUFFICES ASSUME LocalInv, [Next]_vars PROVE LocalInv'
  OBVIOUS
<1>0. TypeOK /\ TypeOK'
  BY TypeStep DEF LocalInv
<1> DEFINE Rest == OwnerHasFlag /\ FlagHasOwner /\ SleeperSees /\ LocalExclusion
<1> USE <1>0, ProcessAssumption
    DEF LocalInv, TypeOK, OwnerHasFlag, FlagHasOwner, SleeperSees, LocalExclusion, Owner
<1>1. ASSUME NEW t \in Threads, Thread(t) PROVE Rest'
  <2>1. CASE ReserveShared(t)
    BY <2>1 DEF ReserveShared
  <2>2. CASE ReserveExclusive(t)
    BY <2>2 DEF ReserveExclusive
  <2>3. CASE Wake(t)
    BY <2>3 DEF Wake
  <2>4. CASE Open(t)
    BY <2>4 DEF Open
  <2>5. CASE LockExclusive(t)
    BY <2>5 DEF LockExclusive
  <2>6. CASE LockShared(t)
    BY <2>6 DEF LockShared
  <2>7. CASE LockError(t)
    BY <2>7 DEF LockError
  <2>8. CASE Unlock(t)
    BY <2>8 DEF Unlock
  <2>9. CASE Release(t)
    BY <2>9 DEF Release, Woken, Peers
  <2>10. CASE Fail(t)
    BY <2>10 DEF Fail, Woken, Peers
  <2>11. CASE Close(t)
    BY <2>11 DEF Close
  <2> QED BY <1>1, <2>1, <2>2, <2>3, <2>4, <2>5, <2>6, <2>7, <2>8, <2>9, <2>10, <2>11 DEF Thread
<1>2. ASSUME NEW p \in Processes, Exit(p) PROVE Rest'
  BY <1>2 DEF Exit
<1>3. CASE UNCHANGED vars
  BY <1>3 DEF vars
<1> QED BY <1>1, <1>2, <1>3 DEF Next

\* Every variable keeps its type, and a thread that returned asks for nothing.
THEOREM TypeOKHolds == Spec => []TypeOK
<1>1. LocalInv => TypeOK
  BY DEF LocalInv
<1> QED BY LocalInit, LocalStep, <1>1, PTL DEF Spec

\* Within one process RepoLock is a mutex, for any number of processes and
\* threads, with processes dying at any step.
THEOREM LocalExclusionHolds == Spec => []LocalExclusion
<1>1. LocalInv => LocalExclusion
  BY DEF LocalInv
<1> QED BY LocalInit, LocalStep, <1>1, PTL DEF Spec

\* The condition variable loses no wake-up: a sleeper always has an owner of
\* the flag in its own process, who will notify it.
THEOREM SleepersServedHolds == Spec => []SleepersServed
<1>1. LocalInv => SleepersServed
  BY ProcessAssumption DEF LocalInv, SleeperSees, FlagHasOwner, SleepersServed, Peers, TypeOK
<1> QED BY LocalInit, LocalStep, <1>1, PTL DEF Spec

-----------------------------------------------------------------------------
\* The lock of a thread that is alone in its process is the record the kernel
\* keeps for that process, and the records never conflict.
Alone(t) == Peers(t) = {t}
HolderRecorded ==
    \A t \in Threads : Alone(t) /\ pc[t] = "holds" => record[ProcessOf[t]] = mode[t]
HolderMode ==
    \A t \in Threads : pc[t] = "holds" => mode[t] # "none"
RecordsAgree ==
    \A p, q \in Processes : p # q /\ record[p] = "exclusive" => record[q] = "none"

CrossInv == TypeOK /\ HolderRecorded /\ HolderMode /\ RecordsAgree

LEMMA CrossInit == Init => CrossInv
BY ProcessAssumption DEF Init, CrossInv, TypeOK, HolderRecorded, HolderMode, RecordsAgree

LEMMA CrossStep == CrossInv /\ [Next]_vars => CrossInv'
<1> SUFFICES ASSUME CrossInv, [Next]_vars PROVE CrossInv'
  OBVIOUS
<1>0. TypeOK /\ TypeOK'
  BY TypeStep DEF CrossInv
<1> DEFINE Rest == HolderRecorded /\ HolderMode /\ RecordsAgree
<1> USE <1>0, ProcessAssumption
    DEF CrossInv, TypeOK, HolderRecorded, HolderMode, RecordsAgree, Alone, Peers
<1>1. ASSUME NEW t \in Threads, Thread(t) PROVE Rest'
  <2>1. CASE ReserveShared(t)
    BY <2>1 DEF ReserveShared
  <2>2. CASE ReserveExclusive(t)
    BY <2>2 DEF ReserveExclusive
  <2>3. CASE Wake(t)
    BY <2>3 DEF Wake
  <2>4. CASE Open(t)
    BY <2>4 DEF Open
  <2>5. CASE LockExclusive(t)
    BY <2>5 DEF LockExclusive, Grantable
  <2>6. CASE LockShared(t)
    BY <2>6 DEF LockShared, Grantable
  <2>7. CASE LockError(t)
    BY <2>7 DEF LockError
  <2>8. CASE Unlock(t)
    BY <2>8 DEF Unlock
  <2>9. CASE Release(t)
    BY <2>9 DEF Release, Woken, Peers
  <2>10. CASE Fail(t)
    BY <2>10 DEF Fail, Woken, Peers
  <2>11. CASE Close(t)
    BY <2>11 DEF Close
  <2> QED BY <1>1, <2>1, <2>2, <2>3, <2>4, <2>5, <2>6, <2>7, <2>8, <2>9, <2>10, <2>11 DEF Thread
<1>2. ASSUME NEW p \in Processes, Exit(p) PROVE Rest'
  BY <1>2 DEF Exit
<1>3. CASE UNCHANGED vars
  BY <1>3 DEF vars
<1> QED BY <1>1, <1>2, <1>3 DEF Next

\* Between processes that lock from one thread each (every ll-cli), RepoLock
\* is a readers-writer lock, whatever the other processes do.  A second locking
\* thread, as in the daemon, is what takes this away from a process.
THEOREM LoneExclusionHolds == Spec => []LoneExclusion
<1>1. CrossInv => LoneExclusion
  BY ProcessAssumption
     DEF CrossInv, TypeOK, HolderRecorded, HolderMode, RecordsAgree, LoneExclusion, Alone, Peers
<1> QED BY CrossInit, CrossStep, <1>1, PTL DEF Spec

HIDE DEF OwnPcs, Pcs, Modes

----------------------------------------------------------------------------
(* The entries.                                                            *)

Places == {"share", "overlay"}
Links == [at : Places, name : E!AllNames, to : AppLayers]
Entries == [current : BOOLEAN, links : SUBSET Links]
Rewriting == {"backup", "copy", "write", "clear", "rename"}
Stages == Rewriting \union {"place", "link"}
Handled == [name : E!AllNames, step : Stages, at : SUBSET Places]
Todo == [do : {"export", "unexport", "drop"}, layer : AppLayers]

\* A file of a layer is rewritten from its original, which was never rewritten;
\* a copy of it that was left, from any text.
Texts == Nat \union {E!Cut}
States(n) ==
    IF n[2] # 0 THEN [source : Texts \union {None}, backup : Texts \union {None}]
    ELSE {d \in [source : {None, 0, 1}, backup : {None, 0}] :
             /\ n[1] \notin Desktop => d.source = 0
             /\ n[1] \in Desktop /\ d.backup = None => d.source = 0}

ExportTypes ==
    /\ DOMAIN disk = AppLayers
    /\ \A l \in AppLayers : /\ DOMAIN disk[l] = E!FileNames(l)
                            /\ \A n \in E!FileNames(l) : disk[l][n] \in States(n)
    /\ eInstalled \subseteq AppLayers
    /\ entries \in Entries \union {None} /\ aside \in Entries \union {None}
    /\ new \subseteq Links
    /\ ePc \in {"down", "idle", "work", "swap", "swapping"}
    /\ plan \in Seq(Todo) /\ undo \in AppLayers \union {None} /\ quiet \in BOOLEAN
    /\ eFile \in Handled \union {None}
    /\ twice \in BOOLEAN

Current == entries # None /\ entries.current = TRUE
Due(what) == plan # <<>> /\ plan[1].do = what
Linking(n) == eFile # None /\ eFile.step = "link" /\ eFile.name = n

\* Entries are built aside only where they are not current.  An operation
\* exports one layer, then takes the links of one away, then drops it.
Planned ==
    /\ ePc \in {"idle", "work"} => Current
    /\ ePc = "swap" => ~ Current /\ undo = None /\ quiet = FALSE
    /\ quiet = TRUE => undo = None
    /\ ePc = "swapping" => plan = <<>> /\ aside # None /\ aside.current = FALSE
    /\ ePc = "swap" => \A i \in 1..Len(plan) :
           /\ plan[i].do = "export" /\ plan[i].layer \in eInstalled
           /\ \A j \in 1..Len(plan) : plan[i].layer = plan[j].layer => i = j
    /\ ePc = "work" =>
           /\ \A i \in 1..Len(plan) :
                  /\ plan[i].do = "export" => i = 1 /\ plan[i].layer \in eInstalled
                  /\ i < Len(plan) => plan[i].do # "drop"
                  /\ i > 1 /\ plan[i].do = "drop" =>
                         plan[i - 1] = [do |-> "unexport", layer |-> plan[i].layer]

\* What is exported has its files ready before it is linked.
FileFits ==
    eFile # None =>
        LET l == plan[1].layer  n == eFile.name  s == eFile.step IN
        /\ ePc \in {"work", "swap"} /\ Due("export") /\ n \in E!FileNames(l) \ seen /\ n[2] <= stops
        /\ s \in Rewriting => n[1] \in Desktop
        /\ s = "backup" => disk[l][n].source # None
        /\ s \in Rewriting \ {"backup"} => disk[l][n].backup # None
        /\ s \in {"clear", "rename"} =>
               disk[l][E!Copy].source = E!Rewritten(disk[l][n].backup)
        /\ s \in {"place", "link"} => E!Fits(n, disk[l][n].source)
        /\ s = "link" => eFile.at # {} \/ \E x \in E!Target : x.name = n /\ x.at \notin eFile.at

\* Each stop has left at most one copy, beside the one that is being made.
Numbered ==
    /\ stops \in 0..MaxStops
    /\ \A l \in AppLayers : \A n \in E!FileNames(l) : n[2] > stops =>
           \/ disk[l][n].source = None
           \/ /\ eFile # None /\ eFile.step \in {"write", "clear", "rename"}
              /\ plan[1].layer = l /\ n = E!Copy

Leads(x) == /\ x.to \in eInstalled /\ x.name \in E!FileNames(x.to) /\ x.name[2] <= stops
            /\ E!Fits(x.name, disk[x.to][x.name].source)

\* Links lead to what is ready; to a layer that is being exported there are
\* those made so far, and to one that is dropped there are none.
Leading ==
    /\ ~ twice /\ Current => \A x \in entries.links : Leads(x)
    /\ ePc \in {"swap", "swapping"} => \A x \in new : Leads(x)
    /\ ePc = "swap" \/ (ePc = "work" /\ ~ twice) =>
           (Due("export") => \A x \in E!Target :
                x.to = plan[1].layer => x.name \in seen \/ Linking(x.name))
    /\ ePc = "swap" => \A i \in 2..Len(plan) : \A x \in new : x.to # plan[i].layer
    /\ ePc = "work" /\ ~ twice /\ Due("drop") => \A x \in E!Live : x.to # plan[1].layer

\* The file that is being exported was there.
Handling(l, n) == ePc = "work" /\ eFile # None /\ plan[1].layer = l /\ eFile.name = n

Shown(l, n) == <<l, n>> \in excused \/ \E x \in entries.links : x.name = n

\* An installed file is shown, excused or lost.
Showing ==
    Current => \A l \in eInstalled : \A n \in E!Own(l) :
        Shown(l, n) \/ (disk[l][n].source = None /\ ~ Handling(l, n))

\* What is built aside has all the files of the layers it is done with.
Has(n) == Linking(n) \/ \E x \in new : x.name = n
Covered ==
    /\ ePc \in {"swap", "swapping"} => \A l \in eInstalled : \A n \in E!Own(l) :
           \/ \E i \in 1..Len(plan) : plan[i].layer = l
           \/ disk[l][n].source = None
           \/ Has(n)
    /\ ePc = "swap" /\ plan # <<>> => \A n \in seen : Has(n)

ExportsInv == ExportTypes /\ Planned /\ FileFits /\ Numbered /\ Leading /\ Showing /\ Covered

LEMMA ExportsRun == [RepositoriesNext]_repositoryVars => [E!Next]_eVars
  BY DEF RepositoriesNext, repositoryVars, LockStep, VersionsStep, ConfigStep, ExportsStep, DriverStep

\* The steps of a file that is being exported, and what an operation does else.
FileStep == \/ E!Backup \/ E!MakeCopy \/ E!Write \/ E!Clear \/ E!Rename \/ E!Place \/ E!Linked
            \/ \E p \in Places : E!MakeLink(p)
PlanStep == \/ E!AllTaken \/ E!AllUnlinked \/ E!Drop
            \/ (\E n \in E!AllNames : E!Take(n)) \/ \E x \in E!Live : E!Unlink(x)
Begins == \E l \in AppLayers : E!Install(l) \/ E!Uninstall(l) \/ \E k \in AppLayers : E!Upgrade(l, k)

LEMMA ExportSteps ==
    E!Next => \/ E!Open \/ E!SwapOut \/ E!SwapIn \/ E!SwapBack \/ E!Finish \/ Begins
              \/ FileStep \/ PlanStep \/ E!Fails \/ \E other \in BOOLEAN : E!Killed(other)
  BY DEF E!Next, Begins, FileStep, PlanStep, Places

\* A name in a layer is a file of it, or a copy of one.
LEMMA NamesAre ==
    ASSUME NEW l \in AppLayers, NEW n \in E!FileNames(l)
    PROVE  /\ n = <<n[1], n[2]>> /\ n[1] \in Exported[l] /\ n[2] \in Nat /\ n \in E!AllNames
           /\ n[2] = 0 <=> n \in E!Own(l)
           /\ n[2] # 0 => n[1] \in Desktop
  BY ExportAssumption DEF E!FileNames, E!Own, E!AllNames

LEMMA OwnAre ==
    ASSUME NEW l \in AppLayers, NEW n \in E!Own(l)
    PROVE  n \in E!FileNames(l) /\ n \in E!AllNames /\ n[2] = 0
  BY DEF E!FileNames, E!Own, E!AllNames

\* What a layer has that is new.
LEMMA FreshAre ==
    ASSUME NEW l \in AppLayers
    PROVE  /\ DOMAIN E!Fresh(l) = E!FileNames(l)
           /\ \A n \in E!FileNames(l) : /\ E!Fresh(l)[n] \in States(n)
                                        /\ n[2] # 0 => E!Fresh(l)[n].source = None
  BY DEF E!Fresh, E!Raw, E!Gone, States

LEMMA ExportsInit == RepositoriesInit => ExportsInv
<1> SUFFICES ASSUME RepositoriesInit PROVE ExportsInv
  OBVIOUS
<1> USE ExportAssumption
<1>1. PICK S \in SUBSET AppLayers :
        /\ eInstalled = S
        /\ disk = [l \in AppLayers |-> [n \in E!FileNames(l) |->
               IF l \in S /\ n[2] = 0 /\ n[1] \in Desktop THEN E!Done ELSE E!Fresh(l)[n]]]
        /\ entries = [current |-> FALSE, links |->
              {[at |-> "share", name |-> n, to |-> CHOOSE l \in S : n \in E!Own(l)] :
                  n \in UNION {E!Own(l) : l \in S}}]
  BY DEF RepositoriesInit, E!Init
<1>2. /\ new = {} /\ aside = None /\ ePc = "down" /\ plan = <<>> /\ undo = None
      /\ quiet = FALSE /\ eFile = None /\ twice = FALSE /\ stops = 0
  BY DEF RepositoriesInit, E!Init
<1>3. entries \in Entries
  <2>1. ASSUME NEW n \in UNION {E!Own(l) : l \in S}
        PROVE  [at |-> "share", name |-> n, to |-> CHOOSE l \in S : n \in E!Own(l)] \in Links
    <3>1. PICK l \in S : n \in E!Own(l)
      OBVIOUS
    <3> QED BY <3>1, OwnAre DEF Links, Places
  <2> QED BY <1>1, <2>1 DEF Entries
<1>4. ASSUME NEW l \in AppLayers, NEW n \in E!FileNames(l)
      PROVE  /\ DOMAIN disk = AppLayers /\ DOMAIN disk[l] = E!FileNames(l)
             /\ disk[l][n] \in States(n)
             /\ n[2] > 0 => disk[l][n].source = None
  <2>1. disk[l][n] = E!Fresh(l)[n] \/ (n[2] = 0 /\ n[1] \in Desktop /\ disk[l][n] = E!Done)
    BY <1>1
  <2>2. n[2] = 0 /\ n[1] \in Desktop => E!Done \in States(n)
    BY DEF E!Done, States
  <2> QED BY <1>1, <2>1, <2>2, FreshAre, NamesAre
<1>5. ExportTypes
  <2>1. DOMAIN disk = AppLayers /\ \A l \in AppLayers : DOMAIN disk[l] = E!FileNames(l)
    BY <1>1
  <2>2. plan \in Seq(Todo)
    BY <1>2
  <2>3. eInstalled \subseteq AppLayers
    BY <1>1
  <2> QED BY <1>2, <1>3, <1>4, <2>1, <2>2, <2>3 DEF ExportTypes
<1>6. ~ Current
  BY <1>1 DEF Current
<1>7. Planned /\ FileFits /\ Leading /\ Showing /\ Covered
  BY <1>2, <1>6 DEF Planned, FileFits, Leading, Showing, Covered
<1>8. Numbered
  BY <1>2, <1>4 DEF Numbered
<1> QED BY <1>5, <1>7, <1>8 DEF ExportsInv

\* A plan goes on with what came after its first step.
LEMMA PlanGoes ==
    ASSUME plan \in Seq(Todo), plan # <<>>
    PROVE  /\ Tail(plan) \in Seq(Todo) /\ Len(Tail(plan)) = Len(plan) - 1 /\ Len(plan) \in Nat \ {0}
           /\ \A i \in 1..(Len(plan) - 1) : Tail(plan)[i] = plan[i + 1]
           /\ Head(plan) = plan[1] /\ plan[1] \in Todo
  OBVIOUS

LEMMA NoneApart == None \notin Entries /\ None \notin Handled /\ None \notin AppLayers
  BY ExportAssumption DEF Entries, Links, Places, Handled, Stages, Rewriting

\* Where the file is that is being exported.
LEMMA FileAt ==
    ASSUME ExportsInv, eFile # None
    PROVE  /\ eFile \in Handled /\ plan # <<>> /\ plan[1].do = "export" /\ Head(plan) = plan[1]
           /\ plan[1].layer \in AppLayers /\ E!Layer = plan[1].layer
           /\ eFile.name \in E!FileNames(plan[1].layer) /\ eFile.name[2] <= stops
           /\ E!Now = disk[plan[1].layer][eFile.name] /\ E!Now \in States(eFile.name)
           /\ eFile.name[1] \in Desktop => E!Copy \in E!FileNames(plan[1].layer)
           /\ E!Copy # eFile.name /\ E!Copy[2] = stops + 1 /\ stops \in Nat /\ eFile.name[2] \in Nat
<1> USE DEF ExportsInv, ExportTypes
<1>1. /\ eFile \in Handled /\ plan # <<>> /\ plan[1].do = "export" /\ Head(plan) = plan[1]
      /\ plan[1].layer \in AppLayers /\ E!Layer = plan[1].layer
      /\ eFile.name \in E!FileNames(plan[1].layer) /\ eFile.name[2] <= stops
  BY PlanGoes DEF FileFits, Due, Todo, E!Layer
<1>2. E!Now = disk[plan[1].layer][eFile.name] /\ E!Now \in States(eFile.name)
  BY <1>1 DEF E!Now
<1>3. /\ eFile.name[1] \in Exported[plan[1].layer] /\ eFile.name[2] \in Nat
      /\ stops \in 0..MaxStops /\ MaxStops \in Nat
  BY <1>1, NamesAre, ExportAssumption DEF Numbered
<1>4. E!Copy = <<eFile.name[1], stops + 1>> /\ stops + 1 \in 1..(MaxStops + 1)
  BY <1>3 DEF E!Copy
<1>5. eFile.name[1] \in Desktop => E!Copy \in E!FileNames(plan[1].layer)
  BY <1>3, <1>4 DEF E!FileNames
<1>6. E!Copy[2] = stops + 1 /\ stops \in Nat /\ E!Copy # eFile.name
  BY <1>1, <1>3, <1>4
<1> QED BY <1>1, <1>2, <1>3, <1>5, <1>6

LEMMA RewrittenText ==
    ASSUME NEW t \in Texts PROVE E!Rewritten(t) \in Texts /\ E!Rewritten(t) # 0
  BY DEF E!Rewritten, E!Cut, Texts

LEMMA NoText == None \notin Texts
  BY ExportAssumption DEF Texts, E!Cut

\* The files of the layers are of their kinds.
OnDisk == /\ DOMAIN disk = AppLayers
          /\ \A l \in AppLayers : /\ DOMAIN disk[l] = E!FileNames(l)
                                  /\ \A n \in E!FileNames(l) : disk[l][n] \in States(n)

\* What the steps of a file do to the layer: to the file and to its copy.
LEMMA FileEdits ==
    ASSUME ExportsInv, FileStep
    PROVE  /\ eFile # None /\ OnDisk'
           /\ \A l \in AppLayers : \A n \in E!FileNames(l) :
                  l # plan[1].layer \/ n \notin {eFile.name, E!Copy} => disk'[l][n] = disk[l][n]
           /\ eFile.name[1] \in Desktop \/ UNCHANGED disk
           /\ E!Backup => /\ disk'[plan[1].layer][eFile.name].backup # None
                          /\ disk'[plan[1].layer][E!Copy] = disk[plan[1].layer][E!Copy]
           /\ E!MakeCopy => disk'[plan[1].layer][eFile.name] = E!Now
           /\ E!Write => /\ disk'[plan[1].layer][eFile.name] = E!Now
                         /\ disk'[plan[1].layer][E!Copy].source = E!Rewritten(E!Now.backup)
           /\ E!Clear => /\ disk'[plan[1].layer][eFile.name].backup = E!Now.backup
                         /\ disk'[plan[1].layer][E!Copy] = disk[plan[1].layer][E!Copy]
           /\ E!Rename => /\ E!Fits(eFile.name, disk'[plan[1].layer][eFile.name].source)
                          /\ disk'[plan[1].layer][E!Copy].source = None
           /\ E!Place \/ E!Linked \/ (\E p \in Places : E!MakeLink(p)) => UNCHANGED disk
<1>0. eFile # None
  BY DEF FileStep, E!Backup, E!MakeCopy, E!Write, E!Clear, E!Rename, E!Place, E!Linked, E!MakeLink, E!On
<1>d. PICK l, n, c : l = plan[1].layer /\ n = eFile.name /\ c = E!Copy
  OBVIOUS
<1> USE <1>d
<1>1. /\ l \in AppLayers /\ E!Layer = l /\ n \in E!FileNames(l) /\ c # n
      /\ E!Now = disk[l][n] /\ E!Now \in States(n)
      /\ n[1] \in Desktop => c \in E!FileNames(l)
      /\ n[2] \in Nat /\ c[2] # 0
  BY <1>0, FileAt
<1>2. OnDisk
  BY DEF ExportsInv, ExportTypes, OnDisk
<1>3. /\ eFile.step \in Rewriting => n[1] \in Desktop
      /\ eFile.step = "backup" => E!Now.source # None
      /\ eFile.step \in Rewriting \ {"backup"} => E!Now.backup # None
      /\ eFile.step \in {"clear", "rename"} => disk[l][c].source = E!Rewritten(E!Now.backup)
  BY <1>0, <1>1 DEF ExportsInv, FileFits
<1>4. /\ E!Backup => eFile.step = "backup"
      /\ E!MakeCopy => eFile.step = "copy"
      /\ E!Write => eFile.step = "write"
      /\ E!Clear => eFile.step = "clear"
      /\ E!Rename => eFile.step = "rename"
      /\ E!Place \/ E!Linked \/ (\E p \in Places : E!MakeLink(p)) => UNCHANGED disk
  BY DEF E!Backup, E!MakeCopy, E!Write, E!Clear, E!Rename, E!Place, E!Linked, E!MakeLink, E!On
<1>5. E!Now.backup # None => /\ E!Now.backup \in Texts /\ E!Rewritten(E!Now.backup) \in Texts \ {0}
                             /\ n[2] = 0 /\ n[1] \in Desktop => E!Rewritten(E!Now.backup) = 1
  <2>1. SUFFICES ASSUME E!Now.backup # None
                 PROVE  /\ E!Now.backup \in Texts
                        /\ n[2] = 0 /\ n[1] \in Desktop => E!Rewritten(E!Now.backup) = 1
    BY RewrittenText
  <2>2. CASE n[2] # 0
    BY <1>1, <2>1, <2>2 DEF States
  <2>3. CASE n[2] = 0
    <3>1. E!Now.backup = 0
      BY <1>1, <2>1, <2>3 DEF States
    <3> QED BY <3>1 DEF E!Rewritten, E!Cut, Texts
  <2> QED BY <2>2, <2>3
<1>6. \A t \in Texts : [E!Gone EXCEPT !.source = t] \in States(c) /\ [E!Gone EXCEPT !.source = t].source = t
  BY <1>1 DEF States, E!Gone
<1>7. E!Gone \in States(c) /\ E!Gone.source = None
  BY <1>1 DEF States, E!Gone
<1>8. CASE E!Backup
  <2>1. n[1] \in Desktop /\ E!Now.source # None
    BY <1>3, <1>4, <1>8 DEF Rewriting
  <2>2. CASE E!Now.backup # None
    <3>1. UNCHANGED disk
      BY <1>8, <2>2 DEF E!Backup
    <3>2. OnDisk'
      BY <1>2, <3>1 DEF OnDisk
    <3>3. ~ E!MakeCopy /\ ~ E!Write /\ ~ E!Clear /\ ~ E!Rename
      BY <1>4, <1>8
    <3> QED BY <1>0, <1>1, <2>1, <2>2, <3>1, <3>2, <3>3
  <2>3. CASE E!Now.backup = None
    <3>1. PICK d : d = [source |-> None, backup |-> E!Now.source]
      OBVIOUS
    <3>2. d \in States(n) /\ d.backup # None
      <4>1. E!Now.source \in Texts \union {None} /\ (n[2] = 0 => E!Now.source = 0)
        BY <1>1, <2>1, <2>3 DEF States, Texts
      <4> QED BY <2>1, <3>1, <4>1 DEF States
    <3>3. disk' = [disk EXCEPT ![l][n] = d]
      BY <1>1, <1>8, <2>3, <3>1 DEF E!Backup, E!Edit
    <3>4. /\ OnDisk' /\ disk'[l][n] = d
          /\ \A k \in AppLayers : \A m \in E!FileNames(k) : k # l \/ m # n => disk'[k][m] = disk[k][m]
      <4>1. /\ DOMAIN disk' = AppLayers /\ \A k \in AppLayers : k # l => disk'[k] = disk[k]
            /\ disk'[l] = [disk[l] EXCEPT ![n] = d]
        BY <1>1, <1>2, <3>3 DEF OnDisk
      <4>2. /\ DOMAIN disk'[l] = E!FileNames(l) /\ disk'[l][n] = d
            /\ \A m \in E!FileNames(l) : m \notin {n} => disk'[l][m] = disk[l][m]
        BY <1>1, <1>2, <4>1 DEF OnDisk
      <4> QED BY <1>1, <1>2, <3>2, <4>1, <4>2 DEF OnDisk
    <3>5. ~ E!MakeCopy /\ ~ E!Write /\ ~ E!Clear /\ ~ E!Rename
      BY <1>4, <1>8
    <3> QED BY <1>0, <1>1, <1>4, <2>1, <3>2, <3>4, <3>5
  <2> QED BY <2>2, <2>3
<1>9. CASE E!MakeCopy \/ E!Write
  <2>1. n[1] \in Desktop /\ E!Now.backup # None /\ c \in E!FileNames(l)
    BY <1>1, <1>3, <1>4, <1>9 DEF Rewriting
  <2>2. PICK t \in Texts : /\ disk' = [disk EXCEPT ![l][c] = [E!Gone EXCEPT !.source = t]]
                           /\ E!Write => t = E!Rewritten(E!Now.backup)
    <3>1. E!Cut \in Texts
      BY DEF Texts
    <3>2. CASE E!MakeCopy
      <4>1. ~ E!Write
        BY <1>4, <3>2
      <4> QED BY <1>1, <1>5, <2>1, <3>1, <3>2, <4>1 DEF E!MakeCopy, E!Edit
    <3>3. CASE E!Write
      BY <1>1, <1>5, <2>1, <3>3 DEF E!Write, E!Edit
    <3> QED BY <1>9, <3>2, <3>3
  <2>3. /\ OnDisk' /\ disk'[l][c].source = t
        /\ \A k \in AppLayers : \A m \in E!FileNames(k) : k # l \/ m # c => disk'[k][m] = disk[k][m]
    <3>1. PICK d \in States(c) : d = [E!Gone EXCEPT !.source = t] /\ d.source = t
      BY <1>6
    <3>2. disk' = [disk EXCEPT ![l][c] = d]
      BY <2>2, <3>1
    <3>3. /\ DOMAIN disk' = AppLayers /\ \A k \in AppLayers : k # l => disk'[k] = disk[k]
          /\ disk'[l] = [disk[l] EXCEPT ![c] = d]
      BY <1>1, <1>2, <3>2 DEF OnDisk
    <3>4. /\ DOMAIN disk'[l] = E!FileNames(l) /\ disk'[l][c] = d
          /\ \A m \in E!FileNames(l) : m \notin {c} => disk'[l][m] = disk[l][m]
      BY <1>1, <1>2, <2>1, <3>3 DEF OnDisk
    <3>5. OnDisk'
      BY <1>1, <1>2, <2>1, <3>3, <3>4 DEF OnDisk
    <3> QED BY <1>1, <3>1, <3>3, <3>4, <3>5
  <2>4. ~ E!Backup /\ ~ E!Clear /\ ~ E!Rename /\ ~ E!Place
        /\ ~ E!Linked /\ ~ \E p \in Places : E!MakeLink(p)
    <3>1. eFile.step \in {"copy", "write"}
      BY <1>4, <1>9
    <3> QED BY <3>1 DEF E!Backup, E!Clear, E!Rename, E!Place, E!Linked, E!MakeLink, E!On
  <2> QED BY <1>0, <1>1, <2>1, <2>2, <2>3, <2>4
<1>10. CASE E!Clear
  <2>1. n[1] \in Desktop /\ E!Now.backup # None
    BY <1>3, <1>4, <1>10 DEF Rewriting
  <2>2. PICK d : d = [E!Now EXCEPT !.source = None]
    OBVIOUS
  <2>3. d \in States(n) /\ d.backup = E!Now.backup
    BY <1>1, <2>1, <2>2 DEF States
  <2>4. disk' = [disk EXCEPT ![l][n] = d]
    BY <1>1, <1>10, <2>2 DEF E!Clear, E!Edit
  <2>5. /\ OnDisk' /\ disk'[l][n] = d
        /\ \A k \in AppLayers : \A m \in E!FileNames(k) : k # l \/ m # n => disk'[k][m] = disk[k][m]
    <3>1. /\ DOMAIN disk' = AppLayers /\ \A k \in AppLayers : k # l => disk'[k] = disk[k]
          /\ disk'[l] = [disk[l] EXCEPT ![n] = d]
      BY <1>1, <1>2, <2>4 DEF OnDisk
    <3>2. /\ DOMAIN disk'[l] = E!FileNames(l) /\ disk'[l][n] = d
          /\ \A m \in E!FileNames(l) : m \notin {n} => disk'[l][m] = disk[l][m]
      BY <1>1, <1>2, <3>1 DEF OnDisk
    <3> QED BY <1>1, <1>2, <2>3, <3>1, <3>2 DEF OnDisk
  <2>6. ~ E!Backup /\ ~ E!MakeCopy /\ ~ E!Write /\ ~ E!Rename /\ ~ E!Place
        /\ ~ E!Linked /\ ~ \E p \in Places : E!MakeLink(p)
    <3>1. eFile.step = "clear"
      BY <1>4, <1>10
    <3> QED BY <3>1 DEF E!Backup, E!MakeCopy, E!Write, E!Rename, E!Place, E!Linked, E!MakeLink, E!On
  <2> QED BY <1>0, <1>1, <2>1, <2>3, <2>5, <2>6
<1>11. CASE E!Rename
  <2>1. n[1] \in Desktop /\ E!Now.backup # None /\ c \in E!FileNames(l)
        /\ disk[l][c].source = E!Rewritten(E!Now.backup)
    BY <1>1, <1>3, <1>4, <1>11 DEF Rewriting
  <2>2. PICK d : d = [E!Now EXCEPT !.source = disk[l][c].source]
    OBVIOUS
  <2>3. d \in States(n) /\ d.source = disk[l][c].source
    <3>1. disk[l][c].source \in Texts \ {0} /\ (n[2] = 0 => disk[l][c].source = 1)
      BY <1>5, <2>1
    <3> QED BY <1>1, <2>1, <2>2, <3>1 DEF States
  <2>4. E!Fits(n, d.source)
    BY <1>5, <2>1, <2>3, NoText DEF E!Fits
  <2>5. disk' = [disk EXCEPT ![l] = [disk[l] EXCEPT ![n] = d, ![c] = E!Gone]]
    <3>1. disk' = [disk EXCEPT ![l][n].source = disk[l][c].source, ![l][c] = E!Gone]
      BY <1>1, <1>11 DEF E!Rename
    <3>2. d = [disk[l][n] EXCEPT !.source = disk[l][c].source]
      BY <1>1, <2>2
    <3> QED BY <1>1, <1>2, <3>1, <3>2 DEF OnDisk
  <2>6. /\ OnDisk' /\ disk'[l][n] = d /\ disk'[l][c] = E!Gone
        /\ \A k \in AppLayers : \A m \in E!FileNames(k) :
               k # l \/ m \notin {n, c} => disk'[k][m] = disk[k][m]
    <3>1. /\ DOMAIN disk' = AppLayers /\ \A k \in AppLayers : k # l => disk'[k] = disk[k]
          /\ disk'[l] = [disk[l] EXCEPT ![n] = d, ![c] = E!Gone]
      BY <1>1, <1>2, <2>5 DEF OnDisk
    <3>2. /\ DOMAIN disk'[l] = E!FileNames(l) /\ disk'[l][n] = d /\ disk'[l][c] = E!Gone
          /\ \A m \in E!FileNames(l) : m \notin {n, c} => disk'[l][m] = disk[l][m]
      BY <1>1, <1>2, <2>1, <3>1 DEF OnDisk
    <3> QED BY <1>1, <1>2, <1>7, <2>3, <3>1, <3>2 DEF OnDisk
  <2>7. ~ E!Backup /\ ~ E!MakeCopy /\ ~ E!Write /\ ~ E!Clear /\ ~ E!Place
        /\ ~ E!Linked /\ ~ \E p \in Places : E!MakeLink(p)
    <3>1. eFile.step = "rename"
      BY <1>4, <1>11
    <3> QED BY <3>1 DEF E!Backup, E!MakeCopy, E!Write, E!Clear, E!Place, E!Linked, E!MakeLink, E!On
  <2> QED BY <1>0, <1>1, <1>7, <2>1, <2>4, <2>6, <2>7
<1>12. CASE E!Place \/ E!Linked \/ \E p \in Places : E!MakeLink(p)
  <2>1. UNCHANGED disk
    BY <1>4, <1>12
  <2>2. OnDisk'
    BY <1>2, <2>1 DEF OnDisk
  <2>3. ~ E!Backup /\ ~ E!MakeCopy /\ ~ E!Write /\ ~ E!Clear /\ ~ E!Rename
    <3>1. eFile.step \in {"place", "link"}
      BY <1>12 DEF E!Place, E!Linked, E!MakeLink, E!On
    <3> QED BY <1>4, <3>1
  <2> QED BY <1>0, <2>1, <2>2, <2>3
<1> QED BY <1>8, <1>9, <1>10, <1>11, <1>12 DEF FileStep

LEMMA PlacesAre == ExportsInv => \A n : E!Places(n) \in SUBSET Places /\ E!Places(n) # {}
<1> SUFFICES ASSUME ExportsInv, NEW n PROVE E!Places(n) \in SUBSET Places /\ E!Places(n) # {}
  OBVIOUS
<1>1. E!Live \subseteq Links
  BY DEF ExportsInv, ExportTypes, E!Live, Entries
<1> QED BY <1>1 DEF E!Places, Places, Links

LEMMA TypesFile == ASSUME ExportsInv, FileStep PROVE ExportTypes'
<1>0. OnDisk' /\ eFile # None /\ eFile \in Handled
  BY FileEdits, FileAt
<1> USE DEF ExportsInv, ExportTypes, OnDisk
<1>1. \A s \in Stages, t \in SUBSET Places :
         /\ [eFile EXCEPT !.step = s] \in Handled /\ [eFile EXCEPT !.at = t] \in Handled
         /\ [eFile EXCEPT !.step = s, !.at = t] \in Handled
  BY <1>0 DEF Handled
<1>2. CASE E!Backup \/ E!MakeCopy \/ E!Write \/ E!Clear \/ E!Rename
  <2>1. \E s \in Stages : eFile' = [eFile EXCEPT !.step = s]
    BY <1>2 DEF E!Backup, E!MakeCopy, E!Write, E!Clear, E!Rename, E!Then, Stages, Rewriting
  <2>2. E!OnlyDisk
    BY <1>2 DEF E!Backup, E!MakeCopy, E!Write, E!Clear, E!Rename
  <2> QED BY <1>0, <1>1, <2>1, <2>2 DEF E!OnlyDisk
<1>6. CASE E!Place
  <2>1. E!Places(eFile.name) \in SUBSET Places /\ "link" \in Stages
    BY PlacesAre DEF Stages
  <2>2. eFile' \in Handled
    BY <1>1, <1>6, <2>1 DEF E!Place
  <2> QED BY <1>0, <1>6, <2>2 DEF E!Place, E!OnlyDisk
<1>7. ASSUME NEW p \in Places, E!MakeLink(p) PROVE ExportTypes'
  <2>1. E!Link(p) \in Links
    <3>1. E!Layer \in AppLayers /\ eFile.name \in E!AllNames
      BY <1>0, FileAt, NamesAre
    <3> QED BY <3>1 DEF E!Link, Links
  <2>2. eFile' \in Handled
    <3>1. eFile.at \ {p} \in SUBSET Places
      BY <1>0 DEF Handled
    <3>2. eFile' = eFile \/ eFile' = [eFile EXCEPT !.at = eFile.at \ {p}]
      BY <1>7 DEF E!MakeLink
    <3>3. "link" \in Stages
      BY DEF Stages
    <3> QED BY <1>0, <1>1, <3>1, <3>2, <3>3
  <2>3. ASSUME NEW s, s \subseteq E!Target \union {E!Link(p)}, E!Change(s)
        PROVE  entries' \in Entries \union {None} /\ new' \subseteq Links
    <3>1. CASE E!Building
      BY <2>1, <2>3, <3>1 DEF E!Change, E!Target
    <3>2. CASE ~ E!Building
      <4>1. entries \in Entries
        BY <1>0, <3>2 DEF E!Building, FileFits, Planned, Current
      <4> QED BY <2>1, <2>3, <3>2, <4>1 DEF E!Change, E!Target, E!Live, Entries
    <3> QED BY <3>1, <3>2
  <2>4. entries' \in Entries \union {None} /\ new' \subseteq Links
    BY <1>7, <2>3 DEF E!MakeLink
  <2> QED BY <1>0, <1>7, <2>2, <2>4 DEF E!MakeLink
<1>8. CASE E!Linked
  BY <1>0, <1>8 DEF E!Linked
<1> QED BY <1>2, <1>6, <1>7, <1>8 DEF FileStep

\* The layers, each once, in some order.
LEMMA AllOrdered ==
    ASSUME NEW S, S \subseteq AppLayers, NEW order \in E!SetToSeqs(S)
    PROVE  /\ order \in Seq(S)
           /\ \A i, j \in 1..Len(order) : order[i] = order[j] => i = j
           /\ \A l \in S : \E i \in 1..Len(order) : order[i] = l
<1>0. E!Cardinality(S) = Cardinality(S)
  BY DEF E!Cardinality, Cardinality
<1>1. IsFiniteSet(S) /\ Cardinality(S) \in Nat
  BY ExportAssumption, FS_Subset, FS_CardinalityType
<1> DEFINE All == 1..Cardinality(S)
<1>2. order \in [All -> S] /\ \A i, j \in All : i # j => order[i] # order[j]
  BY <1>0 DEF E!SetToSeqs
<1>3. order \in Seq(S) /\ Len(order) = Cardinality(S)
  BY <1>1, <1>2
<1>4. order \in Injection(All, S)
  BY <1>2 DEF Injection, IsInjective
<1>5. IsFiniteSet(All) /\ Cardinality(All) = Cardinality(S)
  BY <1>1, FS_Interval
<1>6. order \in Surjection(All, S)
  BY <1>1, <1>4, <1>5, FS_Injection
<1> QED BY <1>2, <1>3, <1>6 DEF Surjection

LEMMA OpenPlan ==
    ASSUME ExportTypes, E!Open, ~ Current
    PROVE  /\ ePc' = "swap" /\ new' = {} /\ plan' \in Seq(Todo)
           /\ \A i \in 1..Len(plan') :
                  /\ plan'[i].do = "export" /\ plan'[i].layer \in eInstalled
                  /\ \A j \in 1..Len(plan') : plan'[i].layer = plan'[j].layer => i = j
           /\ \A l \in eInstalled : \E i \in 1..Len(plan') : plan'[i].layer = l
<1>0. ~ (entries # None /\ entries.current)
  BY DEF Current, ExportTypes, Entries
<1>1. PICK order \in E!SetToSeqs(eInstalled) :
          plan' = [k \in DOMAIN order |-> E!Do("export", order[k])]
  BY <1>0 DEF E!Open
<1>2. eInstalled \subseteq AppLayers
  BY DEF ExportTypes
<1>3. /\ order \in Seq(eInstalled)
      /\ \A i, j \in 1..Len(order) : order[i] = order[j] => i = j
      /\ \A l \in eInstalled : \E i \in 1..Len(order) : order[i] = l
  BY <1>1, <1>2, AllOrdered
<1>4. /\ DOMAIN order = 1..Len(order) /\ Len(order) \in Nat
      /\ \A i \in 1..Len(order) : order[i] \in eInstalled
  BY <1>3
<1>5. /\ plan' \in Seq(Todo) /\ Len(plan') = Len(order)
      /\ \A i \in 1..Len(order) : plan'[i] = [do |-> "export", layer |-> order[i]]
  <2>1. \A i \in 1..Len(order) : plan'[i] = [do |-> "export", layer |-> order[i]]
    BY <1>1, <1>4 DEF E!Do
  <2>2. \A i \in 1..Len(order) : [do |-> "export", layer |-> order[i]] \in Todo
    BY <1>2, <1>4 DEF Todo
  <2>3. plan' = [k \in 1..Len(order) |-> E!Do("export", order[k])]
    BY <1>1, <1>4
  <2>4. plan' \in [1..Len(order) -> Todo]
    BY <2>1, <2>2, <2>3
  <2> QED BY <1>4, <2>1, <2>4
<1>6. ePc' = "swap" /\ new' = {}
  BY <1>0 DEF E!Open
<1>7. ASSUME NEW i \in 1..Len(plan')
      PROVE  /\ plan'[i].do = "export" /\ plan'[i].layer = order[i] /\ i \in 1..Len(order)
  <2>1. i \in 1..Len(order)
    BY <1>5
  <2>2. plan'[i] = [do |-> "export", layer |-> order[i]]
    BY <1>5, <2>1
  <2> QED BY <2>1, <2>2
<1> QED BY <1>3, <1>4, <1>5, <1>6, <1>7

LEMMA TypesElse ==
    ASSUME ExportsInv, [E!Next]_eVars, ~ FileStep
    PROVE  ExportTypes'
<1> USE ExportAssumption DEF ExportsInv, ExportTypes
<1>0. CASE UNCHANGED eVars
  BY <1>0 DEF eVars
<1>1. CASE E!Open
  <2>1. plan' \in Seq(Todo) /\ new' \subseteq Links /\ ePc' \in {"idle", "swap"}
    <3>1. CASE ~ Current
      BY <1>1, <3>1, OpenPlan
    <3>2. CASE Current
      BY <1>1, <3>2 DEF E!Open, Current
    <3> QED BY <3>1, <3>2
  <2> QED BY <1>1, <2>1 DEF E!Open
<1>2. CASE E!SwapOut \/ E!SwapBack \/ E!Finish
  BY <1>2 DEF E!SwapOut, E!SwapBack, E!Finish, E!working
<1>3. CASE E!SwapIn
  BY <1>3 DEF E!SwapIn, E!working, Entries
<1>4. CASE Begins
  <2>1. PICK l \in AppLayers, k \in AppLayers : E!Install(l) \/ E!Uninstall(l) \/ E!Upgrade(l, k)
    BY <1>4 DEF Begins
  <2>2. /\ E!Do("export", l) \in Todo /\ E!Do("export", k) \in Todo /\ E!Do("unexport", l) \in Todo
        /\ E!Do("drop", l) \in Todo
    BY DEF E!Do, Todo
  <2>3. /\ <<E!Do("export", l)>> \in Seq(Todo)
        /\ <<E!Do("unexport", l), E!Do("drop", l)>> \in Seq(Todo)
        /\ <<E!Do("export", k), E!Do("unexport", l), E!Do("drop", l)>> \in Seq(Todo)
    <3> HIDE DEF E!Do
    <3> QED BY <2>2
  <2>4. plan' \in Seq(Todo) /\ undo' \in AppLayers \union {None} /\ eInstalled' \subseteq AppLayers
    BY <2>1, <2>3 DEF E!Install, E!Uninstall, E!Upgrade, E!Begin
  <2>5. /\ UNCHANGED <<disk, eFile, entries, new, aside, twice>> /\ ePc' = "work" /\ quiet' = FALSE
    BY <2>1 DEF E!Install, E!Uninstall, E!Upgrade, E!Begin
  <2> QED BY <2>4, <2>5
<1>5. CASE E!AllTaken \/ E!AllUnlinked
  BY <1>5, PlanGoes DEF E!AllTaken, E!AllUnlinked, E!Doing, E!NextPhase
<1>6. CASE E!Drop
  <2>1. plan # <<>> /\ Head(plan) = plan[1] /\ plan[1].layer \in AppLayers /\ Tail(plan) \in Seq(Todo)
    BY <1>6, PlanGoes DEF E!Drop, E!Doing, Todo
  <2>2. \A n \in E!FileNames(plan[1].layer) : E!Fresh(plan[1].layer)[n] \in States(n)
    BY <2>1, FreshAre
  <2>3. DOMAIN E!Fresh(plan[1].layer) = E!FileNames(plan[1].layer)
    BY <2>1, FreshAre
  <2>4. disk' = [disk EXCEPT ![plan[1].layer] = E!Fresh(plan[1].layer)]
    BY <1>6, <2>1 DEF E!Drop, E!Layer
  <2> QED BY <1>6, <2>1, <2>2, <2>3, <2>4 DEF E!Drop, E!NextPhase
<1>7. ASSUME NEW n \in E!AllNames, E!Take(n) PROVE ExportTypes'
  BY <1>7 DEF E!Take, Handled, Stages, Rewriting
<1>8. ASSUME NEW x \in E!Live, E!Unlink(x) PROVE ExportTypes'
  BY <1>8 DEF E!Unlink, E!working, E!Live, Entries
<1>9. CASE E!Fails
  <2>1. plan' \in Seq(Todo) /\ undo' \in AppLayers \union {None} /\ quiet' \in BOOLEAN
        /\ twice' \in BOOLEAN /\ ePc' \in {"down", ePc}
    <3>1. CASE E!Building
      BY <1>9, <3>1 DEF E!Fails, E!Building, Planned
    <3>2. CASE ~ E!Building /\ undo # None
      <4>1. E!Do("unexport", undo) \in Todo /\ E!Do("drop", undo) \in Todo
        BY <3>2 DEF E!Do, Todo
      <4>2. /\ plan' = <<E!Do("unexport", undo), E!Do("drop", undo)>>
            /\ undo' = None /\ quiet' = TRUE /\ UNCHANGED <<ePc, twice>>
        BY <1>9, <3>2 DEF E!Fails, Planned
      <4> QED BY <4>1, <4>2
    <3>3. CASE ~ E!Building /\ undo = None /\ quiet
      BY <1>9, <3>3, PlanGoes DEF E!Fails
    <3>4. CASE ~ E!Building /\ undo = None /\ ~ quiet
      BY <1>9, <3>4 DEF E!Fails
    <3> QED BY <3>1, <3>2, <3>3, <3>4
  <2> QED BY <1>9, <2>1 DEF E!Fails
<1>10. ASSUME NEW other \in BOOLEAN, E!Killed(other) PROVE ExportTypes'
  <2>1. entries # None => [entries EXCEPT !.current = @ /\ ~ other] \in Entries
    BY DEF Entries
  <2>2. plan' = <<>> /\ undo' = None /\ quiet' = FALSE
    BY <1>10 DEF E!Killed
  <2>3. plan' \in Seq(Todo)
    BY <2>2
  <2> QED BY <1>10, <2>1, <2>2, <2>3 DEF E!Killed
<1> QED BY <1>0, <1>1, <1>2, <1>3, <1>4, <1>5, <1>6, <1>7, <1>8, <1>9, <1>10, ExportSteps DEF PlanStep

\* What a step of a file, or of a plan, leaves as it is.
LEMMA LinkChanges ==
    ASSUME ExportsInv, NEW p \in Places, E!MakeLink(p)
    PROVE  /\ E!Building => UNCHANGED entries
           /\ ~ E!Building => /\ Current /\ UNCHANGED new
                              /\ \E s \in SUBSET Links :
                                     entries' = [entries EXCEPT !.links = s] /\ entries' \in Entries
<1> USE ExportAssumption DEF ExportsInv, ExportTypes
<1>1. E!Building => UNCHANGED entries
  BY DEF E!MakeLink, E!Change
<1>2. ASSUME ~ E!Building PROVE UNCHANGED new /\ Current
  BY <1>2 DEF E!MakeLink, E!Change, FileFits, Planned, E!On, E!Building
<1>3. ASSUME ~ E!Building
      PROVE  \E s \in SUBSET Links : entries' = [entries EXCEPT !.links = s] /\ entries' \in Entries
  <2>1. entries \in Entries /\ E!Target \subseteq Links
    BY <1>2, <1>3 DEF Current, E!Target, E!Live, Entries
  <2>2. E!Link(p) \in Links
    BY FileAt, NamesAre DEF E!MakeLink, E!Link, Links, E!On
  <2>3. PICK s \in SUBSET Links : entries' = [entries EXCEPT !.links = s]
    BY <1>3, <2>1, <2>2 DEF E!MakeLink, E!Change
  <2>4. entries' \in Entries
    BY <2>1, <2>3 DEF Entries
  <2> QED BY <2>3, <2>4
<1> QED BY <1>1, <1>2, <1>3

LEMMA StillCurrent ==
    ASSUME ExportsInv, FileStep \/ PlanStep
    PROVE  /\ Current' <=> Current
           /\ UNCHANGED <<ePc, aside, undo, quiet, twice, overlay>>
<1> USE ExportAssumption DEF ExportsInv, ExportTypes, Current, Entries, E!OnlyDisk
<1>1. ASSUME NEW p \in Places, E!MakeLink(p) PROVE Current' <=> Current
  <2>1. CASE E!Building
    BY <1>1, <2>1, LinkChanges
  <2>2. CASE ~ E!Building
    <3>1. PICK s \in SUBSET Links : entries' = [entries EXCEPT !.links = s] /\ entries' \in Entries
      BY <1>1, <2>2, LinkChanges
    <3>2. Current
      BY <1>1, <2>2, LinkChanges
    <3>3. entries \in Entries
      BY <3>2
    <3>4. entries'.current = entries.current /\ entries' # None
      BY <3>1, <3>3, NoneApart
    <3> QED BY <3>2, <3>4
  <2> QED BY <2>1, <2>2
<1>2. ASSUME NEW x \in E!Live, E!Unlink(x) PROVE Current' <=> Current
  <2>1. entries \in Entries
    BY <1>2 DEF E!Live
  <2>2. entries' = [entries EXCEPT !.links = @ \ {x}]
    BY <1>2 DEF E!Unlink
  <2>3. entries' \in Entries /\ entries'.current = entries.current
    BY <2>1, <2>2
  <2> QED BY <2>1, <2>3, NoneApart
<1>3. CASE E!Backup \/ E!MakeCopy \/ E!Write \/ E!Clear \/ E!Rename \/ E!Place \/ E!Linked
  BY <1>3 DEF E!Backup, E!MakeCopy, E!Write, E!Clear, E!Rename, E!Place, E!Linked
<1>4. CASE E!AllTaken \/ E!AllUnlinked \/ E!Drop \/ \E n \in E!AllNames : E!Take(n)
  BY <1>4 DEF E!AllTaken, E!AllUnlinked, E!Drop, E!Take
<1>5. ASSUME NEW p \in Places, E!MakeLink(p) PROVE UNCHANGED <<ePc, aside, undo, quiet, twice, overlay>>
  BY <1>5 DEF E!MakeLink
<1>6. ASSUME NEW x \in E!Live, E!Unlink(x) PROVE UNCHANGED <<ePc, aside, undo, quiet, twice, overlay>>
  BY <1>6 DEF E!Unlink, E!working
<1> QED BY <1>1, <1>2, <1>3, <1>4, <1>5, <1>6 DEF FileStep, PlanStep

\* A plan that goes on is one of those there can be.
LEMMA PlannedSame ==
    ASSUME ExportsInv, UNCHANGED <<plan, ePc, eInstalled, aside, undo, quiet>>, Current' <=> Current
    PROVE  Planned'
  BY DEF ExportsInv, Planned

LEMMA PlannedGoes ==
    ASSUME ExportsInv, plan # <<>>, plan' = Tail(plan), UNCHANGED <<ePc, aside, undo, quiet>>,
           Current' <=> Current, ePc \in {"work", "swap"},
           \A i \in 1..Len(plan) : i > 1 /\ plan[i].layer \in eInstalled =>
                                       plan[i].layer \in eInstalled'
    PROVE  Planned'
<1> USE DEF ExportsInv, ExportTypes
<1>1. /\ Len(plan') = Len(plan) - 1 /\ Len(plan) \in Nat \ {0}
      /\ \A i \in 1..Len(plan') : plan'[i] = plan[i + 1] /\ i + 1 \in 1..Len(plan) /\ i + 1 > 1
  BY PlanGoes
<1>2. CASE ePc = "swap"
  <2>1. ASSUME NEW i \in 1..Len(plan')
        PROVE  /\ plan'[i].do = "export" /\ plan'[i].layer \in eInstalled'
               /\ \A j \in 1..Len(plan') : plan'[i].layer = plan'[j].layer => i = j
    BY <1>1, <1>2, <2>1 DEF Planned
  <2> QED BY <1>2, <2>1 DEF Planned
<1>3. CASE ePc = "work"
  <2>1. ASSUME NEW i \in 1..Len(plan')
        PROVE  /\ plan'[i].do # "export"
               /\ i < Len(plan') => plan'[i].do # "drop"
               /\ i > 1 /\ plan'[i].do = "drop" =>
                      plan'[i - 1] = [do |-> "unexport", layer |-> plan'[i].layer]
    <3>1. plan'[i] = plan[i + 1] /\ i + 1 \in 1..Len(plan) /\ i + 1 > 1 /\ i + 1 # 1
      BY <1>1, <2>1
    <3>2. i > 1 => plan'[i - 1] = plan[(i + 1) - 1]
      BY <1>1, <2>1
    <3>3. /\ plan[i + 1].do # "export"
          /\ i + 1 < Len(plan) => plan[i + 1].do # "drop"
          /\ plan[i + 1].do = "drop" =>
                 plan[(i + 1) - 1] = [do |-> "unexport", layer |-> plan[i + 1].layer]
      BY <1>3, <3>1 DEF Planned
    <3>4. i < Len(plan') => i + 1 < Len(plan)
      BY <1>1, <2>1
    <3> QED BY <3>1, <3>2, <3>3, <3>4
  <2> QED BY <1>3, <2>1 DEF Planned
<1> QED BY <1>2, <1>3

LEMMA PlannedNext == ASSUME ExportsInv, [E!Next]_eVars, ExportTypes' PROVE Planned'
<1> USE ExportAssumption DEF ExportsInv, ExportTypes
<1>0. CASE UNCHANGED eVars
  BY <1>0, PlannedSame DEF eVars, Current
<1>1. CASE E!Open
  <2>1. CASE ~ Current
    <3>1. ~ Current' /\ UNCHANGED eInstalled /\ undo' = None /\ quiet' = FALSE
      BY <1>1, <2>1 DEF E!Open, Current
    <3> QED BY <1>1, <2>1, <3>1, OpenPlan DEF Planned
  <2>2. CASE Current
    BY <1>1, <2>2 DEF E!Open, Current, Planned
  <2> QED BY <2>1, <2>2
<1>2. CASE E!SwapOut
  <2>1. entries \in Entries /\ entries.current = FALSE
    BY <1>2 DEF E!SwapOut, E!Building, Planned, Current, Entries
  <2> QED BY <1>2, <2>1 DEF E!SwapOut, Planned, E!working
<1>3. CASE E!SwapIn
  <2>1. [current |-> TRUE, links |-> new] \in Entries
    BY DEF Entries
  <2>2. Current' /\ ePc' = "idle" /\ UNCHANGED <<plan, quiet, undo>>
    BY <1>3, <2>1, NoneApart DEF E!SwapIn, Current, E!working
  <2> QED BY <2>2 DEF Planned
<1>4. CASE E!SwapBack
  BY <1>4 DEF E!SwapBack, Planned, E!working
<1>5. CASE E!Finish
  BY <1>5 DEF E!Finish, Planned, Current, E!working
<1>6. CASE Begins
  <2>1. PICK l \in AppLayers, k \in AppLayers : E!Install(l) \/ E!Uninstall(l) \/ E!Upgrade(l, k)
    BY <1>6 DEF Begins
  <2>2. Current' /\ ePc' = "work" /\ quiet' = FALSE /\ UNCHANGED <<aside>>
    BY <2>1 DEF E!Install, E!Uninstall, E!Upgrade, E!Begin, Planned, Current
  <2>3. CASE E!Install(l)
    BY <2>2, <2>3 DEF E!Install, E!Begin, E!Do, Planned
  <2>4. CASE E!Uninstall(l)
    BY <2>2, <2>4 DEF E!Uninstall, E!Begin, E!Do, Planned
  <2>5. CASE E!Upgrade(l, k)
    BY <2>2, <2>5 DEF E!Upgrade, E!Begin, E!Do, Planned
  <2> QED BY <2>1, <2>3, <2>4, <2>5
<1>7. CASE FileStep
  <2>1. UNCHANGED <<plan, eInstalled>>
    BY <1>7 DEF FileStep, E!Backup, E!MakeCopy, E!Write, E!Clear, E!Rename, E!Place, E!Linked, E!MakeLink,
         E!OnlyDisk
  <2> QED BY <1>7, <2>1, StillCurrent, PlannedSame
<1>8. CASE E!AllTaken \/ E!AllUnlinked
  <2>1. plan # <<>> /\ plan' = Tail(plan) /\ ePc \in {"work", "swap"} /\ UNCHANGED eInstalled
    BY <1>8 DEF E!AllTaken, E!AllUnlinked, E!Doing, E!NextPhase
  <2> QED BY <1>8, <2>1, StillCurrent, PlannedGoes DEF PlanStep
<1>9. CASE E!Drop
  <2>1. plan # <<>> /\ plan' = Tail(plan) /\ ePc \in {"work", "swap"} /\ plan[1].do = "drop"
    BY <1>9, PlanGoes DEF E!Drop, E!Doing, E!NextPhase
  <2>2. Len(plan) \in Nat \ {0}
    BY <2>1, PlanGoes
  <2>3. \A i \in 1..Len(plan) : ~ i > 1
    <3>1. 1 \in 1..Len(plan)
      BY <2>2
    <3>2. ePc = "work"
      BY <2>1, <3>1 DEF Planned
    <3>3. ~ 1 < Len(plan)
      BY <2>1, <3>1, <3>2 DEF Planned
    <3>4. \A i \in 1..Len(plan) : ~ i > 1
      BY <2>2, <3>3
    <3> QED BY <3>4
  <2> QED BY <1>9, <2>1, <2>3, StillCurrent, PlannedGoes DEF PlanStep
<1>10. CASE (\E n \in E!AllNames : E!Take(n)) \/ \E x \in E!Live : E!Unlink(x)
  <2>1. UNCHANGED <<plan, eInstalled>>
    BY <1>10 DEF E!Take, E!Unlink, E!working
  <2> QED BY <1>10, <2>1, StillCurrent, PlannedSame DEF PlanStep
<1>11. CASE E!Fails
  <2>0. UNCHANGED <<eInstalled, aside, entries>>
    BY <1>11 DEF E!Fails
  <2>1. CASE E!Building
    BY <1>11, <2>0, <2>1 DEF E!Fails, E!Building, Planned
  <2>2. CASE ~ E!Building /\ undo # None
    <3>1. /\ plan' = <<E!Do("unexport", undo), E!Do("drop", undo)>>
          /\ undo' = None /\ quiet' = TRUE /\ UNCHANGED ePc
      BY <1>11, <2>2 DEF E!Fails, Planned
    <3>2. ePc = "work"
      BY <1>11, <2>2 DEF E!Fails
    <3> QED BY <2>0, <3>1, <3>2 DEF E!Do, Planned, Current
  <2>3. CASE ~ E!Building /\ undo = None /\ quiet
    <3>1. plan # <<>> /\ plan' = Tail(plan) /\ ePc = "work" /\ UNCHANGED <<ePc, undo, quiet>>
      BY <1>11, <2>3 DEF E!Fails
    <3> QED BY <2>0, <3>1, PlannedGoes DEF Current
  <2>4. CASE ~ E!Building /\ undo = None /\ ~ quiet
    BY <1>11, <2>0, <2>4 DEF E!Fails, Planned, Current
  <2> QED BY <2>1, <2>2, <2>3, <2>4
<1>12. ASSUME NEW other \in BOOLEAN, E!Killed(other) PROVE Planned'
  BY <1>12 DEF E!Killed, Planned
<1> QED BY <1>0, <1>1, <1>2, <1>3, <1>4, <1>5, <1>6, <1>7, <1>8, <1>9, <1>10, <1>11, <1>12, ExportSteps
       DEF PlanStep

LEMMA TargetSame == UNCHANGED <<ePc, new, entries>> => E!Target' = E!Target /\ E!Live' = E!Live
  BY DEF E!Target, E!Building, E!Live

\* A link in the way is taken away, or the new one made.
LEMMA TargetGoes ==
    ASSUME ExportsInv, NEW p \in Places, E!MakeLink(p)
    PROVE  /\ p \in eFile.at /\ eFile # None /\ eFile.step = "link" /\ eFile \in Handled
           /\ UNCHANGED <<ePc, disk, plan, eInstalled, seen>>
           /\ \/ /\ E!Target' = E!Target \ E!At(E!Target, p) /\ UNCHANGED eFile
                 /\ ~ E!Building => excused' = excused \union E!Sharing(eFile.name)
              \/ /\ E!Target' = E!Target \union {E!Link(p)}
                 /\ eFile' = [eFile EXCEPT !.at = @ \ {p}]
                 /\ excused' = excused \ E!Sharing(eFile.name)
<1> USE DEF ExportsInv, ExportTypes
<1>1. p \in eFile.at /\ eFile # None /\ eFile.step = "link" /\ eFile \in Handled
  BY DEF E!MakeLink, E!On
<1>2. UNCHANGED <<ePc, disk, plan, eInstalled, seen>>
  BY DEF E!MakeLink
<1>3. ASSUME NEW s, E!Change(s) PROVE E!Target' = s
  <2>1. CASE E!Building
    BY <1>2, <1>3, <2>1 DEF E!Target, E!Building, E!Change
  <2>2. CASE ~ E!Building
    <3>1. entries \in Entries /\ entries' # None
      BY <2>2, LinkChanges, NoneApart DEF Current
    <3>2. entries' = [entries EXCEPT !.links = s]
      BY <1>3, <2>2 DEF E!Change
    <3>3. entries'.links = s
      BY <3>1, <3>2 DEF Entries
    <3>4. E!Target' = entries'.links
      BY <1>2, <2>2, <3>1 DEF E!Target, E!Building, E!Live
    <3> QED BY <3>3, <3>4
  <2> QED BY <2>1, <2>2
<1>4. CASE E!At(E!Target, p) # {}
  BY <1>1, <1>2, <1>3, <1>4 DEF E!MakeLink
<1>5. CASE E!At(E!Target, p) = {}
  BY <1>1, <1>2, <1>3, <1>5 DEF E!MakeLink
<1> QED BY <1>1, <1>2, <1>4, <1>5

\* The next step of a file keeps the rest of it.
LEMMA FileGoes ==
    ASSUME eFile \in Handled
    PROVE  /\ \A s \in Stages : eFile' = [eFile EXCEPT !.step = s] =>
                /\ eFile' # None /\ eFile'.name = eFile.name /\ eFile'.step = s
                /\ eFile'.at = eFile.at
           /\ \A s \in Stages, t \in SUBSET Places :
                eFile' = [eFile EXCEPT !.step = s, !.at = t] =>
                    eFile' # None /\ eFile'.name = eFile.name /\ eFile'.step = s /\ eFile'.at = t
           /\ \A t \in SUBSET Places :
                eFile' = [eFile EXCEPT !.at = t] =>
                    /\ eFile' # None /\ eFile'.name = eFile.name /\ eFile'.step = eFile.step
                    /\ eFile'.at = t
<1>1. ASSUME NEW s \in Stages, NEW t \in SUBSET Places
      PROVE  /\ [eFile EXCEPT !.step = s] \in Handled
             /\ [eFile EXCEPT !.step = s, !.at = t] \in Handled /\ [eFile EXCEPT !.at = t] \in Handled
  BY DEF Handled
<1>2. DOMAIN eFile = {"name", "step", "at"}
  BY DEF Handled
<1>3. ASSUME NEW s \in Stages, eFile' = [eFile EXCEPT !.step = s]
      PROVE  /\ eFile' # None /\ eFile'.name = eFile.name /\ eFile'.step = s
             /\ eFile'.at = eFile.at
  BY <1>1, <1>2, <1>3, NoneApart
<1>5. ASSUME NEW s \in Stages, NEW t \in SUBSET Places,
             eFile' = [eFile EXCEPT !.step = s, !.at = t]
      PROVE  eFile' # None /\ eFile'.name = eFile.name /\ eFile'.step = s /\ eFile'.at = t
  BY <1>1, <1>2, <1>5, NoneApart
<1>6. ASSUME NEW t \in SUBSET Places, eFile' = [eFile EXCEPT !.at = t]
      PROVE  eFile' # None /\ eFile'.name = eFile.name /\ eFile'.step = eFile.step /\ eFile'.at = t
  <2>1. "link" \in Stages
    BY DEF Stages
  <2> QED BY <1>1, <1>2, <1>6, <2>1, NoneApart
<1> QED BY <1>3, <1>5, <1>6

\* A step but the last two goes to the next.
NextStep == /\ E!Backup => eFile.step = "backup" /\ eFile'.step = "copy"
            /\ E!MakeCopy => eFile.step = "copy" /\ eFile'.step = "write"
            /\ E!Write => eFile.step = "write" /\ eFile'.step = "clear"
            /\ E!Clear => eFile.step = "clear" /\ eFile'.step = "rename"
            /\ E!Rename => eFile.step = "rename" /\ eFile'.step = "place"

LEMMA StepsGo ==
    ASSUME ExportsInv, E!Backup \/ E!MakeCopy \/ E!Write \/ E!Clear \/ E!Rename
    PROVE  /\ eFile # None /\ eFile' # None /\ eFile'.name = eFile.name
           /\ NextStep /\ E!OnlyDisk /\ eFile.name[1] \in Desktop /\ E!Copy' = E!Copy
<1>0. FileStep
  BY DEF FileStep
<1>1. eFile # None /\ eFile \in Handled
  BY <1>0, FileEdits, FileAt
<1>2. E!OnlyDisk
  BY DEF E!Backup, E!MakeCopy, E!Write, E!Clear, E!Rename
<1>3. /\ E!Backup => eFile.step = "backup" /\ eFile' = [eFile EXCEPT !.step = "copy"]
      /\ E!MakeCopy => eFile.step = "copy" /\ eFile' = [eFile EXCEPT !.step = "write"]
      /\ E!Write => eFile.step = "write" /\ eFile' = [eFile EXCEPT !.step = "clear"]
      /\ E!Clear => eFile.step = "clear" /\ eFile' = [eFile EXCEPT !.step = "rename"]
      /\ E!Rename => eFile.step = "rename" /\ eFile' = [eFile EXCEPT !.step = "place"]
  BY DEF E!Backup, E!MakeCopy, E!Write, E!Clear, E!Rename, E!On, E!Then
<1>4. \A s \in {"copy", "write", "clear", "rename", "place"} : s \in Stages
  BY DEF Stages, Rewriting
<1>5. eFile' # None /\ eFile'.name = eFile.name /\ NextStep
  BY <1>1, <1>3, <1>4, FileGoes DEF NextStep
<1>6. eFile.name[1] \in Desktop
  BY <1>1, <1>3 DEF ExportsInv, FileFits, Rewriting
<1>7. E!Copy' = E!Copy
  BY <1>2, <1>5 DEF E!Copy, E!OnlyDisk, E!bounds
<1> QED BY <1>1, <1>2, <1>5, <1>6, <1>7

LEMMA FileFitsNext == ASSUME ExportsInv, [E!Next]_eVars, ExportTypes' PROVE FileFits'
<1> USE DEF ExportsInv, ExportTypes
<1> DEFINE l == plan[1].layer
           n == eFile.name
<1>0. eFile # None =>
        /\ eFile \in Handled /\ l \in AppLayers /\ n \in E!FileNames(l) /\ n[2] <= stops
        /\ plan # <<>> /\ plan[1].do = "export" /\ Head(plan) = plan[1] /\ E!Layer = l
        /\ E!Now = disk[l][n]
  BY FileAt
<1>1. CASE eFile' = None
  BY <1>1 DEF FileFits
<1>2. ASSUME UNCHANGED eVars PROVE FileFits'
  BY <1>2, TargetSame DEF eVars, FileFits, Due, E!Copy
<1>3. ASSUME eFile # None,
             \/ E!Open \/ E!SwapOut \/ E!SwapIn \/ E!SwapBack \/ E!Finish \/ Begins \/ PlanStep
             \/ E!Fails \/ \E other \in BOOLEAN : E!Killed(other)
      PROVE  eFile' = None
  <2>1. ePc \in {"work", "swap"} /\ plan # <<>> /\ plan[1].do = "export" /\ Head(plan) = plan[1]
    BY <1>0, <1>3 DEF FileFits
  <2>2. ~ (E!SwapOut \/ E!SwapIn \/ E!SwapBack \/ E!Finish \/ E!Open)
    BY <2>1 DEF E!SwapOut, E!SwapIn, E!SwapBack, E!Finish, E!Open
  <2>3. ~ PlanStep
    BY <1>3, <2>1 DEF PlanStep, E!AllTaken, E!AllUnlinked, E!Drop, E!Take, E!Unlink, E!Doing
  <2>4. ~ Begins
    BY <2>1 DEF Begins, E!Install, E!Uninstall, E!Upgrade, E!Begin
  <2> QED BY <1>3, <2>2, <2>3, <2>4 DEF E!Fails, E!Killed
<1>4. ASSUME eFile = None,
             \/ E!Open \/ E!SwapOut \/ E!SwapIn \/ E!SwapBack \/ E!Finish \/ Begins
             \/ E!AllTaken \/ E!AllUnlinked \/ E!Drop \/ (\E x \in E!Live : E!Unlink(x))
             \/ E!Fails \/ \E other \in BOOLEAN : E!Killed(other)
      PROVE  eFile' = None
  BY <1>4 DEF E!Open, E!SwapOut, E!SwapIn, E!SwapBack, E!Finish, Begins, E!AllTaken, E!AllUnlinked,
     E!Drop, E!Unlink, E!Fails, E!Killed, E!Install, E!Uninstall, E!Upgrade, E!Begin, E!working
<1>5. ASSUME NEW m \in E!AllNames, E!Take(m) PROVE FileFits'
  <2>1. plan # <<>> /\ plan[1].do = "export" /\ E!Layer = l /\ ePc \in {"work", "swap"}
        /\ UNCHANGED <<plan, ePc, disk, seen, stops>> /\ l \in AppLayers /\ eFile = None
    BY <1>5, PlanGoes DEF E!Take, E!Doing, E!Layer, Todo, E!bounds
  <2>2. m \in E!FileNames(l) \ seen /\ disk[l][m].source # None /\ disk[l][m] \in States(m)
    BY <1>5, <2>1 DEF E!Take, E!Present
  <2>3. eFile' = [name |-> m, at |-> {}, step |-> IF m[1] \in Desktop THEN "backup" ELSE "place"]
    BY <1>5 DEF E!Take
  <2>4. m[2] <= stops
    <3>1. ~ m[2] > stops
      BY <2>1, <2>2 DEF Numbered
    <3>2. m[2] \in Nat /\ stops \in Int
      BY <2>1, <2>2, NamesAre DEF Numbered
    <3> QED BY <3>1, <3>2
  <2>5. m[1] \notin Desktop => E!Fits(m, disk[l][m].source)
    <3>1. m[1] \notin Desktop => m[2] = 0
      BY <2>1, <2>2, NamesAre
    <3> QED BY <2>2, <3>1 DEF States, E!Fits
  <2> QED BY <2>1, <2>2, <2>3, <2>4, <2>5 DEF FileFits, Due, Rewriting
<1>6. ASSUME eFile # None, eFile' # None, E!OnlyDisk, eFile'.name = n
      PROVE  /\ eFile'.name \in E!FileNames(plan'[1].layer) \ seen' /\ Due("export")'
             /\ ePc' \in {"work", "swap"} /\ plan'[1].layer = l /\ eFile'.name[2] <= stops'
  BY <1>0, <1>6 DEF E!OnlyDisk, FileFits, Due, E!bounds
<1>7. CASE E!Backup \/ E!MakeCopy \/ E!Write \/ E!Clear \/ E!Rename
  <2>1. /\ eFile # None /\ eFile' # None /\ eFile'.name = n /\ NextStep /\ E!OnlyDisk
        /\ n[1] \in Desktop /\ E!Copy' = E!Copy
    BY <1>7, StepsGo
  <2>2. FileStep
    BY <1>7 DEF FileStep
  <2>3. /\ eFile'.name \in E!FileNames(plan'[1].layer) \ seen' /\ Due("export")'
        /\ ePc' \in {"work", "swap"} /\ plan'[1].layer = l /\ eFile'.name[2] <= stops'
    BY <1>6, <2>1
  <2>4. /\ eFile.step \in Rewriting \ {"backup"} => E!Now.backup # None
        /\ eFile.step \in {"clear", "rename"} => disk[l][E!Copy].source = E!Rewritten(E!Now.backup)
    BY <1>0, <2>1 DEF FileFits
  <2>5. CASE E!Backup
    BY <2>1, <2>2, <2>3, <2>5, FileEdits DEF FileFits, NextStep, Rewriting
  <2>6. CASE E!MakeCopy
    BY <2>1, <2>2, <2>3, <2>4, <2>6, FileEdits DEF FileFits, NextStep, Rewriting
  <2>7. CASE E!Write
    BY <2>1, <2>2, <2>3, <2>4, <2>7, FileEdits DEF FileFits, NextStep, Rewriting
  <2>8. CASE E!Clear
    BY <2>1, <2>2, <2>3, <2>4, <2>8, FileEdits DEF FileFits, NextStep, Rewriting
  <2>9. CASE E!Rename
    BY <2>1, <2>2, <2>3, <2>9, FileEdits DEF FileFits, NextStep, Rewriting
  <2> QED BY <1>7, <2>5, <2>6, <2>7, <2>8, <2>9
<1>12. CASE E!Place
  <2>1. eFile # None /\ eFile.step = "place" /\ E!OnlyDisk /\ UNCHANGED disk
        /\ eFile' = [eFile EXCEPT !.step = "link", !.at = E!Places(n)]
    BY <1>12 DEF E!Place, E!On
  <2>2. E!Fits(n, disk[l][n].source)
    BY <2>1 DEF FileFits
  <2>3. E!Places(n) # {} /\ E!Places(n) \in SUBSET Places
    BY PlacesAre
  <2>4. eFile' # None /\ eFile'.name = n /\ eFile'.step = "link" /\ eFile'.at = E!Places(n)
    BY <1>0, <2>1, <2>3, FileGoes DEF Stages
  <2> QED BY <1>6, <2>1, <2>2, <2>3, <2>4 DEF FileFits, Rewriting
<1>13. ASSUME NEW p \in Places, E!MakeLink(p) PROVE FileFits'
  <2>0. UNCHANGED <<ePc, disk, plan, seen, stops>> /\ eFile.step = "link" /\ p \in eFile.at /\ eFile # None
    BY <1>13, TargetGoes DEF E!MakeLink, E!bounds
  <2>1. CASE UNCHANGED eFile
    BY <1>0, <2>0, <2>1 DEF FileFits, Due, Rewriting
  <2>2. CASE E!Target' = E!Target \union {E!Link(p)} /\ eFile' = [eFile EXCEPT !.at = @ \ {p}]
    <3>1. eFile' # None /\ eFile'.name = n /\ eFile'.step = "link" /\ eFile'.at = eFile.at \ {p}
      <4>1. eFile.at \ {p} \in SUBSET Places /\ "link" \in Stages
        BY <1>0, <2>0 DEF Handled, Stages
      <4> QED BY <1>0, <2>0, <2>2, <4>1, FileGoes
    <3>2. E!Link(p).name = n /\ E!Link(p).at = p
      BY DEF E!Link
    <3>3. E!Link(p).at \notin eFile'.at /\ E!Link(p) \in E!Target'
      BY <2>2, <3>1, <3>2
    <3> HIDE DEF n
    <3> QED BY <1>0, <2>0, <3>1, <3>2, <3>3 DEF FileFits, Due, Rewriting, n
  <2> QED BY <1>13, <2>1, <2>2, TargetGoes
<1>14. CASE E!Linked
  BY <1>1, <1>14 DEF E!Linked
<1> QED BY <1>1, <1>2, <1>3, <1>4, <1>5, <1>7, <1>12, <1>13, <1>14, ExportSteps
       DEF PlanStep, FileStep

\* What a step of a file changes: the file and its copy, until it is linked.
LEMMA FileFrame ==
    ASSUME ExportsInv, FileStep
    PROVE  /\ eFile # None /\ eFile \in Handled /\ ePc \in {"work", "swap"} /\ Due("export")
           /\ plan # <<>> /\ plan[1].layer \in AppLayers /\ eFile.name \in E!FileNames(plan[1].layer)
           /\ E!Layer = plan[1].layer /\ UNCHANGED <<plan, eInstalled, stops>>
           /\ \A l \in AppLayers : \A n \in E!FileNames(l) :
                  n[2] <= stops /\ (l # plan[1].layer \/ n # eFile.name) => disk'[l][n] = disk[l][n]
           /\ eFile.step \in {"place", "link"} => UNCHANGED disk
           /\ eFile.step # "link" => /\ UNCHANGED <<new, entries, excused, seen>>
                                     /\ eFile' # None /\ eFile'.name = eFile.name
           /\ eFile.step = "link" => E!Linked \/ \E p \in Places : E!MakeLink(p)
<1>1. eFile # None
  BY FileEdits
<1>2. /\ eFile \in Handled /\ ePc \in {"work", "swap"} /\ Due("export") /\ plan # <<>>
      /\ plan[1].layer \in AppLayers /\ eFile.name \in E!FileNames(plan[1].layer)
      /\ E!Layer = plan[1].layer
  BY <1>1, FileAt DEF ExportsInv, FileFits
<1>3. UNCHANGED <<plan, eInstalled, stops>>
  BY DEF FileStep, E!Backup, E!MakeCopy, E!Write, E!Clear, E!Rename, E!Place, E!Linked, E!MakeLink,
     E!OnlyDisk, E!bounds
<1>4. ASSUME NEW l \in AppLayers, NEW n \in E!FileNames(l), n[2] <= stops,
             l # plan[1].layer \/ n # eFile.name
      PROVE  disk'[l][n] = disk[l][n]
  <2>1. n # E!Copy
    BY <1>1, <1>4, FileAt, NamesAre
  <2> QED BY <1>4, <2>1, FileEdits
<1>5. /\ E!Linked \/ (\E p \in Places : E!MakeLink(p)) => eFile.step = "link" /\ UNCHANGED disk
      /\ E!Place => eFile.step = "place" /\ UNCHANGED disk
      /\ E!Backup \/ E!MakeCopy \/ E!Write \/ E!Clear \/ E!Rename => eFile.step \in Rewriting
      /\ ~ {"place", "link"} \cap Rewriting # {}
  BY DEF E!Backup, E!MakeCopy, E!Write, E!Clear, E!Rename, E!Place, E!Linked, E!MakeLink, E!On, Rewriting
<1>6. eFile.step \in {"place", "link"} => UNCHANGED disk
  BY <1>5 DEF FileStep
<1>7. eFile.step = "link" => E!Linked \/ \E p \in Places : E!MakeLink(p)
  BY <1>5 DEF FileStep
<1>8. ASSUME eFile.step # "link"
      PROVE  UNCHANGED <<new, entries, excused, seen>> /\ eFile' # None /\ eFile'.name = eFile.name
  <2>1. CASE E!Place
    <3>1. E!Places(eFile.name) \in SUBSET Places /\ "link" \in Stages
      BY PlacesAre DEF Stages
    <3> QED BY <1>2, <2>1, <3>1, FileGoes DEF E!Place, E!OnlyDisk
  <2>2. CASE E!Backup \/ E!MakeCopy \/ E!Write \/ E!Clear \/ E!Rename
    BY <2>2, StepsGo DEF E!OnlyDisk
  <2> QED BY <1>5, <1>8, <2>1, <2>2 DEF FileStep
<1> QED BY <1>1, <1>2, <1>3, <1>4, <1>6, <1>7, <1>8

LEMMA NumberedNext == ASSUME ExportsInv, [E!Next]_eVars, ExportTypes' PROVE Numbered'
<1> USE DEF ExportsInv
<1>0. stops \in Nat /\ MaxStops \in Nat /\ stops <= MaxStops
  BY ExportAssumption DEF Numbered
<1>1. stops' = stops \/ (stops' = stops + 1 /\ stops < MaxStops)
  BY <1>0 DEF E!Next, eVars, E!Open, E!SwapOut, E!SwapIn, E!SwapBack, E!Finish, E!AllTaken, E!AllUnlinked,
     E!Drop, E!Install, E!Uninstall, E!Upgrade, E!Begin, E!Take, E!Backup, E!MakeCopy, E!Write, E!Clear,
     E!Rename, E!Place, E!Linked, E!MakeLink, E!Unlink, E!Fails, E!Killed, E!OnlyDisk, E!bounds
<1>2. stops' \in 0..MaxStops /\ stops' \in Nat
  BY <1>0, <1>1
\* Where no file changes, and the copy that is being made stays, or is left.
<1>3. ASSUME UNCHANGED disk, \/ UNCHANGED <<eFile, plan, stops>>
                             \/ eFile = None
                             \/ stops' = stops + 1
      PROVE  Numbered'
  <2>1. SUFFICES ASSUME NEW l \in AppLayers, NEW n \in E!FileNames(l), n[2] > stops', disk[l][n].source # None
                 PROVE  /\ eFile' # None /\ eFile'.step \in {"write", "clear", "rename"}
                        /\ plan'[1].layer = l /\ n = E!Copy'
    BY <1>2, <1>3 DEF Numbered
  <2>2. n[2] \in Nat /\ n[2] > stops
    BY <1>0, <1>1, <2>1, NamesAre
  <2>3. /\ eFile # None /\ eFile.step \in {"write", "clear", "rename"}
        /\ plan[1].layer = l /\ n = E!Copy
    BY <2>1, <2>2 DEF Numbered
  <2>4. n[2] = stops + 1
    BY <2>3, FileAt
  <2>5. stops' # stops + 1
    BY <1>0, <2>1, <2>4
  <2> QED BY <1>3, <2>3, <2>5 DEF E!Copy
<1>4. CASE UNCHANGED eVars
  BY <1>3, <1>4 DEF eVars
<1>5. CASE FileStep
  <2>0. eFile # None /\ UNCHANGED <<plan, stops>> /\ plan[1].layer \in AppLayers
    BY <1>5, FileFrame
  <2>1. CASE E!Backup \/ E!MakeCopy \/ E!Write \/ E!Clear \/ E!Rename
    <3>1. eFile' # None /\ NextStep /\ E!Copy' = E!Copy
      BY <2>1, StepsGo
    <3>2. SUFFICES ASSUME NEW l \in AppLayers, NEW n \in E!FileNames(l), n[2] > stops, disk'[l][n].source # None
                   PROVE  /\ eFile'.step \in {"write", "clear", "rename"}
                          /\ plan[1].layer = l /\ n = E!Copy
      BY <1>2, <2>0, <3>1 DEF Numbered
    <3>3. n # eFile.name
      BY <1>0, <2>0, <3>2, FileAt
    <3>4. CASE l # plan[1].layer \/ n # E!Copy
      <4>1. disk'[l][n] = disk[l][n]
        BY <1>5, <3>2, <3>3, <3>4, FileEdits
      <4> QED BY <3>2, <3>4, <4>1 DEF Numbered
    <3>5. CASE l = plan[1].layer /\ n = E!Copy
      <4>1. CASE E!Backup
        <5>1. disk[l][n].source # None
          BY <1>5, <3>2, <3>5, <4>1, FileEdits
        <5> QED BY <3>1, <3>2, <4>1, <5>1 DEF Numbered, NextStep
      <4>2. ~ E!Rename
        BY <1>5, <3>2, <3>5, FileEdits
      <4> QED BY <2>1, <3>1, <3>5, <4>1, <4>2 DEF NextStep
    <3> QED BY <3>4, <3>5
  <2>2. CASE E!Place \/ E!Linked \/ \E p \in Places : E!MakeLink(p)
    <3>1. eFile.step \in {"place", "link"} /\ UNCHANGED disk
      BY <1>5, <2>2, FileEdits DEF E!Place, E!Linked, E!MakeLink, E!On
    <3> QED BY <1>2, <2>0, <3>1 DEF Numbered
  <2> QED BY <1>5, <2>1, <2>2 DEF FileStep
<1>6. CASE E!Fails \/ E!SwapBack \/ \E other \in BOOLEAN : E!Killed(other)
  BY <1>3, <1>6 DEF E!Fails, E!SwapBack, E!Killed
<1>7. ASSUME \/ E!Open \/ E!SwapOut \/ E!SwapIn \/ E!Finish \/ Begins \/ PlanStep
      PROVE  eFile = None
  <2>1. SUFFICES ASSUME eFile # None PROVE FALSE
    OBVIOUS
  <2>2. ePc \in {"work", "swap"} /\ plan # <<>> /\ plan[1].do = "export" /\ Head(plan) = plan[1]
    BY <2>1, FileAt DEF FileFits
  <2> QED BY <1>7, <2>1, <2>2 DEF E!SwapOut, E!SwapIn, E!Finish, E!Open, PlanStep, E!AllTaken,
       E!AllUnlinked, E!Drop, E!Take, E!Unlink, E!Doing, Begins, E!Install, E!Uninstall, E!Upgrade, E!Begin
<1>8. CASE E!Drop
  <2>1. /\ eFile = None /\ plan # <<>> /\ UNCHANGED stops /\ plan[1].layer \in AppLayers
        /\ disk' = [disk EXCEPT ![plan[1].layer] = E!Fresh(plan[1].layer)]
    BY <1>7, <1>8, PlanGoes DEF E!Drop, E!Doing, E!Layer, E!bounds, PlanStep, ExportTypes, Todo
  <2>2. SUFFICES ASSUME NEW l \in AppLayers, NEW n \in E!FileNames(l), n[2] > stops
                 PROVE  disk'[l][n].source = None
    BY <1>2, <2>1 DEF Numbered
  <2>3. CASE l = plan[1].layer
    <3>1. disk'[l] = E!Fresh(l)
      BY <2>1, <2>3 DEF ExportTypes
    <3>2. n[2] # 0
      BY <1>0, <2>2
    <3> QED BY <2>2, <3>1, <3>2, FreshAre
  <2>4. CASE l # plan[1].layer
    <3>1. disk'[l] = disk[l]
      BY <2>1, <2>4 DEF ExportTypes
    <3> QED BY <2>1, <2>2, <3>1 DEF Numbered
  <2> QED BY <2>3, <2>4
<1>9. ASSUME \/ E!Open \/ E!SwapOut \/ E!SwapIn \/ E!Finish \/ Begins \/ PlanStep, ~ E!Drop
      PROVE  UNCHANGED disk
  BY <1>9 DEF E!SwapOut, E!SwapIn, E!Finish, E!Open, PlanStep, E!AllTaken,
       E!AllUnlinked, E!Take, E!Unlink, Begins, E!Install, E!Uninstall, E!Upgrade
<1> QED BY <1>3, <1>4, <1>5, <1>6, <1>7, <1>8, <1>9, ExportSteps DEF PlanStep

\* What is not being exported is not disturbed.
LEMMA LeadsOn ==
    ASSUME ExportsInv, FileStep, ePc = "swap" \/ ~ twice, NEW x \in E!Target, Leads(x)
    PROVE  Leads(x)'
<1> USE DEF ExportsInv
<1>1. x.to \in AppLayers /\ x.name \in E!FileNames(x.to) /\ x.name[2] <= stops /\ UNCHANGED <<eInstalled, stops>>
  BY FileFrame DEF Leads, ExportTypes
<1>2. CASE x.to # plan[1].layer \/ x.name # eFile.name
  BY <1>1, <1>2, FileFrame DEF Leads
<1>3. CASE x.to = plan[1].layer /\ x.name = eFile.name
  <2>1. x.name \notin seen
    BY <1>3, FileFrame DEF FileFits
  <2>2. Linking(x.name)
    BY <1>3, <2>1, FileFrame DEF Leading
  <2>3. UNCHANGED disk
    BY <2>2, FileFrame DEF Linking
  <2> QED BY <1>1, <2>3 DEF Leads
<1> QED BY <1>2, <1>3

LEMMA LeadsSame ==
    ASSUME UNCHANGED disk, eInstalled \subseteq eInstalled', ExportsInv, [E!Next]_eVars, NEW x, Leads(x)
    PROVE  Leads(x)'
<1>1. stops \in Int /\ (stops' = stops \/ stops' = stops + 1)
  BY DEF ExportsInv, Numbered, E!Next, eVars, E!Open, E!SwapOut, E!SwapIn, E!SwapBack, E!Finish, E!AllTaken,
     E!AllUnlinked, E!Drop, E!Install, E!Uninstall, E!Upgrade, E!Begin, E!Take, E!Backup, E!MakeCopy,
     E!Write, E!Clear, E!Rename, E!Place, E!Linked, E!MakeLink, E!Unlink, E!Fails, E!Killed, E!OnlyDisk,
     E!bounds
<1>2. x.to \in AppLayers /\ x.name[2] \in Int
  BY NamesAre DEF Leads, ExportsInv, ExportTypes
<1> QED BY <1>1, <1>2 DEF Leads

\* The parts of Leading.
LeadsNow == ~ twice /\ Current => \A x \in entries.links : Leads(x)
LeadsAside == ePc \in {"swap", "swapping"} => \A x \in new : Leads(x)
OnlySeen ==
    ePc = "swap" \/ (ePc = "work" /\ ~ twice) =>
        (Due("export") => \A x \in E!Target :
             x.to = plan[1].layer => x.name \in seen \/ Linking(x.name))
NotYet == ePc = "swap" => \A i \in 2..Len(plan) : \A x \in new : x.to # plan[i].layer
Unlinked == ePc = "work" /\ ~ twice /\ Due("drop") => \A x \in E!Live : x.to # plan[1].layer

LEMMA LeadingParts ==
    /\ Leading <=> LeadsNow /\ LeadsAside /\ OnlySeen /\ NotYet /\ Unlinked
    /\ Leading' <=> LeadsNow' /\ LeadsAside' /\ OnlySeen' /\ NotYet' /\ Unlinked'
  BY DEF Leading, LeadsNow, LeadsAside, OnlySeen, NotYet, Unlinked

LEMMA LeadingFile == ASSUME ExportsInv, ExportTypes', FileStep PROVE Leading'
<1> USE DEF ExportsInv
<1>0. /\ Current' <=> Current
      /\ UNCHANGED <<ePc, twice, plan, eInstalled>> /\ ePc \in {"work", "swap"}
      /\ Due("export") /\ ~ Due("drop")
  BY FileFrame, StillCurrent DEF Due
<1>1. (ePc = "work" => E!Target = E!Live /\ E!Target' = E!Live') /\ (ePc = "swap" => E!Target = new /\ E!Target' = new')
  BY <1>0 DEF E!Target, E!Building
<1>2. Current => ePc = "work" /\ E!Live = entries.links /\ E!Live' = entries'.links
  BY <1>0, <1>1 DEF Planned, E!Live, Current
<1>3. ePc = "swap" \/ Current
  BY <1>0 DEF Planned
<1>4. CASE twice /\ ePc = "work"
  BY <1>0, <1>4, LeadingParts DEF LeadsNow, LeadsAside, OnlySeen, NotYet, Unlinked
<1>5. CASE ~ twice \/ ePc = "swap"
  <2>1. \A x \in E!Target : Leads(x) /\ (x.to = plan[1].layer => x.name \in seen \/ Linking(x.name))
    BY <1>0, <1>1, <1>2, <1>3, <1>5 DEF Leading
  <2>2. ASSUME \A x \in E!Target' : /\ Leads(x)'
                                    /\ x.to = plan[1].layer => x.name \in seen' \/ Linking(x.name)'
                                    /\ x \in E!Target \/ x.to = plan[1].layer
        PROVE  Leading'
    <3>1. LeadsNow' /\ LeadsAside' /\ OnlySeen'
      BY <1>0, <1>1, <1>2, <2>2 DEF LeadsNow, LeadsAside, OnlySeen, Due
    <3>2. Unlinked'
      BY <1>0 DEF Unlinked, Due
    <3>3. NotYet'
      <4>1. SUFFICES ASSUME ePc = "swap", NEW i \in 2..Len(plan), NEW x \in E!Target'
                     PROVE  x.to # plan[i].layer
        BY <1>0, <1>1 DEF NotYet
      <4>2. CASE x \in E!Target
        BY <1>1, <4>1, <4>2 DEF Leading
      <4>3. CASE x.to = plan[1].layer
        <5>1. 1 \in 1..Len(plan) /\ i \in 1..Len(plan) /\ i # 1
          BY <4>1, PlanGoes, FileFrame DEF ExportTypes
        <5> QED BY <4>1, <4>3, <5>1 DEF Planned
      <4> QED BY <2>2, <4>2, <4>3
    <3> QED BY <3>1, <3>2, <3>3, LeadingParts
  <2>3. CASE eFile.step # "link"
    <3>1. E!Target' = E!Target /\ UNCHANGED seen
      BY <1>0, <2>3, FileFrame, TargetSame
    <3>2. \A x \in E!Target : ~ Linking(x.name)
      BY <2>3 DEF Linking
    <3> QED BY <1>5, <2>1, <2>2, <3>1, <3>2, LeadsOn
  <2>4. CASE E!Linked
    <3>1. E!Target' = E!Target /\ seen' = seen \union {eFile.name}
      BY <1>0, <2>4, TargetSame DEF E!Linked
    <3>2. \A x \in E!Target : Linking(x.name) => x.name \in seen'
      BY <3>1 DEF Linking
    <3> QED BY <1>5, <2>1, <2>2, <3>1, <3>2, LeadsOn
  <2>5. ASSUME NEW p \in Places, E!MakeLink(p) PROVE Leading'
    <3>1. eFile.step = "link" /\ UNCHANGED <<disk, seen>> /\ eFile \in Handled /\ p \in eFile.at
      BY <2>5, TargetGoes
    <3>2. eFile' # None /\ eFile'.name = eFile.name /\ eFile'.step = "link"
      <4>1. eFile.at \ {p} \in SUBSET Places /\ eFile # None
        BY <3>1, FileFrame DEF Handled
      <4>2. eFile' = eFile \/ eFile' = [eFile EXCEPT !.at = eFile.at \ {p}]
        BY <2>5, TargetGoes
      <4> QED BY <3>1, <4>1, <4>2, FileGoes
    <3>3. \A n : Linking(n) <=> Linking(n)'
      BY <3>1, <3>2, FileFrame DEF Linking
    <3>4. PICK y : y = E!Link(p)
      OBVIOUS
    <3>5. /\ y.to = plan[1].layer /\ y.name = eFile.name /\ E!Target' \subseteq E!Target \union {y}
      BY <2>5, <3>4, TargetGoes, FileFrame DEF E!Link
    <3>6. Leads(y)'
      <4>1. plan[1].layer \in eInstalled
        <5>1. 1 \in 1..Len(plan) /\ plan[1].do = "export"
          BY <1>0, PlanGoes, FileFrame DEF ExportTypes, Due
        <5> QED BY <1>0, <5>1 DEF Planned
      <4>2. E!Fits(eFile.name, disk[plan[1].layer][eFile.name].source) /\ eFile.name[2] <= stops
        BY <3>1, FileFrame DEF FileFits
      <4> QED BY <1>0, <3>1, <3>5, <4>1, <4>2, FileFrame DEF Leads
    <3>7. \A n : n = eFile.name => Linking(n)'
      BY <3>2 DEF Linking
    <3>8. \A x \in E!Target : Leads(x)'
      BY <1>5, <2>1, LeadsOn
    <3> QED BY <2>1, <2>2, <3>1, <3>3, <3>5, <3>6, <3>7, <3>8
  <2> QED BY <2>3, <2>4, <2>5, FileFrame
<1> QED BY <1>0, <1>4, <1>5

LEMMA LeadingNext == ASSUME ExportsInv, [E!Next]_eVars, ExportTypes', Planned' PROVE Leading'
<1> USE DEF ExportsInv
<1>a. UNCHANGED disk /\ eInstalled \subseteq eInstalled' => \A x : Leads(x) => Leads(x)'
  BY LeadsSame
<1>b. ePc \notin {"swap", "work"} => eFile = None
  BY DEF FileFits
<1>0. CASE UNCHANGED eVars
  <2>1. E!Target' = E!Target /\ E!Live' = E!Live
    BY <1>0, TargetSame DEF eVars
  <2> QED BY <1>0, <2>1 DEF eVars, Leading, Current, Due, Linking, Leads
<1>1. CASE E!Open
  <2>1. UNCHANGED <<disk, eInstalled, entries, twice>> /\ Current' = Current
    BY <1>1 DEF E!Open, Current
  <2>2. LeadsNow'
    BY <1>a, <2>1 DEF Leading, LeadsNow
  <2>3. CASE ~ Current
    <3>1. ePc' = "swap" /\ new' = {}
      BY <1>1, <2>3, OpenPlan
    <3> QED BY <2>2, <3>1, LeadingParts DEF LeadsAside, OnlySeen, NotYet, Unlinked, E!Target, E!Building
  <2>4. CASE Current
    <3>1. ePc' = "idle"
      BY <1>1, <2>4 DEF E!Open, Current
    <3> QED BY <2>2, <3>1, LeadingParts DEF LeadsAside, OnlySeen, NotYet, Unlinked
  <2> QED BY <2>3, <2>4
<1>2. CASE E!SwapOut
  <2>1. ~ Current' /\ ePc' = "swapping" /\ UNCHANGED <<disk, eInstalled, new>> /\ ePc = "swap"
    BY <1>2 DEF E!SwapOut, Current, E!Building
  <2> QED BY <1>a, <2>1, LeadingParts DEF LeadsNow, LeadsAside, OnlySeen, NotYet, Unlinked
<1>3. CASE E!SwapIn
  <2>1. /\ ePc' = "idle" /\ UNCHANGED <<disk, eInstalled>> /\ ePc \in {"swap", "swapping"}
        /\ entries'.links = new
    BY <1>3 DEF E!SwapIn, E!Building
  <2>2. LeadsNow'
    BY <1>a, <2>1, LeadingParts DEF LeadsNow, LeadsAside
  <2> QED BY <2>1, <2>2, LeadingParts DEF LeadsAside, OnlySeen, NotYet, Unlinked
<1>4. CASE E!SwapBack
  <2>1. ~ Current' /\ ePc' = "down"
    BY <1>4 DEF E!SwapBack, Current, Planned
  <2> QED BY <2>1, LeadingParts DEF LeadsNow, LeadsAside, OnlySeen, NotYet, Unlinked
<1>5. CASE E!Finish
  <2>1. ePc' = "idle" /\ UNCHANGED <<disk, eInstalled, entries, twice>>
    BY <1>5 DEF E!Finish
  <2>2. LeadsNow'
    BY <1>a, <2>1, LeadingParts DEF LeadsNow, Current
  <2> QED BY <2>1, <2>2, LeadingParts DEF LeadsAside, OnlySeen, NotYet, Unlinked
<1>6. CASE Begins
  <2>1. PICK l \in AppLayers, k \in AppLayers : E!Install(l) \/ E!Uninstall(l) \/ E!Upgrade(l, k)
    BY <1>6 DEF Begins
  <2>2. /\ UNCHANGED <<disk, entries, twice>> /\ eInstalled \subseteq eInstalled' /\ ePc' = "work"
        /\ ePc = "idle" /\ Current
    BY <2>1 DEF E!Install, E!Uninstall, E!Upgrade, E!Begin, Planned
  <2>3. LeadsNow'
    BY <1>a, <2>2, LeadingParts DEF LeadsNow, Current
  <2>4. E!Target' = entries.links /\ E!Live' = entries.links
    BY <2>2 DEF E!Target, E!Building, E!Live, Current
  <2>5. plan'[1].do # "drop" /\ (plan'[1].do = "export" => plan'[1].layer \notin eInstalled)
    BY <2>1 DEF E!Install, E!Uninstall, E!Upgrade, E!Begin, E!Do
  <2>6. OnlySeen'
    BY <2>2, <2>4, <2>5 DEF OnlySeen, Due, Leading, Leads
  <2> QED BY <2>2, <2>3, <2>5, <2>6, LeadingParts DEF LeadsAside, NotYet, Unlinked, Due
<1>7. CASE FileStep
  BY <1>7, LeadingFile
<1>8. CASE E!AllTaken \/ E!AllUnlinked
  <2>0. /\ UNCHANGED <<disk, eInstalled, entries, new, twice, ePc>> /\ plan # <<>> /\ plan' = Tail(plan)
        /\ ePc \in {"work", "swap"} /\ Head(plan) = plan[1]
    BY <1>8, PlanGoes DEF E!AllTaken, E!AllUnlinked, E!Doing, E!NextPhase, ExportTypes
  <2>1. /\ Len(plan') = Len(plan) - 1 /\ Len(plan) \in Nat \ {0}
        /\ \A i \in 1..Len(plan') : plan'[i] = plan[i + 1] /\ i + 1 \in 1..Len(plan) /\ i + 1 \in 2..Len(plan)
        /\ Len(plan') \in Nat /\ (plan' # <<>> => 1 \in 1..Len(plan'))
    BY <2>0, PlanGoes DEF ExportTypes
  <2>2. E!Target' = E!Target /\ E!Live' = E!Live /\ (Current' <=> Current)
    BY <2>0, TargetSame DEF Current
  <2>3. LeadsNow' /\ LeadsAside'
    BY <1>a, <2>0, <2>2, LeadingParts DEF LeadsNow, LeadsAside
  <2>4. plan' # <<>> => /\ plan'[1] = plan[2] /\ 2 \in 2..Len(plan) /\ 2 \in 1..Len(plan) /\ 2 > 1 /\ 2 # 1
                        /\ plan[2 - 1] = plan[1]
    BY <2>1
  <2>5. NotYet'
    <3>1. SUFFICES ASSUME ePc = "swap", NEW i \in 2..Len(plan'), NEW x \in new
                   PROVE  x.to # plan'[i].layer
      BY <2>0 DEF NotYet
    <3>2. plan'[i] = plan[i + 1] /\ i + 1 \in 2..Len(plan)
      BY <2>1
    <3> QED BY <3>1, <3>2 DEF Leading
  <2>6. OnlySeen'
    <3>1. CASE ePc = "swap"
      <4>1. E!Target' = new
        BY <2>2, <3>1 DEF E!Target, E!Building
      <4> QED BY <2>0, <2>4, <3>1, <4>1 DEF OnlySeen, Due, Leading
    <3>2. CASE ePc = "work"
      <4>1. ~ Due("export")'
        BY <2>4, <3>2 DEF Due, Planned
      <4> QED BY <4>1 DEF OnlySeen
    <3> QED BY <2>0, <3>1, <3>2
  <2>7. Unlinked'
    <3>1. SUFFICES ASSUME ePc = "work", Due("drop")' PROVE \A x \in E!Live : x.to # plan'[1].layer
      BY <2>0, <2>2 DEF Unlinked
    <3>2. plan' # <<>> /\ plan[2].do = "drop"
      BY <2>4, <3>1 DEF Due
    <3>3. plan[1] = [do |-> "unexport", layer |-> plan[2].layer]
      BY <2>4, <3>1, <3>2 DEF Planned
    <3>4. E!AllUnlinked
      BY <1>8, <2>0, <3>3 DEF E!AllTaken, E!Doing
    <3> QED BY <2>0, <2>4, <3>2, <3>3, <3>4 DEF E!AllUnlinked, E!Layer
  <2> QED BY <2>3, <2>5, <2>6, <2>7, LeadingParts
<1>9. CASE E!Drop
  <2>1. /\ plan # <<>> /\ ePc \in {"work", "swap"} /\ Head(plan) = plan[1] /\ plan[1].do = "drop"
        /\ E!Layer = plan[1].layer /\ plan[1].layer \in AppLayers
        /\ UNCHANGED <<entries, twice, ePc>> /\ plan' = Tail(plan)
    BY <1>9, PlanGoes DEF E!Drop, E!Doing, E!NextPhase, E!Layer, ExportTypes, Todo
  <2>2. Len(plan) \in Nat \ {0} /\ Len(plan') = Len(plan) - 1 /\ 1 \in 1..Len(plan)
    BY <2>1, PlanGoes DEF ExportTypes
  <2>3. ePc = "work"
    BY <2>1, <2>2 DEF Planned
  <2>4. plan' = <<>>
    <3>1. ~ 1 < Len(plan)
      BY <2>1, <2>2, <2>3 DEF Planned
    <3>2. ~ Len(plan') > 0
      BY <2>2, <3>1
    <3>3. plan' \in Seq(Todo)
      BY DEF ExportTypes
    <3> QED BY <3>2, <3>3
  <2>5. ASSUME ~ twice, Current, NEW x \in entries.links PROVE Leads(x)'
    <3>1. Leads(x) /\ x.to # plan[1].layer
      BY <2>1, <2>3, <2>5 DEF Leading, Due, E!Live, Current
    <3>2. x.to \in eInstalled' /\ x.to \in AppLayers
      BY <1>9, <2>1, <3>1 DEF E!Drop, Leads, ExportTypes
    <3>3. disk'[x.to] = disk[x.to] /\ UNCHANGED stops
      BY <1>9, <2>1, <3>1, <3>2 DEF E!Drop, E!bounds, ExportTypes
    <3> QED BY <3>1, <3>2, <3>3 DEF Leads
  <2>6. LeadsNow'
    BY <2>1, <2>5 DEF LeadsNow, Current
  <2> QED BY <2>1, <2>3, <2>4, <2>6, LeadingParts DEF LeadsAside, OnlySeen, NotYet, Unlinked, Due
<1>10. ASSUME NEW m \in E!AllNames, E!Take(m) PROVE Leading'
  <2>1. /\ eFile = None /\ UNCHANGED <<disk, eInstalled, entries, new, ePc, plan, seen, twice>>
    BY <1>10 DEF E!Take
  <2>2. E!Target' = E!Target /\ E!Live' = E!Live /\ (Current' <=> Current)
    BY <2>1, TargetSame DEF Current
  <2>3. \A n : ~ Linking(n)
    BY <2>1 DEF Linking
  <2>4. LeadsNow' /\ LeadsAside'
    BY <1>a, <2>1, <2>2, LeadingParts DEF LeadsNow, LeadsAside
  <2>5. OnlySeen'
    BY <2>1, <2>2, <2>3, LeadingParts DEF OnlySeen, Due
  <2>6. NotYet' /\ Unlinked'
    BY <2>1, <2>2, LeadingParts DEF NotYet, Unlinked, Due
  <2> QED BY <2>4, <2>5, <2>6, LeadingParts
<1>11. ASSUME NEW y \in E!Live, E!Unlink(y) PROVE Leading'
  <2>1. /\ UNCHANGED <<disk, eInstalled, new, ePc, plan, twice>> /\ plan # <<>>
        /\ plan[1].do = "unexport" /\ ePc \in {"work", "swap"}
    BY <1>11, PlanGoes DEF E!Unlink, E!Doing, E!working, ExportTypes
  <2>2. ePc = "work" /\ Current
    <3>1. 1 \in 1..Len(plan)
      BY <2>1, PlanGoes DEF ExportTypes
    <3> QED BY <2>1, <3>1 DEF Planned
  <2>3. entries' = [entries EXCEPT !.links = @ \ {y}] /\ entries \in Entries
    BY <1>11, <2>2 DEF E!Unlink, Current, ExportTypes
  <2>4. entries'.links \subseteq entries.links
    BY <2>3 DEF Entries
  <2>5. LeadsNow'
    BY <1>a, <2>1, <2>2, <2>4, LeadingParts DEF LeadsNow
  <2> QED BY <2>1, <2>2, <2>5, LeadingParts DEF LeadsAside, OnlySeen, NotYet, Unlinked, Due
<1>12. CASE E!Fails
  <2>1. UNCHANGED <<disk, eInstalled, entries, new>> /\ (Current' <=> Current)
    BY <1>12 DEF E!Fails, Current
  <2>2. CASE E!Building
    <3>1. ePc' = "down" /\ UNCHANGED twice
      BY <1>12, <2>2 DEF E!Fails, E!Building, Planned
    <3>2. LeadsNow'
      BY <1>a, <2>1, <3>1, LeadingParts DEF LeadsNow
    <3> QED BY <3>1, <3>2, LeadingParts DEF LeadsAside, OnlySeen, NotYet, Unlinked
  <2>3. CASE ~ E!Building /\ undo = None /\ quiet
    <3>1. twice' = TRUE /\ UNCHANGED ePc /\ ePc = "work"
      BY <1>12, <2>3 DEF E!Fails
    <3> QED BY <3>1, LeadingParts DEF LeadsNow, LeadsAside, OnlySeen, NotYet, Unlinked
  <2>4. CASE ~ E!Building /\ (undo # None \/ ~ quiet)
    <3>1. /\ UNCHANGED <<ePc, twice>> /\ ePc = "work"
          /\ plan' = <<>> \/ plan' = <<E!Do("unexport", undo), E!Do("drop", undo)>>
      BY <1>12, <2>4 DEF E!Fails, Planned
    <3>2. ~ Due("export")' /\ ~ Due("drop")'
      BY <3>1 DEF Due, E!Do
    <3>3. LeadsNow'
      BY <1>a, <2>1, <3>1, LeadingParts DEF LeadsNow
    <3> QED BY <3>1, <3>2, <3>3, LeadingParts DEF LeadsAside, OnlySeen, NotYet, Unlinked
  <2> QED BY <2>2, <2>3, <2>4 DEF ExportTypes
<1>13. ASSUME NEW other \in BOOLEAN, E!Killed(other) PROVE Leading'
  <2>1. ePc' = "down" /\ UNCHANGED <<disk, eInstalled, twice>>
    BY <1>13 DEF E!Killed
  <2>2. Current' => Current /\ entries'.links = entries.links
    BY <1>13 DEF E!Killed, Current, ExportTypes, Entries
  <2>3. LeadsNow'
    BY <1>a, <2>1, <2>2, LeadingParts DEF LeadsNow
  <2> QED BY <2>1, <2>3, LeadingParts DEF LeadsAside, OnlySeen, NotYet, Unlinked
<1> QED BY <1>0, <1>1, <1>2, <1>3, <1>4, <1>5, <1>6, <1>7, <1>8, <1>9, <1>10, <1>11, <1>12, <1>13,
           ExportSteps DEF PlanStep

\* Files that are shown stay so, where nothing disturbs them.
ShownFile(l, n) == Shown(l, n) \/ (disk[l][n].source = None /\ ~ Handling(l, n))

LEMMA ShowingParts ==
    /\ Showing <=> (Current => \A l \in eInstalled : \A n \in E!Own(l) : ShownFile(l, n))
    /\ Showing' <=> (Current' => \A l \in eInstalled' : \A n \in E!Own(l) : ShownFile(l, n)')
  BY DEF Showing, ShownFile

LEMMA ShowingFile == ASSUME ExportsInv, ExportTypes', FileStep PROVE Showing'
<1> USE DEF ExportsInv
<1>1. SUFFICES ASSUME Current, NEW l \in eInstalled, NEW n \in E!Own(l) PROVE ShownFile(l, n)'
  BY FileFrame, StillCurrent, ShowingParts
<1>2. /\ l \in AppLayers /\ ePc = "work" /\ ePc' = ePc /\ plan' = plan /\ eFile # None
      /\ E!Target = entries.links /\ E!Target' = entries'.links
  <2>1. l \in AppLayers /\ ePc = "work" /\ ePc' = ePc /\ plan' = plan /\ eFile # None
    BY <1>1, FileFrame, StillCurrent DEF Planned, ExportTypes
  <2>2. Current'
    BY <1>1, StillCurrent
  <2> QED BY <1>1, <2>1, <2>2 DEF E!Target, E!Building, E!Live, Current
<1>3. Shown(l, n) \/ (disk[l][n].source = None /\ ~ Handling(l, n))
  BY <1>1, ShowingParts DEF ShownFile
<1>a. n \in E!FileNames(l) /\ n[2] <= stops
  BY <1>1, <1>2, OwnAre DEF Numbered
<1>4. ~ Handling(l, n) => disk'[l][n] = disk[l][n]
  BY <1>2, <1>a, FileFrame DEF Handling
<1>5. CASE eFile.step # "link"
  <2>1. UNCHANGED <<entries, excused>> /\ eFile'.name = eFile.name
    BY <1>5, FileFrame
  <2> QED BY <1>2, <1>3, <1>4, <2>1 DEF ShownFile, Shown, Handling
<1>6. CASE E!Linked
  <2>1. UNCHANGED <<entries, excused, disk>> /\ eFile' = None
    BY <1>6 DEF E!Linked
  <2> QED BY <1>2, <1>3, <1>4, <2>1 DEF ShownFile, Shown, Handling
<1>7. ASSUME NEW p \in Places, E!MakeLink(p) PROVE ShownFile(l, n)'
  <2>1. UNCHANGED disk
    BY <1>7, TargetGoes
  <2>2. CASE /\ E!Target' = E!Target \ E!At(E!Target, p) /\ UNCHANGED eFile
             /\ ~ E!Building => excused' = excused \union E!Sharing(eFile.name)
    <3>1. excused' = excused \union E!Sharing(eFile.name)
      BY <1>2, <2>2 DEF E!Building
    <3>2. n = eFile.name => <<l, n>> \in excused'
      BY <1>2, <3>1 DEF E!Sharing
    <3>3. n # eFile.name => (Shown(l, n) => Shown(l, n)')
      BY <1>2, <2>2, <3>1 DEF Shown, E!At
    <3> QED BY <1>2, <1>3, <2>1, <2>2, <3>2, <3>3 DEF ShownFile, Shown, Handling
  <2>3. CASE /\ E!Target' = E!Target \union {E!Link(p)}
             /\ eFile' = [eFile EXCEPT !.at = @ \ {p}]
             /\ excused' = excused \ E!Sharing(eFile.name)
    <3>1. PICK y : y = E!Link(p)
      OBVIOUS
    <3>2. y.name = eFile.name /\ y \in entries'.links
      BY <1>2, <2>3, <3>1 DEF E!Link
    <3>3. n = eFile.name => Shown(l, n)'
      BY <3>2 DEF Shown
    <3>4. n # eFile.name => (Shown(l, n) => Shown(l, n)')
      BY <1>2, <2>3 DEF Shown, E!Sharing
    <3>5. ~ Handling(l, n) => n = eFile.name \/ ~ Handling(l, n)'
      <4>1. eFile'.name = eFile.name
        <5>1. eFile.at \ {p} \in SUBSET Places /\ eFile' = [eFile EXCEPT !.at = eFile.at \ {p}]
          BY <2>3, FileFrame DEF Handled
        <5> QED BY <5>1, FileGoes, FileFrame
      <4> QED BY <1>2, <4>1 DEF Handling
    <3> QED BY <1>3, <2>1, <3>3, <3>4, <3>5 DEF ShownFile
  <2> QED BY <1>7, <2>2, <2>3, TargetGoes
<1> QED BY <1>5, <1>6, <1>7, FileFrame

LEMMA ShowingNext == ASSUME ExportsInv, [E!Next]_eVars, ExportTypes', Planned' PROVE Showing'
<1> USE DEF ExportsInv
<1>b. eFile # None => ePc \in {"swap", "work"} /\ plan # <<>> /\ plan[1].do = "export"
  BY DEF FileFits, Due
<1>c. \A l \in eInstalled : l \in AppLayers
  BY DEF ExportTypes
\* Where the entries and the files are as before.
<1>d. ASSUME Current' => Current /\ entries'.links = entries.links,
             \/ UNCHANGED eFile /\ UNCHANGED <<plan, ePc>>
             \/ eFile' = None,
             excused \subseteq excused', disk' = disk,
             \A l \in eInstalled' \ eInstalled : \A n \in E!Own(l) : <<l, n>> \in excused'
      PROVE  Showing'
  <2>1. SUFFICES ASSUME Current', NEW l \in eInstalled', NEW n \in E!Own(l) PROVE ShownFile(l, n)'
    BY ShowingParts
  <2>2. Shown(l, n) => Shown(l, n)'
    BY <1>d, <2>1 DEF Shown
  <2>3. Handling(l, n)' => Handling(l, n)
    BY <1>d DEF Handling
  <2>4. l \in eInstalled => ShownFile(l, n)
    BY <1>d, <2>1, ShowingParts
  <2>5. l \notin eInstalled => Shown(l, n)'
    BY <1>d, <2>1 DEF Shown
  <2> QED BY <1>d, <2>2, <2>3, <2>4, <2>5 DEF ShownFile
<1>0. CASE UNCHANGED eVars
  BY <1>0, <1>d DEF eVars, Current
<1>1. CASE E!Open
  BY <1>1, <1>d DEF E!Open, Current
<1>2. CASE E!SwapOut
  BY <1>2, ShowingParts DEF E!SwapOut, Current
<1>3. CASE E!SwapIn
  <2>1. /\ plan = <<>> /\ ePc \in {"swap", "swapping"} /\ UNCHANGED <<disk, eInstalled>>
        /\ entries'.links = new /\ ePc' = "idle"
    BY <1>3 DEF E!SwapIn, E!Building, Planned
  <2>2. eFile = None
    BY <1>b, <2>1
  <2>3. ASSUME NEW l \in eInstalled, NEW n \in E!Own(l)
        PROVE  disk[l][n].source = None \/ \E x \in new : x.name = n
    <3>1. ~ \E i \in 1..Len(plan) : TRUE
      BY <2>1
    <3> QED BY <2>1, <2>2, <3>1 DEF Covered, Has, Linking
  <2> QED BY <2>1, <2>3, ShowingParts DEF ShownFile, Shown, Handling
<1>4. CASE E!SwapBack
  BY <1>4, ShowingParts DEF E!SwapBack, Current, Planned
<1>5. CASE E!Finish
  <2>1. eFile = None /\ eFile' = eFile
    BY <1>5, <1>b DEF E!Finish, E!working
  <2> QED BY <1>5, <1>d, <2>1 DEF E!Finish, Current
<1>6. CASE Begins
  <2>1. PICK l \in AppLayers, k \in AppLayers : E!Install(l) \/ E!Uninstall(l) \/ E!Upgrade(l, k)
    BY <1>6 DEF Begins
  <2>2. /\ UNCHANGED <<disk, entries, eFile>> /\ ePc = "idle"
    BY <2>1 DEF E!Install, E!Uninstall, E!Upgrade, E!Begin
  <2>3. eFile' = None
    BY <1>b, <2>2
  <2>4. /\ excused \subseteq excused'
        /\ \A m \in eInstalled' \ eInstalled : \A n \in E!Own(m) : <<m, n>> \in excused'
    BY <2>1 DEF E!Install, E!Uninstall, E!Upgrade
  <2> QED BY <1>d, <2>2, <2>3, <2>4 DEF Current
<1>7. CASE FileStep
  BY <1>7, ShowingFile
<1>8. CASE E!AllTaken \/ E!AllUnlinked
  <2>1. UNCHANGED <<disk, entries, excused, eInstalled>> /\ eFile' = None
    BY <1>8, <1>b, PlanGoes DEF E!AllTaken, E!AllUnlinked, E!Doing, ExportTypes
  <2> QED BY <1>d, <2>1 DEF Current
<1>9. CASE E!Drop
  <2>1. /\ plan # <<>> /\ plan[1].do = "drop" /\ E!Layer = plan[1].layer
        /\ UNCHANGED <<entries, excused, eFile>>
    BY <1>9, PlanGoes DEF E!Drop, E!Doing, E!Layer, ExportTypes
  <2>2. eFile' = None
    BY <1>b, <2>1
  <2>3. SUFFICES ASSUME Current', NEW l \in eInstalled', NEW n \in E!Own(l) PROVE ShownFile(l, n)'
    BY ShowingParts
  <2>4. l \in eInstalled /\ l # plan[1].layer /\ l \in AppLayers
    BY <1>9, <1>c, <2>1, <2>3 DEF E!Drop
  <2>5. disk'[l] = disk[l]
    BY <1>9, <2>1, <2>4 DEF E!Drop, ExportTypes
  <2>6. ShownFile(l, n)
    BY <2>1, <2>3, <2>4, ShowingParts DEF Current
  <2> QED BY <2>1, <2>2, <2>5, <2>6 DEF ShownFile, Shown, Handling
<1>10. ASSUME NEW m \in E!AllNames, E!Take(m) PROVE Showing'
  <2>1. /\ UNCHANGED <<disk, eInstalled, entries, ePc, plan, excused>>
        /\ plan # <<>> /\ Head(plan) = plan[1] /\ m \in E!Present(plan[1].layer)
        /\ eFile'.name = m
    BY <1>10, PlanGoes DEF E!Take, E!Layer, E!Doing, ExportTypes
  <2>2. SUFFICES ASSUME Current', NEW l \in eInstalled', NEW n \in E!Own(l) PROVE ShownFile(l, n)'
    BY ShowingParts
  <2>3. ShownFile(l, n)
    BY <2>1, <2>2, ShowingParts DEF Current
  <2>4. Handling(l, n)' => disk[l][n].source # None
    BY <2>1 DEF Handling, E!Present
  <2> QED BY <2>1, <2>3, <2>4 DEF ShownFile, Shown
<1>11. ASSUME NEW y \in E!Live, E!Unlink(y) PROVE Showing'
  <2>1. UNCHANGED <<disk, eInstalled, eFile>> /\ excused' = excused \union E!Sharing(y.name)
    BY <1>11 DEF E!Unlink, E!working
  <2>2. eFile' = None
    BY <1>11, <1>b, <2>1, PlanGoes DEF E!Unlink, E!Doing, ExportTypes
  <2>3. SUFFICES ASSUME Current', NEW l \in eInstalled', NEW n \in E!Own(l) PROVE ShownFile(l, n)'
    BY ShowingParts
  <2>4. Current /\ ShownFile(l, n) /\ l \in AppLayers
    BY <1>11, <1>c, <2>1, <2>3, StillCurrent, ShowingParts DEF PlanStep
  <2>5. entries'.links = entries.links \ {y}
    BY <1>11, <2>4 DEF E!Unlink, Current, ExportTypes, Entries
  <2>6. n = y.name => Shown(l, n)'
    BY <2>1, <2>4 DEF Shown, E!Sharing
  <2>7. n # y.name => (Shown(l, n) => Shown(l, n)')
    BY <2>1, <2>5 DEF Shown
  <2> QED BY <2>1, <2>2, <2>4, <2>6, <2>7 DEF ShownFile, Handling
<1>12. CASE E!Fails
  BY <1>12, <1>d DEF E!Fails, Current
<1>13. ASSUME NEW other \in BOOLEAN, E!Killed(other) PROVE Showing'
  <2>1. Current' => Current /\ entries'.links = entries.links
    BY <1>13 DEF E!Killed, Current, ExportTypes, Entries
  <2> QED BY <1>13, <1>d, <2>1 DEF E!Killed
<1> QED BY <1>0, <1>1, <1>2, <1>3, <1>4, <1>5, <1>6, <1>7, <1>8, <1>9, <1>10, <1>11, <1>12, <1>13,
           ExportSteps DEF PlanStep

\* The parts of Covered.
CoveredBy(l, n) == \/ \E i \in 1..Len(plan) : plan[i].layer = l
                   \/ disk[l][n].source = None
                   \/ Has(n)
SeenHas == ePc = "swap" /\ plan # <<>> => \A n \in seen : Has(n)

LEMMA CoveredParts ==
    /\ Covered <=> /\ ePc \in {"swap", "swapping"} =>
                          \A l \in eInstalled : \A n \in E!Own(l) : CoveredBy(l, n)
                   /\ SeenHas
    /\ Covered' <=> /\ ePc' \in {"swap", "swapping"} =>
                          \A l \in eInstalled' : \A n \in E!Own(l) : CoveredBy(l, n)'
                    /\ SeenHas'
  BY DEF Covered, CoveredBy, SeenHas

LEMMA CoveredFile == ASSUME ExportsInv, ExportTypes', FileStep PROVE Covered'
<1> USE DEF ExportsInv
<1>0. /\ UNCHANGED <<ePc, plan, eInstalled>> /\ ePc \in {"work", "swap"} /\ eFile # None
      /\ plan # <<>>
  BY FileFrame, StillCurrent
<1>1. SUFFICES ASSUME ePc = "swap" PROVE Covered'
  BY <1>0 DEF Covered
<1>2. ASSUME \A n : Has(n) => Has(n)', \A n \in seen' \ seen : Has(n)' PROVE Covered'
  <2>1. ASSUME NEW l \in eInstalled, NEW n \in E!Own(l) PROVE CoveredBy(l, n)'
    <3>1. CoveredBy(l, n) /\ l \in AppLayers
      BY <1>1, CoveredParts DEF ExportTypes
    <3>2. CASE l = plan[1].layer
      <4>1. 1 \in 1..Len(plan)
        BY <1>0, PlanGoes DEF ExportTypes
      <4> QED BY <1>0, <3>2, <4>1 DEF CoveredBy
    <3>3. CASE l # plan[1].layer
      <4>1. n \in E!FileNames(l) /\ n[2] <= stops
        BY <3>1, OwnAre DEF Numbered
      <4>2. disk'[l][n] = disk[l][n]
        BY <3>1, <3>3, <4>1, FileFrame
      <4> QED BY <1>0, <1>2, <3>1, <4>2 DEF CoveredBy
    <3> QED BY <3>2, <3>3
  <2>2. SeenHas'
    BY <1>0, <1>1, <1>2, CoveredParts DEF SeenHas
  <2> QED BY <1>0, <2>1, <2>2, CoveredParts
<1>3. E!Target = new /\ E!Target' = new'
  BY <1>0, <1>1 DEF E!Target, E!Building
<1>4. CASE eFile.step # "link"
  <2>1. UNCHANGED <<new, seen>>
    BY <1>4, FileFrame
  <2>2. \A n : ~ Linking(n)
    BY <1>4 DEF Linking
  <2> QED BY <1>2, <2>1, <2>2 DEF Has
<1>5. CASE E!Linked
  <2>1. UNCHANGED new /\ eFile.at = {} /\ seen' = seen \union {eFile.name} /\ eFile.step = "link"
    BY <1>3, <1>5 DEF E!Linked, E!On
  <2>2. \E x \in new : x.name = eFile.name
    BY <1>0, <1>3, <2>1 DEF FileFits
  <2> QED BY <1>2, <2>1, <2>2 DEF Has, Linking
<1>6. ASSUME NEW p \in Places, E!MakeLink(p) PROVE Covered'
  <2>1. UNCHANGED seen /\ eFile.step = "link" /\ eFile \in Handled /\ p \in eFile.at
    BY <1>6, TargetGoes
  <2>2. eFile' # None /\ eFile'.name = eFile.name /\ eFile'.step = "link"
    <3>1. eFile.at \ {p} \in SUBSET Places
      BY <2>1 DEF Handled
    <3>2. eFile' = eFile \/ eFile' = [eFile EXCEPT !.at = eFile.at \ {p}]
      BY <1>6, TargetGoes
    <3> QED BY <1>0, <2>1, <3>1, <3>2, FileGoes
  <2>3. \A n : Linking(n) <=> n = eFile.name
    BY <1>0, <2>1 DEF Linking
  <2>4. \A n : n = eFile.name => Linking(n)'
    BY <2>2 DEF Linking
  <2>5. \A x \in new : x.name # eFile.name => x \in new'
    BY <1>3, <1>6, TargetGoes DEF E!At
  <2>6. ASSUME NEW n, Has(n) PROVE Has(n)'
    BY <2>3, <2>4, <2>5, <2>6 DEF Has
  <2> QED BY <1>2, <2>1, <2>6
<1> QED BY <1>4, <1>5, <1>6, FileFrame

LEMMA CoveredNext == ASSUME ExportsInv, [E!Next]_eVars, ExportTypes', Planned' PROVE Covered'
<1> USE DEF ExportsInv
<1>0. CASE UNCHANGED eVars
  BY <1>0 DEF eVars, Covered, Has, Linking
<1>1. CASE E!Open
  <2>1. CASE ~ Current
    <3>1. ePc' = "swap" /\ UNCHANGED eInstalled /\ seen' = {}
      BY <1>1, <2>1, OpenPlan DEF E!Open
    <3>2. \A l \in eInstalled : \E i \in 1..Len(plan') : plan'[i].layer = l
      BY <1>1, <2>1, OpenPlan
    <3> QED BY <3>1, <3>2, CoveredParts DEF CoveredBy, SeenHas
  <2>2. CASE Current
    BY <1>1, <2>2 DEF E!Open, Current, Covered
  <2> QED BY <2>1, <2>2
<1>2. CASE E!SwapOut
  <2>1. /\ ePc' = "swapping" /\ ePc = "swap" /\ UNCHANGED <<disk, eInstalled, new, plan, eFile>>
    BY <1>2 DEF E!SwapOut, E!Building, E!working
  <2> QED BY <2>1, CoveredParts DEF CoveredBy, Has, Linking, SeenHas
<1>3. CASE E!SwapIn \/ E!SwapBack \/ E!Finish \/ Begins \/ \E other \in BOOLEAN : E!Killed(other)
  <2>1. ePc' \in {"idle", "down", "work"}
    BY <1>3 DEF E!SwapIn, E!SwapBack, E!Finish, Begins, E!Killed, E!Install, E!Uninstall, E!Upgrade, E!Begin
  <2> QED BY <2>1 DEF Covered
<1>4. CASE E!Fails
  <2>1. CASE E!Building
    BY <1>4, <2>1 DEF E!Fails, E!Building, Planned, Covered
  <2>2. CASE ~ E!Building
    <3>1. ePc = "work"
      BY <1>4, <2>2 DEF E!Fails
    <3>2. CASE undo # None
      BY <1>4, <2>2, <3>1, <3>2 DEF E!Fails, Planned, Covered
    <3>3. CASE undo = None
      BY <1>4, <2>2, <3>1, <3>3 DEF E!Fails, ExportTypes, Covered
    <3> QED BY <3>2, <3>3
  <2> QED BY <2>1, <2>2
<1>5. CASE FileStep
  BY <1>5, CoveredFile
<1>6. CASE PlanStep
  <2>0. ePc' = ePc
    BY <1>6, StillCurrent
  <2>1. SUFFICES ASSUME ePc \in {"swap", "swapping"} PROVE Covered'
    BY <2>0 DEF Covered
  <2>2. ePc = "swap" /\ plan # <<>> /\ Head(plan) = plan[1] /\ Len(plan) \in Nat \ {0} /\ 1 \in 1..Len(plan)
    <3>1. plan # <<>> /\ ePc \in {"swap", "work"}
      BY <1>6 DEF PlanStep, E!AllTaken, E!AllUnlinked, E!Drop, E!Take, E!Unlink, E!Doing
    <3> QED BY <2>1, <3>1, PlanGoes DEF ExportTypes
  <2>3. plan[1].do = "export"
    BY <2>2 DEF Planned
  <2>4. E!AllTaken \/ \E m \in E!AllNames : E!Take(m)
    BY <1>6, <2>2, <2>3 DEF PlanStep, E!AllUnlinked, E!Drop, E!Unlink, E!Doing
  <2>5. UNCHANGED <<disk, eInstalled, new>> /\ eFile = None
    BY <2>4 DEF E!AllTaken, E!Take
  <2>6. ASSUME NEW n, Has(n) PROVE Has(n)'
    BY <2>5, <2>6 DEF Has, Linking
  <2>7. ASSUME NEW m \in E!AllNames, E!Take(m) PROVE Covered'
    <3>1. UNCHANGED <<plan, seen>>
      BY <2>7 DEF E!Take
    <3> QED BY <2>0, <2>2, <2>5, <2>6, <3>1, CoveredParts DEF CoveredBy, SeenHas
  <2>8. CASE E!AllTaken
    <3>1. plan' = Tail(plan) /\ seen' = {} /\ E!Present(plan[1].layer) \subseteq seen
      BY <2>2, <2>8 DEF E!AllTaken, E!NextPhase, E!Layer
    <3>2. /\ Len(plan') = Len(plan) - 1
          /\ \A i \in 1..Len(plan') : plan'[i] = plan[i + 1] /\ i + 1 \in 1..Len(plan)
      BY <2>2, <3>1, PlanGoes DEF ExportTypes
    <3>3. ASSUME NEW l \in eInstalled, NEW n \in E!Own(l) PROVE CoveredBy(l, n)'
      <4>1. CASE l = plan[1].layer
        <5>1. n \in seen \/ disk[l][n].source = None
          BY <3>1, <4>1, OwnAre DEF E!Present, ExportTypes
        <5>2. n \in seen => Has(n)
          BY <2>2, CoveredParts DEF SeenHas
        <5> QED BY <2>5, <2>6, <5>1, <5>2 DEF CoveredBy
      <4>2. ASSUME NEW i \in 1..Len(plan), plan[i].layer = l, i # 1 PROVE CoveredBy(l, n)'
        <5>1. i - 1 \in 1..Len(plan') /\ plan'[i - 1] = plan[i]
          <6>1. i - 1 \in 1..Len(plan') /\ (i - 1) + 1 = i
            BY <2>2, <3>2, <4>2
          <6> QED BY <3>2, <6>1
        <5> QED BY <4>2, <5>1 DEF CoveredBy
      <4>3. CASE disk[l][n].source = None \/ Has(n)
        BY <2>5, <2>6, <4>3 DEF CoveredBy
      <4>4. CoveredBy(l, n)
        BY <2>2, CoveredParts
      <4> QED BY <4>1, <4>2, <4>3, <4>4 DEF CoveredBy
    <3>4. SeenHas'
      BY <3>1 DEF SeenHas
    <3> QED BY <2>5, <3>3, <3>4, CoveredParts
  <2> QED BY <2>4, <2>7, <2>8
<1> QED BY <1>0, <1>1, <1>2, <1>3, <1>4, <1>5, <1>6, ExportSteps

LEMMA ExportsInvNext == ASSUME ExportsInv, [E!Next]_eVars PROVE ExportsInv'
<1>1. ExportTypes'
  BY TypesFile, TypesElse
<1>2. Planned'
  BY <1>1, PlannedNext
<1>3. FileFits' /\ Numbered' /\ Leading' /\ Showing' /\ Covered'
  BY <1>1, <1>2, FileFitsNext, NumberedNext, LeadingNext, ShowingNext, CoveredNext
<1> QED BY <1>1, <1>2, <1>3 DEF ExportsInv

\* The entries of a desktop lead to files of installed layers that are there
\* and were rewritten once (or to copies that a rewriting left when it was broken
\* off), and all that is installed has its entries but for what was taken away
\* or lost, whatever is killed or fails (local.rs, export_tree,
\* remove_links_into_layers and ensure_entries_current).
THEOREM EntriesSoundHolds == RepositoriesSpec => []EntriesSound
<1>1. RepositoriesInit => ExportsInv
  BY ExportsInit
<1>2. ExportsInv /\ [RepositoriesNext]_repositoryVars => ExportsInv'
  BY ExportsRun, ExportsInvNext
<1>3. ExportsInv => EntriesSound
  <2>1. ExportsInv => E!LinksLead
    BY DEF ExportsInv, E!LinksLead, E!Live, Planned, Leading, Leads
  <2>2. ExportsInv => E!EntriesKept
    BY DEF ExportsInv, E!EntriesKept, E!Live, Planned, Showing, Shown, Current
  <2> QED BY <2>1, <2>2 DEF EntriesSound, E!EntriesSound
<1> QED BY <1>1, <1>2, <1>3, PTL DEF RepositoriesSpec

----------------------------------------------------------------------------
(* The configuration of the repositories.                                  *)

Repos == [name : Names, url : Urls, priority : Int, mirror : {None, "on", "off"}]
Settings == [default : Names, repos : Seq(Repos)]
Sessions == [pc : {"idle", "set", "saving", "saved", "restoring", "publish"}, own : BOOLEAN,
             old : Settings \union {None}, new : Settings \union {None}]

\* No two repositories have one name.
Apart(c) == \A i, j \in DOMAIN c.repos : c.repos[i].name = c.repos[j].name => i = j

EditTypes ==
    /\ rCli \in [Clients -> Sessions]
    /\ \A f \in {rFile, memory, served} : f \in Settings \union {None} /\ (f # None => Apart(f))
    /\ spoiled \in BOOLEAN

Editing(c) == rCli[c].pc # "idle"

\* A command sends back a sound configuration if it read one; it has a daemon
\* of its own, or the one that runs.
Sent == \A c \in Clients : Editing(c) =>
    LET s == rCli[c] IN
    /\ s.old # None /\ s.new # None /\ Apart(s.old) /\ Apart(s.new)
    /\ R!Named(s.old) => R!Named(s.new)
    /\ ~ s.own => memory # None

\* Commands that overlap none: no other is under way, nor another daemon.
Single == ~ clash =>
    \A c \in Clients : Editing(c) =>
        /\ \A d \in Clients : Editing(d) => c = d
        /\ rCli[c].own => memory = None

\* What the commands that succeeded have made, where no daemon is publishing.
Kept == memory # None => memory = expected /\ served = expected
Settled == Kept /\ (rFile = expected \/ spoiled \/ (rFile = None /\ memory = None))
Midway(s) ==
    /\ s.pc = "set" => Settled /\ (s.own => s.old = rFile)
    /\ s.pc \in {"saving", "saved", "restoring"} => Kept /\ (s.own => s.old = expected \/ spoiled)
    /\ s.pc \in {"saving", "restoring"} => rFile = None
    /\ s.pc \in {"saved", "publish"} => rFile = s.new
    /\ s.pc = "publish" /\ ~ s.own => memory = s.new
Following == ~ clash =>
    /\ (\A c \in Clients : ~ Editing(c)) => Settled
    /\ \A c \in Clients : Editing(c) => Midway(rCli[c])
Serving == (memory = None) <=> (served = None)

EditsInv == EditTypes /\ Sent /\ Single /\ Serving /\ Following

LEMMA ConfigRuns == [RepositoriesNext]_repositoryVars => [R!Next]_rVars
  BY DEF RepositoriesNext, repositoryVars, LockStep, VersionsStep, ConfigStep, ExportsStep, DriverStep

\* Of finitely many there is one with the greatest value.
LEMMA Greatest ==
    ASSUME NEW All, IsFiniteSet(All), NEW T \in SUBSET All, T # {}, NEW f \in [All -> Int]
    PROVE  \E k \in T : \A j \in T : f[j] <= f[k]
<1> DEFINE Above(k) == {j \in All : f[k] <= f[j]}
           S == {Above(k) : k \in T}
<1>1. IsWellFoundedOn(StrictSubsetOrdering(All), FiniteSubsetsOf(All))
  BY FS_StrictSubsetOrderingWellFounded
<1>2. S \subseteq FiniteSubsetsOf(All) /\ S # {}
  <2>1. FiniteSubsetsOf(All) = SUBSET All
    BY FS_FiniteSubsetsOfFinite
  <2>2. \A k \in T : Above(k) \in SUBSET All
    OBVIOUS
  <2>3. PICK k \in T : TRUE
    OBVIOUS
  <2> HIDE DEF Above
  <2> QED BY <2>1, <2>2, <2>3
<1>3. \E x \in S : \A y \in S : ~ (<<y, x>> \in StrictSubsetOrdering(All))
  <2> HIDE DEF S
  <2> QED BY <1>1, <1>2, WFMin
<1>4. PICK k \in T : \A j \in T : ~ (<<Above(j), Above(k)>> \in StrictSubsetOrdering(All))
  BY <1>3
<1>5. ASSUME NEW j \in T, ~ f[j] <= f[k] PROVE FALSE
  <2>1. f[j] \in Int /\ f[k] \in Int
    OBVIOUS
  <2>2. Above(j) \subseteq Above(k)
    BY <1>5, <2>1
  <2>3. k \in Above(k) /\ k \notin Above(j)
    BY <1>5, <2>1
  <2>4. <<Above(j), Above(k)>> \in StrictSubsetOrdering(All)
    BY <2>2, <2>3 DEF StrictSubsetOrdering
  <2> QED BY <1>4, <2>4
<1> QED BY <1>5

LEMMA SettingsShape ==
    ASSUME NEW c \in Settings
    PROVE  /\ c.default \in Names /\ c.repos \in Seq(Repos) /\ Len(c.repos) \in Nat
           /\ DOMAIN c.repos = 1..Len(c.repos) /\ IsFiniteSet(DOMAIN c.repos)
           /\ \A k \in DOMAIN c.repos :
                  c.repos[k] \in Repos /\ c.repos[k].name \in Names /\ c.repos[k].priority \in Int
           /\ c.repos \in [DOMAIN c.repos -> Repos]
<1>1. c.default \in Names /\ c.repos \in Seq(Repos)
  BY DEF Settings
<1>2. Len(c.repos) \in Nat /\ DOMAIN c.repos = 1..Len(c.repos) /\ c.repos \in [DOMAIN c.repos -> Repos]
  BY <1>1
<1>3. IsFiniteSet(DOMAIN c.repos)
  BY <1>2, FS_Interval
<1>4. \A k \in DOMAIN c.repos :
          c.repos[k] \in Repos /\ c.repos[k].name \in Names /\ c.repos[k].priority \in Int
  BY <1>2 DEF Repos
<1> QED BY <1>1, <1>2, <1>3, <1>4

\* The names are as many as the repositories.
LEMMA WholeApart == ASSUME NEW c \in Settings, Apart(c) PROVE R!Whole(c)
<1> DEFINE n == Len(c.repos)
           f == [k \in 1..n |-> c.repos[k].name]
<1>1. n \in Nat /\ DOMAIN c.repos = 1..n
  BY SettingsShape
<1>2. f \in Bijection(1..n, R!NamesOf(c))
  BY <1>1 DEF Bijection, Injection, Surjection, IsInjective, R!NamesOf, Apart
<1>3. IsFiniteSet(1..n) /\ Cardinality(1..n) = n
  BY <1>1, FS_Interval
<1>4. Cardinality(R!NamesOf(c)) = n
  <2> HIDE DEF n, f
  <2> QED BY <1>2, <1>3, FS_Bijection DEF ExistsBijection
<1>5. R!Cardinality(R!NamesOf(c)) = Cardinality(R!NamesOf(c))
  BY DEF R!Cardinality, Cardinality
<1> QED BY <1>4, <1>5 DEF R!Whole

LEMMA Top ==
    ASSUME NEW c \in Settings, DOMAIN c.repos # {}
    PROVE  /\ R!Highest(c) \in Int
           /\ \E k \in DOMAIN c.repos :
                  /\ c.repos[k].priority = R!Highest(c)
                  /\ \A j \in 1..(k - 1) : c.repos[j].priority < R!Highest(c)
<1> DEFINE All == DOMAIN c.repos
           f == [k \in All |-> c.repos[k].priority]
<1>1. IsFiniteSet(All) /\ f \in [All -> Int] /\ Len(c.repos) \in Nat /\ All = 1..Len(c.repos)
  BY SettingsShape
<1>2. PICK m \in All : \A j \in All : f[j] <= f[m]
  BY <1>1, Greatest
<1>3. \E p \in {c.repos[k].priority : k \in DOMAIN c.repos} : \A k \in DOMAIN c.repos : c.repos[k].priority <= p
  BY <1>2
<1>4. /\ R!Highest(c) \in {c.repos[k].priority : k \in DOMAIN c.repos}
      /\ \A k \in DOMAIN c.repos : c.repos[k].priority <= R!Highest(c)
  BY <1>3 DEF R!Highest
<1>5. R!Highest(c) \in Int
  BY <1>4, SettingsShape
<1> DEFINE T == {k \in All : c.repos[k].priority = R!Highest(c)}
           g == [k \in All |-> - k]
<1>6. T \in SUBSET All /\ T # {} /\ g \in [All -> Int]
  BY <1>1, <1>4
<1>7. PICK k \in T : \A j \in T : g[j] <= g[k]
  <2> HIDE DEF T, g, All
  <2> QED BY <1>1, <1>6, Greatest
<1>8. ASSUME NEW j \in 1..(k - 1) PROVE c.repos[j].priority < R!Highest(c)
  <2>1. k \in 1..Len(c.repos) /\ j \in All /\ j < k /\ j \in Int /\ k \in Int
    BY <1>1, <1>8
  <2>2. ~ (- j <= - k)
    BY <2>1
  <2>3. j \notin T
    BY <1>7, <2>1, <2>2
  <2>4. c.repos[j].priority <= R!Highest(c) /\ c.repos[j].priority # R!Highest(c)
    BY <1>4, <2>1, <2>3
  <2>5. c.repos[j].priority \in Int
    BY <2>1, SettingsShape
  <2> QED BY <1>5, <2>4, <2>5
<1> QED BY <1>5, <1>7, <1>8

\* What an operation makes of a configuration.
Better(c, d) == d \in Settings /\ Apart(d) /\ (R!Named(c) => R!Named(d))

LEMMA SameNames ==
    ASSUME NEW c \in Settings, Apart(c), NEW d \in Settings, DOMAIN d.repos = DOMAIN c.repos,
           \A k \in DOMAIN c.repos : d.repos[k].name = c.repos[k].name
    PROVE  Apart(d) /\ R!NamesOf(d) = R!NamesOf(c)
  BY DEF Apart, R!NamesOf

LEMMA IndexNamed ==
    ASSUME NEW c \in Settings, NEW n \in R!NamesOf(c)
    PROVE  R!Index(c, n) \in DOMAIN c.repos /\ c.repos[R!Index(c, n)].name = n
<1>1. \E k \in DOMAIN c.repos : c.repos[k].name = n
  BY DEF R!NamesOf
<1> QED BY <1>1 DEF R!Index

LEMMA AddBetter ==
    ASSUME NEW c \in Settings, Apart(c), NEW o, o.name \in Names, o.url \in Urls \union {None},
           R!AddRepo(c, o) # None
    PROVE  Better(c, R!AddRepo(c, o))
<1> DEFINE r == R!New(o.name, o.url, 0)
           d == R!AddRepo(c, o)
           n == Len(c.repos)
<1>0. o.url \in Urls /\ o.name \notin R!NamesOf(c)
  BY DEF R!AddRepo
<1>1. r \in Repos /\ r.name = o.name
  BY <1>0 DEF R!New, Repos
<1>2. d = [c EXCEPT !.repos = Append(c.repos, r)]
  BY <1>0 DEF R!AddRepo
<1>3. n \in Nat /\ c.repos \in Seq(Repos) /\ DOMAIN c.repos = 1..n
  BY SettingsShape
<1>4. Append(c.repos, r) \in Seq(Repos) /\ Len(Append(c.repos, r)) = n + 1
      /\ \A k \in 1..n : Append(c.repos, r)[k] = c.repos[k]
      /\ Append(c.repos, r)[n + 1] = r
  <2> HIDE DEF r
  <2> QED BY <1>1, <1>3
<1>5. d \in Settings /\ d.repos = Append(c.repos, r) /\ d.default = c.default
  <2> HIDE DEF r, d
  <2> QED BY <1>2, <1>4 DEF Settings
<1>6. DOMAIN d.repos = 1..(n + 1)
  <2> HIDE DEF r, d
  <2> QED BY <1>3, <1>4, <1>5
<1>7. \A k \in 1..n : d.repos[k] = c.repos[k] /\ d.repos[k].name # o.name
  <2>1. \A k \in 1..n : c.repos[k].name # o.name
    BY <1>0, <1>3 DEF R!NamesOf
  <2> HIDE DEF r, d
  <2> QED BY <1>4, <1>5, <2>1
<1>8. d.repos[n + 1].name = o.name /\ \A k \in 1..(n + 1) : k = n + 1 \/ k \in 1..n
  <2> HIDE DEF r, d
  <2> QED BY <1>1, <1>3, <1>4, <1>5
<1>9. Apart(d)
  <2> HIDE DEF r, d
  <2> QED BY <1>3, <1>6, <1>7, <1>8 DEF Apart
<1>10. R!Named(c) => R!Named(d)
  <2>1. \A k \in 1..n : k \in 1..(n + 1)
    BY <1>3
  <2> HIDE DEF r, d
  <2> QED BY <1>3, <1>5, <1>6, <1>7, <2>1 DEF R!Named, R!NamesOf
<1> QED BY <1>5, <1>9, <1>10 DEF Better

\* One repository is changed, but not its name.
LEMMA ChangeBetter ==
    ASSUME NEW c \in Settings, Apart(c), NEW k \in DOMAIN c.repos, NEW r \in Repos,
           r.name = c.repos[k].name, NEW n \in Names, n = c.default \/ n \in R!NamesOf(c),
           NEW d, d = [c EXCEPT !.default = n, !.repos = [c.repos EXCEPT ![k] = r]]
    PROVE  Better(c, d)
<1>1. d \in Settings /\ d.repos = [c.repos EXCEPT ![k] = r] /\ d.default = n
  <2>1. [c.repos EXCEPT ![k] = r] \in Seq(Repos)
    BY SettingsShape
  <2> QED BY <2>1 DEF Settings
<1>2. DOMAIN d.repos = DOMAIN c.repos
  BY <1>1
<1>3. \A j \in DOMAIN c.repos : d.repos[j].name = c.repos[j].name
  BY <1>1
<1>4. Apart(d) /\ R!NamesOf(d) = R!NamesOf(c)
  BY <1>1, <1>2, <1>3, SameNames
<1> QED BY <1>1, <1>4 DEF Better, R!Named

LEMMA RemoveBetter ==
    ASSUME NEW c \in Settings, Apart(c), NEW o, o.name \in R!NamesOf(c), R!RemoveRepo(c, o) # None
    PROVE  Better(c, R!RemoveRepo(c, o))
<1> DEFINE i == R!Index(c, o.name)
           n == Len(c.repos)
           s == R!RemoveAt(c.repos, i)
           left == [c EXCEPT !.repos = s]
           d == R!RemoveRepo(c, o)
<1>0. /\ n \in Nat /\ DOMAIN c.repos = 1..n /\ i \in 1..n /\ c.repos[i].name = o.name
      /\ c.repos \in Seq(Repos)
  BY SettingsShape, IndexNamed
<1>1. n > 1
  <2>1. n # 1
    BY DEF R!RemoveRepo
  <2> HIDE DEF i, n
  <2> QED BY <1>0, <2>1
<1>2. /\ s \in Seq(Repos) /\ Len(s) = n - 1
      /\ \A k \in 1..(n - 1) : s[k] = IF k < i THEN c.repos[k] ELSE c.repos[k + 1]
  <2> DEFINE a == SubSeq(c.repos, 1, i - 1)
             b == SubSeq(c.repos, i + 1, n)
  <2>1. s = a \o b
    BY DEF R!RemoveAt
  <2>2. a \in Seq(Repos) /\ Len(a) = i - 1 /\ \A k \in 1..(i - 1) : a[k] = c.repos[k]
    <3> HIDE DEF i, n
    <3> QED BY <1>0
  <2>3. b \in Seq(Repos) /\ Len(b) = n - i /\ \A k \in 1..(n - i) : b[k] = c.repos[k + i]
    <3> HIDE DEF i
    <3> QED BY <1>0
  <2> HIDE DEF a, b, s, i, n
  <2>4. Len(s) = n - 1 /\ s \in Seq(Repos)
    <3>1. s \in Seq(Repos) /\ Len(s) = Len(a) + Len(b)
      <4>1. a \in Seq(Repos) /\ b \in Seq(Repos)
        BY <2>2, <2>3
      <4> QED BY <2>1, <4>1
    <3>2. (i - 1) + (n - i) = n - 1
      BY <1>0
    <3> QED BY <2>2, <2>3, <3>1, <3>2
  <2>5. ASSUME NEW k \in 1..(n - 1) PROVE s[k] = IF k < i THEN c.repos[k] ELSE c.repos[k + 1]
    <3>1. CASE k < i
      <4>1. k \in 1..(i - 1)
        BY <1>0, <3>1
      <4>2. s[k] = a[k]
        BY <2>1, <2>2, <2>3, <4>1
      <4> QED BY <2>2, <3>1, <4>1, <4>2
    <3>2. CASE ~ k < i
      <4>1. k - (i - 1) \in 1..(n - i) /\ (k - (i - 1)) + i = k + 1
        BY <1>0, <3>2
      <4>2. s[k] = b[k - (i - 1)]
        BY <1>0, <2>1, <2>2, <2>3, <3>2
      <4> QED BY <2>3, <3>2, <4>1, <4>2
    <3> QED BY <3>1, <3>2
  <2> QED BY <2>4, <2>5
<1>3. left \in Settings /\ left.repos = s /\ left.default = c.default
  <2> HIDE DEF s
  <2> QED BY <1>2 DEF Settings
<1>4. DOMAIN left.repos = 1..(n - 1)
  <2> HIDE DEF s, left
  <2> QED BY <1>2, <1>3
<1>5. Apart(left)
  <2> DEFINE from(k) == IF k < i THEN k ELSE k + 1
  <2>1. ASSUME NEW j \in 1..(n - 1), NEW k \in 1..(n - 1), from(j) = from(k) PROVE j = k
    <3> HIDE DEF i, n
    <3> QED BY <1>0, <2>1
  <2>2. ASSUME NEW k \in 1..(n - 1) PROVE from(k) \in 1..n /\ s[k] = c.repos[from(k)]
    <3> HIDE DEF i, n, s
    <3> QED BY <1>0, <1>2
  <2> HIDE DEF from, s, left, n, i
  <2> QED BY <1>0, <1>3, <1>4, <2>1, <2>2 DEF Apart
<1>6. CASE c.default # o.name
  <2>1. d = left
    BY <1>1, <1>6 DEF R!RemoveRepo
  <2>2. ASSUME R!Named(c) PROVE R!Named(left)
    <3>1. PICK k \in 1..n : c.repos[k].name = c.default
      BY <1>0, <2>2 DEF R!Named, R!NamesOf
    <3>2. k # i
      BY <1>0, <1>6, <3>1
    <3>3. \E j \in 1..(n - 1) : s[j] = c.repos[k]
      <4> HIDE DEF i, n, s
      <4>1. CASE k < i
        <5>1. k \in 1..(n - 1)
          BY <1>0, <4>1
        <5> QED BY <1>2, <4>1, <5>1
      <4>2. CASE ~ k < i
        <5>1. k - 1 \in 1..(n - 1) /\ ~ (k - 1 < i) /\ (k - 1) + 1 = k
          BY <1>0, <3>2, <4>2
        <5> QED BY <1>2, <5>1
      <4> QED BY <4>1, <4>2
    <3> HIDE DEF s, left, n, i
    <3> QED BY <1>3, <1>4, <3>1, <3>3 DEF R!Named, R!NamesOf
  <2> QED BY <1>3, <1>5, <2>1, <2>2 DEF Better
<1>7. CASE c.default = o.name
  <2> DEFINE first == CHOOSE k \in DOMAIN left.repos :
                          /\ left.repos[k].priority = R!Highest(left)
                          /\ \A j \in 1..(k - 1) : left.repos[j].priority < R!Highest(left)
  <2>1. d = [left EXCEPT !.default = left.repos[first].name]
    BY <1>1, <1>7 DEF R!RemoveRepo
  <2>2. DOMAIN left.repos # {}
    <3>1. 1 \in 1..(n - 1)
      <4> HIDE DEF n
      <4> QED BY <1>0, <1>1
    <3> QED BY <1>4, <3>1
  <2> HIDE DEF left
  <2>3. first \in DOMAIN left.repos
    BY <1>3, <2>2, Top
  <2>4. left.repos[first].name \in Names /\ left.repos[first].name \in R!NamesOf(left)
    <3> HIDE DEF first
    <3> QED BY <1>3, <2>3, SettingsShape DEF R!NamesOf
  <2> HIDE DEF first, d
  <2>5. d \in Settings /\ d.repos = left.repos /\ d.default = left.repos[first].name
    BY <1>3, <2>1, <2>4 DEF Settings
  <2>6. Apart(d) /\ R!Named(d)
    BY <1>5, <2>4, <2>5 DEF Apart, R!Named, R!NamesOf
  <2> QED BY <2>5, <2>6 DEF Better, d
<1> QED BY <1>6, <1>7

\* No operation makes a sound configuration unsound.
LEMMA ApplyBetter ==
    ASSUME NEW c \in Settings, Apart(c), NEW o \in R!Operations, R!Apply(c, o) # None
    PROVE  Better(c, R!Apply(c, o))
<1> DEFINE k == R!Index(c, o.name)
           r == c.repos[k]
<1>0. o.name \in Names
  BY DEF R!Operations
<1>1. CASE o.do = "add"
  <2>1. o.url \in Urls \union {None}
    BY <1>1 DEF R!Operations
  <2>2. R!Apply(c, o) = R!AddRepo(c, o)
    BY <1>1 DEF R!Apply
  <2> QED BY <1>0, <2>1, <2>2, AddBetter
<1>2. ASSUME o.do # "add" PROVE Better(c, R!Apply(c, o))
  <2>0. o.name \in R!NamesOf(c)
    BY <1>2 DEF R!Apply
  <2>1. k \in DOMAIN c.repos /\ r.name = o.name /\ r \in Repos
    BY <2>0, IndexNamed, SettingsShape
  <2>2. o.do \in {"remove", "update", "default", "enable", "disable", "priority"}
    BY <1>2 DEF R!Operations
  <2>3. CASE o.do = "remove"
    <3>1. R!Apply(c, o) = R!RemoveRepo(c, o)
      BY <2>0, <2>3 DEF R!Apply
    <3> QED BY <2>0, <3>1, RemoveBetter
  <2>4. CASE o.do = "default"
    <3>1. R!Apply(c, o) = R!SetDefault(c, o)
      BY <2>0, <2>4 DEF R!Apply
    <3> DEFINE q == [r EXCEPT !.priority = R!Highest(c) + Step]
    <3>2. R!SetDefault(c, o) = [c EXCEPT !.default = o.name, !.repos = [c.repos EXCEPT ![k] = q]]
      <4>1. c.default # o.name
        BY <3>1 DEF R!SetDefault
      <4> QED BY <4>1, <2>1 DEF R!SetDefault, Settings
    <3>3. R!Highest(c) + Step \in Int
      <4>1. R!Highest(c) \in Int
        BY <2>1, Top
      <4> QED BY <4>1, EditAssumption
    <3>4. q \in Repos /\ q.name = r.name
      <4> HIDE DEF r
      <4> QED BY <2>1, <3>3 DEF Repos
    <3> HIDE DEF q
    <3> QED BY <1>0, <2>0, <2>1, <3>1, <3>2, <3>4, ChangeBetter
  <2>5. ASSUME NEW q \in Repos, q.name = r.name, NEW d, d = [c EXCEPT !.repos = [c.repos EXCEPT ![k] = q]]
        PROVE  Better(c, d)
    <3>1. d = [c EXCEPT !.default = c.default, !.repos = [c.repos EXCEPT ![k] = q]]
      BY <2>5 DEF Settings
    <3> QED BY <2>1, <2>5, <3>1, SettingsShape, ChangeBetter
  <2>6. CASE o.do = "update"
    <3> DEFINE q == [r EXCEPT !.url = o.url]
    <3>1. o.url # None
      BY <2>0, <2>6 DEF R!Apply
    <3>2. R!Apply(c, o) = [c EXCEPT !.repos = [c.repos EXCEPT ![k] = q]]
      BY <2>0, <2>1, <2>6, <3>1 DEF R!Apply, Settings
    <3>3. o.url \in Urls
      BY <2>6, <3>1 DEF R!Operations
    <3>4. q \in Repos /\ q.name = r.name
      <4> HIDE DEF r
      <4> QED BY <2>1, <3>3 DEF Repos
    <3> HIDE DEF q
    <3> QED BY <2>5, <3>2, <3>4
  <2>7. CASE o.do \in {"enable", "disable"}
    <3> DEFINE m == IF o.do = "enable" THEN "on" ELSE "off"
               q == [r EXCEPT !.mirror = m]
    <3>2. R!Apply(c, o) = [c EXCEPT !.repos = [c.repos EXCEPT ![k] = q]]
      BY <2>0, <2>1, <2>7 DEF R!Apply, Settings
    <3>4. q \in Repos /\ q.name = r.name
      <4> HIDE DEF r
      <4> QED BY <2>1 DEF Repos
    <3> HIDE DEF q
    <3> QED BY <2>5, <3>2, <3>4
  <2>8. CASE o.do = "priority"
    <3> DEFINE q == [r EXCEPT !.priority = o.value]
    <3>2. R!Apply(c, o) = [c EXCEPT !.repos = [c.repos EXCEPT ![k] = q]]
      BY <2>0, <2>1, <2>8 DEF R!Apply, Settings
    <3>3. o.value \in Int
      BY <2>8, EditAssumption DEF R!Operations
    <3>4. q \in Repos /\ q.name = r.name
      <4> HIDE DEF r
      <4> QED BY <2>1, <3>3 DEF Repos
    <3> HIDE DEF q
    <3> QED BY <2>5, <3>2, <3>4
  <2> QED BY <2>2, <2>3, <2>4, <2>6, <2>7, <2>8
<1> QED BY <1>1, <1>2

\* A configuration of the old format is a sound one.
LEMMA ConvertedSound ==
    ASSUME NEW S \in SUBSET Names, S # {}, NEW n \in Names, NEW u \in Urls
    PROVE  R!Converted(S, n, u) \in Settings /\ Apart(R!Converted(S, n, u))
<1> DEFINE rest == S \ {n}
           m == Cardinality(rest)
           g == R!SetToSeq(rest)
           f == IF n \in S THEN <<n>> ELSE <<>>
           order == f \o g
<1>1. IsFiniteSet(rest) /\ m \in Nat /\ ExistsBijection(1..m, rest)
  <2>1. IsFiniteSet(rest)
    BY EditAssumption, FS_Subset
  <2> HIDE DEF rest
  <2> QED BY <2>1, FS_CardinalityType
<1>2. g \in [1..m -> rest] /\ \A i, j \in 1..m : g[i] = g[j] => i = j
  <2>1. R!Cardinality(rest) = m
    BY DEF R!Cardinality, Cardinality
  <2> HIDE DEF rest, m
  <2>2. \E h \in [1..m -> rest] : R!IsInjective(h)
    BY <1>1 DEF ExistsBijection, Bijection, Injection, IsInjective, R!IsInjective
  <2>3. g = CHOOSE h \in [1..m -> rest] : R!IsInjective(h)
    BY <2>1 DEF R!SetToSeq
  <2>4. g \in [1..m -> rest] /\ R!IsInjective(g)
    BY <2>2, <2>3
  <2> QED BY <2>4 DEF R!IsInjective
<1>3. g \in Seq(Names) /\ f \in Seq(Names)
  <2> HIDE DEF m, g
  <2> QED BY <1>1, <1>2
<1>4. /\ order \in Seq(Names) /\ Len(order) \in Nat /\ DOMAIN order = 1..Len(order)
      /\ \A i, j \in 1..Len(order) : order[i] = order[j] => i = j
  <2>1. g \in Seq(Names) /\ (\A k \in 1..Len(g) : g[k] # n) /\ \A i, j \in 1..Len(g) : g[i] = g[j] => i = j
    <3>1. 1..Len(g) = 1..m
      <4> HIDE DEF g, m
      <4> QED BY <1>1, <1>2
    <3>2. \A k \in 1..m : g[k] \in rest
      <4> HIDE DEF g, m, rest
      <4> QED BY <1>2
    <3>3. \A k \in 1..m : g[k] # n
      BY <3>2
    <3> HIDE DEF g, m, rest
    <3> QED BY <1>2, <1>3, <3>1, <3>3
  <2>2. CASE n \notin S
    <3>1. order = <<>> \o g
      BY <2>2
    <3> HIDE DEF g, order
    <3> QED BY <2>1, <3>1
  <2>3. CASE n \in S
    <3>1. order = <<n>> \o g
      BY <2>3
    <3> HIDE DEF g, order
    <3>2. /\ order \in Seq(Names) /\ Len(g) \in Nat /\ Len(order) = Len(g) + 1
          /\ order[1] = n /\ \A k \in 1..Len(g) : order[k + 1] = g[k]
      BY <2>1, <3>1
    <3>3. ASSUME NEW i \in 1..Len(order), i # 1 PROVE i - 1 \in 1..Len(g) /\ order[i] = g[i - 1]
      <4>1. i - 1 \in 1..Len(g) /\ (i - 1) + 1 = i
        BY <3>2, <3>3
      <4> QED BY <3>2, <4>1
    <3>4. ASSUME NEW i \in 1..Len(order), NEW j \in 1..Len(order), order[i] = order[j] PROVE i = j
      <4>0. \A k \in 1..Len(order) : k # 1 => order[k] # n
        BY <2>1, <3>3
      <4>1. CASE i = 1 \/ j = 1
        BY <3>2, <3>4, <4>0, <4>1
      <4>2. CASE i # 1 /\ j # 1
        <5>1. i - 1 = j - 1
          BY <2>1, <3>3, <3>4, <4>2
        <5> QED BY <5>1
      <4> QED BY <4>1, <4>2
    <3>5. Len(order) \in Nat /\ DOMAIN order = 1..Len(order)
      BY <3>2
    <3> QED BY <3>2, <3>4, <3>5
  <2> QED BY <2>2, <2>3
<1> HIDE DEF f, g
<1> DEFINE c == R!Converted(S, n, u)
           s == [k \in 1..Len(order) |-> R!New(order[k], u, -(Step * (k - 1)))]
<1>5. c = [default |-> n, repos |-> s]
  BY <1>4 DEF R!Converted, f, g
<1> HIDE DEF order
<1>6. ASSUME NEW k \in 1..Len(order)
      PROVE  s[k] \in Repos /\ s[k].name = order[k]
  <2>1. order[k] \in Names
    BY <1>4
  <2>2. -(Step * (k - 1)) \in Int
    <3>1. k - 1 \in Int /\ Step \in Int
      BY <1>4, EditAssumption
    <3> QED BY <3>1
  <2> QED BY <2>1, <2>2 DEF R!New, Repos
<1>7. s \in Seq(Repos) /\ DOMAIN s = 1..Len(order)
  <2>1. s \in [1..Len(order) -> Repos]
    BY <1>6
  <2> HIDE DEF s
  <2> QED BY <1>4, <2>1
<1> HIDE DEF s, c
<1>8. c \in Settings /\ c.repos = s
  BY <1>5, <1>7 DEF Settings
<1> QED BY <1>4, <1>6, <1>7, <1>8 DEF Apart, c

LEMMA EditsInit == RepositoriesInit => EditsInv
<1> SUFFICES ASSUME RepositoriesInit PROVE EditsInv
  OBVIOUS
<1>1. PICK S \in (SUBSET Names) \ {{}}, n \in Names, u \in Urls : rFile = R!Converted(S, n, u)
  BY DEF RepositoriesInit, R!Init
<1>2. rFile \in Settings /\ Apart(rFile)
  <2>1. S \in SUBSET Names /\ S # {}
    OBVIOUS
  <2>2. R!Converted(S, n, u) \in Settings /\ Apart(R!Converted(S, n, u))
    BY <2>1, ConvertedSound
  <2> QED BY <1>1, <2>2
<1>3. /\ memory = rFile /\ served = rFile /\ expected = rFile /\ rCli = [c \in Clients |-> R!Idle]
      /\ spoiled = FALSE
  BY DEF RepositoriesInit, R!Init
<1>4. R!Idle \in Sessions /\ R!Idle.pc = "idle"
  BY DEF R!Idle, Sessions
<1>5. \A c \in Clients : ~ Editing(c)
  BY <1>3, <1>4 DEF Editing
<1>6. EditTypes
  <2>1. rCli \in [Clients -> Sessions]
    BY <1>3, <1>4
  <2> QED BY <1>2, <1>3, <2>1 DEF EditTypes
<1>7. Sent /\ Single /\ Serving /\ Following
  BY <1>3, <1>5 DEF Sent, Single, Serving, Following, Settled, Kept
<1> QED BY <1>6, <1>7 DEF EditsInv

Underway == {"set", "saving", "saved", "restoring", "publish"}

LEMMA SessionGoes ==
    ASSUME NEW s \in Sessions, NEW to \in Underway, NEW t, t = [s EXCEPT !.pc = to]
    PROVE  t \in Sessions /\ t.pc = to /\ t.own = s.own /\ t.old = s.old /\ t.new = s.new
  BY DEF Sessions, Underway

LEMMA IdleSession == R!Idle \in Sessions /\ R!Idle.pc = "idle"
  BY DEF R!Idle, Sessions

\* A command goes on, or is done: what it read and sends stays as it is.
LEMMA CommandGoes ==
    ASSUME EditsInv, NEW c \in Clients, Editing(c), UNCHANGED clash,
           memory # None => memory' # None, rCli[c].own => memory' = memory,
           NEW s \in Sessions, rCli' = [rCli EXCEPT ![c] = s],
           s.pc # "idle" => s.own = rCli[c].own /\ s.old = rCli[c].old /\ s.new = rCli[c].new,
           ~ clash /\ s.pc = "idle" => Settled', ~ clash /\ s.pc # "idle" => Midway(s)'
    PROVE  rCli' \in [Clients -> Sessions] /\ Sent' /\ Single' /\ Following'
<1> USE DEF EditsInv
<1>1. rCli \in [Clients -> Sessions]
  BY DEF EditTypes
<1>2. rCli' \in [Clients -> Sessions] /\ rCli'[c] = s /\ \A d \in Clients : d # c => rCli'[d] = rCli[d]
  BY <1>1
<1>3. ASSUME NEW d \in Clients, d # c PROVE Editing(d)' <=> Editing(d)
  BY <1>2, <1>3 DEF Editing
<1>4. Editing(c)' <=> s.pc # "idle"
  BY <1>2 DEF Editing
<1>5. Sent'
  <2>1. SUFFICES ASSUME NEW d \in Clients, Editing(d)'
                 PROVE  LET r == rCli'[d] IN
                        /\ r.old # None /\ r.new # None /\ Apart(r.old) /\ Apart(r.new)
                        /\ R!Named(r.old) => R!Named(r.new)
                        /\ ~ r.own => memory' # None
    BY DEF Sent, Apart, R!Named, R!NamesOf
  <2>2. LET r == rCli[d] IN
        /\ r.old # None /\ r.new # None /\ Apart(r.old) /\ Apart(r.new)
        /\ R!Named(r.old) => R!Named(r.new)
        /\ ~ r.own => memory # None
    BY <1>3, <2>1 DEF Sent
  <2>3. rCli'[d].own = rCli[d].own /\ rCli'[d].old = rCli[d].old /\ rCli'[d].new = rCli[d].new
    BY <1>2, <1>4, <2>1
  <2> QED BY <2>2, <2>3
<1>6. Single'
  <2>1. SUFFICES ASSUME ~ clash, NEW d \in Clients, Editing(d)'
                 PROVE  (\A e \in Clients : Editing(e)' => d = e) /\ (rCli'[d].own => memory' = None)
    BY DEF Single
  <2>2. \A e \in Clients : Editing(e)' => e = c
    BY <1>3, <2>1 DEF Single
  <2>3. rCli[c].own => memory = None
    BY <2>1 DEF Single
  <2>4. d = c
    BY <2>1, <2>2
  <2> QED BY <1>2, <1>4, <2>1, <2>2, <2>3, <2>4
<1>7. Following'
  <2>1. SUFFICES ASSUME ~ clash PROVE Following'
    BY DEF Following
  <2>2. \A e \in Clients : Editing(e)' => e = c
    BY <1>3, <2>1 DEF Single
  <2>3. CASE s.pc = "idle"
    <3>1. \A e \in Clients : ~ Editing(e)'
      BY <1>4, <2>2, <2>3
    <3> QED BY <2>1, <2>3, <3>1 DEF Following
  <2>4. CASE s.pc # "idle"
    <3>1. \A e \in Clients : Editing(e)' => rCli'[e] = s
      BY <1>2, <2>2
    <3> QED BY <1>4, <2>1, <2>4, <3>1 DEF Following, Midway
  <2> QED BY <2>3, <2>4
<1> QED BY <1>2, <1>5, <1>6, <1>7

LEMMA EditsInvNext == ASSUME EditsInv, [R!Next]_rVars PROVE EditsInv'
<1> USE DEF EditsInv
<1>0. CASE UNCHANGED rVars
  BY <1>0 DEF rVars, EditTypes, Sent, Single, Serving, Following, Editing, Settled, Kept, Midway,
     Apart, R!Named, R!NamesOf
\* A command begins: none was under way, unless commands overlap.
<1>1. ASSUME NEW c \in Clients, NEW o \in R!Operations, NEW own \in BOOLEAN, R!Ask(c, o, own)
      PROVE  EditsInv'
  <2> DEFINE source == IF own THEN rFile ELSE served
             made == IF source = None THEN None ELSE R!Apply(source, o)
  <2>1. source # None /\ UNCHANGED <<rFile, memory, served, expected, spoiled>> /\ rCli[c].pc = "idle"
    BY <1>1 DEF R!Ask, R!At
  <2>2. source \in Settings /\ Apart(source)
    BY <2>1 DEF EditTypes
  <2>3. Serving'
    BY <2>1 DEF Serving
  <2>4. CASE made = None
    <3>1. UNCHANGED <<rCli, clash>>
      BY <1>1, <2>4 DEF R!Ask
    <3> QED BY <2>1, <2>3, <3>1 DEF EditTypes, Sent, Single, Following, Editing, Settled, Kept, Midway,
          Apart, R!Named, R!NamesOf
  <2>5. CASE made # None
    <3>1. PICK s : s = [pc |-> "set", own |-> own, old |-> source, new |-> R!Apply(source, o)]
      OBVIOUS
    <3>2. /\ rCli' = [rCli EXCEPT ![c] = s]
          /\ clash' = (clash \/ (own /\ memory # None) \/ \E d \in Clients \ {c} : ~ R!At(d, "idle"))
      BY <1>1, <2>1, <2>5, <3>1 DEF R!Ask
    <3>3. Better(source, R!Apply(source, o)) /\ R!Apply(source, o) # None
      BY <2>1, <2>2, <2>5, ApplyBetter
    <3>4. /\ s \in Sessions /\ s.pc = "set" /\ s.own = own /\ s.old = source /\ s.new # None
          /\ Apart(s.old) /\ Apart(s.new) /\ (R!Named(s.old) => R!Named(s.new))
      BY <2>2, <3>1, <3>3 DEF Sessions, Better
    <3>5. rCli' \in [Clients -> Sessions] /\ rCli'[c] = s /\ \A d \in Clients : d # c => rCli'[d] = rCli[d]
      BY <3>2, <3>4 DEF EditTypes
    <3>6. EditTypes'
      BY <2>1, <3>5 DEF EditTypes, Apart
    <3>7. ~ own => memory # None
      BY <2>1 DEF Serving
    <3>8. Sent'
      <4>1. SUFFICES ASSUME NEW d \in Clients, Editing(d)'
                     PROVE  LET r == rCli'[d] IN
                            /\ r.old # None /\ r.new # None /\ Apart(r.old) /\ Apart(r.new)
                            /\ R!Named(r.old) => R!Named(r.new)
                            /\ ~ r.own => memory' # None
        BY DEF Sent, Apart, R!Named, R!NamesOf
      <4>2. CASE d = c
        BY <2>1, <3>4, <3>5, <3>7, <4>2
      <4>3. CASE d # c
        <5>1. Editing(d) /\ rCli'[d] = rCli[d]
          BY <3>5, <4>1, <4>3 DEF Editing
        <5> QED BY <2>1, <5>1 DEF Sent
      <4> QED BY <4>2, <4>3
    <3>9. ASSUME ~ clash' PROVE /\ ~ clash /\ (own => memory = None)
                                /\ \A d \in Clients : ~ Editing(d)
                                /\ \A d \in Clients : Editing(d)' => d = c
      BY <2>1, <3>2, <3>5, <3>9 DEF Editing, R!At
    <3>10. Single'
      BY <2>1, <3>4, <3>5, <3>9 DEF Single
    <3>11. Following'
      <4>1. SUFFICES ASSUME ~ clash' PROVE Following'
        BY DEF Following
      <4>2. Settled /\ Settled'
        BY <2>1, <3>9, <4>1 DEF Following, Settled, Kept
      <4>3. Editing(c)' /\ Midway(s)'
        BY <2>1, <3>4, <3>5, <4>2 DEF Editing, Midway
      <4> QED BY <3>5, <3>9, <4>1, <4>3 DEF Following, Midway
    <3> QED BY <2>3, <3>6, <3>8, <3>10, <3>11
  <2> QED BY <2>4, <2>5
\* What a command under way knows.
<1>2. ASSUME NEW c \in Clients, Editing(c)
      PROVE  /\ rCli[c] \in Sessions /\ rCli[c].new \in Settings /\ rCli[c].old \in Settings
             /\ rCli[c].new # None /\ rCli[c].old # None /\ Apart(rCli[c].new) /\ Apart(rCli[c].old)
             /\ rCli[c].own \in BOOLEAN
             /\ (~ rCli[c].own => memory # None /\ memory \in Settings /\ Apart(memory))
             /\ (~ clash => Midway(rCli[c]) /\ (rCli[c].own => memory = None))
  BY <1>2 DEF EditTypes, Sent, Sessions, Single, Following
<1>3. ASSUME NEW c \in Clients, Editing(c), UNCHANGED <<clash, served, expected>>,
             memory' = memory,
             rFile' \in Settings \union {None}, rFile' # None => Apart(rFile'), spoiled' \in BOOLEAN,
             \/ R!Back(c) /\ (~ clash => Settled')
             \/ \E to \in Underway : R!Go(c, to) /\ \A s : s = [rCli[c] EXCEPT !.pc = to] => (~ clash => Midway(s)')
      PROVE  EditsInv'
  <2>1. EditTypes' <=> rCli' \in [Clients -> Sessions]
    BY <1>3 DEF EditTypes, Apart
  <2>2. Serving'
    BY <1>3 DEF Serving
  <2>3. CASE R!Back(c) /\ (~ clash => Settled')
    <3>1. PICK s : s = R!Idle
      OBVIOUS
    <3>2. rCli' = [rCli EXCEPT ![c] = s] /\ s \in Sessions /\ s.pc = "idle"
      BY <2>3, <3>1, IdleSession DEF R!Back
    <3>3. rCli' \in [Clients -> Sessions] /\ Sent' /\ Single' /\ Following'
      BY <1>3, <2>3, <3>2, CommandGoes
    <3> QED BY <2>1, <2>2, <3>3
  <2>4. ASSUME NEW to \in Underway, R!Go(c, to),
               \A s : s = [rCli[c] EXCEPT !.pc = to] => (~ clash => Midway(s)')
        PROVE  EditsInv'
    <3>1. PICK s : s = [rCli[c] EXCEPT !.pc = to]
      OBVIOUS
    <3>2. rCli' = [rCli EXCEPT ![c] = s]
      BY <2>4, <3>1 DEF R!Go, EditTypes
    <3>3. /\ s \in Sessions /\ s.pc = to /\ s.pc # "idle" /\ s.own = rCli[c].own /\ s.old = rCli[c].old
          /\ s.new = rCli[c].new
      BY <1>2, <1>3, <3>1, SessionGoes DEF Underway
    <3>4. rCli' \in [Clients -> Sessions] /\ Sent' /\ Single' /\ Following'
      BY <1>3, <2>4, <3>1, <3>2, <3>3, CommandGoes
    <3> QED BY <2>1, <2>2, <3>4
  <2> QED BY <1>3, <2>3, <2>4
<1>4. ASSUME NEW c \in Clients, R!Set(c) PROVE EditsInv'
  <2>1. Editing(c) /\ rCli[c].pc = "set" /\ UNCHANGED <<memory, served, clash, expected, spoiled>>
    BY <1>4 DEF R!Set, R!At, Editing
  <2>2. CASE R!Named(rCli[c].new)
    <3>1. rFile' = None /\ R!Go(c, "saving") /\ "saving" \in Underway
      BY <1>4, <2>2 DEF R!Set, Underway
    <3>2. ASSUME NEW s, s = [rCli[c] EXCEPT !.pc = "saving"], ~ clash PROVE Midway(s)'
      <4>1. s.pc = "saving" /\ s.own = rCli[c].own /\ s.old = rCli[c].old
        BY <1>2, <2>1, <3>1, <3>2, SessionGoes
      <4> QED BY <1>2, <2>1, <3>1, <3>2, <4>1 DEF Midway, Settled, Kept
    <3> QED BY <1>3, <2>1, <3>1, <3>2 DEF EditTypes
  <2>3. CASE ~ R!Named(rCli[c].new)
    <3>1. UNCHANGED rFile /\ R!Back(c)
      BY <1>4, <2>3 DEF R!Set
    <3>2. ~ clash => Settled'
      BY <1>2, <2>1, <3>1 DEF Midway, Settled, Kept
    <3> QED BY <1>3, <2>1, <3>1, <3>2 DEF EditTypes
  <2> QED BY <2>2, <2>3
<1>5. ASSUME NEW c \in Clients, R!Saved(c) PROVE EditsInv'
  <2>1. /\ Editing(c) /\ rCli[c].pc = "saving" /\ UNCHANGED <<memory, served, clash, expected, spoiled>>
        /\ rFile' = rCli[c].new /\ R!Go(c, "saved") /\ "saved" \in Underway
    BY <1>5 DEF R!Saved, R!At, Editing, Underway
  <2>2. ASSUME NEW s, s = [rCli[c] EXCEPT !.pc = "saved"], ~ clash PROVE Midway(s)'
    <3>1. s.pc = "saved" /\ s.own = rCli[c].own /\ s.old = rCli[c].old /\ s.new = rCli[c].new
      BY <1>2, <2>1, <2>2, SessionGoes
    <3> QED BY <1>2, <2>1, <2>2, <3>1 DEF Midway, Kept
  <2> QED BY <1>2, <1>3, <2>1, <2>2 DEF EditTypes
<1>6. ASSUME NEW c \in Clients, R!SaveFails(c) PROVE EditsInv'
  <2>1. /\ Editing(c) /\ rCli[c].pc = "saving" /\ UNCHANGED <<rFile, memory, served, clash, expected>>
        /\ spoiled' = TRUE /\ R!Back(c)
    BY <1>6 DEF R!SaveFails, R!At, Editing
  <2>2. ~ clash => Settled'
    BY <1>2, <2>1 DEF Midway, Settled, Kept
  <2> QED BY <1>3, <2>1, <2>2 DEF EditTypes
<1>7. ASSUME NEW c \in Clients, R!CacheWritten(c) PROVE EditsInv'
  <2>1. /\ Editing(c) /\ rCli[c].pc = "saved" /\ UNCHANGED <<rFile, served, clash, expected, spoiled>>
        /\ memory' = (IF rCli[c].own THEN memory ELSE rCli[c].new) /\ R!Go(c, "publish")
    BY <1>7 DEF R!CacheWritten, R!At, Editing
  <2>2. PICK s : s = [rCli[c] EXCEPT !.pc = "publish"]
    OBVIOUS
  <2>3. /\ rCli' = [rCli EXCEPT ![c] = s] /\ s \in Sessions /\ s.pc = "publish"
        /\ s.own = rCli[c].own /\ s.old = rCli[c].old /\ s.new = rCli[c].new
    BY <1>2, <2>1, <2>2, SessionGoes DEF R!Go, EditTypes, Underway
  <2>4. ~ clash => Midway(s)'
    BY <1>2, <2>1, <2>3 DEF Midway
  <2>5. memory # None => memory' # None
    BY <1>2, <2>1
  <2>6. rCli' \in [Clients -> Sessions] /\ Sent' /\ Single' /\ Following'
    BY <2>1, <2>3, <2>4, <2>5, CommandGoes
  <2>7. EditTypes'
    BY <1>2, <2>1, <2>6 DEF EditTypes, Apart
  <2>8. Serving'
    BY <1>2, <2>1 DEF Serving
  <2> QED BY <2>6, <2>7, <2>8
<1>8. ASSUME NEW c \in Clients, R!CacheFails(c) PROVE EditsInv'
  <2> DEFINE old == IF rCli[c].own THEN rCli[c].old ELSE memory
  <2>1. Editing(c) /\ rCli[c].pc = "saved" /\ UNCHANGED <<memory, served, clash, expected>>
    BY <1>8 DEF R!CacheFails, R!At, Editing
  <2>2. CASE R!Named(old)
    <3>1. rFile' = None /\ R!Go(c, "restoring") /\ "restoring" \in Underway /\ UNCHANGED spoiled
      BY <1>8, <2>2 DEF R!CacheFails, Underway
    <3>2. ASSUME NEW s, s = [rCli[c] EXCEPT !.pc = "restoring"], ~ clash PROVE Midway(s)'
      <4>1. s.pc = "restoring" /\ s.own = rCli[c].own /\ s.old = rCli[c].old
        BY <1>2, <2>1, <3>1, <3>2, SessionGoes
      <4> QED BY <1>2, <2>1, <3>1, <3>2, <4>1 DEF Midway, Kept
    <3> QED BY <1>3, <2>1, <3>1, <3>2 DEF EditTypes
  <2>3. CASE ~ R!Named(old)
    <3>1. UNCHANGED rFile /\ R!Back(c) /\ spoiled' = TRUE
      BY <1>8, <2>3 DEF R!CacheFails
    <3>2. ~ clash => Settled'
      BY <1>2, <2>1, <3>1 DEF Midway, Settled, Kept
    <3> QED BY <1>3, <2>1, <3>1, <3>2 DEF EditTypes
  <2> QED BY <2>2, <2>3
<1>9. ASSUME NEW c \in Clients, R!Restored(c) PROVE EditsInv'
  <2>1. /\ Editing(c) /\ rCli[c].pc = "restoring" /\ UNCHANGED <<memory, served, clash, expected, spoiled>>
        /\ rFile' = (IF rCli[c].own THEN rCli[c].old ELSE memory) /\ R!Back(c)
    BY <1>9 DEF R!Restored, R!At, Editing
  <2>2. ~ clash => Settled'
    BY <1>2, <2>1 DEF Midway, Settled, Kept
  <2>3. rFile' \in Settings /\ Apart(rFile')
    BY <1>2, <2>1
  <2> QED BY <1>3, <2>1, <2>2, <2>3 DEF EditTypes
<1>10. ASSUME NEW c \in Clients, R!Publish(c) PROVE EditsInv'
  <2>1. /\ Editing(c) /\ rCli[c].pc = "publish" /\ UNCHANGED <<rFile, memory, clash, spoiled>>
        /\ served' = (IF rCli[c].own THEN served ELSE rCli[c].new) /\ expected' = rCli[c].new /\ R!Back(c)
    BY <1>10 DEF R!Publish, R!At, Editing
  <2>2. PICK s : s = R!Idle
    OBVIOUS
  <2>3. rCli' = [rCli EXCEPT ![c] = s] /\ s \in Sessions /\ s.pc = "idle"
    BY <2>1, <2>2, IdleSession DEF R!Back
  <2>4. ~ clash => Settled'
    BY <1>2, <2>1 DEF Midway, Settled, Kept
  <2>5. rCli' \in [Clients -> Sessions] /\ Sent' /\ Single' /\ Following'
    BY <2>1, <2>3, <2>4, CommandGoes
  <2>6. EditTypes'
    BY <1>2, <2>1, <2>5 DEF EditTypes, Apart
  <2>7. Serving'
    BY <1>2, <2>1 DEF Serving
  <2> QED BY <2>5, <2>6, <2>7
<1>11. CASE R!Killed
  <2>1. /\ memory # None /\ memory' = None /\ served' = None /\ UNCHANGED <<rFile, spoiled>>
        /\ rCli' = [c \in Clients |-> IF rCli[c].own THEN rCli[c] ELSE R!Idle]
        /\ expected' = IF rFile = None THEN expected ELSE rFile
        /\ clash' = (clash \/ \E c \in Clients : rCli[c].own)
    BY <1>11 DEF R!Killed
  <2>2. EditTypes'
    BY <2>1, IdleSession DEF EditTypes, Apart
  <2>3. ASSUME NEW c \in Clients, Editing(c)' PROVE Editing(c) /\ rCli'[c] = rCli[c] /\ rCli[c].own
    BY <2>1, <2>3, IdleSession DEF Editing, EditTypes, Sessions
  <2>4. Sent'
    <3>1. SUFFICES ASSUME NEW d \in Clients, Editing(d)'
                   PROVE  LET r == rCli'[d] IN
                          /\ r.old # None /\ r.new # None /\ Apart(r.old) /\ Apart(r.new)
                          /\ R!Named(r.old) => R!Named(r.new)
                          /\ ~ r.own => memory' # None
      BY DEF Sent, Apart, R!Named, R!NamesOf
    <3> QED BY <2>3, <3>1 DEF Sent
  <2>5. Serving'
    BY <2>1 DEF Serving
  <2>6. ~ clash' => \A c \in Clients : ~ Editing(c)'
    BY <2>1, <2>3
  <2>7. Single'
    BY <2>6 DEF Single
  <2>8. Settled'
    BY <2>1 DEF Settled, Kept
  <2> QED BY <2>2, <2>4, <2>5, <2>6, <2>7, <2>8 DEF Following
<1>12. CASE R!Restart
  <2>1. /\ memory = None /\ rFile # None /\ memory' = rFile /\ served' = rFile
        /\ clash' = (clash \/ \E c \in Clients : rCli[c].own)
        /\ expected' = (IF spoiled THEN rFile ELSE expected) /\ UNCHANGED <<rFile, rCli, spoiled>>
    BY <1>12 DEF R!Restart
  <2>2. EditTypes'
    BY <2>1 DEF EditTypes, Apart
  <2>3. Sent'
    BY <2>1 DEF Sent, Editing, Apart, R!Named, R!NamesOf
  <2>4. ~ clash' => ~ clash /\ \A c \in Clients : ~ Editing(c)
    BY <1>2, <2>1
  <2>5. Single' /\ Serving'
    BY <2>1, <2>4 DEF Single, Editing, Serving
  <2>6. Following'
    BY <2>1, <2>2, <2>4 DEF Following, Editing, Settled, Kept, EditTypes
  <2> QED BY <2>2, <2>3, <2>5, <2>6
<1> QED BY <1>0, <1>1, <1>4, <1>5, <1>6, <1>7, <1>8, <1>9, <1>10, <1>11, <1>12 DEF R!Next

\* The edits of the repositories that succeeded are all there, one after the
\* other, and no two edits make of a sound configuration an unsound one, but
\* where commands overlap or the file cannot be written (local.rs,
\* update_config; repo_command.rs; the daemon's setter).
THEOREM EditsKeptHolds == RepositoriesSpec => []EditsKept
<1>1. EditsInv /\ [RepositoriesNext]_repositoryVars => EditsInv'
  BY ConfigRuns, EditsInvNext
<1>2. EditsInv => EditsKept
  <2>1. SUFFICES ASSUME EditsInv PROVE R!ConfigSound /\ R!EditsKept
    BY DEF EditsKept
  <2>2. \A f \in {rFile, memory, served} : f # None => R!Whole(f)
    BY <2>1, WholeApart DEF EditsInv, EditTypes
  <2>3. \A c \in Clients : ~ R!At(c, "idle") => Editing(c)
    BY DEF R!At, Editing
  <2>4. ASSUME NEW c \in Clients, Editing(c)
        PROVE  R!Whole(rCli[c].new) /\ (R!Named(rCli[c].old) => R!Named(rCli[c].new))
    <3>1. /\ rCli[c].new \in Settings /\ Apart(rCli[c].new)
          /\ (R!Named(rCli[c].old) => R!Named(rCli[c].new))
      BY <2>1, <2>4 DEF EditsInv, EditTypes, Sent, Sessions
    <3> QED BY <3>1, WholeApart
  <2>5. R!ConfigSound
    BY <2>2, <2>3, <2>4 DEF R!ConfigSound
  <2> QED BY <2>1, <2>5 DEF R!EditsKept, EditsInv, Following, Settled, Kept, R!At, Editing
<1> QED BY <1>1, <1>2, EditsInit, PTL DEF RepositoriesSpec

----------------------------------------------------------------------------
(* Sets, numbers and folds.                                                *)

\* A family of subsets of a finite set has a member that no other is part of.
LEMMA MinimalSet ==
  ASSUME NEW S, IsFiniteSet(S), NEW C, C \subseteq SUBSET S, C # {}
  PROVE  \E T \in C : \A U \in C : U \subseteq T => U = T
<1>1. IsWellFoundedOn(StrictSubsetOrdering(S), FiniteSubsetsOf(S))
  BY FS_StrictSubsetOrderingWellFounded
<1>2. C \subseteq FiniteSubsetsOf(S)
  BY FS_FiniteSubsetsOfFinite
<1>3. PICK T \in C : \A U \in C : <<U, T>> \notin StrictSubsetOrdering(S)
  <2> HIDE DEF FiniteSubsetsOf
  <2> QED BY <1>1, <1>2, WFMin
<1>4. ASSUME NEW U \in C, U \subseteq T, U # T PROVE FALSE
  <2>1. <<U, T>> \in (SUBSET S) \X (SUBSET S)
    OBVIOUS
  <2>2. <<U, T>> \in StrictSubsetOrdering(S)
    BY <2>1, <1>4 DEF StrictSubsetOrdering
  <2> QED BY <2>2, <1>3
<1> QED BY <1>4

\* The positions of a sequence have a last one.
LEMMA LastPlace ==
  ASSUME NEW n \in Nat, NEW s \in SUBSET (1..n), s # {}
  PROVE  \E x \in s : \A y \in s : x >= y
<1> DEFINE T == {n - x : x \in s}
<1>0. \A x \in s : x \in Nat /\ n - x \in Nat
  OBVIOUS
<1>1. T \subseteq Nat /\ T # {}
  BY <1>0
<1>2. PICK t \in T : \A y \in T : ~ (y < t)
  <2>1. \E t \in T : \A y \in T : <<y, t>> \notin OpToRel(<, Nat)
    <3> HIDE DEF T
    <3> QED BY <1>1, NatLessThanWellFounded, WFMin
  <2>2. PICK t \in T : \A y \in T : <<y, t>> \notin OpToRel(<, Nat)
    BY <2>1
  <2>3. ASSUME NEW y \in T, y < t PROVE FALSE
    <3>1. y \in Nat /\ t \in Nat
      BY <1>1
    <3> QED BY <3>1, <2>2, <2>3 DEF OpToRel
  <2> QED BY <2>3
<1>3. PICK x \in s : t = n - x
  OBVIOUS
<1>4. \A y \in s : n - y \in T
  OBVIOUS
<1>5. \A y \in s : ~ (n - y < n - x)
  BY <1>2, <1>3, <1>4
<1> QED BY <1>0, <1>5

\* A fold over the subsets of S has a value: pick chooses the member that is
\* taken last, and G makes the value of a set from that of the set without it.
Folds(g, S, b, pick, G) ==
    \A s \in SUBSET S : g[s] = IF s = {} THEN b ELSE G[<<s, g[s \ {pick[s]}]>>]

LEMMA FoldOnce ==
  ASSUME NEW S, IsFiniteSet(S), NEW W, NEW b, NEW pick, NEW G,
         \A s \in SUBSET S : s # {} => pick[s] \in s,
         NEW T \in SUBSET S, NEW U \in SUBSET S,
         NEW g, Folds(g, T, b, pick, G), NEW h, Folds(h, U, b, pick, G)
  PROVE  \A s \in SUBSET (T \intersect U) : g[s] = h[s]
<1> DEFINE C == {s \in SUBSET (T \intersect U) : g[s] # h[s]}
<1> SUFFICES ASSUME C # {} PROVE FALSE
  OBVIOUS
<1>1. PICK s \in C : \A u \in C : u \subseteq s => u = s
  <2>1. C \subseteq SUBSET S
    OBVIOUS
  <2> HIDE DEF C
  <2> QED BY <2>1, MinimalSet
<1>2. s \in SUBSET T /\ s \in SUBSET U /\ s \in SUBSET S
  OBVIOUS
<1>3. s # {}
  BY <1>2 DEF Folds
<1>4. pick[s] \in s
  BY <1>2, <1>3
<1>5. s \ {pick[s]} \notin C
  BY <1>1, <1>4
<1>6. g[s \ {pick[s]}] = h[s \ {pick[s]}]
  BY <1>5, <1>2
<1>7. g[s] = G[<<s, g[s \ {pick[s]}]>>] /\ h[s] = G[<<s, h[s \ {pick[s]}]>>]
  BY <1>2, <1>3 DEF Folds
<1> QED BY <1>6, <1>7

LEMMA FoldThere ==
  ASSUME NEW S, IsFiniteSet(S), NEW W, NEW b \in W, NEW pick, NEW G,
         \A s \in SUBSET S : s # {} => pick[s] \in s,
         \A s \in SUBSET S, w \in W : s # {} => G[<<s, w>>] \in W
  PROVE  \E g \in [SUBSET S -> W] : Folds(g, S, b, pick, G)
<1> DEFINE Holds(T) == \E g \in [SUBSET T -> W] : Folds(g, T, b, pick, G)
           C == {T \in SUBSET S : ~ Holds(T)}
<1> SUFFICES ASSUME C # {} PROVE FALSE
  OBVIOUS
<1>1. PICK T \in C : \A U \in C : U \subseteq T => U = T
  <2>1. C \subseteq SUBSET S
    OBVIOUS
  <2> HIDE DEF C
  <2> QED BY <2>1, MinimalSet
<1>2. \A U \in SUBSET T : U # T => Holds(U)
  BY <1>1
<1> DEFINE Of(U) == CHOOSE g : g \in [SUBSET U -> W] /\ Folds(g, U, b, pick, G)
<1>3. \A U \in SUBSET T : U # T => Of(U) \in [SUBSET U -> W] /\ Folds(Of(U), U, b, pick, G)
  BY <1>2
<1> HIDE DEF Of
<1> DEFINE Last == Of(T \ {pick[T]})
           f == [s \in SUBSET T |-> IF s # T THEN Of(s)[s]
                                    ELSE IF T = {} THEN b ELSE G[<<T, Last[T \ {pick[T]}]>>]]
<1>4. ASSUME NEW U \in SUBSET T, U # T, NEW s \in SUBSET U PROVE Of(U)[s] \in W
  <2>1. Of(U) \in [SUBSET U -> W]
    BY <1>3, <1>4
  <2> QED BY <2>1
<1>5. T # {} => Last[T \ {pick[T]}] \in W
  <2>1. T # {} => T \ {pick[T]} \in SUBSET T /\ T \ {pick[T]} # T
    OBVIOUS
  <2> QED BY <2>1, <1>4
<1>6. f \in [SUBSET T -> W]
  <2>1. \A s \in SUBSET T : f[s] \in W
    <3> SUFFICES ASSUME NEW s \in SUBSET T PROVE f[s] \in W
      OBVIOUS
    <3>1. CASE s # T
      <4>1. f[s] = Of(s)[s] /\ s \in SUBSET s
        BY <3>1
      <4> QED BY <4>1, <3>1, <1>4
    <3>2. CASE s = T
      BY <3>2, <1>5
    <3> QED BY <3>1, <3>2
  <2> QED BY <2>1
<1>7. \A s \in SUBSET T : s # {} => f[s \ {pick[s]}] = Of(s \ {pick[s]})[s \ {pick[s]}]
  <2> SUFFICES ASSUME NEW s \in SUBSET T, s # {}
               PROVE f[s \ {pick[s]}] = Of(s \ {pick[s]})[s \ {pick[s]}]
    OBVIOUS
  <2>1. pick[s] \in s /\ s \ {pick[s]} # T
    OBVIOUS
  <2> QED BY <2>1
<1>8. Folds(f, T, b, pick, G)
  <2> SUFFICES ASSUME NEW s \in SUBSET T
               PROVE f[s] = IF s = {} THEN b ELSE G[<<s, f[s \ {pick[s]}]>>]
    BY DEF Folds
  <2>1. CASE s = T
    BY <2>1, <1>7
  <2>2. CASE s # T
    <3>1. f[s] = Of(s)[s] /\ Folds(Of(s), s, b, pick, G)
      BY <2>2, <1>3
    <3>2. Of(s)[s] = IF s = {} THEN b ELSE G[<<s, Of(s)[s \ {pick[s]}]>>]
      BY <3>1 DEF Folds
    <3>3. ASSUME s # {} PROVE Of(s)[s \ {pick[s]}] = f[s \ {pick[s]}]
      <4>1. pick[s] \in s
        BY <3>3
      <4> DEFINE r == s \ {pick[s]}
      <4>2. r \in SUBSET T /\ r # T /\ r \in SUBSET S /\ s \in SUBSET S
        BY <4>1
      <4>3. Folds(Of(r), r, b, pick, G)
        BY <4>2, <1>3
      <4>4. \A u \in SUBSET (s \intersect r) : Of(s)[u] = Of(r)[u]
        <5> HIDE DEF r
        <5> QED BY <4>2, <4>3, <3>1, FoldOnce
      <4>5. Of(s)[r] = Of(r)[r]
        BY <4>4
      <4> QED BY <4>5, <1>7, <3>3
    <3> QED BY <3>1, <3>2, <3>3
  <2> QED BY <2>1, <2>2
<1> QED BY <1>6, <1>8

----------------------------------------------------------------------------
(* Which versions are installed.                                           *)

LEMMA VersionsRun == [RepositoriesNext]_repositoryVars => [V!Next]_vVars
  BY DEF RepositoriesNext, repositoryVars, LockStep, VersionsStep, ConfigStep, ExportsStep, DriverStep

\* Versions that are numbers: two and a half kinds of them, for one with four
\* numbers is no release.
VersionsV2 == [kind : {"v2"}, base : [1..3 -> Nat], tweak : {None}, pre : Nat, security : Nat,
               parts : Seq(V!Part)]
VersionsV1 == [kind : {"v1"}, base : [1..3 -> Nat], tweak : Nat, pre : {0}, security : {0},
               parts : Seq(V!Part)]
Numbers    == VersionsV2 \union VersionsV1

\* What is read as a number is one.
LEMMA NumberRead ==
  ASSUME NEW r \in Raws, V!Numeric(V!Parse(r)) PROVE V!Parse(r) \in Numbers
<1>1. /\ r \in V!Raw /\ None \notin Nat
      /\ r.pre # 0 \/ r.build # 0 => r.tail # <<>>
  BY VersionAssumption
<1>2. r.nums \in Seq(V!Part) /\ r.tail \in Seq(V!Part) /\ r.pre \in Nat /\ r.build \in Nat \union {-1}
  BY <1>1 DEF V!Raw
<1>3. r.nums # <<>> => V!Parts(r) \in Seq(V!Part)
  BY <1>2 DEF V!Parts, V!Front
<1>4. \A k \in 1..Len(r.nums) : r.nums[k].value \in Nat
  <2> SUFFICES ASSUME NEW k \in 1..Len(r.nums) PROVE r.nums[k].value \in Nat
    OBVIOUS
  <2>1. r.nums[k] \in V!Part
    BY <1>2
  <2> QED BY <2>1 DEF V!Part
<1>5. Len(r.nums) >= 3 => V!Values(r.nums) \in [1..3 -> Nat]
  BY <1>2, <1>4 DEF V!Values
<1>6. CASE V!IsV2(r)
  <2>1. Len(r.nums) = 3 /\ r.build \in Nat
    BY <1>6, <1>2 DEF V!IsV2
  <2>2. V!Values(r.nums) \in [1..3 -> Nat] /\ V!Parts(r) \in Seq(V!Part)
    <3>1. r.nums = <<>> => Len(r.nums) = 0
      OBVIOUS
    <3> QED BY <2>1, <3>1, <1>3, <1>5
  <2>3. V!V2(r) \in VersionsV2
    BY <2>1, <2>2, <1>2 DEF V!V2, VersionsV2
  <2> QED BY <2>3, <1>6 DEF V!Parse, Numbers
<1>7. CASE ~ V!IsV2(r) /\ V!IsV1(r)
  <2>1. Len(r.nums) \in {3, 4} /\ V!Plain(r.nums) /\ r.tail = <<>>
    BY <1>7 DEF V!IsV1
  <2>2. r.build = 0
    BY <2>1, <1>1
  <2>3. Len(r.nums) = 4
    BY <2>1, <2>2, <1>7 DEF V!IsV2
  <2>4. V!V1(r) \in VersionsV1
    BY <2>3, <1>2, <1>3, <1>4, <1>5 DEF V!V1, VersionsV1
  <2> QED BY <2>4, <1>7 DEF V!Parse, Numbers
<1>8. CASE ~ V!IsV2(r) /\ ~ V!IsV1(r)
  BY <1>8 DEF V!Parse, V!Fallback, V!Numeric
<1> QED BY <1>6, <1>7, <1>8

\* The order of numbers, the kinds of which are not mixed within one base.
LEMMA LessNumbers ==
  ASSUME NEW a \in Numbers, NEW b \in Numbers
  PROVE  V!Less(a, b) <=>
           \/ V!LessBase(a.base, b.base)
           \/ /\ \A k \in 1..3 : a.base[k] = b.base[k]
              /\ \/ a.kind = "v2" /\ b.kind = "v1"
                 \/ a.kind = "v2" /\ b.kind = "v2" /\ V!LessPre(a.pre, b.pre)
                 \/ a.kind = "v2" /\ b.kind = "v2" /\ a.pre = b.pre /\ a.security < b.security
                 \/ a.kind = "v1" /\ b.kind = "v1" /\ a.tweak < b.tweak
<1>1. a.base \in [1..3 -> Nat] /\ b.base \in [1..3 -> Nat]
  BY DEF Numbers, VersionsV1, VersionsV2
<1>2. a.base = b.base <=> \A k \in 1..3 : a.base[k] = b.base[k]
  BY <1>1
<1>3. None \notin Nat
  BY VersionAssumption
<1>4. CASE a \in VersionsV2 /\ b \in VersionsV2
  BY <1>4, <1>2 DEF V!Less, V!LessV2, VersionsV2
<1>5. CASE a \in VersionsV1 /\ b \in VersionsV1
  BY <1>5, <1>2, <1>3 DEF V!Less, V!LessV1, V!Tweak, VersionsV1
<1>6. CASE a \in VersionsV1 /\ b \in VersionsV2
  BY <1>6, <1>2, <1>3 DEF V!Less, V!LessV1V2, VersionsV1, VersionsV2
<1>7. CASE a \in VersionsV2 /\ b \in VersionsV1
  BY <1>7, <1>2, <1>3 DEF V!Less, V!LessV2V1, VersionsV1, VersionsV2
<1> QED BY <1>4, <1>5, <1>6, <1>7 DEF Numbers

\* It is an order, in which what neither is before nor after is equal.
LEMMA NumberFields ==
  ASSUME NEW x \in Numbers
  PROVE  /\ x.base[1] \in Nat /\ x.base[2] \in Nat /\ x.base[3] \in Nat
         /\ x.pre \in Nat /\ x.security \in Nat
         /\ x.kind = "v2" \/ (x.kind = "v1" /\ x.tweak \in Nat)
<1>1. /\ x.base \in [1..3 -> Nat] /\ x.pre \in Nat /\ x.security \in Nat
      /\ x.kind = "v2" \/ (x.kind = "v1" /\ x.tweak \in Nat)
  BY DEF Numbers, VersionsV1, VersionsV2
<1> QED BY <1>1

LEMMA LessOrders ==
  ASSUME NEW a \in Numbers, NEW b \in Numbers, NEW c \in Numbers
  PROVE  /\ ~ V!Less(a, a)
         /\ V!Less(a, b) /\ V!Less(b, c) => V!Less(a, c)
         /\ ~ V!Less(a, b) /\ ~ V!Less(b, c) => ~ V!Less(a, c)
<1> USE NumberFields DEF V!LessBase, V!LessPre
<1>1. ~ V!Less(a, a)
  BY LessNumbers
<1>2. V!Less(a, b) /\ V!Less(b, c) => V!Less(a, c)
  BY LessNumbers
<1>3. ~ V!Less(a, b) /\ ~ V!Less(b, c) => ~ V!Less(a, c)
  BY LessNumbers
<1> QED BY <1>1, <1>2, <1>3

\* The latest of an answer is in it, and no number in it is newer.
LEMMA LatestIs ==
  ASSUME NEW S, IsFiniteSet(S), NEW answer \in V!Answers(S)
  PROVE  /\ V!Latest(answer) \in S
         /\ S \subseteq Numbers => \A w \in S : ~ V!Less(V!Latest(answer), w)
<1> DEFINE n == Cardinality(S)
           places == 1..n
<1>1. n \in Nat /\ IsFiniteSet(places) /\ Cardinality(places) = n
  BY FS_CardinalityType, FS_Interval
<1>2. answer \in [places -> S] /\ (\A i, j \in places : i # j => answer[i] # answer[j]) /\ answer # <<>>
  <2>1. answer \in V!SetToSeqs(S) /\ answer # <<>>
    BY DEF V!Answers
  <2>2. V!Cardinality(S) = Cardinality(S)
    BY DEF V!Cardinality, Cardinality
  <2> QED BY <2>1, <2>2 DEF V!SetToSeqs
<1>3. DOMAIN answer = places /\ places # {} /\ answer[1] \in S
  <2>1. places # {}
    BY <1>2, <1>1
  <2> QED BY <2>1, <1>1, <1>2
<1>4. \A w \in S : \E k \in places : w = answer[k]
  <2>1. answer \in Injection(places, S)
    BY <1>2 DEF Injection, IsInjective
  <2>2. answer \in Surjection(places, S)
    BY <2>1, <1>1, FS_Injection
  <2> QED BY <2>2 DEF Surjection
<1> HIDE DEF n
<1> DEFINE pick == [s \in SUBSET places |-> V!Max(s)]
           G == [p \in (SUBSET places) \X S |->
                   IF V!Less(p[2], answer[pick[p[1]]]) THEN answer[pick[p[1]]] ELSE p[2]]
<1>5. \A s \in SUBSET places : s # {} => pick[s] \in s
  <2> SUFFICES ASSUME NEW s \in SUBSET places, s # {} PROVE V!Max(s) \in s
    OBVIOUS
  <2>1. \E x \in s : \A y \in s : x >= y
    BY <1>1, LastPlace
  <2> QED BY <2>1 DEF V!Max
<1> DEFINE Q(g) == g = [s \in SUBSET places |->
                          IF s = {} THEN answer[1]
                          ELSE IF V!Less(g[s \ {V!Max(s)}], answer[V!Max(s)])
                               THEN answer[V!Max(s)] ELSE g[s \ {V!Max(s)}]]
<1>6. \E g : Q(g)
  <2>1. \A s \in SUBSET places, w \in S : s # {} => G[<<s, w>>] \in S
    BY <1>2, <1>5
  <2>2. PICK g \in [SUBSET places -> S] : Folds(g, places, answer[1], pick, G)
    <3> HIDE DEF pick, G, places
    <3> QED BY <1>1, <1>3, <1>5, <2>1, FoldThere
  <2>3. ASSUME NEW s \in SUBSET places
        PROVE  g[s] = IF s = {} THEN answer[1]
                      ELSE IF V!Less(g[s \ {V!Max(s)}], answer[V!Max(s)])
                           THEN answer[V!Max(s)] ELSE g[s \ {V!Max(s)}]
    <3>1. g[s] = IF s = {} THEN answer[1] ELSE G[<<s, g[s \ {pick[s]}]>>]
      BY <2>2 DEF Folds
    <3>2. pick[s] = V!Max(s) /\ g[s \ {V!Max(s)}] \in S
      OBVIOUS
    <3>3. G[<<s, g[s \ {V!Max(s)}]>>] =
             IF V!Less(g[s \ {V!Max(s)}], answer[V!Max(s)])
                           THEN answer[V!Max(s)] ELSE g[s \ {V!Max(s)}]
      BY <3>2
    <3> QED BY <3>1, <3>2, <3>3
  <2>4. Q(g)
    <3> HIDE DEF pick, G
    <3> QED BY <2>3
  <2> QED BY <2>4
<1> DEFINE H == CHOOSE g : Q(g)
<1>7. V!Latest(answer) = H[places]
  BY <1>3 DEF V!Latest, V!FoldLeft, V!MapThenFoldSet
<1>8. Q(H)
  <2> HIDE DEF Q
  <2> QED BY <1>6
<1>9. \A s \in SUBSET places : s # {} =>
         /\ V!Max(s) \in s
         /\ H[s] = IF V!Less(H[s \ {V!Max(s)}], answer[V!Max(s)])
                   THEN answer[V!Max(s)] ELSE H[s \ {V!Max(s)}]
  BY <1>5, <1>8
<1>10. H[{}] = answer[1]
  BY <1>8
<1> DEFINE Good(s) == /\ H[s] \in S
                      /\ S \subseteq Numbers => \A k \in s : ~ V!Less(H[s], answer[k])
<1> HIDE DEF H, Q
<1>11. \A s \in SUBSET places : Good(s)
  <2> DEFINE C == {s \in SUBSET places : ~ Good(s)}
  <2> SUFFICES ASSUME C # {} PROVE FALSE
    OBVIOUS
  <2>1. PICK s \in C : \A u \in C : u \subseteq s => u = s
    <3>1. C \subseteq SUBSET places
      OBVIOUS
    <3>2. IsFiniteSet(places)
      BY <1>1
    <3> HIDE DEF C, places
    <3> QED BY <3>1, <3>2, MinimalSet
  <2>2. s # {}
    BY <1>10, <1>3
  <2> DEFINE x == V!Max(s)
  <2>3. x \in s /\ s \in SUBSET places /\ x \in places
    BY <1>9, <2>2
  <2> HIDE DEF x
  <2>4. Good(s \ {x})
    BY <2>1, <2>3
  <2>5. H[s] = IF V!Less(H[s \ {x}], answer[x]) THEN answer[x] ELSE H[s \ {x}]
    BY <1>9, <2>2 DEF x
  <2>6. \A k \in s : answer[k] \in S
    BY <1>2, <2>3
  <2>7. H[s] \in S
    BY <2>4, <2>5, <2>6, <2>3
  <2>8. ASSUME S \subseteq Numbers, NEW k \in s PROVE ~ V!Less(H[s], answer[k])
    <3>1. /\ answer[k] \in Numbers /\ answer[x] \in Numbers /\ H[s \ {x}] \in Numbers
      BY <2>8, <2>4, <2>6, <2>3
    <3>2. k # x => ~ V!Less(H[s \ {x}], answer[k])
      BY <2>4, <2>8
    <3> QED BY <3>1, <3>2, <2>5, LessOrders
  <2> QED BY <2>7, <2>8
<1>12. Good(places)
  BY <1>11
<1> QED BY <1>12, <1>7, <1>4

\* The layers the base of the application may be: those that match what it
\* asks for, and those that are equal to it.
Fits(v, wanted) == \/ V!SemanticMatch(v, wanted)
                   \/ ~ V!Less(v, V!Parse(wanted)) /\ ~ V!Less(V!Parse(wanted), v)

\* What is offered has been read, and what is installed was offered.
Offered == /\ \A v \in vOffers : \E r \in Raws : v = V!Parse(r)
           /\ IsFiniteSet(vOffers) /\ bases \subseteq vOffers

\* A history is one of numbers, the latest of which is installed.
Histories == \A a \in apps : /\ a.version \in vOffers
                             /\ a.before # {} => V!Numeric(a.version)
                             /\ \A b \in a.before : /\ b \in vOffers /\ V!Numeric(b)
                                                    /\ V!Less(b, a.version)

\* After an update one of the layers that fit is not older than any offer.
UpToDate == fresh /\ (\A x \in vOffers : V!Numeric(x)) =>
             \E v \in bases : /\ Fits(v, want)
                              /\ \A w \in V!Matching(vOffers, want) : ~ V!Less(v, w)

VersionsInv == want \in Wants /\ Offered /\ Histories /\ UpToDate

LEMMA OfferedNumbers ==
  ASSUME Offered
  PROVE  \A v \in vOffers : V!Numeric(v) => v \in Numbers
  BY NumberRead DEF Offered

\* Of finitely many numbers some have no newer one.
LEMMA NewestThere ==
  ASSUME NEW S, IsFiniteSet(S), S \subseteq Numbers, S # {}
  PROVE  \E v \in S : \A w \in S : ~ V!Less(v, w)
<1> DEFINE Bad(T) == T # {} /\ \A v \in T : \E w \in T : V!Less(v, w)
           C == {T \in SUBSET S : Bad(T)}
<1> SUFFICES ASSUME C # {} PROVE FALSE
  <2> SUFFICES ASSUME C = {} PROVE ~ Bad(S)
    OBVIOUS
  <2>1. S \notin C
    OBVIOUS
  <2> QED BY <2>1
<1>1. PICK T \in C : \A U \in C : U \subseteq T => U = T
  <2>1. C \subseteq SUBSET S
    OBVIOUS
  <2> HIDE DEF C
  <2> QED BY <2>1, MinimalSet
<1>2. T \in SUBSET S /\ Bad(T)
  OBVIOUS
<1>3. PICK x \in T : TRUE
  BY <1>2
<1>4. T \ {x} \notin C
  BY <1>1
<1>5. ~ Bad(T \ {x})
  BY <1>2, <1>4
<1>6. PICK z \in T : V!Less(x, z)
  BY <1>2
<1>7. z # x
  BY <1>2, <1>6, LessOrders
<1>8. PICK y \in T \ {x} : \A w \in T \ {x} : ~ V!Less(y, w)
  BY <1>5, <1>7
<1>9. PICK w \in T : V!Less(y, w)
  BY <1>2
<1>10. w = x
  BY <1>8, <1>9
<1>11. V!Less(y, z)
  BY <1>2, <1>6, <1>9, <1>10, LessOrders
<1> QED BY <1>11, <1>7, <1>8

\* The newest of finitely many numbers are not older than any of them.
LEMMA NewestIs ==
  ASSUME NEW S, IsFiniteSet(S), S # {}
  PROVE  /\ V!Newest(S) \subseteq S /\ V!Newest(S) # {}
         /\ S \subseteq Numbers => \A v \in V!Newest(S), w \in S : ~ V!Less(v, w)
  BY NewestThere DEF V!Newest

LEMMA VersionsInit == RepositoriesInit => VersionsInv
  BY FS_EmptySet DEF RepositoriesInit, V!Init, VersionsInv, Offered, Histories, UpToDate

\* What an answer has is installed in place of another version.
LEMMA ReplaceKeeps ==
  ASSUME Offered, Histories, NEW a \in apps, NEW v \in vOffers, V!Replace(a, v),
         UNCHANGED vOffers
  PROVE  Histories'
<1> DEFINE before == IF V!Numeric(v) /\ V!Numeric(a.version) /\ V!Less(a.version, v)
                     THEN a.before \union {a.version} ELSE {}
           same == {x \in apps \ {a} : x.version = v}
           all == before \union UNION {x.before : x \in same}
           put == [version |-> v, before |-> all]
<1>1. apps' = (apps \ (same \union {a})) \union {put}
  BY DEF V!Replace
<1>2. put.version = v /\ put.before = all
  OBVIOUS
<1>3. ASSUME NEW b \in all
      PROVE  b \in vOffers /\ V!Numeric(b) /\ V!Numeric(v) /\ V!Less(b, v)
  <2>1. CASE b \in before
    <3>1. /\ V!Numeric(v) /\ V!Numeric(a.version) /\ V!Less(a.version, v)
          /\ b \in a.before \union {a.version}
      BY <2>1
    <3>2. CASE b = a.version
      BY <3>1, <3>2 DEF Histories
    <3>3. CASE b \in a.before
      <4>1. b \in vOffers /\ V!Numeric(b) /\ V!Less(b, a.version) /\ a.version \in vOffers
        BY <3>3 DEF Histories
      <4>2. b \in Numbers /\ a.version \in Numbers /\ v \in Numbers
        BY <3>1, <4>1, OfferedNumbers
      <4> QED BY <3>1, <4>1, <4>2, LessOrders
    <3> QED BY <3>1, <3>2, <3>3
  <2>2. CASE b \notin before
    <3>1. PICK x \in same : b \in x.before
      BY <2>2
    <3> QED BY <3>1 DEF Histories
  <2> QED BY <2>1, <2>2
<1> HIDE DEF before, same, all, put
<1>4. ASSUME NEW x \in apps'
      PROVE  /\ x.version \in vOffers /\ (x.before # {} => V!Numeric(x.version))
             /\ \A b \in x.before : b \in vOffers /\ V!Numeric(b) /\ V!Less(b, x.version)
  <2>1. x \in apps \/ x = put
    BY <1>1
  <2> QED BY <2>1, <1>2, <1>3 DEF Histories
<1> QED BY <1>4 DEF Histories

LEMMA VersionsNext == VersionsInv /\ [V!Next]_vVars => VersionsInv'
<1> SUFFICES ASSUME VersionsInv, [V!Next]_vVars PROVE VersionsInv'
  OBVIOUS
<1> USE DEF VersionsInv
<1>0. CASE UNCHANGED vVars
  BY <1>0 DEF vVars, Offered, Histories, UpToDate, V!Matching, Fits
<1>2. \A S, r : /\ V!Matching(S, r) \subseteq S
                /\ IsFiniteSet(S) => IsFiniteSet(V!Matching(S, r))
  BY FS_Subset DEF V!Matching
<1>3. ASSUME NEW r, NEW answer \in V!Answers(V!Matching(vOffers, r))
      PROVE  V!Latest(answer) \in vOffers
  BY <1>2, LatestIs DEF Offered
<1>4. CASE \E r \in Raws : V!Offer(r)
  <2>1. PICK r \in Raws : V!Offer(r)
    BY <1>4
  <2>2. /\ vOffers' = vOffers \union {V!Parse(r)} /\ fresh' = FALSE
        /\ UNCHANGED <<kind, want, apps, bases>>
    BY <2>1 DEF V!Offer
  <2>3. IsFiniteSet(vOffers')
    BY <2>2, FS_AddElement DEF Offered
  <2>4. Offered'
    BY <2>2, <2>3 DEF Offered
  <2>5. Histories'
    BY <2>2 DEF Histories
  <2> QED BY <2>2, <2>4, <2>5 DEF UpToDate
<1>5. ASSUME UNCHANGED <<kind, want, vOffers, bases, fresh>>, Histories' PROVE VersionsInv'
  BY <1>5 DEF Offered, UpToDate, V!Matching, Fits
<1>6. CASE \E r \in Raws \union {None}, force \in BOOLEAN :
               \E answer \in V!Answers(V!Matching(vOffers, r)) : V!Install(r, answer, force)
  <2>0. PICK r \in Raws \union {None}, force \in BOOLEAN :
            \E answer \in V!Answers(V!Matching(vOffers, r)) : V!Install(r, answer, force)
    BY <1>6
  <2>1. PICK answer \in V!Answers(V!Matching(vOffers, r)) : V!Install(r, answer, force)
    BY <2>0
  <2> DEFINE target == V!Latest(answer)
  <2>2. target \in vOffers
    BY <1>3
  <2>3. /\ UNCHANGED <<kind, want, vOffers, bases, fresh>>
        /\ \/ apps' = apps \union {[version |-> target, before |-> {}]}
           \/ \E a \in apps : V!Replace(a, target)
    BY <2>1 DEF V!Install
  <2> HIDE DEF target
  <2>4. CASE apps' = apps \union {[version |-> target, before |-> {}]}
    <3>1. Histories'
      BY <2>2, <2>3, <2>4 DEF Histories
    <3> QED BY <3>1, <2>3, <1>5
  <2>5. CASE \E a \in apps : V!Replace(a, target)
    BY <2>2, <2>3, <2>5, <1>5, ReplaceKeeps
  <2> QED BY <2>3, <2>4, <2>5
<1>7. CASE \E a \in apps : \E answer \in V!Answers(vOffers) : V!UpdateApp(a, answer)
  <2>1. PICK a \in apps, answer \in V!Answers(vOffers) : V!UpdateApp(a, answer)
    BY <1>7
  <2>2. V!Latest(answer) \in vOffers
    BY LatestIs DEF Offered
  <2>3. UNCHANGED <<kind, want, vOffers, bases, fresh>> /\ V!Replace(a, V!Latest(answer))
    BY <2>1 DEF V!UpdateApp
  <2> QED BY <2>2, <2>3, <1>5, ReplaceKeeps
<1>8. CASE \E answer \in V!Answers(V!Matching(vOffers, want)) : V!UpdateBase(answer)
  <2>1. PICK answer \in V!Answers(V!Matching(vOffers, want)) : V!UpdateBase(answer)
    BY <1>8
  <2> DEFINE remote == V!Latest(answer)
             local == V!Newest(V!Matching(bases, want))
             offered == V!Matching(vOffers, want)
  <2>2. /\ UNCHANGED <<kind, want, vOffers, apps>> /\ fresh' = TRUE
        /\ IF local = {} \/ \E v \in local : V!Less(v, remote)
           THEN bases' = bases \union {remote}
           ELSE bases' = bases
    BY <2>1 DEF V!UpdateBase
  <2>3. /\ remote \in offered
        /\ offered \subseteq Numbers => \A w \in offered : ~ V!Less(remote, w)
    BY <1>2, LatestIs DEF Offered
  <2>4. Offered' /\ Histories'
    BY <2>2, <2>3, <1>2 DEF Offered, Histories
  <2>5. offered \subseteq vOffers /\ V!Matching(bases, want) \subseteq bases
        /\ IsFiniteSet(V!Matching(bases, want))
    BY <1>2, FS_Subset DEF Offered
  <2>6. \A v \in offered \union V!Matching(bases, want) : Fits(v, want)
    BY VersionAssumption DEF V!Matching, Fits
  <2> HIDE DEF remote, local, offered
  <2>7. ASSUME \A x \in vOffers : V!Numeric(x)
        PROVE  \E v \in bases' : Fits(v, want) /\ \A w \in offered : ~ V!Less(v, w)
    <3>1. vOffers \subseteq Numbers
      BY <2>7, OfferedNumbers
    <3>2. CASE bases' = bases \union {remote}
      BY <3>1, <3>2, <2>3, <2>5, <2>6
    <3>3. CASE local # {} /\ bases' = bases /\ \A v \in local : ~ V!Less(v, remote)
      <4>1. PICK v \in local : TRUE
        BY <3>3
      <4>2. V!Matching(bases, want) # {}
        BY <4>1 DEF local, V!Newest
      <4>3. v \in V!Matching(bases, want)
        BY <4>2, <2>5, NewestIs DEF local
      <4>4. v \in Numbers /\ v \in bases /\ remote \in Numbers /\ offered \subseteq Numbers
        BY <4>3, <3>1, <2>3, <2>5 DEF Offered
      <4>5. \A w \in offered : ~ V!Less(v, w)
        BY <4>1, <4>4, <3>3, <2>3, LessOrders
      <4> QED BY <4>3, <4>4, <4>5, <3>3, <2>6
    <3> QED BY <3>2, <3>3, <2>2
  <2>8. UpToDate'
    BY <2>2, <2>7 DEF UpToDate, offered
  <2> QED BY <2>2, <2>4, <2>8
<1>9. CASE \E v \in vOffers : V!InstallBase(v)
  <2>1. PICK v \in vOffers : V!InstallBase(v)
    BY <1>9
  <2>2. bases' = bases \union {v} /\ UNCHANGED <<kind, want, vOffers, apps, fresh>>
    BY <2>1 DEF V!InstallBase
  <2> QED BY <2>2 DEF Offered, Histories, UpToDate, V!Matching, Fits
<1>10. CASE V!Prune
  <2>1. PICK v \in V!Resolved : bases' = {v} /\ UNCHANGED <<kind, want, vOffers, apps, fresh>>
    BY <1>10 DEF V!Prune
  <2> DEFINE S == {x \in bases : Fits(x, want)}
  <2>2. V!Resolved = V!Newest(S)
    BY DEF V!Resolved, Fits
  <2>3. S # {}
    BY <2>1, <2>2 DEF V!Newest
  <2>4. IsFiniteSet(S) /\ S \subseteq bases
    BY FS_Subset DEF Offered
  <2>5. v \in S /\ (S \subseteq Numbers => \A w \in S : ~ V!Less(v, w))
    BY <2>1, <2>2, <2>3, <2>4, NewestIs
  <2>6. Offered' /\ Histories'
    BY <2>1, <2>4, <2>5 DEF Offered, Histories
  <2>7. ASSUME fresh, \A x \in vOffers : V!Numeric(x)
        PROVE  Fits(v, want) /\ \A w \in V!Matching(vOffers, want) : ~ V!Less(v, w)
    <3>1. vOffers \subseteq Numbers /\ S \subseteq Numbers
      BY <2>7, <2>4, OfferedNumbers DEF Offered
    <3>2. PICK u \in bases : /\ Fits(u, want)
                             /\ \A w \in V!Matching(vOffers, want) : ~ V!Less(u, w)
      BY <2>7 DEF UpToDate
    <3>3. u \in S /\ ~ V!Less(v, u)
      BY <3>1, <3>2, <2>5
    <3>4. ASSUME NEW w \in V!Matching(vOffers, want) PROVE ~ V!Less(v, w)
      BY <3>1, <3>2, <3>3, <2>5, <1>2, LessOrders
    <3> QED BY <3>4, <2>5
  <2>8. UpToDate'
    BY <2>1, <2>7 DEF UpToDate, V!Matching, Fits
  <2> QED BY <2>1, <2>6, <2>8
<1> QED BY <1>0, <1>4, <1>6, <1>7, <1>8, <1>9, <1>10 DEF V!Next

\* Updates never lead back to an older version, and what an update of the base
\* has brought, or left, is what a container is started with: in whatever order
\* the repositories answer, and whatever is installed and pruned beside it.
THEOREM UpdatesCountHolds == RepositoriesSpec => []UpdatesCount
<1>1. VersionsInv => V!NeverBack
  <2> SUFFICES ASSUME VersionsInv, NEW a \in apps, NEW b \in a.before
               PROVE  ~ V!Less(a.version, b)
    BY DEF V!NeverBack
  <2>1. b \in Numbers /\ a.version \in Numbers /\ V!Less(b, a.version)
    BY OfferedNumbers DEF VersionsInv, Histories
  <2> QED BY <2>1, LessOrders
<1>2. VersionsInv => V!UpdatedIsUsed
  <2> SUFFICES ASSUME VersionsInv, fresh, \A x \in vOffers \union bases : V!Numeric(x)
               PROVE  /\ V!Resolved # {}
                      /\ \A v \in V!Resolved, w \in V!Matching(vOffers, want) : ~ V!Less(v, w)
    BY DEF V!UpdatedIsUsed
  <2> DEFINE S == {x \in bases : Fits(x, want)}
  <2>1. V!Resolved = V!Newest(S)
    BY DEF V!Resolved, Fits
  <2>2. PICK u \in S : \A w \in V!Matching(vOffers, want) : ~ V!Less(u, w)
    BY DEF VersionsInv, UpToDate
  <2>3. IsFiniteSet(S) /\ S \subseteq Numbers /\ vOffers \subseteq Numbers
    BY FS_Subset, OfferedNumbers DEF VersionsInv, Offered
  <2>4. /\ V!Newest(S) \subseteq S /\ V!Newest(S) # {}
        /\ \A v \in V!Newest(S), w \in S : ~ V!Less(v, w)
    BY <2>2, <2>3, NewestIs
  <2>5. V!Matching(vOffers, want) \subseteq vOffers
    BY DEF V!Matching
  <2> QED BY <2>1, <2>2, <2>3, <2>4, <2>5, LessOrders
<1>3. VersionsInv => UpdatesCount
  BY <1>1, <1>2 DEF UpdatesCount, V!UpdatesCount
<1> QED BY <1>3, VersionsInit, VersionsNext, VersionsRun, PTL DEF RepositoriesSpec

----------------------------------------------------------------------------
(* The helper for drivers.                                                 *)

LEMMA DriverRuns == [RepositoriesNext]_repositoryVars => [D!Next]_dVars
  BY DEF RepositoriesNext, repositoryVars, LockStep, VersionsStep, ConfigStep, ExportsStep, DriverStep

\* Of the repositories that offer a package one offers the best.
LEMMA BestOffered ==
  ASSUME dOffers \in Seq(DriverVersions \union {None}), D!Offered # {}
  PROVE  D!Best \in D!Offered
<1> DEFINE Before(q, r) == dOffers[r] < dOffers[q] \/ (dOffers[q] = dOffers[r] /\ q < r)
           Above(r) == {q \in D!Offered : Before(q, r)}
<1>1. D!Offered \subseteq Nat /\ \A r \in D!Offered : dOffers[r] \in Nat
  <2>1. \A r \in DOMAIN dOffers : dOffers[r] \in DriverVersions \union {None}
    BY DEF D!Offered
  <2>2. D!Offered \subseteq 1..Len(dOffers) /\ 1..Len(dOffers) \subseteq Nat
    BY DEF D!Offered
  <2>3. \A r \in D!Offered : dOffers[r] \in DriverVersions
    BY <2>1 DEF D!Offered
  <2> QED BY <2>2, <2>3, DriverAssumption
<1>2. IsFiniteSet(D!Offered)
  <2>1. D!Offered \subseteq 1..Len(dOffers) /\ Len(dOffers) \in Nat
    BY DEF D!Offered
  <2>2. IsFiniteSet(1..Len(dOffers))
    BY <2>1, FS_Interval
  <2> QED BY <2>1, <2>2, FS_Subset
<1>3. PICK r \in D!Offered : \A q \in D!Offered : Above(q) \subseteq Above(r) => Above(q) = Above(r)
  <2> DEFINE C == {Above(r) : r \in D!Offered}
  <2>1. C \subseteq SUBSET D!Offered /\ C # {}
    OBVIOUS
  <2> HIDE DEF C
  <2>2. PICK T \in C : \A U \in C : U \subseteq T => U = T
    BY <2>1, <1>2, MinimalSet
  <2>3. PICK r \in D!Offered : T = Above(r)
    BY DEF C
  <2>4. \A q \in D!Offered : Above(q) \in C
    BY DEF C
  <2> HIDE DEF Above
  <2> QED BY <2>2, <2>3, <2>4
<1>4. Above(r) = {}
  <2> SUFFICES ASSUME NEW q \in Above(r) PROVE FALSE
    OBVIOUS
  <2>1. q \in D!Offered /\ Before(q, r)
    OBVIOUS
  <2>2. Above(q) \subseteq Above(r)
    <3> SUFFICES ASSUME NEW x \in D!Offered, Before(x, q) PROVE Before(x, r)
      OBVIOUS
    <3> QED BY <1>1, <2>1
  <2>3. ~ Before(q, q)
    BY <1>1, <2>1
  <2> QED BY <2>1, <2>2, <2>3, <1>3
<1>5. \A q \in D!Offered \ {r} : dOffers[q] < dOffers[r] \/ (dOffers[q] = dOffers[r] /\ r < q)
  BY <1>1, <1>4
<1> QED BY <1>5 DEF D!Best
Packaged == [repo : Nat, version : DriverVersions]
Looks == [offer : Packaged \union {None}, second : Packaged \union {None},
          there : DriverVersions \union {None}]
Steps == {"off", "lock", "load", "version", "remote", "installed", "again", "current", "found",
          "notify", "shown", "install", "save", "saving", "end"}
Choices == {"install_now", "not_remind"}

DriverTypes ==
    /\ dPc \in [Procs -> Steps]
    /\ opts \in [Procs -> Options \union {None}]
    /\ \A p \in Procs : dPc[p] # "off" => opts[p] \in Options
    /\ dOffers \in Seq(DriverVersions \union {None})
    /\ dInstalled \subseteq DriverVersions /\ IsFiniteSet(dInstalled)
    /\ look \in [Procs -> Looks]
    /\ signals \in [Procs -> [actions : Seq(Choices), closed : BOOLEAN]]
    /\ selected \in [Procs -> Choices \union {None}]
    /\ clicked \in [Procs -> SUBSET Choices]
    /\ moved \in [Procs -> BOOLEAN] /\ dConfig \in [Procs -> BOOLEAN]
    /\ declined \in BOOLEAN /\ cut \in BOOLEAN

\* Who is past the lock has it.
OneAtWork == \A p \in Procs : dPc[p] \notin {"off", "lock"} => lock = p

\* That the user said never is in the file, or about to be.
NeverKept == declined /\ ~ cut => dFile = "never" \/ \E p \in Procs : dPc[p] = "saving"

Looking == {"version", "remote", "installed", "again", "current", "found", "notify", "shown"}
Taken == {"found", "notify", "shown", "install"}

\* What a process of a user who said never may do.
Quiet(p) == dPc[p] \in Looking /\ declined /\ ~ cut => opts[p].force = TRUE

\* What a process heard is what the user did.
Heard(p) ==
    /\ signals[p].actions = <<>> \/ \E a \in clicked[p] : signals[p].actions = <<a>>
    /\ selected[p] = None \/ selected[p] \in clicked[p]
    /\ dPc[p] \in {"notify", "shown"} => opts[p].mode = "ask"
    /\ dPc[p] = "install" => \/ opts[p].mode = "install"
                             \/ opts[p].mode = "ask" /\ "install_now" \in clicked[p]

\* What a process saw, if others leave the packages alone, is still so.
Saw(p) ==
    /\ dPc[p] \in {"again", "current"} \union Taken => look[p].offer # None
    /\ moved[p] = FALSE /\ dPc[p] \in {"installed", "again", "current"} \union Taken =>
           look[p].offer = D!Remote
    /\ moved[p] = FALSE /\ dPc[p] = "current" => look[p].second = D!Remote
    /\ moved[p] = FALSE /\ dPc[p] \in Taken =>
           dInstalled = {} \/ \E v \in dInstalled : look[p].offer.version > v

Heeds == /\ DriverTypes /\ OneAtWork /\ NeverKept
         /\ \A p \in Procs : Quiet(p) /\ Heard(p) /\ Saw(p)

LEMMA RemoteType == DriverTypes => D!Remote \in Packaged \union {None}
<1> SUFFICES ASSUME DriverTypes, D!Best # None PROVE D!Remote \in Packaged
  BY DEF D!Remote
<1>1. D!Offered # {}
  BY DEF D!Best
<1>2. D!Best \in D!Offered
  BY <1>1, BestOffered DEF DriverTypes
<1> HIDE DEF D!Best
<1>3. D!Best \in DOMAIN dOffers /\ dOffers[D!Best] # None
  BY <1>2 DEF D!Offered
<1>4. D!Best \in Nat /\ dOffers[D!Best] \in DriverVersions
  <2>1. DOMAIN dOffers \subseteq Nat
    BY DEF DriverTypes
  <2>2. \A r \in DOMAIN dOffers : dOffers[r] \in DriverVersions \union {None}
    BY DEF DriverTypes
  <2> QED BY <1>3, <2>1, <2>2
<1> QED BY <1>4 DEF D!Remote, Packaged

LEMMA SameCount == \A S : D!Cardinality(S) = Cardinality(S)
  BY DEF D!Cardinality, Cardinality, D!IsFiniteSet, IsFiniteSet

LEMMA HeedsInit == RepositoriesInit => Heeds
<1> SUFFICES ASSUME RepositoriesInit PROVE Heeds
  OBVIOUS
<1> USE DriverAssumption
<1>0. D!Init
  BY DEF RepositoriesInit
<1>1. dInstalled \subseteq DriverVersions /\ IsFiniteSet(dInstalled)
  <2>1. dInstalled = {} \/ \E v \in DriverVersions : dInstalled = {v}
    BY <1>0 DEF D!Init
  <2> QED BY <2>1, FS_EmptySet, FS_Singleton
<1>2. DriverTypes
  <2>1. dOffers \in Seq(DriverVersions \union {None})
    BY <1>0 DEF D!Init
  <2>2. look \in [Procs -> Looks] /\ signals \in [Procs -> [actions : Seq(Choices), closed : BOOLEAN]]
    <3>1. <<>> \in Seq(Choices)
      OBVIOUS
    <3> QED BY <3>1, <1>0 DEF D!Init, D!NoLook, D!NoSignals, Looks
  <2> QED BY <1>0, <1>1, <2>1, <2>2 DEF D!Init, DriverTypes, Steps
<1>3. OneAtWork /\ NeverKept
  BY <1>0 DEF D!Init, OneAtWork, NeverKept
<1>4. ASSUME NEW p \in Procs PROVE Quiet(p) /\ Heard(p) /\ Saw(p)
  BY <1>0 DEF D!Init, Quiet, Heard, Saw, D!NoSignals, Looking, Taken
<1> QED BY <1>2, <1>3, <1>4 DEF Heeds

\* The program does what its user has said, and nothing else.
LEMMA HeedsTold == Heeds => AsTold
<1> SUFFICES ASSUME Heeds PROVE D!NotAskedAgain /\ D!InstalledAsAsked
  BY DEF AsTold, D!AsTold
<1> USE DEF Heeds
<1>1. D!NotAskedAgain
  BY DEF D!NotAskedAgain, D!At, Quiet, OneAtWork, Looking
<1>2. ASSUME NEW p \in Procs, dPc[p] = "install"
      PROVE  /\ opts[p].mode = "install" \/ "install_now" \in clicked[p]
             /\ opts[p].mode # "check"
  BY <1>2 DEF Heard
<1>3. ASSUME NEW p \in Procs, dPc[p] = "install", ~ moved[p], Cardinality(dInstalled) <= 1
      PROVE  /\ \A v \in dInstalled : look[p].offer.version > v
             /\ look[p].offer = D!Remote
  <2>0. moved[p] = FALSE
    BY <1>3 DEF DriverTypes
  <2>1. look[p].offer = D!Remote
        /\ (dInstalled = {} \/ \E v \in dInstalled : look[p].offer.version > v)
    BY <1>3, <2>0 DEF Saw, Taken
  <2>2. ASSUME NEW v \in dInstalled, NEW w \in dInstalled PROVE v = w
    <3>1. IsFiniteSet(dInstalled)
      BY DEF DriverTypes
    <3>2. Cardinality(dInstalled) \in Nat
      BY <3>1, FS_CardinalityType
    <3>3. Cardinality(dInstalled) = 0 \/ Cardinality(dInstalled) = 1
      BY <3>2, <1>3
    <3> QED BY <3>1, <3>3, FS_EmptySet, FS_Singleton
  <2> QED BY <2>1, <2>2
<1>4. D!InstalledAsAsked
  <2> SUFFICES ASSUME NEW p \in Procs, dPc[p] = "install"
               PROVE  /\ opts[p].mode = "install" \/ "install_now" \in clicked[p]
                      /\ opts[p].mode # "check"
                      /\ ~ moved[p] /\ Cardinality(dInstalled) <= 1 =>
                            /\ \A v \in dInstalled : look[p].offer.version > v
                            /\ look[p].offer = D!Remote
    BY SameCount DEF D!InstalledAsAsked, D!At
  <2>1. (opts[p].mode = "install" \/ "install_now" \in clicked[p]) /\ opts[p].mode # "check"
    BY <1>2
  <2>2. CASE ~ moved[p] /\ Cardinality(dInstalled) <= 1
    BY <2>1, <2>2, <1>3
  <2>3. CASE ~ (~ moved[p] /\ Cardinality(dInstalled) <= 1)
    BY <2>1, <2>3
  <2> QED BY <2>2, <2>3
<1> QED BY <1>1, <1>4
\* A step of a process.
Looks1(p) == D!ReadVersion(p) \/ D!AskRemote(p) \/ D!AskAgain(p) \/ D!LooksFail(p)
             \/ \E there \in D!Listed : D!AskInstalled(p, there) \/ D!AskCurrent(p, there)
Ends(p) == D!Done(p) \/ D!Killed(p) \/ (D!Acquire(p) /\ D!End(p))
Acts(p) ==
    \/ \E o \in Options : D!Start(p, o)
    \/ D!Acquire(p) /\ lock = None /\ lock' = p /\ D!Go(p, "load") /\ UNCHANGED D!own
    \/ D!Load(p) \/ Looks1(p) \/ D!Decide(p) \/ D!Notify(p)
    \/ \E a \in {"install_now", "not_remind"} : D!Click(p, a)
    \/ D!Close(p) \/ D!HearAction(p) \/ D!HearEnd(p) \/ D!Save(p)
    \/ \E ok \in BOOLEAN : D!Saved(p, ok) \/ D!Install(p, ok)
    \/ Ends(p)

LEMMA DriverActs == D!Next => D!Move \/ \E p \in Procs : Acts(p)
<1> SUFFICES ASSUME NEW p \in Procs, D!Acquire(p) PROVE Acts(p)
  BY DEF D!Next, Acts, Looks1, Ends
<1>1. CASE lock = None
  BY <1>1 DEF D!Acquire, Acts
<1>2. CASE lock # None
  BY <1>2 DEF D!Acquire, Acts, Ends
<1> QED BY <1>1, <1>2

SeenBy(p) ==
    /\ UNCHANGED <<lock, dFile, dConfig, dDriver, dOffers, dInstalled, opts, signals, selected,
                   clicked, moved, declined, cut>>
    /\ \E l \in Looks : look' = [look EXCEPT ![p] = l]
    /\ \E to \in {"remote", "installed", "again", "current", "found", "end"} :
           dPc' = [dPc EXCEPT ![p] = to]

LEMMA SeesStep ==
  ASSUME NEW p \in Procs, NEW l \in Looks, D!Sees(p, l, dPc'[p]), DriverTypes,
         dPc'[p] \in {"remote", "installed", "again", "current", "found", "end"}
  PROVE  SeenBy(p)
<1>1. look' = [look EXCEPT ![p] = l] /\ dPc' = [dPc EXCEPT ![p] = dPc'[p]]
  BY DEF D!Sees, D!Go
<1>2. UNCHANGED <<lock, dFile, dConfig, dDriver, dOffers, dInstalled, opts, signals, selected,
                  clicked, moved, declined, cut>>
  BY DEF D!Sees, D!world
<1> QED BY <1>1, <1>2 DEF SeenBy

\* What is asked of ll-cli changes what its process has seen, and where it is.
LEMMA LooksStep ==
  ASSUME DriverTypes, NEW p \in Procs, Looks1(p)
  PROVE  /\ SeenBy(p)
         /\ dPc[p] \in {"version", "remote", "installed", "again", "current"}
<1>0. look[p] \in Looks /\ dPc \in [Procs -> Steps]
  BY DEF DriverTypes
<1>00. ASSUME NEW l, NEW to, D!Sees(p, l, to) PROVE D!Sees(p, l, dPc'[p]) /\ dPc'[p] = to
  <2>1. dPc' = [dPc EXCEPT ![p] = to]
    BY <1>00 DEF D!Sees, D!Go
  <2>2. dPc'[p] = to
    BY <2>1, <1>0
  <2> QED BY <1>00, <2>2
<1>1. CASE D!ReadVersion(p)
  <2>1. \E to \in {"remote", "end"} : D!Sees(p, look[p], to)
    BY <1>1 DEF D!ReadVersion
  <2> QED BY <2>1, <1>0, <1>00, <1>1, SeesStep DEF D!ReadVersion, D!At
<1>2. CASE D!AskRemote(p)
  <2>1. [look[p] EXCEPT !.offer = D!Remote] \in Looks
    BY <1>0, RemoteType DEF Looks
  <2>2. D!Sees(p, [look[p] EXCEPT !.offer = D!Remote], "installed") /\ dPc[p] = "remote"
    BY <1>2 DEF D!AskRemote, D!At
  <2> QED BY <2>1, <2>2, <1>00, SeesStep
<1>3. CASE D!AskAgain(p)
  <2>1. [look[p] EXCEPT !.second = D!Remote] \in Looks
    BY <1>0, RemoteType DEF Looks
  <2>2. (\E to \in {"end", "current"} : D!Sees(p, [look[p] EXCEPT !.second = D!Remote], to))
        /\ dPc[p] = "again"
    BY <1>3 DEF D!AskAgain, D!At
  <2> QED BY <2>1, <2>2, <1>00, SeesStep
<1>4. CASE D!LooksFail(p)
  <2>1. D!Sees(p, look[p], "end") /\ dPc[p] \in {"remote", "installed", "again", "current"}
    BY <1>4 DEF D!LooksFail, D!Gives, D!At
  <2> QED BY <2>1, <1>0, <1>00, SeesStep
<1>5. ASSUME NEW there \in D!Listed PROVE [look[p] EXCEPT !.there = there] \in Looks
  <2>1. there \in DriverVersions \union {None}
    BY DEF D!Listed, DriverTypes
  <2> QED BY <2>1, <1>0 DEF Looks
<1>6. ASSUME NEW there \in D!Listed, D!AskInstalled(p, there) \/ D!AskCurrent(p, there)
      PROVE  SeenBy(p) /\ dPc[p] \in {"installed", "current"}
  <2>1. \E to \in {"end", "found", "again"} : D!Sees(p, [look[p] EXCEPT !.there = there], to)
    BY <1>6 DEF D!AskInstalled, D!AskCurrent
  <2>2. dPc[p] \in {"installed", "current"}
    BY <1>6 DEF D!AskInstalled, D!AskCurrent, D!At
  <2> QED BY <2>1, <2>2, <1>5, <1>00, SeesStep
<1> QED BY <1>1, <1>2, <1>3, <1>4, <1>6 DEF Looks1

LEMMA MoveStep ==
  ASSUME DriverTypes, D!Move
  PROVE  /\ UNCHANGED <<dPc, opts, dConfig, look, signals, selected, clicked, lock, dFile, declined, cut>>
         /\ \A p \in Procs : dPc[p] # "off" => moved'[p] = TRUE
         /\ DriverTypes'
<1> USE DriverAssumption
<1>1. UNCHANGED <<dPc, opts, dConfig, look, signals, selected, clicked, lock, dFile, declined, cut>>
  BY DEF D!Move
<1>2. moved' = [p \in Procs |-> dPc[p] # "off"]
  BY DEF D!Move
<1>3. dOffers' \in Seq(DriverVersions \union {None})
  BY DEF D!Move, DriverTypes
<1>4. dInstalled' \subseteq DriverVersions /\ IsFiniteSet(dInstalled')
  <2>1. \/ dInstalled' = dInstalled
        \/ \E v \in DriverVersions : dInstalled' = dInstalled \union {v}
        \/ \E v \in DriverVersions : dInstalled' = dInstalled \ {v}
    BY DEF D!Move, DriverTypes
  <2>2. dInstalled \subseteq DriverVersions /\ IsFiniteSet(dInstalled)
    BY DEF DriverTypes
  <2>3. ASSUME NEW v \in DriverVersions
        PROVE  /\ dInstalled \union {v} \subseteq DriverVersions /\ IsFiniteSet(dInstalled \union {v})
               /\ dInstalled \ {v} \subseteq DriverVersions /\ IsFiniteSet(dInstalled \ {v})
    BY <2>2, FS_AddElement, FS_RemoveElement
  <2> QED BY <2>1, <2>2, <2>3
<1>5. DriverTypes'
  BY <1>1, <1>2, <1>3, <1>4 DEF DriverTypes
<1> QED BY <1>1, <1>2, <1>5

\* Another process keeps what it has, and knows if packages changed.
LEMMA OthersKeep ==
  ASSUME DriverTypes, NEW p \in Procs, Acts(p), NEW q \in Procs, q # p
  PROVE  /\ dPc'[q] = dPc[q] /\ opts'[q] = opts[q] /\ look'[q] = look[q]
         /\ signals'[q] = signals[q] /\ selected'[q] = selected[q] /\ clicked'[q] = clicked[q]
         /\ \/ moved'[q] = moved[q] /\ dOffers' = dOffers /\ dInstalled' = dInstalled
            \/ moved'[q] = TRUE \/ dPc[q] = "off"
<1> USE DEF DriverTypes, D!Go, D!At
<1>1. CASE \E o \in Options : D!Start(p, o)
  BY <1>1 DEF D!Start, D!world
<1>2. CASE D!Acquire(p) /\ lock = None /\ lock' = p /\ D!Go(p, "load") /\ UNCHANGED D!own
  BY <1>2 DEF D!own, D!Acquire, D!world
<1>3. CASE D!Load(p)
  BY <1>3 DEF D!Load, D!world
<1>4. CASE Looks1(p)
  BY <1>4, LooksStep DEF SeenBy
<1>5. CASE D!Decide(p)
  BY <1>5 DEF D!Decide, D!own, D!world
<1>6. CASE D!Notify(p) \/ D!HearEnd(p) \/ D!Save(p)
  BY <1>6 DEF D!Notify, D!HearEnd, D!Save, D!own, D!world
<1>7. CASE \E a \in {"install_now", "not_remind"} : D!Click(p, a)
  BY <1>7 DEF D!Click, D!world
<1>8. CASE D!Close(p) \/ D!HearAction(p)
  BY <1>8 DEF D!Close, D!HearAction, D!world
<1>9. CASE \E ok \in BOOLEAN : D!Saved(p, ok)
  BY <1>9 DEF D!Saved, D!own, D!world
<1>10. CASE \E ok \in BOOLEAN : D!Install(p, ok)
  <2> PICK ok \in BOOLEAN : D!Install(p, ok)
    BY <1>10
  <2>1. UNCHANGED <<opts, look, signals, selected, clicked, dOffers>> /\ dPc'[q] = dPc[q]
    BY DEF D!Install
  <2>2. moved'[q] = (moved[q] \/ (ok /\ dPc[q] # "off"))
    BY DEF D!Install
  <2>3. ~ ok => dInstalled' = dInstalled
    BY DEF D!Install
  <2>4. CASE ok = TRUE
    <3>1. dPc[q] = "off" \/ moved'[q] = TRUE
      BY <2>2, <2>4
    <3> QED BY <2>1, <3>1
  <2>5. CASE ok = FALSE
    <3>1. moved'[q] = moved[q]
      BY <2>2, <2>5
    <3> QED BY <2>1, <2>3, <2>5, <3>1
  <2> QED BY <2>4, <2>5
<1>11. CASE Ends(p)
  BY <1>11 DEF Ends, D!Done, D!Killed, D!Acquire, D!End, D!world
<1> QED BY <1>1, <1>2, <1>3, <1>4, <1>5, <1>6, <1>7, <1>8, <1>9, <1>10, <1>11 DEF Acts
LEMMA TypesActs == ASSUME DriverTypes, NEW p \in Procs, Saw(p), Acts(p) PROVE DriverTypes'
<1> USE DriverAssumption DEF D!Go, D!At
<1>0. dPc \in [Procs -> Steps] /\ dPc[p] \in Steps
  BY DEF DriverTypes
<1>1. CASE \E o \in Options : D!Start(p, o)
  <2>1. PICK o \in Options : D!Start(p, o)
    BY <1>1
  <2>2. UNCHANGED <<dConfig, look, signals, selected, clicked, moved, dOffers, dInstalled, declined, cut>>
        /\ opts' = [opts EXCEPT ![p] = o] /\ dPc' = [dPc EXCEPT ![p] = "lock"]
    BY <2>1 DEF D!Start, D!world
  <2> QED BY <2>2 DEF DriverTypes, Steps
<1>2. CASE D!Acquire(p) /\ lock = None /\ lock' = p /\ D!Go(p, "load") /\ UNCHANGED D!own
  BY <1>2 DEF D!own, D!Acquire, D!world, DriverTypes, Steps
<1>3. CASE D!Load(p)
  <2>1. dConfig' \in [Procs -> BOOLEAN]
    <3>1. dConfig' = [dConfig EXCEPT ![p] = dFile = "never"]
      BY <1>3 DEF D!Load
    <3> QED BY <3>1 DEF DriverTypes
  <2>2. UNCHANGED <<opts, look, signals, selected, clicked, moved, dOffers, dInstalled, declined, cut>>
        /\ (\E to \in {"end", "version"} : dPc' = [dPc EXCEPT ![p] = to]) /\ dPc[p] = "load"
    BY <1>3 DEF D!Load, D!world
  <2> QED BY <2>1, <2>2 DEF DriverTypes, Steps
<1>4. CASE Looks1(p)
  <2>1. SeenBy(p) /\ dPc[p] # "off"
    BY <1>4, LooksStep
  <2> QED BY <2>1 DEF SeenBy, DriverTypes, Steps
<1>5. CASE D!Decide(p)
  <2>1. \E to \in {"end", "install", "notify"} : dPc' = [dPc EXCEPT ![p] = to]
    <3>1. opts[p].mode \in {"check", "install", "ask"}
      BY <1>5 DEF D!Decide, DriverTypes
    <3> QED BY <3>1, <1>5 DEF D!Decide
  <2> QED BY <2>1, <1>5 DEF D!Decide, D!own, D!world, DriverTypes, Steps
<1>6. CASE D!Notify(p) \/ D!Save(p)
  BY <1>6 DEF D!Notify, D!Save, D!own, D!world, DriverTypes, Steps
<1>61. CASE D!HearEnd(p)
  <2>1. (\E to \in {"end", "install", "save"} : dPc' = [dPc EXCEPT ![p] = to]) /\ dPc[p] = "shown"
    BY <1>61 DEF D!HearEnd
  <2> QED BY <2>1, <1>61 DEF D!HearEnd, D!own, D!world, DriverTypes, Steps
<1>7. CASE \E a \in {"install_now", "not_remind"} : D!Click(p, a)
  <2>1. PICK a \in {"install_now", "not_remind"} : D!Click(p, a)
    BY <1>7
  <2>2. signals[p] \in [actions : Seq(Choices), closed : BOOLEAN]
    BY DEF DriverTypes
  <2>3. Append(signals[p].actions, a) \in Seq(Choices)
    <3>1. \A s \in Seq(Choices), x \in Choices : Append(s, x) \in Seq(Choices)
      OBVIOUS
    <3>2. signals[p].actions \in Seq(Choices)
      BY <2>2
    <3>3. a \in Choices
      BY DEF Choices
    <3> QED BY <3>1, <3>2, <3>3
  <2>4. [signals[p] EXCEPT !.actions = Append(signals[p].actions, a)]
            \in [actions : Seq(Choices), closed : BOOLEAN]
    BY <2>2, <2>3
  <2>5. signals' = [signals EXCEPT ![p] = [signals[p] EXCEPT !.actions = Append(signals[p].actions, a)]]
    BY <2>1 DEF D!Click
  <2>6. clicked' \in [Procs -> SUBSET Choices]
    <3>1. clicked' = [clicked EXCEPT ![p] = @ \union {a}]
      BY <2>1 DEF D!Click
    <3>2. clicked[p] \union {a} \in SUBSET Choices
      <4>1. a \in Choices
        BY DEF Choices
      <4> QED BY <4>1 DEF DriverTypes
    <3> QED BY <3>1, <3>2 DEF DriverTypes
  <2>7. UNCHANGED <<dPc, opts, dConfig, look, selected, moved, dOffers, dInstalled, declined, cut>>
    BY <2>1 DEF D!Click, D!world
  <2> QED BY <2>4, <2>5, <2>6, <2>7 DEF DriverTypes
<1>8. CASE D!Close(p)
  BY <1>8 DEF D!Close, D!world, DriverTypes
<1>81. CASE D!HearAction(p)
  <2>1. signals[p].actions # <<>> /\ selected' = [selected EXCEPT ![p] = Head(signals[p].actions)]
        /\ signals' = [signals EXCEPT ![p].actions = Tail(@)]
        /\ UNCHANGED <<dPc, opts, dConfig, look, clicked, moved, dOffers, dInstalled, declined, cut>>
    BY <1>81 DEF D!HearAction, D!world
  <2>2. signals[p].actions \in Seq(Choices)
    BY DEF DriverTypes
  <2>3. Head(signals[p].actions) \in Choices /\ Tail(signals[p].actions) \in Seq(Choices)
    <3>1. \A s \in Seq(Choices) : s # <<>> => Head(s) \in Choices /\ Tail(s) \in Seq(Choices)
      OBVIOUS
    <3> QED BY <2>1, <2>2, <3>1
  <2> QED BY <2>1, <2>3 DEF DriverTypes
<1>9. CASE \E ok \in BOOLEAN : D!Saved(p, ok)
  <2>1. PICK ok \in BOOLEAN : D!Saved(p, ok)
    BY <1>9
  <2>2. UNCHANGED <<opts, dConfig, look, signals, selected, clicked, moved, dOffers, dInstalled>>
        /\ cut' = ~ ok /\ declined' = TRUE /\ dPc[p] = "saving"
        /\ (\E to \in {"save", "end"} : dPc' = [dPc EXCEPT ![p] = to])
    BY <2>1 DEF D!Saved, D!own, D!world
  <2>3. cut' \in BOOLEAN
    BY <2>2
  <2> QED BY <2>2, <2>3 DEF DriverTypes, Steps
<1>10. CASE \E ok \in BOOLEAN : D!Install(p, ok)
  <2>1. PICK ok \in BOOLEAN : D!Install(p, ok)
    BY <1>10
  <2>2. UNCHANGED <<opts, dConfig, look, signals, selected, clicked, dOffers, declined, cut>>
        /\ dPc' = [dPc EXCEPT ![p] = "end"] /\ dPc[p] = "install"
    BY <2>1 DEF D!Install
  <2>3. moved' \in [Procs -> BOOLEAN]
    <3>1. moved' = [q \in Procs |-> moved[q] \/ (ok /\ q # p /\ dPc[q] # "off")]
      BY <2>1 DEF D!Install
    <3>2. ASSUME NEW q \in Procs PROVE (moved[q] \/ (ok /\ q # p /\ dPc[q] # "off")) \in BOOLEAN
      OBVIOUS
    <3> QED BY <3>1, <3>2
  <2>4. dInstalled' \subseteq DriverVersions /\ IsFiniteSet(dInstalled')
    <3>1. dInstalled' = IF ok THEN dInstalled \union {look[p].offer.version} ELSE dInstalled
      BY <2>1 DEF D!Install
    <3>2. look[p].offer \in Packaged
      BY <2>2 DEF Saw, Taken, DriverTypes, Looks
    <3>3. look[p].offer.version \in DriverVersions
      BY <3>2 DEF Packaged
    <3>4. dInstalled \subseteq DriverVersions /\ IsFiniteSet(dInstalled)
      BY DEF DriverTypes
    <3>5. IsFiniteSet(dInstalled \union {look[p].offer.version})
      BY <3>4, FS_AddElement
    <3> QED BY <3>1, <3>3, <3>4, <3>5
  <2> QED BY <2>2, <2>3, <2>4 DEF DriverTypes, Steps
<1>11. CASE Ends(p)
  <2>1. D!End(p) /\ UNCHANGED <<dOffers, dInstalled, declined>> /\ cut' \in BOOLEAN
    BY <1>11 DEF Ends, D!Done, D!Killed, D!Acquire, D!world, DriverTypes
  <2>2. D!NoSignals \in [actions : Seq(Choices), closed : BOOLEAN]
    <3>1. <<>> \in Seq(Choices)
      OBVIOUS
    <3> QED BY <3>1 DEF D!NoSignals
  <2> QED BY <2>1, <2>2 DEF D!End, DriverTypes, Steps, D!NoLook, Looks
<1> QED BY <1>1, <1>2, <1>3, <1>4, <1>5, <1>6, <1>61, <1>7, <1>8, <1>81, <1>9, <1>10, <1>11 DEF Acts
\* Who has the lock, and what becomes of it.
LEMMA LockActs ==
  ASSUME DriverTypes, NEW p \in Procs, Acts(p)
  PROVE  \/ lock' = lock /\ dPc'[p] = "lock"
         \/ lock = None /\ lock' = p
         \/ lock' = lock /\ dPc[p] \notin {"off", "lock"}
         \/ lock' = (IF lock = p THEN None ELSE lock) /\ dPc'[p] = "off"
<1> USE DEF DriverTypes, D!Go, D!At
<1>1. CASE \E o \in Options : D!Start(p, o)
  BY <1>1 DEF D!Start
<1>2. CASE D!Acquire(p) /\ lock = None /\ lock' = p /\ D!Go(p, "load") /\ UNCHANGED D!own
  BY <1>2
<1>3. CASE D!Load(p)
  BY <1>3 DEF D!Load
<1>4. CASE Looks1(p)
  BY <1>4, LooksStep DEF SeenBy
<1>5. CASE D!Decide(p) \/ D!Notify(p) \/ D!HearEnd(p) \/ D!Save(p)
  BY <1>5 DEF D!Decide, D!Notify, D!HearEnd, D!Save
<1>6. CASE (\E a \in {"install_now", "not_remind"} : D!Click(p, a)) \/ D!Close(p) \/ D!HearAction(p)
  BY <1>6 DEF D!Click, D!Close, D!HearAction
<1>7. CASE \E ok \in BOOLEAN : D!Saved(p, ok) \/ D!Install(p, ok)
  BY <1>7 DEF D!Saved, D!Install
<1>8. CASE Ends(p)
  BY <1>8 DEF Ends, D!Done, D!Killed, D!Acquire, D!End
<1> QED BY <1>1, <1>2, <1>3, <1>4, <1>5, <1>6, <1>7, <1>8 DEF Acts

LEMMA AloneActs == ASSUME DriverTypes, OneAtWork, NEW p \in Procs, Acts(p) PROVE OneAtWork'
<1> SUFFICES ASSUME NEW q \in Procs, dPc'[q] \notin {"off", "lock"} PROVE lock' = q
  BY DEF OneAtWork
<1> USE DriverAssumption DEF OneAtWork
<1>1. CASE q = p
  BY <1>1, LockActs
<1>2. CASE q # p
  <2>1. lock = q /\ q # None
    BY <1>2, OthersKeep
  <2> QED BY <2>1, <1>2, LockActs
<1> QED BY <1>1, <1>2

\* The file is written by who heard that the user said never.
LEMMA FileActs ==
  ASSUME DriverTypes, NEW p \in Procs, Acts(p)
  PROVE  \/ declined' = declined /\ cut' = TRUE
         \/ UNCHANGED <<declined, dFile, cut>> /\ dPc[p] # "saving"
         \/ D!Save(p) \/ \E ok \in BOOLEAN : D!Saved(p, ok)
<1> USE DEF DriverTypes, D!At
<1>1. CASE \E o \in Options : D!Start(p, o)
  BY <1>1 DEF D!Start
<1>2. CASE D!Acquire(p) /\ lock = None /\ lock' = p /\ D!Go(p, "load") /\ UNCHANGED D!own
  BY <1>2 DEF D!Acquire
<1>3. CASE D!Load(p)
  BY <1>3 DEF D!Load
<1>4. CASE Looks1(p)
  BY <1>4, LooksStep DEF SeenBy
<1>5. CASE D!Decide(p) \/ D!Notify(p) \/ D!HearEnd(p)
  BY <1>5 DEF D!Decide, D!Notify, D!HearEnd
<1>6. CASE (\E a \in {"install_now", "not_remind"} : D!Click(p, a)) \/ D!Close(p) \/ D!HearAction(p)
  BY <1>6 DEF D!Click, D!Close, D!HearAction
<1>7. CASE \E ok \in BOOLEAN : D!Install(p, ok)
  BY <1>7 DEF D!Install
<1>8. CASE Ends(p)
  <2>1. CASE D!Done(p) \/ D!Acquire(p)
    BY <2>1 DEF D!Done, D!Acquire
  <2>2. CASE D!Killed(p)
    <3>1. cut' = (cut \/ dPc[p] = "saving") /\ UNCHANGED <<dFile, declined>>
      BY <2>2 DEF D!Killed
    <3>2. CASE dPc[p] = "saving"
      BY <3>1, <3>2
    <3>3. CASE dPc[p] # "saving"
      <4>1. cut' = cut
        BY <3>1, <3>3
      <4> QED BY <3>1, <3>3, <4>1
    <3> QED BY <3>2, <3>3
  <2> QED BY <1>8, <2>1, <2>2 DEF Ends
<1> QED BY <1>1, <1>2, <1>3, <1>4, <1>5, <1>6, <1>7, <1>8 DEF Acts

LEMMA KeptActs == ASSUME DriverTypes, NeverKept, NEW p \in Procs, Acts(p) PROVE NeverKept'
<1> USE DEF NeverKept
<1>1. CASE declined' = declined /\ cut' = TRUE
  BY <1>1
<1>2. CASE UNCHANGED <<declined, dFile, cut>> /\ dPc[p] # "saving"
  BY <1>2, OthersKeep
<1>3. CASE D!Save(p)
  <2>1. dPc'[p] = "saving"
    BY <1>3 DEF D!Save, D!Go, DriverTypes
  <2> QED BY <2>1
<1>4. CASE \E ok \in BOOLEAN : D!Saved(p, ok)
  BY <1>4 DEF D!Saved
<1> QED BY <1>1, <1>2, <1>3, <1>4, FileActs

LEMMA StaysLooking ==
  ASSUME DriverTypes, NEW p \in Procs, Acts(p), dPc'[p] \in Looking
  PROVE  \/ D!Load(p)
         \/ dPc[p] \in Looking /\ opts'[p] = opts[p] /\ declined' = declined /\ cut' = cut
<1> USE DEF DriverTypes, D!Go, D!At, Looking
<1>1. CASE \E o \in Options : D!Start(p, o)
  BY <1>1 DEF D!Start
<1>2. CASE D!Acquire(p) /\ lock = None /\ lock' = p /\ D!Go(p, "load") /\ UNCHANGED D!own
  BY <1>2
<1>4. CASE Looks1(p)
  BY <1>4, LooksStep DEF SeenBy
<1>5. CASE D!Decide(p) \/ D!Notify(p)
  BY <1>5 DEF D!Decide, D!Notify, D!own
<1>6. CASE (\E a \in {"install_now", "not_remind"} : D!Click(p, a)) \/ D!Close(p) \/ D!HearAction(p)
  BY <1>6 DEF D!Click, D!Close, D!HearAction
<1>7. CASE \E ok \in BOOLEAN : D!Saved(p, ok) \/ D!Install(p, ok)
  BY <1>7 DEF D!Saved, D!Install
<1>8. CASE Ends(p)
  BY <1>8 DEF Ends, D!Done, D!Killed, D!Acquire, D!End
<1>9. CASE D!HearEnd(p) \/ D!Save(p)
  BY <1>9 DEF D!HearEnd, D!Save
<1> QED BY <1>1, <1>2, <1>4, <1>5, <1>6, <1>7, <1>8, <1>9 DEF Acts

LEMMA QuietActs ==
  ASSUME DriverTypes, OneAtWork, NeverKept, NEW p \in Procs, Acts(p), NEW q \in Procs, Quiet(q)
  PROVE  Quiet(q)'
<1> SUFFICES ASSUME dPc'[q] \in Looking, declined', ~ cut' PROVE opts'[q].force = TRUE
  BY DEF Quiet
<1>1. CASE q # p
  <2>1. dPc[q] \in Looking /\ opts'[q] = opts[q]
    BY <1>1, OthersKeep
  <2>2. dPc[p] \in {"off", "lock"}
    BY <1>1, <2>1 DEF OneAtWork, Looking
  <2>3. ~ D!Save(p) /\ \A ok \in BOOLEAN : ~ D!Saved(p, ok)
    BY <2>2 DEF D!Save, D!Saved, D!At
  <2>4. declined' = declined /\ cut' = cut
    BY <2>3, FileActs
  <2> QED BY <2>1, <2>4 DEF Quiet
<1>2. CASE q = p
  <2>1. CASE D!Load(p)
    <3>1. dPc[p] = "load" /\ UNCHANGED <<opts, declined, cut>>
      BY <2>1 DEF D!Load, D!At
    <3>2. dFile = "never"
      BY <3>1 DEF NeverKept, OneAtWork
    <3>3. dConfig' = [dConfig EXCEPT ![p] = TRUE]
      BY <2>1, <3>2 DEF D!Load
    <3>4. dConfig'[p] = TRUE
      BY <3>3 DEF DriverTypes
    <3>5. dPc' = [dPc EXCEPT ![p] = IF dConfig'[p] /\ ~ opts[p].force THEN "end" ELSE "version"]
      BY <2>1 DEF D!Load, D!Go
    <3>6. dPc'[p] = IF dConfig'[p] /\ ~ opts[p].force THEN "end" ELSE "version"
      BY <3>5 DEF DriverTypes
    <3>7. opts[p].force \in BOOLEAN
      BY <3>1, DriverAssumption DEF DriverTypes
    <3>8. opts[p].force = TRUE
      <4> SUFFICES ASSUME opts[p].force = FALSE PROVE FALSE
        BY <3>7
      <4>1. dPc'[p] = "end"
        BY <3>4, <3>6
      <4> QED BY <4>1, <1>2 DEF Looking
    <3> QED BY <3>1, <3>8, <1>2
  <2>2. CASE dPc[p] \in Looking /\ opts'[p] = opts[p] /\ declined' = declined /\ cut' = cut
    BY <1>2, <2>2 DEF Quiet
  <2> QED BY <1>2, <2>1, <2>2, StaysLooking
<1> QED BY <1>1, <1>2
LEMMA HeardActs ==
  ASSUME DriverTypes, NEW p \in Procs, Acts(p), NEW q \in Procs, Heard(q)
  PROVE  Heard(q)'
<1>0. CASE q # p
  <2>1. dPc'[q] = dPc[q] /\ opts'[q] = opts[q] /\ signals'[q] = signals[q]
        /\ selected'[q] = selected[q] /\ clicked'[q] = clicked[q]
    BY <1>0, OthersKeep
  <2> QED BY <2>1 DEF Heard
<1> SUFFICES ASSUME q = p PROVE Heard(p)'
  BY <1>0
<1> USE DriverAssumption DEF DriverTypes, D!Go, D!At
<1>1. CASE \E o \in Options : D!Start(p, o)
  <2>1. UNCHANGED <<signals, selected, clicked>> /\ dPc'[p] = "lock"
    BY <1>1 DEF D!Start
  <2> QED BY <2>1 DEF Heard
<1>2. CASE D!Acquire(p) /\ lock = None /\ lock' = p /\ D!Go(p, "load") /\ UNCHANGED D!own
  <2>1. UNCHANGED <<signals, selected, clicked>> /\ dPc'[p] = "load"
    BY <1>2 DEF D!own
  <2> QED BY <2>1 DEF Heard
<1>3. CASE D!Load(p)
  <2>1. UNCHANGED <<signals, selected, clicked>> /\ dPc'[p] \in {"end", "version"}
    BY <1>3 DEF D!Load
  <2> QED BY <2>1 DEF Heard
<1>4. CASE Looks1(p)
  <2>1. UNCHANGED <<signals, selected, clicked>> /\ dPc'[p] \notin {"notify", "shown", "install"}
    BY <1>4, LooksStep DEF SeenBy
  <2> QED BY <2>1 DEF Heard
<1>5. CASE D!Decide(p)
  <2>1. UNCHANGED <<opts, signals, selected, clicked>> /\ dPc[p] = "found"
    BY <1>5 DEF D!Decide, D!own
  <2>2. opts[p].mode \in {"check", "install", "ask"}
    BY <2>1
  <2>3. \/ dPc'[p] = "end"
        \/ dPc'[p] = "install" /\ opts[p].mode = "install"
        \/ dPc'[p] = "notify" /\ opts[p].mode = "ask"
    BY <1>5, <2>2 DEF D!Decide
  <2> QED BY <2>1, <2>3 DEF Heard
<1>6. CASE D!Notify(p)
  <2>1. UNCHANGED <<opts, signals, selected, clicked>> /\ dPc[p] = "notify" /\ dPc'[p] = "shown"
    BY <1>6 DEF D!Notify, D!own
  <2> QED BY <2>1 DEF Heard
<1>7. CASE \E a \in {"install_now", "not_remind"} : D!Click(p, a)
  <2>1. PICK a \in {"install_now", "not_remind"} : D!Click(p, a)
    BY <1>7
  <2>2. clicked[p] = {} /\ dPc[p] = "shown" /\ UNCHANGED <<dPc, opts, selected>>
    BY <2>1 DEF D!Click
  <2>3. clicked'[p] = {a}
    <3>1. clicked' = [clicked EXCEPT ![p] = @ \union {a}]
      BY <2>1 DEF D!Click
    <3> QED BY <3>1, <2>2
  <2>4. signals'[p].actions = <<a>>
    <3>1. signals' = [signals EXCEPT ![p].actions = Append(@, a)]
      BY <2>1 DEF D!Click
    <3>2. signals[p].actions = <<>>
      BY <2>2 DEF Heard
    <3>3. Append(<<>>, a) = <<a>>
      OBVIOUS
    <3> QED BY <3>1, <3>2, <3>3
  <2>5. selected[p] = None
    BY <2>2 DEF Heard
  <2> QED BY <2>2, <2>3, <2>4, <2>5 DEF Heard
<1>8. CASE D!Close(p)
  <2>1. signals'[p].actions = signals[p].actions /\ UNCHANGED <<dPc, opts, selected, clicked>>
    BY <1>8 DEF D!Close
  <2> QED BY <2>1 DEF Heard
<1>9. CASE D!HearAction(p)
  <2>1. signals[p].actions # <<>> /\ UNCHANGED <<dPc, opts, clicked>> /\ dPc[p] = "shown"
        /\ selected' = [selected EXCEPT ![p] = Head(signals[p].actions)]
        /\ signals' = [signals EXCEPT ![p].actions = Tail(@)]
    BY <1>9 DEF D!HearAction
  <2>2. PICK a \in clicked[p] : signals[p].actions = <<a>>
    BY <2>1 DEF Heard
  <2>3. Head(<<a>>) = a /\ Tail(<<a>>) = <<>>
    OBVIOUS
  <2>4. selected'[p] = a /\ signals'[p].actions = <<>>
    BY <2>1, <2>2, <2>3
  <2> QED BY <2>1, <2>4 DEF Heard
<1>10. CASE D!HearEnd(p)
  <2>1. UNCHANGED <<opts, signals, selected, clicked>> /\ dPc[p] = "shown"
    BY <1>10 DEF D!HearEnd, D!own
  <2>2. dPc'[p] \in {"end", "save"} \/ (dPc'[p] = "install" /\ selected[p] = "install_now")
    <3>1. CASE selected[p] = "install_now"
      BY <1>10, <3>1 DEF D!HearEnd
    <3>2. CASE selected[p] = "not_remind"
      BY <1>10, <3>2 DEF D!HearEnd
    <3>3. CASE selected[p] # "install_now" /\ selected[p] # "not_remind"
      <4>1. dPc' = [dPc EXCEPT ![p] = "end"]
        BY <1>10, <3>3 DEF D!HearEnd
      <4> QED BY <4>1
    <3> QED BY <3>1, <3>2, <3>3
  <2> QED BY <2>1, <2>2 DEF Heard
<1>11. CASE D!Save(p)
  <2>1. UNCHANGED <<signals, selected, clicked>> /\ dPc'[p] = "saving"
    BY <1>11 DEF D!Save, D!own
  <2> QED BY <2>1 DEF Heard
<1>12. CASE \E ok \in BOOLEAN : D!Saved(p, ok)
  <2>1. UNCHANGED <<signals, selected, clicked>> /\ dPc'[p] \in {"save", "end"}
    BY <1>12 DEF D!Saved, D!own
  <2> QED BY <2>1 DEF Heard
<1>13. CASE \E ok \in BOOLEAN : D!Install(p, ok)
  <2>1. UNCHANGED <<signals, selected, clicked>> /\ dPc'[p] = "end"
    BY <1>13 DEF D!Install
  <2> QED BY <2>1 DEF Heard
<1>14. CASE Ends(p)
  <2>1. D!End(p)
    BY <1>14 DEF Ends, D!Done, D!Killed
  <2>2. signals'[p].actions = <<>> /\ selected'[p] = None /\ dPc'[p] = "off"
    BY <2>1 DEF D!End, D!NoSignals
  <2> QED BY <2>2 DEF Heard
<1> QED BY <1>1, <1>2, <1>3, <1>4, <1>5, <1>6, <1>7, <1>8, <1>9, <1>10, <1>11, <1>12, <1>13, <1>14
       DEF Acts

LEMMA RemoteSame == dOffers' = dOffers => D!Remote' = D!Remote
  BY DEF D!Remote, D!Best, D!Offered

\* Places where nothing is said of what was seen.
Blank == Steps \ ({"installed", "again", "current"} \union Taken)

LEMMA SawActs ==
  ASSUME DriverTypes, NEW p \in Procs, Acts(p), NEW q \in Procs, Saw(q)
  PROVE  Saw(q)'
<1>0. CASE q # p
  <2>1. dPc'[q] = dPc[q] /\ look'[q] = look[q]
    BY <1>0, OthersKeep
  <2>2. CASE dPc[q] = "off"
    BY <2>1, <2>2 DEF Saw, Taken
  <2>3. CASE moved'[q] = TRUE
    BY <2>1, <2>3 DEF Saw, Taken
  <2>4. CASE moved'[q] = moved[q] /\ dOffers' = dOffers /\ dInstalled' = dInstalled
    <3>1. D!Remote' = D!Remote
      BY <2>4, RemoteSame
    <3> HIDE DEF D!Remote
    <3> QED BY <2>1, <2>4, <3>1 DEF Saw
  <2> QED BY <1>0, <2>2, <2>3, <2>4, OthersKeep
<1> SUFFICES ASSUME q = p PROVE Saw(p)'
  BY <1>0
<1>00. ASSUME dPc'[p] \in Blank PROVE Saw(p)'
  BY <1>00 DEF Saw, Blank, Taken
<1> USE DriverAssumption DEF DriverTypes, D!Go, D!At
<1>1. CASE \E o \in Options : D!Start(p, o)
  BY <1>1, <1>00 DEF D!Start, Blank, Steps, Taken
<1>2. CASE D!Acquire(p) /\ lock = None /\ lock' = p /\ D!Go(p, "load") /\ UNCHANGED D!own
  BY <1>2, <1>00 DEF Blank, Steps, Taken
<1>3. CASE D!Load(p)
  <2>1. dPc'[p] \in {"end", "version"}
    BY <1>3 DEF D!Load
  <2> QED BY <2>1, <1>00 DEF Blank, Steps, Taken
<1>4. CASE Looks1(p)
  <2>0. UNCHANGED <<dOffers, dInstalled, moved>>
    BY <1>4, LooksStep DEF SeenBy
  <2>00. D!Remote' = D!Remote
    BY <2>0, RemoteSame
  <2> HIDE DEF D!Remote
  <2>1. CASE dPc'[p] \in {"end", "remote"}
    BY <2>1, <1>00 DEF Blank, Steps, Taken
  <2>2. CASE D!AskRemote(p)
    <3>1. dPc'[p] = "installed" /\ look'[p].offer = D!Remote
      BY <2>2 DEF D!AskRemote, D!Sees, Looks
    <3> QED BY <3>1, <2>00, <2>0 DEF Saw, Taken
  <2>3. CASE \E there \in D!Listed : D!AskInstalled(p, there)
    <3>1. PICK there \in D!Listed : D!AskInstalled(p, there)
      BY <2>3
    <3>2. look'[p].offer = look[p].offer /\ dPc[p] = "installed"
      BY <3>1 DEF D!AskInstalled, D!Sees, Looks
    <3>3. CASE dPc'[p] = "end"
      BY <3>3, <2>1
    <3>4. CASE dPc'[p] = "again" /\ look[p].offer # None
      BY <3>2, <3>4, <2>0, <2>00 DEF Saw, Taken
    <3>5. CASE dPc'[p] = "found" /\ look[p].offer # None /\ there = None
      <4>1. dInstalled = {}
        BY <3>5 DEF D!Listed
      <4> QED BY <3>2, <3>5, <4>1, <2>0, <2>00 DEF Saw, Taken
    <3>6. dPc' = [dPc EXCEPT ![p] = IF look[p].offer = None THEN "end"
                                    ELSE IF there = None THEN "found" ELSE "again"]
      BY <3>1 DEF D!AskInstalled, D!Sees
    <3> QED BY <3>3, <3>4, <3>5, <3>6
  <2>4. CASE D!AskAgain(p) /\ dPc'[p] # "end"
    <3>1. dPc'[p] = "current" /\ look'[p].second = D!Remote /\ look'[p].offer = look[p].offer
          /\ dPc[p] = "again"
      BY <2>4 DEF D!AskAgain, D!Sees, Looks
    <3> QED BY <3>1, <2>00, <2>0 DEF Saw, Taken
  <2>5. CASE \E there \in D!Listed : D!AskCurrent(p, there) /\ dPc'[p] # "end"
    <3>1. PICK there \in D!Listed : D!AskCurrent(p, there) /\ dPc'[p] # "end"
      BY <2>5
    <3>2. look'[p].offer = look[p].offer /\ dPc[p] = "current"
      BY <3>1 DEF D!AskCurrent, D!Sees, Looks
    <3>3. dPc'[p] = "found" /\ there # None /\ look[p].second.version > there
      BY <3>1 DEF D!AskCurrent, D!Sees
    <3>4. there \in dInstalled
      BY <3>3 DEF D!Listed
    <3>5. look[p].offer # None
      BY <3>2 DEF Saw
    <3>6. ASSUME moved'[p] = FALSE
          PROVE  look[p].offer = D!Remote /\ look[p].offer.version > there
      BY <3>2, <3>3, <3>6, <2>0 DEF Saw
    <3> QED BY <3>2, <3>3, <3>4, <3>5, <3>6, <2>0, <2>00 DEF Saw, Taken
  <2>6. CASE D!ReadVersion(p)
    <3>1. dPc'[p] \in {"end", "remote"}
      BY <2>6 DEF D!ReadVersion, D!Sees
    <3> QED BY <3>1, <2>1
  <2>7. CASE D!LooksFail(p)
    <3>1. dPc'[p] = "end"
      BY <2>7 DEF D!LooksFail, D!Gives, D!Sees
    <3> QED BY <3>1, <2>1
  <2> QED BY <1>4, <2>1, <2>2, <2>3, <2>4, <2>5, <2>6, <2>7 DEF Looks1
<1>5. CASE D!Decide(p) \/ D!Notify(p) \/ D!HearEnd(p)
  <2>0. UNCHANGED <<look, dOffers, dInstalled, moved>> /\ dPc[p] \in Taken
    BY <1>5 DEF D!Decide, D!Notify, D!HearEnd, D!own, D!world, Taken
  <2>1. D!Remote' = D!Remote
    BY <2>0, RemoteSame
  <2>2. CASE D!Decide(p)
    <3>1. opts[p].mode \in {"check", "install", "ask"}
      BY <2>2 DEF D!Decide
    <3>2. dPc'[p] \in {"end", "install", "notify"}
      BY <2>2, <3>1 DEF D!Decide
    <3> HIDE DEF D!Remote
    <3> QED BY <2>0, <2>1, <3>2, <1>00 DEF Saw, Taken, Blank, Steps
  <2>3. CASE D!Notify(p) \/ D!HearEnd(p)
    <3>1. dPc'[p] \in {"shown", "end", "install", "save"}
      BY <2>3 DEF D!Notify, D!HearEnd
    <3> HIDE DEF D!Remote
    <3> QED BY <2>0, <2>1, <3>1, <1>00 DEF Saw, Taken, Blank, Steps
  <2> QED BY <1>5, <2>2, <2>3
<1>6. CASE (\E a \in {"install_now", "not_remind"} : D!Click(p, a)) \/ D!Close(p) \/ D!HearAction(p)
  <2>0. UNCHANGED <<dPc, look, dOffers, dInstalled, moved>>
    BY <1>6 DEF D!Click, D!Close, D!HearAction, D!world
  <2>1. D!Remote' = D!Remote
    BY <2>0, RemoteSame
  <2> HIDE DEF D!Remote
  <2> QED BY <2>0, <2>1 DEF Saw
<1>7. CASE D!Save(p) \/ \E ok \in BOOLEAN : D!Saved(p, ok) \/ D!Install(p, ok)
  <2>1. dPc'[p] \in {"saving", "save", "end"}
    BY <1>7 DEF D!Save, D!Saved, D!Install
  <2> QED BY <2>1, <1>00 DEF Blank, Steps, Taken
<1>8. CASE Ends(p)
  <2>1. dPc'[p] = "off"
    BY <1>8 DEF Ends, D!Done, D!Killed, D!Acquire, D!End
  <2> QED BY <2>1, <1>00 DEF Blank, Steps, Taken
<1> QED BY <1>1, <1>2, <1>3, <1>4, <1>5, <1>6, <1>7, <1>8 DEF Acts

LEMMA HeedsNext == Heeds /\ [D!Next]_dVars => Heeds'
<1> SUFFICES ASSUME Heeds, [D!Next]_dVars PROVE Heeds'
  OBVIOUS
<1>0. DriverTypes /\ OneAtWork /\ NeverKept /\ \A q \in Procs : Quiet(q) /\ Heard(q) /\ Saw(q)
  BY DEF Heeds
<1>1. CASE UNCHANGED dVars
  <2>0. D!Remote' = D!Remote
    BY <1>1, RemoteSame DEF dVars
  <2> HIDE DEF D!Remote
  <2>1. DriverTypes' /\ OneAtWork' /\ NeverKept'
    BY <1>0, <1>1 DEF dVars, DriverTypes, OneAtWork, NeverKept
  <2>2. ASSUME NEW q \in Procs PROVE Quiet(q)' /\ Heard(q)' /\ Saw(q)'
    <3>1. Quiet(q) /\ Heard(q) /\ Saw(q)
      BY <1>0
    <3> QED BY <3>1, <1>1, <2>0 DEF dVars, Quiet, Heard, Saw
  <2> QED BY <2>1, <2>2 DEF Heeds
<1>2. CASE D!Move
  <2>1. UNCHANGED <<dPc, opts, dConfig, look, signals, selected, clicked, lock, dFile, declined, cut>>
        /\ (\A q \in Procs : dPc[q] # "off" => moved'[q] = TRUE) /\ DriverTypes'
    BY <1>0, <1>2, MoveStep
  <2>2. OneAtWork' /\ NeverKept'
    BY <1>0, <2>1 DEF OneAtWork, NeverKept
  <2>3. ASSUME NEW q \in Procs PROVE Quiet(q)' /\ Heard(q)' /\ Saw(q)'
    <3>1. Quiet(q) /\ Heard(q) /\ Saw(q)
      BY <1>0
    <3>2. Quiet(q)' /\ Heard(q)'
      BY <3>1, <2>1 DEF Quiet, Heard
    <3>3. CASE dPc[q] = "off"
      BY <2>1, <3>2, <3>3 DEF Saw, Taken
    <3>4. CASE dPc[q] # "off"
      BY <2>1, <3>1, <3>2, <3>4 DEF Saw, Taken
    <3> QED BY <3>3, <3>4
  <2> QED BY <2>1, <2>2, <2>3 DEF Heeds
<1>3. ASSUME NEW p \in Procs, Acts(p) PROVE Heeds'
  <2>1. DriverTypes' /\ OneAtWork' /\ NeverKept'
    BY <1>0, <1>3, TypesActs, AloneActs, KeptActs
  <2>2. ASSUME NEW q \in Procs PROVE Quiet(q)' /\ Heard(q)' /\ Saw(q)'
    BY <1>0, <1>3, QuietActs, HeardActs, SawActs
  <2> QED BY <2>1, <2>2 DEF Heeds
<1> QED BY <1>1, <1>2, <1>3, DriverActs

\* A user who said never is not asked again, nobody is asked twice at a time,
\* and what is installed was chosen and newer than what was there.
THEOREM AsToldHolds == RepositoriesSpec => []AsTold
  BY HeedsInit, HeedsNext, HeedsTold, DriverRuns, PTL DEF RepositoriesSpec
=============================================================================
