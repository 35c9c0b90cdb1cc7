---------------------------- MODULE DriverDetect ----------------------------
(* ll-driver-detect (main.rs): a process of each session that looks for a    *)
(* newer package of the graphics driver, asks its user with a notification,  *)
(* and has ll-cli install it.  Processes of one user exclude each other, and *)
(* share a file that says that he does not want to be asked again.           *)
EXTENDS Integers, Sequences, FiniteSets

CONSTANTS
    Procs,
    Options,    \* a process is started with: force; mode ("check", "install", "ask")
    Versions,   \* of the package, numbers
    Offers,     \* what repositories may offer: of each, in the order of their
                \* names, a version or None
    MaxRuns,    \* bounds the starts
    MaxMoves,   \* bounds what others do to packages meanwhile
    None

VARIABLES
    pc,         \* of each process
    opts,
    lock,       \* the process that has the record lock, or None
    file,       \* driver_detection.json: None, "never" or "cut"
    config,     \* what a process has loaded: never to remind
    driver,     \* the kernel has the module
    offers,     \* of each repository, the version it offers, or None
    installed,  \* versions of the package
    look,       \* what a process has seen: offered, and there when it looked
    signals,    \* of its notification: the actions, and whether it was closed
    selected,
    clicked,    \* actions the user has chosen
    declined,   \* the user said never, and the process that heard it is done with it
    cut,        \* a write of the file did not come to its end
    moved,      \* packages changed since a process began to look
    runs, moves

own   == <<opts, config, look, signals, selected, clicked, moved>>
world == <<driver, offers, installed>>
vars  == <<pc, own, lock, file, world, declined, cut, runs, moves>>

NoLook == [offer |-> None, second |-> None, there |-> None]
NoSignals == [actions |-> <<>>, closed |-> FALSE]

Init == /\ pc = [p \in Procs |-> "off"] /\ opts = [p \in Procs |-> None]
        /\ lock = None /\ file = None /\ config = [p \in Procs |-> FALSE]
        /\ driver \in BOOLEAN /\ offers \in Offers
        /\ installed \in {{}} \union {{v} : v \in Versions}
        /\ look = [p \in Procs |-> NoLook] /\ signals = [p \in Procs |-> NoSignals]
        /\ selected = [p \in Procs |-> None] /\ clicked = [p \in Procs |-> {}]
        /\ declined = FALSE /\ cut = FALSE /\ moved = [p \in Procs |-> FALSE]
        /\ runs = 0 /\ moves = 0

Go(p, to) == pc' = [pc EXCEPT ![p] = to]
At(p, where) == pc[p] = where

Start(p, o) == /\ At(p, "off") /\ runs < MaxRuns /\ runs' = runs + 1
               /\ Go(p, "lock") /\ opts' = [opts EXCEPT ![p] = o]
               /\ UNCHANGED <<lock, file, config, look, signals, selected, clicked, moved,
                              world, declined, cut, moves>>

\* The lock goes with the process, however it ends.
End(p) == /\ Go(p, "off") /\ lock' = IF lock = p THEN None ELSE lock
          /\ opts' = [opts EXCEPT ![p] = None] /\ config' = [config EXCEPT ![p] = FALSE]
          /\ look' = [look EXCEPT ![p] = NoLook]
          /\ signals' = [signals EXCEPT ![p] = NoSignals]
          /\ selected' = [selected EXCEPT ![p] = None]
          /\ clicked' = [clicked EXCEPT ![p] = {}] /\ moved' = [moved EXCEPT ![p] = FALSE]

\* Another process is running: this one is not needed.
Acquire(p) == /\ At(p, "lock")
              /\ IF lock = None THEN lock' = p /\ Go(p, "load") /\ UNCHANGED own ELSE End(p)
              /\ UNCHANGED <<file, world, declined, cut, runs, moves>>

\* A file that cannot be read is as if it were not there.
Load(p) == /\ At(p, "load")
           /\ config' = [config EXCEPT ![p] = file = "never"]
           /\ Go(p, IF config'[p] /\ ~ opts[p].force THEN "end" ELSE "version")
           /\ UNCHANGED <<opts, lock, file, world, look, signals, selected, clicked, moved,
                          declined, cut, runs, moves>>

----------------------------------------------------------------------------
(* detect_nvidia_with; every question to ll-cli may fail.                    *)

\* parse_remote_info: of equal versions that of the first repository.
Offered == {r \in DOMAIN offers : offers[r] # None}
Best == IF Offered = {} THEN None
        ELSE CHOOSE r \in Offered : \A q \in Offered \ {r} :
                 offers[q] < offers[r] \/ (offers[q] = offers[r] /\ r < q)
Remote == IF Best = None THEN None ELSE [repo |-> Best, version |-> offers[Best]]
\* parse_installed_info: the first one of the list.
Listed == IF installed = {} THEN {None} ELSE installed

Sees(p, seen, next) == /\ look' = [look EXCEPT ![p] = seen] /\ Go(p, next)
                       /\ UNCHANGED <<lock, file, config, world, opts, signals, selected,
                                      clicked, moved, declined, cut, runs, moves>>
Gives(p, where) == At(p, where) /\ Sees(p, look[p], "end")

ReadVersion(p) == /\ At(p, "version") /\ Sees(p, look[p], IF driver THEN "remote" ELSE "end")
AskRemote(p) == /\ At(p, "remote") /\ Sees(p, [look[p] EXCEPT !.offer = Remote], "installed")
\* What is not installed only has to be offered.
AskInstalled(p, there) ==
    /\ At(p, "installed") /\ there \in Listed
    /\ Sees(p, [look[p] EXCEPT !.there = there],
            IF look[p].offer = None THEN "end" ELSE IF there = None THEN "found" ELSE "again")
\* What is installed has to be upgradable, for which both are asked again.
AskAgain(p) == /\ At(p, "again")
               /\ Sees(p, [look[p] EXCEPT !.second = Remote],
                       IF Remote = None THEN "end" ELSE "current")
\* Mutant: what is not newer is taken, too.
AskCurrentAny(p, there) == /\ At(p, "current") /\ there \in Listed
                           /\ Sees(p, [look[p] EXCEPT !.there = there],
                                   IF there = None THEN "end" ELSE "found")
AskCurrent(p, there) ==
    /\ At(p, "current") /\ there \in Listed
    /\ Sees(p, [look[p] EXCEPT !.there = there],
            IF there # None /\ look[p].second.version > there THEN "found" ELSE "end")
LooksFail(p) == \E w \in {"remote", "installed", "again", "current"} : Gives(p, w)

Decide(p) == /\ At(p, "found")
             /\ Go(p, CASE opts[p].mode = "check"   -> "end"
                        [] opts[p].mode = "install" -> "install"
                        [] opts[p].mode = "ask"     -> "notify")
             /\ UNCHANGED <<own, lock, file, world, declined, cut, runs, moves>>

----------------------------------------------------------------------------
(* interactive_notification: the server sends what the user does as one      *)
(* signal, that the notification is gone as another.                         *)

Notify(p) == /\ At(p, "notify") /\ Go(p, "shown")
             /\ UNCHANGED <<own, lock, file, world, declined, cut, runs, moves>>

Click(p, action) ==
    /\ At(p, "shown") /\ ~ signals[p].closed /\ clicked[p] = {}
    /\ signals' = [signals EXCEPT ![p].actions = Append(@, action)]
    /\ clicked' = [clicked EXCEPT ![p] = @ \union {action}]
    /\ UNCHANGED <<pc, opts, config, look, selected, moved, lock, file, world, declined, cut,
                   runs, moves>>
Close(p) == /\ At(p, "shown") /\ ~ signals[p].closed
            /\ signals' = [signals EXCEPT ![p].closed = TRUE]
            /\ UNCHANGED <<pc, opts, config, look, selected, clicked, moved, lock, file, world,
                           declined, cut, runs, moves>>

\* select! takes any branch that is ready: also the end, with an action that
\* came before it.
HearAction(p) == /\ At(p, "shown") /\ signals[p].actions # <<>>
                 /\ selected' = [selected EXCEPT ![p] = Head(signals[p].actions)]
                 /\ signals' = [signals EXCEPT ![p].actions = Tail(@)]
                 /\ UNCHANGED <<pc, opts, config, look, clicked, moved, lock, file, world,
                                declined, cut, runs, moves>>
\* It was closed, or the 25 seconds are over.
HearEnd(p) == /\ At(p, "shown")
              /\ Go(p, CASE selected[p] = "install_now" -> "install"
                         [] selected[p] = "not_remind"  -> "save"
                         [] OTHER                       -> "end")
              /\ UNCHANGED <<own, lock, file, world, declined, cut, runs, moves>>

\* ConfigManager::save empties the file and writes it again; it is called
\* twice, and what fails is ignored.
Save(p) == /\ At(p, "save") /\ file' = "cut" /\ Go(p, "saving")
           /\ UNCHANGED <<own, lock, world, declined, cut, runs, moves>>
Saved(p, ok) == /\ At(p, "saving")
                /\ file' = IF ok THEN "never" ELSE file
                /\ cut' = ~ ok /\ declined' = TRUE
                /\ \/ ~ declined /\ Go(p, "save")
                   \/ Go(p, "end")
                /\ UNCHANGED <<own, lock, world, runs, moves>>

\* ll-cli install of the version of the first look; what becomes of it is not
\* looked at but for a message.
Install(p, ok) == /\ At(p, "install") /\ Go(p, "end")
                  /\ installed' = IF ok THEN installed \union {look[p].offer.version}
                                  ELSE installed
                  /\ moved' = [q \in Procs |-> moved[q] \/ (ok /\ q # p /\ pc[q] # "off")]
                  /\ UNCHANGED <<opts, config, look, signals, selected, clicked, lock, file,
                                 driver, offers, declined, cut, runs, moves>>

Done(p) == /\ At(p, "end") /\ End(p)
           /\ UNCHANGED <<file, world, declined, cut, runs, moves>>
Killed(p) == /\ pc[p] # "off" /\ End(p)
             /\ cut' = (cut \/ At(p, "saving"))
             /\ UNCHANGED <<file, world, declined, runs, moves>>

\* Repositories change what they offer, and users what is installed.
Move == /\ moves < MaxMoves /\ moves' = moves + 1
        /\ \/ offers' \in Offers /\ UNCHANGED installed
           \/ \E v \in Versions : installed' = installed \union {v} /\ UNCHANGED offers
           \/ \E v \in installed : installed' = installed \ {v} /\ UNCHANGED offers
        /\ moved' = [p \in Procs |-> pc[p] # "off"]
        /\ UNCHANGED <<pc, opts, config, look, signals, selected, clicked, lock, file, driver,
                       declined, cut, runs>>

Next == \/ Move
        \/ \E p \in Procs :
            \/ \E o \in Options : Start(p, o)
            \/ Acquire(p) \/ Load(p) \/ ReadVersion(p) \/ AskRemote(p) \/ AskAgain(p)
            \/ \E there \in Listed : AskInstalled(p, there) \/ AskCurrent(p, there)
            \/ LooksFail(p) \/ Decide(p) \/ Notify(p)
            \/ \E a \in {"install_now", "not_remind"} : Click(p, a)
            \/ Close(p) \/ HearAction(p) \/ HearEnd(p) \/ Save(p)
            \/ \E ok \in BOOLEAN : Saved(p, ok) \/ Install(p, ok)
            \/ Done(p) \/ Killed(p)

Spec == Init /\ [][Next]_vars

----------------------------------------------------------------------------
\* A user who does not want to be reminded is not, unless the program is told
\* to, or could not write it down; and he is never asked twice at a time.
NotAskedAgain ==
    /\ \A p \in Procs : At(p, "shown") /\ declined => opts[p].force \/ cut
    /\ \A p, q \in Procs : At(p, "shown") /\ At(q, "shown") => p = q

\* Nothing is installed that the user has not chosen, or told the program to;
\* and if packages are left alone while it looks and asks, it is newer than
\* what is there, and the newest that is offered: unless an older version is
\* there, too, and listed first.
InstalledAsAsked ==
    \A p \in Procs : At(p, "install") =>
        /\ opts[p].mode = "install" \/ "install_now" \in clicked[p]
        /\ opts[p].mode # "check"
        /\ ~ moved[p] /\ Cardinality(installed) <= 1 =>
              /\ \A v \in installed : look[p].offer.version > v
              /\ look[p].offer = Remote

\* The program does what its user has said, and nothing else.
AsTold == NotAskedAgain /\ InstalledAsAsked
=============================================================================
