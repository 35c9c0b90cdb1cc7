----------------------------- MODULE RepoConfig -----------------------------
(* The list of repositories (linyaps-core repo_command.rs, repository.rs):   *)
(* every `ll-cli repo` reads the whole configuration from the daemon, edits  *)
(* its copy and sends it back; the daemon writes it to config.yaml and to    *)
(* its cache, and keeps a copy for readers behind a lock of its own.         *)
EXTENDS Integers, Sequences, FiniteSets, SequencesExt

CONSTANTS
    Clients,    \* ll-cli processes
    Names,      \* effective names of repositories
    Urls,       \* valid addresses
    Priorities, \* what users give a repository
    Step,       \* what the default repository is put ahead by
    MaxEdits,   \* bounds the commands
    None        \* a file that cannot be read, no configuration, no value

\* The priorities are integers, and Step is a positive one.

\* A repository of a configuration; a mirror is on, off, or was never set.
New(n, u, p) == [name |-> n, url |-> u, priority |-> p, mirror |-> None]

NamesOf(c) == {c.repos[k].name : k \in DOMAIN c.repos}
Index(c, n) == CHOOSE k \in DOMAIN c.repos : c.repos[k].name = n
Highest(c) == CHOOSE p \in {c.repos[k].priority : k \in DOMAIN c.repos} :
                  \A k \in DOMAIN c.repos : c.repos[k].priority <= p
Named(c) == c.default \in NamesOf(c)

----------------------------------------------------------------------------
(* apply_repo_operation; an operation that is refused has no result.         *)

Operations ==
    [do : {"add", "update"}, name : Names, url : Urls \union {None}]
    \union [do : {"remove", "default", "enable", "disable"}, name : Names]
    \union [do : {"priority"}, name : Names, value : Priorities]

AddRepo(c, o) == IF o.url = None \/ o.name \in NamesOf(c) THEN None
             ELSE [c EXCEPT !.repos = Append(@, New(o.name, o.url, 0))]

\* The first one of those left with the highest priority becomes the default.
RemoveRepo(c, o) ==
    LET left == [c EXCEPT !.repos = RemoveAt(@, Index(c, o.name))]
        first == CHOOSE k \in DOMAIN left.repos :
                     /\ left.repos[k].priority = Highest(left)
                     /\ \A j \in 1..(k - 1) : left.repos[j].priority < Highest(left)
    IN  IF Len(c.repos) = 1 THEN None
        ELSE IF c.default # o.name THEN left
        ELSE [left EXCEPT !.default = left.repos[first].name]

\* An unchanged default is not sent back, as a refused operation is not.
SetDefault(c, o) ==
    IF c.default = o.name THEN None
    ELSE [c EXCEPT !.default = o.name,
                   !.repos[Index(c, o.name)].priority = Highest(c) + Step]

Apply(c, o) ==
    LET k == Index(c, o.name) IN
    IF o.do = "add" THEN AddRepo(c, o)
    ELSE IF o.name \notin NamesOf(c) THEN None
    ELSE CASE o.do = "remove" -> RemoveRepo(c, o)
           [] o.do = "update" -> IF o.url = None THEN None ELSE [c EXCEPT !.repos[k].url = o.url]
           [] o.do = "default" -> SetDefault(c, o)
           [] o.do = "enable" -> [c EXCEPT !.repos[k].mirror = "on"]
           [] o.do = "disable" -> [c EXCEPT !.repos[k].mirror = "off"]
           [] o.do = "priority" -> [c EXCEPT !.repos[k].priority = o.value]

\* A configuration of the old format, a set of named addresses with a default
\* that need not be one of them: the default, if it is, comes first, and the
\* priorities go down from 0.
Converted(names, default, url) ==
    LET order == (IF default \in names THEN <<default>> ELSE <<>>)
                 \o SetToSeq(names \ {default})
    IN  [default |-> default,
         repos |-> [k \in DOMAIN order |-> New(order[k], url, -(Step * (k - 1)))]]

----------------------------------------------------------------------------
VARIABLES
    file,       \* config.yaml, None if its text is cut off
    memory,     \* the configuration of the daemon's repository, None if it is down
    served,     \* the copy it answers from
    cli,        \* each command: where it is, its daemon, what it read and sends
    edits,      \* commands begun
    expected,   \* what the commands that succeeded make of the first configuration
    clash,      \* commands overlapped, or had different daemons
    spoiled     \* a write of config.yaml failed, or could not be taken back

vars == <<file, memory, served, cli, edits, expected, clash, spoiled>>

Idle == [pc |-> "idle", own |-> FALSE, old |-> None, new |-> None]

\* The daemon begins with a configuration of either format.
Init == /\ \E S \in (SUBSET Names) \ {{}}, d \in Names, u \in Urls :
               file = Converted(S, d, u)
        /\ memory = file /\ served = file /\ expected = file
        /\ cli = [c \in Clients |-> Idle]
        /\ edits = 0 /\ clash = FALSE /\ spoiled = FALSE

At(c, pc) == cli[c].pc = pc
Locked == \E c \in Clients : ~ cli[c].own /\ cli[c].pc \in {"saving", "saved", "restore", "restoring"}
Back(c) == cli' = [cli EXCEPT ![c] = Idle]
Go(c, pc) == cli' = [cli EXCEPT ![c].pc = pc]

\* run_repo asks the daemon, or one of its own (--no-dbus), which has just
\* loaded the file, and edits what it is given.
Ask(c, o, own) ==
    LET source == IF own THEN file ELSE served
        new == IF source = None THEN None ELSE Apply(source, o)
    IN  /\ At(c, "idle") /\ edits < MaxEdits /\ source # None
        /\ edits' = edits + 1
        /\ IF new = None THEN UNCHANGED <<cli, clash>>
           ELSE /\ cli' = [cli EXCEPT ![c] = [pc |-> "set", own |-> own, old |-> source,
                                              new |-> new]]
                /\ clash' = (clash \/ (own /\ memory # None)
                                   \/ \E d \in Clients \ {c} : ~ At(d, "idle"))
        /\ UNCHANGED <<file, memory, served, expected, spoiled>>

\* update_config under the repository's mutex: save_config refuses a default
\* that is not in the list, and empties the file before it writes it.
Set(c) == /\ At(c, "set") /\ (cli[c].own \/ ~ Locked)
          /\ IF Named(cli[c].new) THEN file' = None /\ Go(c, "saving")
             ELSE UNCHANGED file /\ Back(c)
          /\ UNCHANGED <<memory, served, edits, expected, clash, spoiled>>

Saved(c) == /\ At(c, "saving")
            /\ file' = cli[c].new /\ Go(c, "saved")
            /\ UNCHANGED <<memory, served, edits, expected, clash, spoiled>>

\* Nothing is taken back when the first write fails.
SaveFails(c) == /\ At(c, "saving")
                /\ Back(c) /\ spoiled' = TRUE
                /\ UNCHANGED <<file, memory, served, edits, expected, clash>>

CacheWritten(c) == /\ At(c, "saved")
                   /\ Go(c, "publish")
                   /\ memory' = IF cli[c].own THEN memory ELSE cli[c].new
                   /\ UNCHANGED <<file, served, edits, expected, clash, spoiled>>

\* Mutant: the file is left as it was written.
CacheFailsOnly(c) == /\ At(c, "saved") /\ Back(c)
                     /\ UNCHANGED <<file, memory, served, edits, expected, clash, spoiled>>
\* The old configuration is saved again, unless save_config refuses it.
CacheFails(c) ==
    LET old == IF cli[c].own THEN cli[c].old ELSE memory IN
    /\ At(c, "saved")
    /\ IF Named(old) THEN file' = None /\ Go(c, "restoring") /\ UNCHANGED spoiled
       ELSE UNCHANGED file /\ Back(c) /\ spoiled' = TRUE
    /\ UNCHANGED <<memory, served, edits, expected, clash>>

Restored(c) == /\ At(c, "restoring")
               /\ file' = IF cli[c].own THEN cli[c].old ELSE memory
               /\ Back(c)
               /\ UNCHANGED <<memory, served, edits, expected, clash, spoiled>>

\* The daemon's setter replaces the copy after it let go of the mutex.
Publish(c) == /\ At(c, "publish")
              /\ served' = IF cli[c].own THEN served ELSE cli[c].new
              /\ expected' = cli[c].new
              /\ Back(c)
              /\ UNCHANGED <<file, memory, edits, clash, spoiled>>

\* The daemon dies with the calls it is serving, and loads what it left.
Killed == /\ memory # None
          /\ memory' = None /\ served' = None
          /\ cli' = [c \in Clients |-> IF cli[c].own THEN cli[c] ELSE Idle]
          /\ expected' = IF file = None THEN expected ELSE file
          /\ clash' = (clash \/ \E c \in Clients : cli[c].own)
          /\ UNCHANGED <<file, edits, spoiled>>
Restart == /\ memory = None /\ file # None
           /\ memory' = file /\ served' = file
           /\ clash' = (clash \/ \E c \in Clients : cli[c].own)
           /\ expected' = IF spoiled THEN file ELSE expected
           /\ UNCHANGED <<file, cli, edits, spoiled>>

Next == \/ \E c \in Clients : \/ \E o \in Operations, own \in BOOLEAN : Ask(c, o, own)
                              \/ Set(c) \/ Saved(c) \/ SaveFails(c) \/ CacheWritten(c)
                              \/ CacheFails(c) \/ Restored(c) \/ Publish(c)
        \/ Killed \/ Restart

Spec == Init /\ [][Next]_vars

----------------------------------------------------------------------------
Whole(c) == Cardinality(NamesOf(c)) = Len(c.repos)

\* No two repositories of a configuration have one name, and what a command
\* sends back names its default if what it read did: the daemon refuses
\* neither a removal of the default nor anything after it.
ConfigSound ==
    /\ \A f \in {file, memory, served} : f # None => Whole(f)
    /\ \A c \in Clients : ~ At(c, "idle") =>
           Whole(cli[c].new) /\ (Named(cli[c].old) => Named(cli[c].new))

\* Two edits never make of a sound configuration an unsound one; and when no
\* command is under way, the daemon's two copies and the file are
\* what the commands that succeeded have made of the first configuration, one
\* after the other, and nothing of those that failed: unless commands
\* overlapped, which the code lets overwrite each other, or the file could not
\* be written.
EditsKept ==
    /\ ConfigSound
    /\ (\A c \in Clients : At(c, "idle")) /\ ~ clash =>
           /\ memory # None => memory = expected /\ served = expected
           /\ file = expected \/ spoiled \/ (file = None /\ memory = None)
=============================================================================
