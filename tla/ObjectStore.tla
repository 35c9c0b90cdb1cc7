---------------------------- MODULE ObjectStore ----------------------------
(***************************************************************************)
(* The objects of the ostree repository under the layers: how pulls, looks *)
(* at a remote package, imports, removals and prunes of several processes  *)
(* add objects to it, name commits by refs and take away what no ref       *)
(* reaches (crates/linyaps-repository/src/local.rs over remote.rs).  A     *)
(* daemon, the daemons that ll-cli --no-dbus spawns and builders may have  *)
(* the same repository open; each may be killed at any step, and a fetch   *)
(* may fail.                                                               *)
(*                                                                         *)
(* The transactions are ostree's, a library: they hold the lock of the     *)
(* repository shared, stage objects, and at their commit move these into   *)
(* the store one by one and set the ref last.  A dirmeta object shares the *)
(* fate of its tree and is left out.                                       *)
(***************************************************************************)
EXTENDS Naturals

CONSTANTS
    Procs, Commits, RefNames, Trees, Files,
    RefOf,   \* the ref of a commit
    Root,    \* the root tree of a commit
    Kids,    \* the trees a tree names
    Holds,   \* the files a tree names
    Info,    \* the file info.json of a root tree
    Below,   \* what a tree reaches
    None,
    MaxOps   \* bound: how many operations are begun

Objects == Commits \cup Trees \cup Files
All(c)  == {c} \cup Below[Root[c]]

ASSUME TreeAssumption ==
    /\ RefOf \in [Commits -> RefNames] /\ Root \in [Commits -> Trees] /\ None \notin Commits
    /\ Kids \in [Trees -> SUBSET Trees] /\ Holds \in [Trees -> SUBSET Files]
    /\ Info \in [Commits -> Files] /\ \A c \in Commits : Info[c] \in Holds[Root[c]]
    /\ Below \in [Trees -> SUBSET (Trees \cup Files)]
    /\ \A t \in Trees : Below[t] = {t} \cup Holds[t] \cup UNION {Below[k] : k \in Kids[t]}
    /\ MaxOps \in Nat

VARIABLES
    store,   \* the objects in repo/objects
    refs,    \* the commit each ref names, or None
    lock,    \* the lock of the repository as each process holds it
    pc,      \* what a process does
    mode,    \* "full" pull, "import", package "info" or commit only ("head")
    on,      \* the commit it is about, if any
    trees,   \* trees it has still to get
    files,   \* files it has still to get
    staged,  \* objects in its transaction
    drop,    \* refs it is about to unset
    keep,    \* the objects its prune has marked
    result,  \* how its last operation ended
    ops,     \* operations begun
    crowd,   \* the processes whose operation overlapped another's
    broken   \* a removal that failed set a ref again, and was not alone

objects == <<store, refs>>
plan    == <<mode, on, trees, files, staged, drop, keep>>
vars    == <<store, refs, lock, pc, mode, on, trees, files, staged, drop, keep, result, ops,
             crowd, broken>>

Modes   == {"full", "import", "info", "head"}
Naming  == {"full", "import"}
Working == {p \in Procs : pc[p] # "idle"}

Init ==
    /\ store = {} /\ refs = [r \in RefNames |-> None]
    /\ lock = [p \in Procs |-> "none"]
    /\ pc = [p \in Procs |-> "idle"]
    /\ mode = [p \in Procs |-> "head"]
    /\ on = [p \in Procs |-> None]
    /\ trees = [p \in Procs |-> {}] /\ files = [p \in Procs |-> {}]
    /\ staged = [p \in Procs |-> {}] /\ drop = [p \in Procs |-> {}]
    /\ keep = [p \in Procs |-> {}]
    /\ result = [p \in Procs |-> "none"]
    /\ ops = 0 /\ crowd = {} /\ broken = FALSE

\* An operation of p begins, and whoever works at the same time is told so.
Begin(p, s) ==
    /\ pc[p] = "idle" /\ ops < MaxOps
    /\ ops' = ops + 1
    /\ pc' = [pc EXCEPT ![p] = s]
    /\ crowd' = IF Working = {} THEN crowd \ {p} ELSE crowd \cup Working \cup {p}
    /\ result' = [result EXCEPT ![p] = "none"]

\* It ends, and with it whatever it held.
End(p, how) ==
    /\ pc' = [pc EXCEPT ![p] = "idle"]
    /\ lock' = [lock EXCEPT ![p] = "none"]
    /\ mode' = [mode EXCEPT ![p] = "head"] /\ on' = [on EXCEPT ![p] = None]
    /\ trees' = [trees EXCEPT ![p] = {}] /\ files' = [files EXCEPT ![p] = {}]
    /\ staged' = [staged EXCEPT ![p] = {}]
    /\ drop' = [drop EXCEPT ![p] = {}] /\ keep' = [keep EXCEPT ![p] = {}]
    /\ result' = [result EXCEPT ![p] = how]

-----------------------------------------------------------------------------
(* transfer_remote_commit and import_directories.                          *)

\* The lock is taken shared before anything is looked at.
Open(p, c, m) ==
    /\ Begin(p, "commit")
    /\ \A q \in Procs : lock[q] # "exclusive"
    /\ lock' = [lock EXCEPT ![p] = "shared"]
    /\ mode' = [mode EXCEPT ![p] = m] /\ on' = [on EXCEPT ![p] = c]
    /\ UNCHANGED <<objects, trees, files, staged, drop, keep, broken>>

\* load_or_fetch_remote_metadata, fetch_remote_file: what the repository has
\* is not fetched.
Get(p, o) == staged' = [staged EXCEPT ![p] = IF o \in store THEN @ ELSE @ \cup {o}]

\* A fetch fails on every mirror, or brings something with another digest.
Fails(p) ==
    /\ pc[p] \in {"commit", "walk"}
    /\ End(p, "failed")
    /\ UNCHANGED <<objects, ops, crowd, broken>>

GetCommit(p) ==
    /\ pc[p] = "commit"
    /\ Get(p, on[p])
    /\ trees' = [trees EXCEPT ![p] = IF mode[p] = "head" THEN {} ELSE {Root[on[p]]}]
    /\ pc' = [pc EXCEPT ![p] = "walk"]
    /\ UNCHANGED <<objects, lock, mode, on, files, drop, keep, result, ops, crowd, broken>>

\* A tree names further trees and files; of the package information only the
\* one file is wanted.
GetTree(p) ==
    /\ pc[p] = "walk"
    /\ \E t \in trees[p] :
         /\ Get(p, t)
         /\ IF mode[p] = "info"
            THEN /\ trees' = [trees EXCEPT ![p] = {}]
                 /\ files' = [files EXCEPT ![p] = {Info[on[p]]}]
            ELSE /\ trees' = [trees EXCEPT ![p] = (@ \ {t}) \cup Kids[t]]
                 /\ files' = [files EXCEPT ![p] = @ \cup Holds[t]]
    /\ UNCHANGED <<objects, lock, pc, mode, on, drop, keep, result, ops, crowd, broken>>

GetFile(p) ==
    /\ pc[p] = "walk" /\ trees[p] = {}
    /\ \E f \in files[p] : Get(p, f) /\ files' = [files EXCEPT ![p] = @ \ {f}]
    /\ UNCHANGED <<objects, lock, pc, mode, on, trees, drop, keep, result, ops, crowd, broken>>

Fetched(p) == pc[p] = "walk" /\ trees[p] = {} /\ files[p] = {}

\* Transaction::commit.
Move(p) ==
    /\ Fetched(p)
    /\ \E o \in staged[p] : /\ store' = store \cup {o}
                            /\ staged' = [staged EXCEPT ![p] = @ \ {o}]
    /\ UNCHANGED <<refs, lock, pc, mode, on, trees, files, drop, keep, result, ops, crowd, broken>>

\* Mutant: without a ref to set there is nothing to commit.
SettleNaming(p) ==
    /\ Fetched(p) /\ (staged[p] = {} \/ mode[p] \notin Naming)
    /\ refs' = IF mode[p] \in Naming THEN [refs EXCEPT ![RefOf[on[p]]] = on[p]] ELSE refs
    /\ staged' = [staged EXCEPT ![p] = {}]
    /\ lock' = [lock EXCEPT ![p] = "none"]
    /\ pc' = [pc EXCEPT ![p] = "read"]
    /\ UNCHANGED <<store, mode, on, trees, files, drop, keep, result, ops, crowd, broken>>

\* The ref is set, if there is one to set, and the lock released.
Settle(p) ==
    /\ Fetched(p) /\ staged[p] = {}
    /\ refs' = IF mode[p] \in Naming THEN [refs EXCEPT ![RefOf[on[p]]] = on[p]] ELSE refs
    /\ lock' = [lock EXCEPT ![p] = "none"]
    /\ pc' = [pc EXCEPT ![p] = "read"]
    /\ UNCHANGED <<store, mode, on, trees, files, staged, drop, keep, result, ops, crowd, broken>>

\* What is read next, without the lock: the commit by get_ref_statistics, the
\* package information, or all of it by checkout_layer.
Wanted(p) == CASE mode[p] = "head" -> {on[p]}
               [] mode[p] = "info" -> {on[p], Root[on[p]], Info[on[p]]}
               [] OTHER            -> All(on[p])

Read(p) ==
    /\ pc[p] = "read"
    /\ End(p, IF Wanted(p) \subseteq store THEN "done" ELSE "missing")
    /\ UNCHANGED <<objects, ops, crowd, broken>>

-----------------------------------------------------------------------------
(* remove_layer_item and clean, which unset refs, and prune_objects.       *)

\* remove_layer_item unsets the ref if it names the commit of the entry.
Remove(p, c) ==
    /\ Begin(p, "drop")
    /\ on' = [on EXCEPT ![p] = IF refs[RefOf[c]] = c THEN c ELSE None]
    /\ drop' = [drop EXCEPT ![p] = IF refs[RefOf[c]] = c THEN {RefOf[c]} ELSE {}]
    /\ UNCHANGED <<objects, lock, mode, trees, files, staged, keep, broken>>

\* clean lists the refs and unsets those the caller has not reserved; none of
\* them in a prune without it.
Clean(p) ==
    /\ Begin(p, "drop")
    /\ \E R \in SUBSET {r \in RefNames : refs[r] # None} : drop' = [drop EXCEPT ![p] = R]
    /\ UNCHANGED <<objects, lock, mode, on, trees, files, staged, keep, broken>>

\* set_ref_immediate, whatever the ref names by now.
Unset(p) ==
    /\ pc[p] = "drop"
    /\ \E r \in drop[p] : /\ refs' = [refs EXCEPT ![r] = None]
                          /\ drop' = [drop EXCEPT ![p] = @ \ {r}]
    /\ UNCHANGED <<store, lock, pc, mode, on, trees, files, staged, keep, result, ops, crowd, broken>>

Unlisted(p) ==
    /\ pc[p] = "drop" /\ drop[p] = {}
    /\ pc' = [pc EXCEPT ![p] = "prune"]
    /\ UNCHANGED <<objects, lock, plan, result, ops, crowd, broken>>

\* The entry cannot be deleted from the cache: the ref is set again.
SetBack(p) ==
    /\ pc[p] = "drop" /\ drop[p] = {} /\ on[p] # None
    /\ refs' = [refs EXCEPT ![RefOf[on[p]]] = on[p]]
    /\ broken' = (broken \/ p \in crowd)
    /\ End(p, "failed")
    /\ UNCHANGED <<store, ops, crowd>>

PruneLock(p) ==
    /\ pc[p] = "prune"
    /\ \A q \in Procs : lock[q] = "none"
    /\ lock' = [lock EXCEPT ![p] = "exclusive"]
    /\ pc' = [pc EXCEPT ![p] = "mark"]
    /\ UNCHANGED <<objects, plan, result, ops, crowd, broken>>

Named == {refs[r] : r \in RefNames} \ {None}

\* The commits and trees the refs reach are loaded, and a missing one ends the
\* prune; files are marked unseen.
Mark(p) ==
    /\ pc[p] = "mark"
    /\ IF \A c \in Named : All(c) \ Files \subseteq store
       THEN /\ keep' = [keep EXCEPT ![p] = UNION {All(c) : c \in Named}]
            /\ pc' = [pc EXCEPT ![p] = "sweep"]
            /\ UNCHANGED <<lock, mode, on, trees, files, staged, drop, result>>
       ELSE End(p, "missing")
    /\ UNCHANGED <<objects, ops, crowd, broken>>

Sweep(p) ==
    /\ pc[p] = "sweep"
    /\ \E o \in store \ keep[p] : store' = store \ {o}
    /\ UNCHANGED <<refs, lock, pc, plan, result, ops, crowd, broken>>

Swept(p) ==
    /\ pc[p] = "sweep" /\ store \subseteq keep[p]
    /\ End(p, "done")
    /\ UNCHANGED <<objects, ops, crowd, broken>>

-----------------------------------------------------------------------------

\* The lock and the transaction go with the process.
Kill(p) ==
    /\ pc[p] # "idle"
    /\ End(p, "killed")
    /\ UNCHANGED <<objects, ops, crowd, broken>>

Transfer(p) ==
    \/ \E c \in Commits, m \in Modes : Open(p, c, m)
    \/ GetCommit(p) \/ GetTree(p) \/ GetFile(p) \/ Fails(p) \/ Move(p) \/ Settle(p) \/ Read(p)

Removal(p) ==
    \/ \E c \in Commits : Remove(p, c)
    \/ Clean(p) \/ Unset(p) \/ Unlisted(p) \/ SetBack(p)
    \/ PruneLock(p) \/ Mark(p) \/ Sweep(p) \/ Swept(p)

Next == \E p \in Procs : Transfer(p) \/ Removal(p) \/ Kill(p)

Spec == Init /\ [][Next]_vars

-----------------------------------------------------------------------------
(* Properties.                                                             *)

\* The variables have their types.
TypeOK ==
    /\ store \subseteq Objects
    /\ refs \in [RefNames -> Commits \cup {None}]
    /\ lock \in [Procs -> {"none", "shared", "exclusive"}]
    /\ pc \in [Procs -> {"idle", "commit", "walk", "read", "drop", "prune", "mark", "sweep"}]
    /\ mode \in [Procs -> Modes] /\ on \in [Procs -> Commits \cup {None}]
    /\ trees \in [Procs -> SUBSET Trees] /\ files \in [Procs -> SUBSET Files]
    /\ staged \in [Procs -> SUBSET Objects] /\ keep \in [Procs -> SUBSET Objects]
    /\ drop \in [Procs -> SUBSET RefNames]
    /\ result \in [Procs -> {"none", "done", "failed", "missing", "killed"}]
    /\ ops \in Nat /\ crowd \subseteq Procs /\ broken \in BOOLEAN

\* A ref names a commit of which every object is there: whatever was fetched
\* of it before, by whom, and where that was cut off, and whoever prunes at the
\* same time.  One thing breaks it: a removal that failed sets its ref again
\* when another process may have pruned in between.
RefsWhole == ~broken => \A r \in RefNames : refs[r] # None => All(refs[r]) \subseteq store

\* An operation finds an object missing only if another process worked at the
\* same time: what was looked at, pulled in part or killed before never shows.
ReadsWhole == \A p \in Procs : result[p] = "missing" => p \in crowd \/ broken

\* Both: nothing is named, or taken for present, that is not all there.
ObjectsWhole == RefsWhole /\ ReadsWhole
=============================================================================
