----------------------------- MODULE RunContext -----------------------------
(***************************************************************************)
(* The library cache of a container (apps/ll-package-manager/src           *)
(* run_context.rs): before an application is run for the first time,       *)
(* ldconfig is run in a container of its own, over a root made of hard     *)
(* links to the files of the base layer, and a saved .config tells later   *)
(* runs that its cache is there.  The daemon initializes under its own     *)
(* mutex; a daemon spawned by ll-cli --no-dbus, or one started to          *)
(* initialize only, runs as the same user and shares the cache and the     *)
(* bundle <id>.init with it, and no lock is between them.                  *)
(***************************************************************************)
EXTENDS Naturals

CONSTANTS
    Inits,    \* the processes that initialize
    Regular,  \* the regular files of the base layer
    Links,    \* its symbolic links
    MaxInits  \* bound: how often one of them begins

Base == Regular \cup Links

VARIABLES
    whole,   \* the files of the base layer that have their content
    bundle,  \* the directory <id>.init
    cache,   \* ld.so.cache: "none", "empty", "short" or "good"
    saved,   \* .config is there
    pc,      \* what a process does
    todo,    \* the files it has still to copy
    result,  \* how its last initialization ended
    met,     \* two initializations overlapped
    count    \* initializations begun

vars == <<whole, bundle, cache, saved, pc, todo, result, met, count>>

Gone   == [there |-> FALSE, root |-> {}, config |-> FALSE]
Fresh  == [there |-> TRUE, root |-> {}, config |-> FALSE]
Active == {p \in Inits : pc[p] # "idle"}

Init ==
    /\ whole = Base /\ bundle = Gone /\ cache = "none" /\ saved = FALSE
    /\ pc = [p \in Inits |-> "idle"] /\ todo = [p \in Inits |-> {}]
    /\ result = [p \in Inits |-> "none"]
    /\ met = FALSE /\ count = 0

Goto(p, s) == pc' = [pc EXCEPT ![p] = s]
End(p, how) == /\ Goto(p, "idle")
               /\ result' = [result EXCEPT ![p] = how]
               /\ todo' = [todo EXCEPT ![p] = {}]

\* The layers are resolved; one may be missing.
Begin(p) ==
    /\ pc[p] = "idle" /\ count < MaxInits
    /\ count' = count + 1
    /\ met' = (met \/ Active # {})
    /\ \/ Goto(p, "look") /\ result' = [result EXCEPT ![p] = "none"] /\ UNCHANGED todo
       \/ End(p, "failed")
    /\ UNCHANGED <<whole, bundle, cache, saved>>

\* A saved .config ends it; or else ld.so.conf is written, and an empty
\* ld.so.cache if there is none.
Look(p) ==
    /\ pc[p] = "look"
    /\ IF saved
       THEN End(p, "done") /\ UNCHANGED cache
       ELSE /\ cache' = IF cache = "none" THEN "empty" ELSE cache
            /\ Goto(p, "clear") /\ UNCHANGED <<todo, result>>
    /\ UNCHANGED <<whole, bundle, saved, met, count>>

\* Mutant: a bundle that was left behind is used.
ClearNothing(p) ==
    /\ pc[p] = "clear"
    /\ bundle' = IF bundle.there THEN bundle ELSE Fresh
    /\ Goto(p, "copy") /\ todo' = [todo EXCEPT ![p] = Base]
    /\ UNCHANGED <<whole, cache, saved, result, met, count>>

\* What a killed process left of the bundle is removed, and what a live one
\* has made of it.
Clear(p) ==
    /\ pc[p] = "clear"
    /\ bundle' = Fresh
    /\ Goto(p, "copy") /\ todo' = [todo EXCEPT ![p] = Base]
    /\ UNCHANGED <<whole, cache, saved, result, met, count>>

\* An error: the bundle is cleared on the way out.
Bail(p) == End(p, "failed") /\ bundle' = Gone

\* copy_tree: a link that is there already, or a root that is not, is an
\* error; a file that is there already cannot be linked, so it is copied: the
\* copy opens the other name of the same inode and truncates it.
Copy(p) ==
    /\ pc[p] = "copy"
    /\ \E f \in todo[p] :
         IF ~bundle.there \/ (f \in bundle.root /\ f \in Links)
         THEN Bail(p) /\ UNCHANGED whole
         ELSE /\ bundle' = [bundle EXCEPT !.root = @ \cup {f}]
              /\ whole' = IF f \in bundle.root THEN whole \ {f} ELSE whole
              /\ todo' = [todo EXCEPT ![p] = @ \ {f}]
              /\ UNCHANGED <<pc, result>>
    /\ UNCHANGED <<cache, saved, met, count>>

\* The mount points are prepared and config.json is written.
Prepare(p) ==
    /\ pc[p] = "copy" /\ todo[p] = {}
    /\ \/ Bail(p)
       \/ /\ bundle.there
          /\ bundle' = [bundle EXCEPT !.config = TRUE]
          /\ Goto(p, "run") /\ UNCHANGED <<todo, result>>
    /\ UNCHANGED <<whole, cache, saved, met, count>>

\* ldconfig puts its cache in place in one step, made from what the root has
\* by then.
Ldconfig == cache' = IF Base \subseteq bundle.root \cap whole THEN "good" ELSE "short"

\* The container runs, or does not: its status tells.
Run(p) ==
    /\ pc[p] = "run"
    /\ \/ bundle.config /\ Ldconfig /\ Goto(p, "save") /\ UNCHANGED <<bundle, todo, result>>
       \/ bundle.config /\ Ldconfig /\ Bail(p)
       \/ UNCHANGED cache /\ Bail(p)
    /\ UNCHANGED <<whole, saved, met, count>>

\* .config is renamed into place; then the bundle is cleared.
Save(p) ==
    /\ pc[p] = "save"
    /\ \/ saved' = TRUE /\ Goto(p, "leave") /\ UNCHANGED <<bundle, todo, result>>
       \/ Bail(p) /\ UNCHANGED saved
    /\ UNCHANGED <<whole, cache, met, count>>

Leave(p) ==
    /\ pc[p] = "leave"
    /\ bundle' = Gone /\ End(p, "done")
    /\ UNCHANGED <<whole, cache, saved, met, count>>

\* Killed, a process clears nothing, and its container may still be at work.
Kill(p) ==
    /\ pc[p] # "idle"
    /\ End(p, "killed")
    /\ \/ UNCHANGED cache
       \/ pc[p] = "run" /\ bundle.config /\ Ldconfig
    /\ UNCHANGED <<whole, bundle, saved, met, count>>

Next == \E p \in Inits : \/ Begin(p) \/ Look(p) \/ Clear(p) \/ Copy(p) \/ Prepare(p)
                         \/ Run(p) \/ Save(p) \/ Leave(p) \/ Kill(p)

-----------------------------------------------------------------------------
(* Properties.                                                             *)

\* No file of the base layer is emptied by the copies made of it, whatever was
\* killed before and wherever: only two initializations at the same time,
\* that link the same file into one bundle, do that.
BaseKept == ~met => whole = Base

\* Who finds .config, or is told that the initialization is done, runs on a
\* library cache that ldconfig finished over the whole base: a failed or
\* killed initialization does not pass for one.
CacheServed ==
    ~met /\ (saved \/ \E p \in Inits : result[p] = "done") => cache = "good"

\* An initialization spoils nothing, and what it says is done is done.
ContextSound == BaseKept /\ CacheServed
=============================================================================
