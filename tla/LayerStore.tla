----------------------------- MODULE LayerStore -----------------------------
(***************************************************************************)
(* The repository of installed layers: what the package manager daemon     *)
(* does to it when it installs, upgrades, removes and prunes packages      *)
(* (apps/ll-package-manager/src/operations.rs over                         *)
(* crates/linyaps-repository/src/local.rs and cache.rs), while ll-cli runs *)
(* containers out of it (apps/ll-cli/src/runtime.rs).                      *)
(*                                                                         *)
(* An operation holds the repository mutex from beginning to end and is a  *)
(* list of durable updates, todo; a crash, the container processes and the *)
(* deferred uninstall loop get in between any two of them.  A layer that a *)
(* running container uses is only marked deleted and collected later by    *)
(* that loop, which holds the RepoLock (module RepoLock) exclusively.      *)
(*                                                                         *)
(* A commit is a record [ref, module, repo]; an object is kept as long as  *)
(* a ref names its commit, so objects are not a variable of their own.     *)
(***************************************************************************)
EXTENDS Naturals, Sequences, FiniteSets, SequencesExt

CONSTANTS
    Commits,     \* [ref: [id, version], module: {"binary", "develop"}, repo]
    BaseOf,      \* the id of the base of each app reference
    Containers,  \* ll-cli run processes
    AutoPrune,   \* whether requests let an operation prune: a set of booleans
    ForceBase,   \* uninstall of a base with force
    MayFail,     \* a download, a checkout or an export may fail
    MayCrash     \* the daemon may be killed and started again, once

Remote == {c \in Commits : c.repo = "stable"}
Files  == {c \in Commits : c.repo = "local"}  \* what .layer files hold
Refs   == {c.ref : c \in Commits}
Apps   == DOMAIN BaseOf
Mains  == {c \in Commits : c.module = "binary"}

AppIds == {r.id : r \in Apps}

ASSUME CommitAssumption == /\ IsFiniteSet(Commits) /\ Apps \subseteq Refs
                           /\ \A c \in Commits : c.ref.version \in Nat
                           /\ {ForceBase, MayFail, MayCrash} \cup AutoPrune \subseteq BOOLEAN

\* An id is that of an app or of a base, in all versions; no app is a base.
ASSUME KindAssumption == /\ \A c \in Commits : c.module \in {"binary", "develop"}
                         /\ \A r \in Refs : r.id \in AppIds => r \in Apps
                         /\ \A r \in Apps : BaseOf[r] \notin AppIds

VARIABLES
    merged,    \* the sets of commits the cache lists as overlaid under merged/
    live,      \* the cache entries not marked deleted
    deferred,  \* the cache entries marked deleted
    named,     \* the commits an ostree ref names
    dirs,      \* the commits with a complete checkout under layers/
    exported,  \* the commits whose entries are linked for the desktop
    who,       \* who has the repository mutex: none, a job, its rollback, gc
    todo,      \* the updates its holder has still to make
    undo,      \* what it does instead once one of them fails
    lock,      \* deferred_uninstall holds the RepoLock exclusively
    use,       \* the commits each container was set up from
    recorded,  \* the containers whose process state is written
    stripped,  \* history: the entries that lost their checkout to another pull,
               \* or came back without one when the cache was rebuilt
    nameless,  \* history: the entries whose ref an import set to another commit
    hurt       \* history: what happened of "crashed", "rebuilt", "pruned": a prune took
               \* the files of a layer that has an entry, "twice": a deferred entry
               \* came back next to a live one of its layer, "forced": a base was
               \* removed with force, and what a failure has Left

repo == <<live, deferred, named, dirs, exported, merged>>
past == <<stripped, nameless, hurt>>
vars == <<live, deferred, named, dirs, exported, merged, who, todo, undo, lock, use,
          recorded, stripped, nameless, hurt>>

SameLayer(c, d) == c.ref = d.ref /\ c.module = d.module
\* The entries layer_item can find for one module of a reference.
Found(S, r, m) == {c \in S : c.ref = r /\ c.module = m}

\* The references with a live main module.
Installed == {c.ref : c \in live \cap Mains}
OfId(id)  == {r \in Installed : r.id = id}
Newest(S) == CHOOSE r \in S : \A s \in S : s.version <= r.version
ModulesOf(r) == {c.module : c \in {d \in live : d.ref = r}}
\* module_list: sorted.
InOrder(M) == (IF "binary" \in M THEN <<"binary">> ELSE <<>>)
              \o (IF "develop" \in M THEN <<"develop">> ELSE <<>>)

\* reference_is_busy_unlocked.
Busy(r) == \E k \in recorded : \E c \in use[k] : c.ref = r

Init ==
    /\ live = {} /\ deferred = {} /\ named = {} /\ dirs = {} /\ exported = {} /\ merged = {}
    /\ who = "none" /\ todo = <<>> /\ undo = <<>> /\ lock = FALSE
    /\ use = [k \in Containers |-> {}]
    /\ recorded = {}
    /\ stripped = {} /\ nameless = {} /\ hurt = {}

-----------------------------------------------------------------------------
(* Operations of the daemon: each takes the mutex and plans its updates.   *)

Each(do, S)    == [i \in 1..Len(S) |-> <<do, S[i]>>]
Removal(r, M)  == LET ms == InOrder(M) IN [i \in 1..Len(ms) |-> <<"remove", r, ms[i]>>]
Import(c)      == <<<<"ref", c>>, <<"clear", c>>, <<"checkout", c>>, <<"upsert", c>>>>
Merging        == <<<<"merge">>>>
PruneAfter     == <<<<"prune_after">>>>

\* A bound: nothing is begun once a prune took the files of an entry.
BeginAs(h, plan, fallback) ==
    /\ who = "none" /\ "pruned" \notin hurt
    /\ who' = "job" /\ todo' = plan /\ undo' = fallback
    /\ hurt' = hurt \cup h
    /\ UNCHANGED <<repo, lock, use, recorded, stripped, nameless>>
Begin(plan, fallback) == BeginAs({}, plan, fallback)

\* available_install_modules: those the remote has.
Plan(r, M) == LET ms == InOrder({m \in M : Found(Remote, r, m) # {}}) IN
    [i \in 1..Len(ms) |-> <<"install", CHOOSE c \in Found(Remote, r, ms[i]) : TRUE>>]

\* The versions of a package the remote has.
Offers(id) == {c.ref : c \in {d \in Remote \cap Mains : d.ref.id = id}}

\* gather_missing_install_dependency: the newest remote base, when no version
\* of it is installed.
HasBase(r) == OfId(BaseOf[r]) # {} \/ Offers(BaseOf[r]) # {}
MissingBase(r) ==
    IF OfId(BaseOf[r]) # {} THEN <<>> ELSE Plan(Newest(Offers(BaseOf[r])), {"binary"})

\* ensure_dependency.
EnsureBase(r) == IF OfId(BaseOf[r]) # {} THEN <<>> ELSE MissingBase(r) \o Merging

\* Mutant: the entries of the version replaced stay.
ReplaceKeepsEntries(r, old, after) == <<<<"export", r, {"binary", "develop"}>>>>
    \o (IF old = {} THEN <<>> ELSE <<<<"retire", Newest(old)>>>> \o after)

\* The version replaced: entries moved over, then removed or deferred.
Replace(r, old, after) == <<<<"export", r, {"binary", "develop"}>>>>
    \o (IF old = {} THEN <<>>
        ELSE <<<<"unexport", Newest(old), {"binary", "develop"}>>,
               <<"retire", Newest(old)>>>> \o after)

\* What an install replaces.  Without a version in the request the target is
\* the newest remote version and the newest installed one gives way; with
\* one, only an installed package of that version counts.
Old(r, pinned) == OfId(r.id) \cap (IF pinned THEN {r} ELSE Refs)
Wanted(r, pinned) ==
    /\ r \in Offers(r.id)
    /\ pinned \/ r = Newest(Offers(r.id))
    /\ Old(r, pinned) # {} => Newest(Old(r, pinned)) # r

\* Mutant: the rollback removes the version that failed and leaves its entries.
InstallKeepsEntries(r, M, pinned) ==
    LET old  == Old(r, pinned)
        more == IF old = {} THEN {} ELSE ModulesOf(Newest(old)) IN
    /\ r \in Apps /\ "binary" \in M /\ Wanted(r, pinned) /\ HasBase(r)
    /\ Begin(Plan(r, M \cup more) \o MissingBase(r) \o Merging \o Replace(r, old, PruneAfter),
             <<<<"retire", r>>>>)

\* install_inner for an app, with the modules asked for and those of the
\* version it replaces.
Install(r, M, pinned) ==
    LET old  == Old(r, pinned)
        more == IF old = {} THEN {} ELSE ModulesOf(Newest(old)) IN
    /\ r \in Apps /\ "binary" \in M /\ Wanted(r, pinned) /\ HasBase(r)
    /\ Begin(Plan(r, M \cup more) \o MissingBase(r) \o Merging \o Replace(r, old, PruneAfter),
             <<<<"unexport", r, {"binary", "develop"}>>, <<"retire", r>>>>)

\* install_inner for a base: other versions of it stay.
InstallBase(r, pinned) ==
    /\ r \in Refs \ Apps /\ Wanted(r, pinned)
    /\ Begin(Plan(r, {"binary"}) \o Merging, <<<<"retire", r>>>>)

\* install_inner with modules other than the main one: that of an installed
\* version only.  If it fails the whole version is taken back.
BackExtra(r, m) == <<<<"unexport", r, {m}>>, <<"retire", r>>>>
InstallExtra(r, m) ==
    /\ r \in Apps \cap Installed /\ m # "binary"
    /\ Found(live, r, m) = {} /\ Found(Remote, r, m) # {}
    /\ Begin(Plan(r, {m}) \o Merging \o <<<<"export", r, {m}>>>>,
             BackExtra(r, m))

\* install_layer_inner: nothing is rolled back.  An import writes a commit
\* of its own, so c is new.
InstallLayer(c) ==
    LET r   == c.ref
        old == OfId(r.id) IN
    /\ c \in Files /\ r \in Apps
    /\ c \notin live \cup deferred \cup named \cup dirs
    /\ old # {} /\ c.module \in ModulesOf(Newest(old)) => Newest(old).version # r.version
    /\ IF c \in Mains
       THEN HasBase(r) /\ Begin(EnsureBase(r) \o Each("import", <<c>>) \o Merging
                                 \o Replace(r, old, Merging \o PruneAfter), <<>>)
       ELSE Begin(Each("import", <<c>>) \o Merging \o <<<<"export", r, {c.module}>>>>, <<>>)

\* uninstall_inner of the main module, hence of all: refused while busy, and
\* while the RepoLock cannot be had.
Uninstall(r) ==
    /\ r \in Installed /\ ~lock /\ ~Busy(r)
    /\ r \in Apps \/ ForceBase
    /\ BeginAs(IF r \in Apps THEN {} ELSE {"forced"},
               (IF r \in Apps THEN <<<<"unexport", r, {"binary", "develop"}>>>> ELSE <<>>)
               \o <<<<"remove_all", r>>>> \o (IF r \in Apps THEN PruneAfter ELSE <<>>) \o Merging,
               <<>>)

\* uninstall_inner of another module.
UninstallExtra(r, m) ==
    /\ r \in Apps \cap Installed /\ m \in ModulesOf(r) \ {"binary"} /\ ~lock /\ ~Busy(r)
    /\ Begin(<<<<"unexport", r, {m}>>, <<"remove", r, m>>>> \o Merging, <<>>)

\* install_uab_inner: a bundle of modules of one version, the base before them;
\* what was imported is taken back, last first.
InstallUab(L) ==
    LET r    == (CHOOSE c \in L : TRUE).ref
        all  == SetToSeq(L)
        old  == OfId(r.id)
        link == IF L \cap Mains # {} THEN Replace(r, old, PruneAfter)
                ELSE [i \in DOMAIN all |-> <<"export", r, {all[i].module}>>]
        back == IF L \cap Mains # {} THEN <<<<"unexport", r, {"binary", "develop"}>>>>
                ELSE [i \in DOMAIN all |-> <<"unexport", r, {all[i].module}>>] IN
    /\ L # {} /\ r \in Apps /\ \A c \in L : c.ref = r
    /\ L \cap (live \cup deferred \cup named \cup dirs) = {}
    /\ IF L \cap Mains # {} THEN r \notin Installed
       ELSE r \in Installed /\ ~({c.module : c \in L} \subseteq ModulesOf(r))
    /\ HasBase(r)
    /\ Begin(EnsureBase(r) \o Each("import", all) \o Merging \o link,
             back \o Each("unimport", Reverse(all)) \o Merging)

\* update_inner: every version of the chosen apps, one after the other.
Update(ids, depsOnly) ==
    LET apps == SetToSeq({r \in Installed \cap Apps : r.id \in ids}) IN
    /\ apps # <<>>
    /\ Begin([i \in DOMAIN apps |-> <<"update", apps[i], depsOnly>>] \o <<<<"updated", "failed">>>>,
             <<>>)

Prune == TRUE \in AutoPrune /\ Begin(<<<<"prune">>>>, <<>>)

-----------------------------------------------------------------------------
(* The updates.  Due is the next one; its holder goes on with s before the *)
(* rest.                                                                   *)

Due(do) == todo # <<>> /\ Head(todo)[1] = do
Proceed(s) == todo' = s \o Tail(todo) /\ UNCHANGED <<who, undo, lock, use, recorded>>
Onward(s)  == Proceed(s) /\ UNCHANGED <<stripped, nameless, hurt>>
Arg       == Head(todo)[2]

\* Where an update goes on when one of its apps could not be updated.
Rest == LET marks == {i \in DOMAIN todo : todo[i][1] = "next"} IN
    IF marks = {} THEN <<>> ELSE SubSeq(todo, Min(marks), Len(todo))

\* The entries reference_layer_items gives; a missing checkout is an error.
Linked == {c \in live : c.ref = Arg /\ c.module \in Head(todo)[3]}
Linkable == Linked # {} /\ Linked \subseteq dirs

\* The layers of a version that has several are overlaid together.
Current(r) ==
    LET mine == {c \in live : c.ref = r} IN
    {L \in merged : \E c \in L : c.module = "binary" /\ c \in mine}
        = IF Cardinality(mine) > 1 THEN {mine} ELSE {}

\* What a failure leaves behind: "stuck", an app without a base that the rollback
\* cannot take back; "linked", entries of a version that goes, as the rollback cannot
\* unlink them, or unlinks the one module that failed; "unmerged", modules that came
\* since the last merge, which no rollback merges: of a version it cannot take back,
\* or of a base that was to be updated.
Left ==
    {h \in {"stuck"} : who = "rollback" /\ Due("retire") /\ Arg \in Installed \cap Apps
                      /\ OfId(BaseOf[Arg]) = {}}
    \cup {h \in {"linked"} :
             \/ who = "rollback" /\ Due("unexport") /\ Linked \cap exported # {}
             \/ who = "job" /\ \E r \in Apps : undo = BackExtra(r, "develop")}
    \cup {h \in {"unmerged"} :
             \/ who = "rollback" /\ Due("retire") /\ Arg \in Installed /\ ~Current(Arg)
             \/ who = "job" /\ (Due("install") \/ Due("checkout")) /\ Arg.ref \in Installed \ Apps}

\* An error ends a job and starts its rollback, which ignores its own.
Fail ==
    /\ who' = "rollback"
    /\ todo' = IF who = "job" THEN undo \o Rest ELSE Tail(todo)
    /\ hurt' = hurt \cup Left
    /\ UNCHANGED <<repo, undo, lock, use, recorded, stripped, nameless>>

\* install_remote_module: bring a deferred layer back, or pull it.
InstallModule ==
    /\ Due("install")
    /\ LET back == {d \in deferred : SameLayer(d, Arg)} IN
       IF back # {}
       THEN /\ \E d \in back : deferred' = deferred \ {d} /\ live' = live \cup {d}
            /\ hurt' = IF \E c \in live : SameLayer(c, Arg) THEN hurt \cup {"twice"} ELSE hurt
            /\ Proceed(<<>>) /\ UNCHANGED <<named, dirs, exported, merged, stripped, nameless>>
       ELSE Onward(Import(Arg)) /\ UNCHANGED repo

\* import_layer_dir.
ImportLayer ==
    /\ Due("import")
    /\ Onward(Import(Arg)) /\ UNCHANGED repo

\* The transaction sets the ref of the layer in its repository.
SetRef ==
    /\ Due("ref")
    /\ LET mine == {d \in Commits : SameLayer(d, Arg) /\ d.repo = Arg.repo} IN
       /\ named' = (named \ mine) \cup {Arg}
       /\ nameless' = (nameless \cup (mine \cap (live \cup deferred))) \ {Arg}
    /\ Proceed(<<>>) /\ UNCHANGED <<live, deferred, dirs, exported, merged, stripped, hurt>>

\* clear_path of layers/<commit>: in checkout_layer, clean and remove_layer_item.
Clear ==
    /\ Due("clear")
    /\ dirs' = dirs \ {Arg}
    /\ stripped' = IF Arg \in live \cup deferred /\ <<"checkout", Arg>> \in ToSet(todo)
                   THEN stripped \cup {Arg} ELSE stripped
    /\ Proceed(<<>>) /\ UNCHANGED <<live, deferred, named, exported, merged, nameless, hurt>>

Checkout ==
    /\ Due("checkout")
    /\ dirs' = dirs \cup {Arg}
    /\ stripped' = stripped \ {Arg}
    /\ Proceed(<<>>) /\ UNCHANGED <<live, deferred, named, exported, merged, nameless, hurt>>

\* upsert_layer: the entry of the layer is replaced, other deferred ones stay;
\* what was linked of it, too.
Upsert ==
    /\ Due("upsert")
    /\ live' = {d \in live : ~SameLayer(d, Arg)} \cup {Arg}
    /\ deferred' = deferred \ {Arg}
    /\ stripped' = stripped \cap (live' \cup deferred')
    /\ nameless' = nameless \cap (live' \cup deferred')
    /\ hurt' = IF live \cap exported \subseteq live' THEN hurt ELSE hurt \cup {"linked"}
    /\ Proceed(<<>>) /\ UNCHANGED <<named, dirs, exported, merged>>

Export ==
    /\ Due("export") /\ Linkable
    /\ exported' = exported \cup Linked
    /\ Onward(<<>>) /\ UNCHANGED <<live, deferred, named, dirs, merged>>

Unexport ==
    /\ Due("unexport") /\ Linkable
    /\ exported' = exported \ Linked
    /\ Onward(<<>>) /\ UNCHANGED <<live, deferred, named, dirs, merged>>

\* try_uninstall_reference: mark what is busy, remove what is not.
Retire ==
    /\ Due("retire") /\ ~lock
    /\ LET ms == InOrder(ModulesOf(Arg)) IN
       Onward([i \in 1..Len(ms) |-> <<IF Busy(Arg) THEN "mark" ELSE "remove", Arg, ms[i]>>])
    /\ UNCHANGED repo

\* set_layer_deleted.
Mark ==
    /\ Due("mark")
    /\ \E c \in Found(live, Arg, Head(todo)[3]) :
         live' = live \ {c} /\ deferred' = deferred \cup {c}
    /\ Onward(<<>>) /\ UNCHANGED <<named, dirs, exported, merged>>

RemoveAll ==
    /\ Due("remove_all")
    /\ Onward(Removal(Arg, ModulesOf(Arg))) /\ UNCHANGED repo

\* Mutant: the checkout goes before the entry.
RemovedClearFirst(c) == <<<<"unref", c>>, <<"clear", c>>, <<"drop", c>>>>

\* remove_layer_item: the ref if it names the commit, the entry, the checkout.
Removed(c) == <<<<"unref", c>>, <<"drop", c>>, <<"clear", c>>>>

RemoveModule ==
    /\ Due("remove")
    /\ \E c \in Found(live, Arg, Head(todo)[3]) : Onward(Removed(c))
    /\ UNCHANGED repo

Unref ==
    /\ Due("unref")
    /\ named' = named \ {Arg}
    /\ Onward(<<>>) /\ UNCHANGED <<live, deferred, dirs, exported, merged>>

Drop ==
    /\ Due("drop")
    /\ live' = live \ {Arg} /\ deferred' = deferred \ {Arg}
    /\ stripped' = stripped \ {Arg} /\ nameless' = nameless \ {Arg}
    /\ Proceed(<<>>) /\ UNCHANGED <<named, dirs, exported, merged, hurt>>

\* prune_after_change: the request may say no.
AfterChange ==
    /\ Due("prune_after")
    /\ \E b \in AutoPrune : Onward(IF b THEN <<<<"prune">>>> ELSE <<>>)
    /\ UNCHANGED repo

\* Mutant: bases are not counted.
KeptAppsOnly == Installed \cap Apps

\* prune_unused: apps are kept, and the newest version of the base each names.
Kept == LET apps == Installed \cap Apps IN
    apps \cup {Newest(OfId(BaseOf[a])) : a \in {b \in apps : OfId(BaseOf[b]) # {}}}

PruneUnused ==
    /\ Due("prune")
    /\ Onward(Each("remove_all", SetToSeq(Installed \ Kept))
              \o Merging \o <<<<"clean", {c \in live : c.ref \in Kept}>>>>)
    /\ UNCHANGED repo

\* clean: every ref whose commit is not reserved goes, after its checkout.
Clean ==
    /\ Due("clean")
    /\ LET gone == named \ Arg IN
       /\ Proceed(Each("sweep", SetToSeq(gone)))
       /\ hurt' = IF gone \cap (live \cup deferred) = {} THEN hurt ELSE hurt \cup {"pruned"}
    /\ UNCHANGED <<repo, stripped, nameless>>

Sweep ==
    /\ Due("sweep")
    /\ Onward(<<<<"clear", Arg>>, <<"unref", Arg>>>>) /\ UNCHANGED repo

\* merge_modules_best_effort: the modules of every reference that has several
\* are overlaid, and what else is under merged/ goes.  The loop merges if it
\* removed something: how much is not counted here, so either way if some are left.
Overlaid == {L \in {{c \in live : c.ref = r} : r \in Installed} : Cardinality(L) > 1}

Merge ==
    /\ Due("merge")
    /\ \/ /\ \/ UNION (Overlaid \ merged) \subseteq dirs /\ merged' = Overlaid
             \/ (MayFail \/ ~(UNION (Overlaid \ merged) \subseteq dirs)) /\ UNCHANGED merged
          /\ hurt' = IF merged' = Overlaid THEN hurt \ {"unmerged"} ELSE hurt \cup {"unmerged"}
       \/ who = "gc" /\ deferred # {} /\ UNCHANGED <<merged, hurt>>
    /\ Proceed(<<>>) /\ UNCHANGED <<live, deferred, named, dirs, exported, stripped, nameless>>

\* rollback_uab_layers: what was imported, by its module.
Unimport ==
    /\ Due("unimport")
    /\ Onward(IF Arg \in live THEN Removed(Arg) ELSE <<>>)
    /\ UNCHANGED repo

\* gather_reference_update: the app to be updated and its newest version.
Newer(r, depsOnly) == ~depsOnly /\ r.version < Newest(Offers(r.id)).version
Becomes(r, depsOnly) == IF Newer(r, depsOnly) THEN Newest(Offers(r.id)) ELSE r

\* It can be looked up, and so can its base: an app that is gone has no modules.
Updatable(r, depsOnly) == /\ depsOnly \/ (r \in Installed /\ Offers(r.id) # {})
                          /\ Offers(BaseOf[Becomes(r, depsOnly)]) # {}

\* update_app: the newest version of the app, with the modules the installed
\* one has, and of its base.  An error so far is the app's, and undoes nothing.
UpdateApp ==
    LET r    == Arg
        new  == Newer(r, Head(todo)[3])
        n    == Becomes(r, Head(todo)[3])
        b    == Newest(Offers(BaseOf[n]))
        more == IF OfId(BaseOf[n]) = {} THEN Plan(b, {"binary"})
                ELSE IF Newest(OfId(BaseOf[n])).version < b.version
                THEN Plan(b, ModulesOf(Newest(OfId(BaseOf[n])))) ELSE <<>>
        plan == (IF new THEN Plan(n, ModulesOf(r)) ELSE <<>>) \o more IN
    /\ Due("update") /\ Updatable(r, Head(todo)[3])
    /\ todo' = plan \o (IF plan = <<>> THEN <<>> ELSE Merging)
               \o (IF new THEN <<<<"export", n, {"binary", "develop"}>>,
                                 <<"unexport", r, {"binary", "develop"}>>, <<"retire", r>>>>
                   ELSE <<>>)
               \o <<<<"next", IF plan = <<>> THEN "same" ELSE "changed">>>> \o Tail(todo)
    /\ undo' = IF new THEN <<<<"unexport", n, {"binary", "develop"}>>, <<"retire", n>>>> ELSE <<>>
    /\ UNCHANGED <<repo, who, lock, use, recorded, past>>

\* The app cannot be looked up, in the remote or here.
UpdateSkips ==
    /\ Due("update")
    /\ MayFail \/ ~Updatable(Arg, Head(todo)[3])
    /\ Onward(<<>>) /\ UNCHANGED repo

\* is_canceled is asked between two apps.
UpdateCanceled ==
    /\ Due("update")
    /\ todo' = <<>>
    /\ UNCHANGED <<repo, who, undo, lock, use, recorded, past>>

\* The app is updated, or its rollback is over: the next one.
NextApp ==
    LET soFar == Last(todo)[2] IN
    /\ Due("next")
    /\ todo' = IF who = "rollback" \/ soFar = "changed" THEN Tail(todo)
               ELSE Front(Tail(todo)) \o <<<<"updated", Arg>>>>
    /\ who' = "job" /\ undo' = <<>>
    /\ UNCHANGED <<repo, lock, use, recorded, past>>

\* All of them failed, nothing was to be done, or something has changed.
Updated ==
    /\ Due("updated")
    /\ Onward(IF Arg = "failed" THEN <<>>
              ELSE Merging \o (IF Arg = "changed" THEN PruneAfter ELSE <<>>))
    /\ UNCHANGED repo

\* The containers about to take the RepoLock shared.
Starting == {k \in Containers \ recorded : use[k] # {}}

\* Downloads, checkouts and exports fail when the world does; entries with
\* a missing checkout, and a RepoLock that is taken, always fail.
StepFails ==
    \/ MayFail /\ (Due("install") \/ Due("checkout") \/ Due("export")) /\ Fail
    \/ (Due("export") \/ Due("unexport")) /\ ~Linkable /\ Fail
    \/ Due("retire") /\ (lock \/ (MayFail /\ Starting # {})) /\ Fail

Change ==
    \/ Merge \/ Unimport \/ UpdateApp \/ UpdateSkips \/ UpdateCanceled \/ NextApp \/ Updated
    \/ InstallModule \/ ImportLayer \/ SetRef \/ Clear \/ Checkout \/ Upsert \/ Export \/ Unexport
    \/ Retire \/ Mark \/ RemoveAll \/ RemoveModule \/ Unref \/ Drop
    \/ AfterChange \/ PruneUnused \/ Clean \/ Sweep \/ StepFails

\* The mutex is released, and the RepoLock with it by the loop.
End ==
    /\ who # "none" /\ todo = <<>>
    /\ who' = "none" /\ undo' = <<>>
    /\ lock' = IF who = "gc" THEN FALSE ELSE lock
    /\ UNCHANGED <<repo, todo, use, recorded, past>>

-----------------------------------------------------------------------------
(* deferred_uninstall, and the containers.                                 *)

\* The RepoLock comes first, the mutex when whoever has it is done.
GcLock ==
    /\ ~lock
    /\ lock' = TRUE
    /\ UNCHANGED <<repo, who, todo, undo, use, recorded, past>>

GcBegin ==
    /\ lock /\ who = "none"
    /\ who' = "gc"
    /\ todo' = Each("collect", SetToSeq({c.ref : c \in deferred}))
               \o (IF deferred = {} THEN <<>> ELSE <<<<"merge">>>>)
    /\ UNCHANGED <<repo, undo, lock, use, recorded, past>>

\* Mutant: whether a layer is in use is not asked.
CollectAnyway ==
    /\ Due("collect")
    /\ Onward(Each("discard", SetToSeq({c \in deferred : c.ref = Arg})))
    /\ UNCHANGED repo

\* Mutant: any running container keeps every layer.
CollectWhenQuiet ==
    /\ Due("collect")
    /\ Onward(IF recorded # {} THEN <<>>
              ELSE Each("discard", SetToSeq({c \in deferred : c.ref = Arg})))
    /\ UNCHANGED repo

\* remove_layer_item of one of them.
Discard ==
    /\ Due("discard")
    /\ Onward(Removed(Arg)) /\ UNCHANGED repo

\* The deferred entries of one reference, unless it is busy.
Collect ==
    /\ Due("collect")
    /\ Onward(IF Busy(Arg) THEN <<>>
              ELSE Each("discard", SetToSeq({c \in deferred : c.ref = Arg})))
    /\ UNCHANGED repo

\* ll-cli run: resolve the app and the newest base, and start the container.
Mount(k, r) ==
    /\ use[k] = {} /\ r \in Installed \cap Apps /\ OfId(BaseOf[r]) # {}
    /\ \E a \in Found(live, r, "binary"), b \in Found(live, Newest(OfId(BaseOf[r])), "binary") :
         /\ {a, b} \subseteq dirs
         /\ use' = [use EXCEPT ![k] = {a, b}]
    /\ UNCHANGED <<repo, who, todo, undo, lock, recorded, past>>

\* write_process_state, under the RepoLock shared, once the container runs.
Record(k) ==
    /\ k \in Starting /\ ~lock
    /\ recorded' = recorded \cup {k}
    /\ UNCHANGED <<repo, who, todo, undo, lock, use, past>>

\* The container ends, and with it what /proc shows of it.
Stop(k) ==
    /\ use[k] # {}
    /\ use' = [use EXCEPT ![k] = {}]
    /\ recorded' = recorded \ {k}
    /\ UNCHANGED <<repo, who, todo, undo, lock, past>>

\* The daemon is killed and started again on the repository as it is.
Crash ==
    /\ MayCrash /\ "crashed" \notin hurt /\ (who # "none" \/ lock)
    /\ who' = "none" /\ todo' = <<>> /\ undo' = <<>> /\ lock' = FALSE
    /\ hurt' = hurt \cup {"crashed"} \cup {h \in {"unmerged"} : \E r \in Installed : ~Current(r)}
    /\ UNCHANGED <<repo, use, recorded, stripped, nameless>>

\* states.json is written over in place: killed in the midst of it, the daemon
\* finds a file it cannot read, and makes an entry of every ref.
Rebuilt ==
    /\ MayCrash /\ "crashed" \notin hurt
    /\ \/ Due("upsert") \/ Due("drop") \/ Due("mark") \/ Due("merge")
       \/ Due("install") /\ \E d \in deferred : SameLayer(d, Arg)
    /\ live' = named /\ deferred' = {} /\ merged' = {}
    /\ who' = "none" /\ todo' = <<>> /\ undo' = <<>> /\ lock' = FALSE
    /\ stripped' = (stripped \cap named) \cup (named \ dirs) /\ nameless' = {}
    /\ hurt' = hurt \cup {"crashed", "rebuilt"}
    /\ UNCHANGED <<named, dirs, exported, use, recorded>>

Job ==
    \/ \E r \in Apps, M \in SUBSET {"binary", "develop"}, b \in BOOLEAN : Install(r, M, b)
    \/ \E r \in Refs, b \in BOOLEAN : InstallBase(r, b)
    \/ \E r \in Apps : InstallExtra(r, "develop") \/ UninstallExtra(r, "develop")
    \/ \E c \in Files : InstallLayer(c)
    \/ \E L \in SUBSET Files : InstallUab(L)
    \/ \E ids \in SUBSET {r.id : r \in Apps}, b \in BOOLEAN : Update(ids, b)
    \/ \E r \in Refs : Uninstall(r)
    \/ Prune

Gc == GcLock \/ GcBegin

Next ==
    \/ Job \/ Change \/ Collect \/ Discard \/ End \/ Gc \/ Crash \/ Rebuilt
    \/ \E k \in Containers : (\E r \in Apps : Mount(k, r)) \/ Record(k) \/ Stop(k)

\* A job goes on until it ends; the loop comes round every hour.
Fairness == WF_vars(Change \/ Collect \/ Discard \/ End) /\ WF_vars(GcLock) /\ SF_vars(GcBegin)

Spec     == Init /\ [][Next]_vars
FairSpec == Spec /\ Fairness

-----------------------------------------------------------------------------
(* Properties.                                                             *)

Idle == who = "none"

\* An installed layer has its files, and so has one that waits for its container
\* to end: between the updates of an operation, after one of them failed and
\* after a restart in the midst of them.  Only the pull of a layer that is
\* installed already takes them away for a time, and for good if it fails then;
\* the rebuilt cache has entries for refs that were never checked out; and a
\* prune takes those of deferred layers.
FilesThere == "pruned" \notin hurt => live \cup deferred \subseteq dirs \cup stripped

\* Between operations an installed or deferred layer has its objects, however
\* the operations before ended, as long as none was cut off, none pruned a
\* deferred layer, and no import set the ref of the layer to another commit: that
\* takes it from a deferred entry, and from a live one if the checkout fails then.
Complete == Idle /\ {"crashed", "pruned"} \cap hurt = {} => live \cup deferred \subseteq named \cup nameless

\* What an entry stands for is there: its files always, its objects when no
\* operation is at work.
LayersWhole == FilesThere /\ Complete

\* "deferred layers stay reachable until collected" (the test at
\* local.rs:2912): between operations a deferred layer has its files and its
\* objects.
DeferredReachable == Idle => deferred \subseteq dirs \cap named

\* No desktop entry outlives the version it starts, through upgrades that are
\* rolled back and layers that are deferred; but for entries that a rollback leaves,
\* and those of a layer that another one takes the place of.
ExportedLive == {"rebuilt", "linked"} \cap hurt = {} => exported \subseteq live

\* An installed app has an installed base: neither pruning, nor the rollback
\* of an install, nor replacing a base takes the last one away.  An app whose
\* installation was cut off, or could not be taken back, may lack it.
BaseThere == Idle /\ {"crashed", "forced", "stuck", "twice"} \cap hurt = {} =>
                 \A r \in Installed \cap Apps : OfId(BaseOf[r]) # {}

\* What a container gets of an app with several modules is all of them, and of
\* another app nothing but the app: every operation that adds or removes one
\* overlays them anew, if the last merge was not cut off, left out or failed.
MergedCurrent ==
    Idle /\ {"rebuilt", "twice", "unmerged"} \cap hurt = {} => \A r \in Installed : Current(r)

\* What is made of the installed layers, desktop entries and merged
\* directories, follows them.
FollowsInstalled == ExportedLive /\ MergedCurrent

\* The deferred uninstall loop never takes a checkout from a recorded
\* container, whenever that was recorded: it looked under the RepoLock.
GcSparesRecorded ==
    [][who = "gc" => \A k \in recorded : use[k] \cap dirs \subseteq dirs']_vars

\* A deferred layer is collected, or installed again, unless containers of
\* its reference keep it busy again and again.
DeferredCollected == \A c \in Commits : []<>(c \notin deferred \/ Busy(c.ref))
=============================================================================
