------------------------------ MODULE Builder ------------------------------
(***************************************************************************)
(* The commands of ll-builder over the repository that all its processes   *)
(* share (apps/ll-builder/src over crates/linyaps-repository/src/local.rs).*)
(* A process reads states.json when it opens the repository, works on that *)
(* copy and writes the whole file at each change, in place; nothing keeps  *)
(* two of them apart, and each may be killed between any two steps.  A     *)
(* file a kill has cut off is made anew from the refs.  A command is a     *)
(* list of steps, todo.  Where the sources of a build come from is module  *)
(* SourceCache.                                                            *)
(*                                                                         *)
(* A layer is [ref, module, gen]: the build that made it tells the commits *)
(* of a module apart; those of the bases in the remotes have gen 0.        *)
(***************************************************************************)
EXTENDS Naturals, Sequences, FiniteSetsExt

CONSTANTS
    Builders,   \* ll-builder processes
    Project,    \* the project of each
    Groups,     \* the base versions of the remotes, grouped by priority
    Files,      \* what a build may install
    Rules,      \* the modules of a project before binary: [name, files]
    MaxRuns     \* bound: how many commands are started

BaseRef(v)  == [id |-> "base", version |-> v]
Own(p)      == [id |-> Project[p], version |-> 1]
Modules     == {"binary", "develop"} \cup {Rules[i].name : i \in 1..Len(Rules)}
BaseLayer(v, m) == [ref |-> BaseRef(v), module |-> m, gen |-> 0]
Versions    == UNION {Groups[i] : i \in 1..Len(Groups)}
Refs        == {BaseRef(v) : v \in Versions} \cup {Own(p) : p \in Builders}
Layers      == [ref : Refs, module : Modules, gen : 0..MaxRuns]

\* Rules are a list, in which the main module is not allowed; what is built is
\* not the base it is built on.
ASSUME BuilderAssumption ==
    LET rules == {Rules[i] : i \in 1..Len(Rules)} IN
    /\ MaxRuns \in Nat /\ \A i \in 1..Len(Groups) : Groups[i] \subseteq Nat
    /\ Rules \in Seq(rules) /\ \A rule \in rules : rule.name # "binary"
    /\ \A p \in Builders : Project[p] # "base"

VARIABLES
    file,    \* states.json: [layers, merged]
    torn,    \* it cannot be read
    writing, \* the processes that have truncated it and not written it yet
    mem,     \* the copy of it in each process
    named,   \* the commits the refs lead to
    dirs,    \* the layers with a complete checkout
    merged,  \* the merged directories: the sets of layers each was made of
    todo,    \* the steps each process has still to take
    base,    \* the base a build runs on, 0 before one is chosen
    left,    \* what is still in the output of a build, and whether that is there
    parts,   \* the modules the output was split into
    made,    \* what the container of the build installed
    result,  \* how the last command of a process ended
    gen,     \* commands started
    stale,   \* the processes whose copy misses a change
    overlap, \* two processes had the repository open at the same time
    cut,     \* layers whose ref was set and whose checkout is still to be made
    bare     \* listed layers without one: it was cleared to be made again, or
             \* the list was made anew from the refs of those in cut

list == <<file, torn, writing>>
disk == <<list, named, dirs, merged, cut, bare>>
work == <<base, left, parts, made>>
vars == <<disk, mem, todo, work, result, gen, stale, overlap>>

Empty   == [layers |-> {}, merged |-> {}]
Nothing == [there |-> FALSE, files |-> {}]
Open    == {p \in Builders : todo[p] # <<>>}

SameLayer(c, d) == c.ref = d.ref /\ c.module = d.module
OfRef(S, r)     == {c \in S : c.ref = r}
\* resolve_local: the newest version with a binary module.
Local(p) == LET vs == {v \in Versions : \E c \in mem[p].layers :
                           c.ref = BaseRef(v) /\ c.module = "binary"} IN
            IF vs = {} THEN 0 ELSE Max(vs)

\* The modules of a build, in the order they are taken from the output.
RuleForDevelop == \E i \in 1..Len(Rules) : Rules[i].name = "develop"
Splits(full) ==
    Rules \o (IF RuleForDevelop \/ full THEN <<>>
              ELSE <<[name |-> "develop", files |-> {"header"}]>>)
          \o <<[name |-> "binary", files |-> Files]>>

\* The modules of a build as layers.
Packed(p, g) == {[ref |-> Own(p), module |-> m, gen |-> g] : m \in Modules}

\* merge_modules: a merged directory for each reference with a main module
\* and another one.
Merges(S) == {OfRef(S, r) : r \in {c.ref : c \in {d \in S : d.module = "binary"}}} \ {{c} : c \in S}

Init ==
    /\ file = Empty /\ torn = FALSE /\ writing = {}
    /\ named = {} /\ dirs = {} /\ merged = {} /\ cut = {} /\ bare = {}
    /\ mem = [p \in Builders |-> Empty]
    /\ todo = [p \in Builders |-> <<>>]
    /\ base = [p \in Builders |-> 0]
    /\ left = [p \in Builders |-> Nothing]
    /\ parts = [p \in Builders |-> [m \in Modules |-> {}]]
    /\ made = [p \in Builders |-> {}]
    /\ result = [p \in Builders |-> "none"]
    /\ gen = 0 /\ stale = {} /\ overlap = FALSE

-----------------------------------------------------------------------------
(* Commands.  Each opens the repository and plans its steps.               *)

Run(p, plan) ==
    /\ todo[p] = <<>> /\ gen < MaxRuns /\ ~torn
    /\ gen' = gen + 1
    /\ mem' = [mem EXCEPT ![p] = file] /\ stale' = stale \ {p}
    /\ overlap' = (overlap \/ Open # {})
    /\ todo' = [todo EXCEPT ![p] = plan]
    /\ result' = [result EXCEPT ![p] = "none"]
    /\ base' = [base EXCEPT ![p] = 0]
    /\ left' = [left EXCEPT ![p] = Nothing]
    /\ parts' = [parts EXCEPT ![p] = [m \in Modules |-> {}]]
    /\ made' = [made EXCEPT ![p] = {}]
    /\ UNCHANGED disk

\* LocalRepository::create, where the file cannot be read: a list of the refs.
\* It is written ref by ref, so that a kill leaves some of them; nor does a
\* commit count that cannot be read.
Rebuild ==
    /\ torn
    /\ \E S \in SUBSET named :
         /\ file' = [layers |-> S, merged |-> {}] /\ torn' = FALSE
         /\ bare' = bare \cup (S \cap cut)
    /\ stale' = Builders /\ overlap' = (overlap \/ Open # {})
    /\ UNCHANGED <<writing, named, dirs, merged, cut, mem, todo, work, result, gen>>

\* A layer is imported by name, clear, checkout and upsert, and removed by drop
\* and erase; each of these steps goes on with the next.
\* build; full is --full-develop-module, which a rule for that module overrides.
BuildPlan(p, full) ==
    <<<<"sources">>, <<"resolve">>, <<"merge">>, <<"container">>>>
    \o (IF full /\ ~RuleForDevelop THEN <<<<"copy">>>> ELSE <<>>)
    \o <<<<"split", Splits(full)>>, <<"replace">>, <<"commit", Packed(p, gen + 1)>>,
         <<"merge">>, <<"check">>>>
Build(p) == \E full \in BOOLEAN : Run(p, BuildPlan(p, full))

\* import and import-dir: a layer somebody else has built.
ImportPath(p, m) ==
    Run(p, <<<<"name", [ref |-> Own(p), module |-> m, gen |-> gen + 1]>>, <<"merge">>>>)

\* remove, of every module of a reference.
RemoveApp(p, r) == Run(p, <<<<"remove", r>>, <<"merge">>>>)

\* run, export and push read the layers of the project; run its base too.
RunBuilt(p) == Run(p, <<<<"local">>, <<"merge">>, <<"read">>, <<"start">>>>)
Push(p)     == Run(p, <<<<"read">>>>)

-----------------------------------------------------------------------------
(* Steps.  One that is done for each of several goes on with the others.   *)

AnyOf(S) == CHOOSE x \in S : TRUE

Due(p, do) == todo[p] # <<>> /\ Head(todo[p])[1] = do
Arg(p)     == Head(todo[p])[2]

\* The last step of a command is its end.
Then(p, s) ==
    /\ todo' = [todo EXCEPT ![p] = s]
    /\ result' = IF s = <<>> THEN [result EXCEPT ![p] = "done"] ELSE result
Onward(p, s) == Then(p, s \o Tail(todo[p]))

End(p, how) ==
    /\ todo' = [todo EXCEPT ![p] = <<>>] /\ result' = [result EXCEPT ![p] = how]
    /\ UNCHANGED <<disk, mem, work, gen, stale, overlap>>
Fails(p)  == End(p, "failed")  \* what it was given or the world is at fault
Breaks(p) == End(p, "broken")  \* the repository is not as it must be

\* write_to_disk: the file is truncated, then the whole copy is written, over
\* whatever it has become.
Truncate(p) ==
    /\ p \notin writing /\ (Due(p, "upsert") \/ Due(p, "drop") \/ Due(p, "list"))
    /\ writing' = writing \cup {p} /\ file' = Empty /\ torn' = TRUE
    /\ stale' = stale \cup (Builders \ {p})
    /\ UNCHANGED <<named, dirs, merged, cut, bare, mem, todo, work, result, gen, overlap>>

\* Of a longer text another process has written in between, the end remains.
Write(p, new) ==
    /\ p \in writing /\ writing' = writing \ {p}
    /\ mem' = [mem EXCEPT ![p] = new]
    /\ \/ file' = new /\ torn' = FALSE /\ stale' = stale \cup (Builders \ {p})
       \/ ~torn /\ file' = Empty /\ torn' = TRUE /\ stale' = Builders

Idle(p) == UNCHANGED <<disk, mem, work, gen, stale, overlap>> /\ Onward(p, <<>>)

Sources(p) == Due(p, "sources") /\ (Idle(p) \/ Fails(p))

Choose(p, v, s) ==
    /\ base' = [base EXCEPT ![p] = v] /\ Onward(p, s)
    /\ UNCHANGED <<disk, mem, left, parts, made, gen, stale, overlap>>

\* resolve_dependency with pull off.
ResolveLocal(p) ==
    /\ Due(p, "local") \/ Due(p, "resolve")
    /\ IF Local(p) = 0 THEN Fails(p) ELSE Choose(p, Local(p), <<>>)

\* resolve_dependency: the newest version of the first group with any; which
\* one that is depends on the remotes that can be reached.
ResolveRemote(p) ==
    /\ Due(p, "resolve")
    /\ \E i \in 1..Len(Groups) : \E v \in Groups[i] :
         Choose(p, v, <<<<"name", BaseLayer(v, "binary")>>>>)

\* The transaction of a pull or an import: the commit, and the ref to it.
Name(p) ==
    /\ Due(p, "name")
    /\ named' = {c \in named : ~SameLayer(c, Arg(p))} \cup {Arg(p)}
    /\ cut' = IF Arg(p) \in dirs THEN cut ELSE cut \cup {Arg(p)}
    /\ Onward(p, <<<<"clear", Arg(p)>>>>)
    /\ UNCHANGED <<list, dirs, merged, bare, mem, work, gen, stale, overlap>>

\* checkout_layer clears what is there.
Clear(p) ==
    /\ Due(p, "clear")
    /\ dirs' = dirs \ {Arg(p)} /\ cut' = cut \cup {Arg(p)}
    /\ bare' = IF Arg(p) \in file.layers THEN bare \cup {Arg(p)} ELSE bare \ {Arg(p)}
    /\ Onward(p, <<<<"checkout", Arg(p)>>>>)
    /\ UNCHANGED <<list, named, merged, mem, work, gen, stale, overlap>>

Checkout(p) ==
    /\ Due(p, "checkout")
    /\ dirs' = dirs \cup {Arg(p)} /\ cut' = cut \ {Arg(p)} /\ bare' = bare \ {Arg(p)}
    /\ Onward(p, <<<<"upsert", Arg(p)>>>>)
    /\ UNCHANGED <<list, named, merged, mem, work, gen, stale, overlap>>

\* What may fail of a pull or an import: the commit, what is read of it, the
\* checkout.
Importing(p) == Due(p, "name") \/ Due(p, "clear") \/ Due(p, "checkout")

\* A pull that fails: without the develop module the build goes on; without
\* the main one on the version that was there.
PullFails(p) ==
    /\ Importing(p) /\ Arg(p).ref.id = "base"
    /\ IF Arg(p).module = "develop" THEN UNCHANGED base
       ELSE Local(p) # 0 /\ base' = [base EXCEPT ![p] = Local(p)]
    /\ Onward(p, <<>>)
    /\ UNCHANGED <<disk, mem, left, parts, made, gen, stale, overlap>>

ImportFails(p) ==
    /\ Importing(p)
    /\ Arg(p).ref.id # "base" \/ (Arg(p).module = "binary" /\ Local(p) = 0)
    /\ Fails(p)

\* upsert_layer.  The develop module of a base is pulled after the main one.
Upsert(p) ==
    /\ Due(p, "upsert")
    /\ Write(p, [mem[p] EXCEPT !.layers = {c \in @ : ~SameLayer(c, Arg(p))} \cup {Arg(p)}])
    /\ LET c == Arg(p) IN
       Onward(p, IF c.ref.id = "base" /\ c.module = "binary"
                 THEN <<<<"name", BaseLayer(c.ref.version, "develop")>>>> ELSE <<>>)
    /\ UNCHANGED <<named, dirs, merged, cut, bare, work, gen, overlap>>

\* remove_layer_item: the ref, then the entry, then the checkout.
Drop(p) ==
    /\ Due(p, "drop")
    /\ Write(p, [mem[p] EXCEPT !.layers = @ \ {Arg(p)}])
    /\ Onward(p, <<<<"erase", Arg(p)>>>>)
    /\ UNCHANGED <<named, dirs, merged, cut, bare, work, gen, overlap>>

Erase(p) ==
    /\ Due(p, "erase")
    /\ dirs' = dirs \ {Arg(p)} /\ cut' = cut \ {Arg(p)} /\ bare' = bare \ {Arg(p)}
    /\ Onward(p, <<>>)
    /\ UNCHANGED <<list, named, mem, merged, work, gen, stale, overlap>>

\* Every module of a reference; a ref that leads to another commit stays.
Removing(p, r) ==
    /\ LET those == OfRef(mem[p].layers, r) IN
       IF those = {} THEN Onward(p, <<>>) /\ UNCHANGED named
       ELSE /\ Onward(p, <<<<"drop", AnyOf(those)>>, <<"remove", r>>>>)
            /\ named' = named \ {AnyOf(those)}
    /\ UNCHANGED <<list, dirs, merged, cut, bare, mem, work, gen, stale, overlap>>
RemoveRef(p) == Due(p, "remove") /\ Removing(p, Arg(p))

\* Mutant: the directories not listed any more go before the list is written.
MergePlanEager(new) == <<<<"sweep", new>>, <<"list", new>>>>

\* The list is written, then the directories it does not name go.
MergePlan(new) == <<<<"list", new>>, <<"sweep", new>>>>

\* merge_modules: new directories are made aside and renamed.
Merge(p) ==
    /\ Due(p, "merge")
    /\ LET new   == Merges(mem[p].layers)
           fresh == new \ (mem[p].merged \cap merged) IN
       Onward(p, (IF fresh = {} THEN <<>> ELSE <<<<"overlay", fresh>>>>) \o MergePlan(new))
    /\ UNCHANGED <<disk, mem, work, gen, stale, overlap>>

Overlay(p) ==
    /\ Due(p, "overlay")
    /\ LET S == AnyOf(Arg(p))  others == Arg(p) \ {S} IN
       IF S \subseteq dirs
       THEN /\ merged' = merged \cup {S}
            /\ Onward(p, IF others = {} THEN <<>> ELSE <<<<"overlay", others>>>>)
            /\ UNCHANGED <<list, named, dirs, cut, bare, mem, work, gen, stale, overlap>>
       ELSE Breaks(p)

List(p) ==
    /\ Due(p, "list")
    /\ Write(p, [mem[p] EXCEPT !.merged = Arg(p)])
    /\ Onward(p, <<>>)
    /\ UNCHANGED <<named, dirs, merged, cut, bare, work, gen, overlap>>

Sweep(p) ==
    /\ Due(p, "sweep")
    /\ merged' = merged \cap Arg(p) /\ Onward(p, <<>>)
    /\ UNCHANGED <<list, named, dirs, cut, bare, mem, work, gen, stale, overlap>>

\* merged_layer_path: the merged directory, or the layer when there is none.
BaseThere(p) ==
    LET mains == {c \in mem[p].layers : c.ref = BaseRef(base[p]) /\ c.module = "binary"} IN
    \/ mains \cap dirs # {}
    \/ \E S \in mem[p].merged \cap merged : S \cap mains # {}

\* The containers for buildext and the build: each copies the base, and fails
\* as what runs in it does.
Container(p) ==
    /\ Due(p, "container")
    /\ IF ~BaseThere(p) THEN Breaks(p)
       ELSE \/ Fails(p)
            \/ \E F \in SUBSET Files :
                 /\ made' = [made EXCEPT ![p] = F]
                 /\ left' = [left EXCEPT ![p] = [there |-> TRUE, files |-> F]]
                 /\ Onward(p, <<>>)
                 /\ UNCHANGED <<disk, mem, base, parts, gen, stale, overlap>>

StartBuilt(p) ==
    /\ Due(p, "start")
    /\ IF ~BaseThere(p) THEN Breaks(p) ELSE Idle(p)

\* split_modules with a full develop module, a copy of all.
CopyAll(p) ==
    /\ Due(p, "copy")
    /\ parts' = [parts EXCEPT ![p]["develop"] = left[p].files]
    /\ Onward(p, <<>>)
    /\ UNCHANGED <<disk, mem, base, left, made, gen, stale, overlap>>

\* move_matching: what a rule matches is moved, and directories left empty are
\* removed, the output itself among them, which the next module then misses.
Split(p) ==
    /\ Due(p, "split") /\ left[p].there
    /\ LET rule == Head(Arg(p))  taken == left[p].files \cap rule.files IN
       /\ parts' = [parts EXCEPT ![p][rule.name] = @ \cup taken]
       /\ left' = [left EXCEPT ![p] = [there |-> left[p].files # taken,
                                       files |-> left[p].files \ taken]]
    /\ Onward(p, IF Len(Arg(p)) = 1 THEN <<>> ELSE <<<<"split", Tail(Arg(p))>>>>)
    /\ UNCHANGED <<disk, mem, base, made, gen, stale, overlap>>

SplitBreaks(p) == Due(p, "split") /\ ~left[p].there /\ End(p, "emptied")

\* commit_modules removes every module of the reference first; stripping and
\* rewriting the output may fail before.
Replace(p) ==
    /\ Due(p, "replace")
    /\ Fails(p) \/ Removing(p, Own(p))

\* commit_modules imports each of them.
Commit(p) ==
    /\ Due(p, "commit")
    /\ LET c == AnyOf(Arg(p))  others == Arg(p) \ {c} IN
       Onward(p, IF others = {} THEN <<<<"name", c>>>>
                 ELSE <<<<"name", c>>, <<"commit", others>>>>)
    /\ UNCHANGED <<disk, mem, work, gen, stale, overlap>>

Binary(p) == {c \in mem[p].layers : c.ref = Own(p) /\ c.module = "binary"}

\* check_output looks at the layer, and for libraries the base does not have.
Check(p) ==
    /\ Due(p, "check")
    /\ IF Binary(p) \cap dirs = {} THEN Breaks(p) ELSE End(p, "built") \/ Fails(p)

\* The layers of the project are read; the remote end of a push may fail.
Read(p) ==
    /\ Due(p, "read")
    /\ LET mine == OfRef(mem[p].layers, Own(p)) IN
       IF mine = {} THEN Fails(p)
       ELSE IF mine \subseteq dirs THEN Idle(p) \/ Fails(p) ELSE Breaks(p)

Step(p) ==
    \/ Sources(p) \/ ResolveLocal(p) \/ ResolveRemote(p) \/ Name(p) \/ Clear(p) \/ Checkout(p)
    \/ PullFails(p) \/ ImportFails(p) \/ Truncate(p) \/ Upsert(p) \/ Drop(p) \/ Erase(p)
    \/ RemoveRef(p)
    \/ Merge(p) \/ Overlay(p) \/ List(p) \/ Sweep(p) \/ Container(p) \/ StartBuilt(p)
    \/ CopyAll(p) \/ Split(p) \/ SplitBreaks(p) \/ Replace(p) \/ Commit(p)
    \/ Check(p) \/ Read(p)

Kill(p) ==
    /\ todo[p] # <<>>
    /\ todo' = [todo EXCEPT ![p] = <<>>] /\ result' = [result EXCEPT ![p] = "killed"]
    /\ writing' = writing \ {p} /\ stale' = stale \cup (writing \cap {p})
    /\ UNCHANGED <<file, torn, named, dirs, merged, cut, bare, mem, work, gen, overlap>>

Command(p) ==
    \/ Build(p) \/ RunBuilt(p) \/ Push(p)
    \/ \E m \in {"binary", "develop"} : ImportPath(p, m)
    \/ \E r \in Refs : RemoveApp(p, r)

Next == Rebuild \/ \E p \in Builders : Command(p) \/ Step(p) \/ Kill(p)

Spec == Init /\ [][Next]_vars

-----------------------------------------------------------------------------
(* Properties.                                                             *)

\* While one builder at a time has the repository open, wherever it is killed,
\* the writing of the list included, and whatever pull, import or build fails:
\* the layers a readable list names have their files, and so have its merged
\* directories.  Except a layer that was being pulled again; and where the list
\* was made anew from the refs, one whose pull or import had broken off between
\* its ref and its checkout.
LoneSound == ~overlap => /\ file.layers \subseteq dirs \cup bare
                         /\ file.merged \subseteq merged

\* What a build that ended well leaves, until another writes the list: the
\* modules of this build, all of them and no other, with their files; and each
\* file the container installed is in one module, or in a full develop too.
BuildListed == \A p \in Builders : result[p] = "built" /\ p \notin stale =>
    LET mine == OfRef(file.layers, Own(p))
        P(m) == parts[p][m] IN
    /\ mine \subseteq dirs
    /\ \E g \in 1..gen : mine = Packed(p, g)
    /\ UNION {P(m) : m \in Modules} = made[p]
    /\ \A m, n \in Modules : m # n /\ P(m) \cap P(n) # {} =>
          \E d \in {m, n} : d = "develop" /\ P(d) = made[p]

\* What is listed is there and what was built is listed.
BuildsSound == LoneSound /\ BuildListed

=============================================================================
