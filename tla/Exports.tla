------------------------------- MODULE Exports -------------------------------
(* What applications show to the desktop (linyaps-repository local.rs): the  *)
(* files of their layers that are to be exported are rewritten where they    *)
(* are and linked into entries.  The daemon exports what it installs, and    *)
(* builds all entries again when it finds them of another version.  It may   *)
(* be killed at any step, and any step may fail.                             *)
EXTENDS Integers, Sequences, FiniteSets, SequencesExt

CONSTANTS
    Layers,     \* layers of applications
    App,        \* the application of each, which has one version but for an upgrade
    Files,      \* names of the files each of them exports
    Desktop,    \* those that are desktop entries: rewritten, and put in the overlay
    MaxOps,     \* bounds operations
    MaxStops,   \* bounds kills, failures and new versions of the program
    None

\* A file of a layer is <<name, 0>>.  A copy of it that is being rewritten stands
\* beside it under a name of its own, and stays there if that is broken off:
\* each stop leaves at most one.
Own(l)   == Files[l] \X {0}
FileNames(l) == Own(l) \union ((Files[l] \intersect Desktop) \X (1..(MaxStops + 1)))
AllNames == UNION {FileNames(l) : l \in Layers}

Cut  == -1      \* a text that breaks off, and is so when it is rewritten
Raw  == [source |-> 0, backup |-> None]
Done == [source |-> 1, backup |-> 0]
Gone == [source |-> None, backup |-> None]
Fresh(l) == [n \in FileNames(l) |-> IF n[2] = 0 THEN Raw ELSE Gone]
Rewritten(text) == IF text = Cut THEN Cut ELSE text + 1

VARIABLES
    disk,       \* of each name in a layer: how often the file was rewritten (None: it
                \* is not there), and the same of its .linyaps.original
    installed,
    entries,    \* None, or the links (place, name, and where to) and whether .version is ours
    new,        \* the links of entries_new_*, which is built
    aside,      \* entries_old_*, where the old ones are moved
    overlay,    \* LINGLONG_EXPORT_PATH is set
    pc,         \* of the daemon: "down", "idle", "work", "swap" or "swapping"
    plan,       \* what is to be done: export, unexport, drop a layer
    undo,       \* the layer to take back if something fails
    quiet,      \* it is being taken back, and errors are ignored
    file,       \* the one that is being exported, and the next step of it
    seen,       \* files of the layer that were
    excused,    \* files whose links were removed, or not made yet since their layer came
    twice,      \* a failure while a failure was being taken back
    ops, stops

working == <<plan, undo, quiet, file, seen>>
bounds == <<ops, stops>>
vars == <<disk, installed, entries, new, aside, overlay, pc, working, excused, twice, bounds>>

Do(what, l) == [do |-> what, layer |-> l]
Sharing(n) == {<<l, n>> : l \in {k \in Layers : n \in Own(k)}}

\* A repository of an older version of the program, which had exported all.
Init == /\ \E S \in SUBSET Layers :
               /\ \A l, k \in S : App[l] = App[k] => l = k
               /\ installed = S
               /\ disk = [l \in Layers |-> [n \in FileNames(l) |->
                   IF l \in S /\ n[2] = 0 /\ n[1] \in Desktop THEN Done ELSE Fresh(l)[n]]]
               /\ entries = [current |-> FALSE, links |->
                   {[at |-> "share", name |-> n, to |-> CHOOSE l \in S : n \in Own(l)] :
                    n \in UNION {Own(l) : l \in S}}]
        /\ new = {} /\ aside = None /\ overlay \in BOOLEAN /\ pc = "down"
        /\ plan = <<>> /\ undo = None /\ quiet = FALSE /\ file = None /\ seen = {}
        /\ excused = {} /\ twice = FALSE
        /\ ops = 0 /\ stops = 0

----------------------------------------------------------------------------
(* Opening the repository: ensure_entries_current.                           *)

Open == /\ pc = "down"
        /\ IF entries # None /\ entries.current
           THEN pc' = "idle" /\ UNCHANGED <<plan, new>>
           ELSE /\ \E order \in SetToSeqs(installed) :
                       plan' = [k \in DOMAIN order |-> Do("export", order[k])]
                /\ pc' = "swap" /\ new' = {}
        /\ undo' = None /\ quiet' = FALSE /\ file' = None /\ seen' = {}
        /\ UNCHANGED <<disk, installed, entries, aside, overlay, excused, twice, bounds>>

Building == pc = "swap"
Live == IF entries = None THEN {} ELSE entries.links

\* All are exported into the new directory: the old one is moved away, and the
\* new one moved into its place.
SwapOut == /\ Building /\ plan = <<>> /\ entries # None
           /\ entries' = None /\ aside' = entries /\ pc' = "swapping"
           /\ UNCHANGED <<disk, installed, new, overlay, working, excused, twice, bounds>>
SwapIn == /\ pc = "swapping" \/ (Building /\ plan = <<>> /\ entries = None)
          /\ entries' = [current |-> TRUE, links |-> new]
          /\ new' = {} /\ aside' = None /\ pc' = "idle"
          /\ UNCHANGED <<disk, installed, overlay, working, excused, twice, bounds>>
\* It cannot be moved: the old one is moved back.
SwapBack == /\ pc = "swapping" /\ stops < MaxStops /\ stops' = stops + 1
            /\ entries' = aside /\ aside' = None /\ pc' = "down"
            /\ UNCHANGED <<disk, installed, new, overlay, working, excused, twice, ops>>

----------------------------------------------------------------------------
(* Operations: the layers are put into the repository before what they       *)
(* export, and removed after it.                                             *)

Begin(steps, back) == /\ pc = "idle" /\ ops < MaxOps /\ ops' = ops + 1
                      /\ pc' = "work" /\ plan' = steps /\ undo' = back
                      /\ quiet' = FALSE /\ seen' = {}
                      /\ UNCHANGED <<file, entries, new, aside, overlay, twice, stops>>

Install(l) == /\ l \notin installed /\ \A k \in installed : App[k] # App[l]
              /\ Begin(<<Do("export", l)>>, l)
              /\ installed' = installed \union {l} /\ excused' = excused \union ({l} \X Own(l))
              /\ UNCHANGED disk
Upgrade(l, k) == /\ l \in installed /\ k \notin installed /\ App[k] = App[l]
                 /\ Begin(<<Do("export", k), Do("unexport", l), Do("drop", l)>>, k)
                 /\ installed' = installed \union {k} /\ excused' = excused \union ({k} \X Own(k))
                 /\ UNCHANGED disk
\* Mutant: the layer is removed first.
UninstallDropsFirst(l) == /\ l \in installed
                          /\ Begin(<<Do("drop", l), Do("unexport", l)>>, None)
                          /\ UNCHANGED <<disk, installed, excused>>
Uninstall(l) == /\ l \in installed
                /\ Begin(<<Do("unexport", l), Do("drop", l)>>, None)
                /\ UNCHANGED <<disk, installed, excused>>

Doing(what) == pc \in {"work", "swap"} /\ plan # <<>> /\ Head(plan).do = what
Layer == Head(plan).layer
NextPhase == plan' = Tail(plan) /\ seen' = {}

Finish == /\ pc = "work" /\ plan = <<>> /\ pc' = "idle"
          /\ UNCHANGED <<disk, installed, entries, new, aside, overlay, working, excused, twice, bounds>>

----------------------------------------------------------------------------
(* export_tree: one file after the other, as the directory lists them, with  *)
(* the copies that were left.  What is called .linyaps.original is not one.  *)

Present(l) == {n \in FileNames(l) : disk[l][n].source # None}

Take(n) == /\ Doing("export") /\ file = None /\ n \in Present(Layer) \ seen
           /\ file' = [name |-> n, at |-> {},
                       step |-> IF n[1] \in Desktop THEN "backup" ELSE "place"]
           /\ UNCHANGED <<disk, installed, entries, new, aside, overlay, pc, plan, undo, quiet, seen,
                          excused, twice, bounds>>
AllTaken == /\ Doing("export") /\ file = None /\ Present(Layer) \subseteq seen
            /\ NextPhase
            /\ UNCHANGED <<disk, installed, entries, new, aside, overlay, pc, undo, quiet, file,
                           excused, twice, bounds>>

\* rewrite_export_file: the source becomes the original unless there is one.  A
\* copy of that is made in the same directory, rewritten in place, and moved to
\* where the source was.
On(step) == file # None /\ file.step = step
Now == disk[Layer][file.name]
Copy == <<file.name[1], stops + 1>>
Edit(n, state) == disk' = [disk EXCEPT ![Layer][n] = state]
Then(step) == file' = [file EXCEPT !.step = step]
OnlyDisk == UNCHANGED <<installed, entries, new, aside, overlay, pc, plan, undo, quiet, seen,
                        excused, twice, bounds>>

Backup == /\ On("backup") /\ Then("copy") /\ OnlyDisk
          /\ IF Now.backup # None THEN UNCHANGED disk
             ELSE Edit(file.name, [source |-> None, backup |-> Now.source])
\* The copy is whole, or still being made or written.
MakeCopy == /\ On("copy") /\ Then("write") /\ OnlyDisk
            /\ \E text \in {Now.backup, Cut} : Edit(Copy, [Gone EXCEPT !.source = text])
Write == /\ On("write") /\ Then("clear") /\ OnlyDisk
         /\ Edit(Copy, [Gone EXCEPT !.source = Rewritten(Now.backup)])
Clear == /\ On("clear") /\ Then("rename") /\ OnlyDisk
         /\ Edit(file.name, [Now EXCEPT !.source = None])
Rename == /\ On("rename") /\ Then("place") /\ OnlyDisk
          /\ disk' = [disk EXCEPT ![Layer][file.name].source = disk[Layer][Copy].source,
                                  ![Layer][Copy] = Gone]

\* desktop_destinations: where the live entries have it, else in the overlay.
Places(n) == LET there == {x.at : x \in {y \in Live : y.name = n}}
             IN  IF n[1] \notin Desktop \/ ~ overlay THEN {"share"}
                 ELSE IF there # {} THEN there ELSE {"overlay"}
Place == /\ On("place") /\ OnlyDisk /\ UNCHANGED disk
         /\ file' = [file EXCEPT !.step = "link", !.at = Places(file.name)]

Target == IF Building THEN new ELSE Live
At(links, p) == {x \in links : x.at = p /\ x.name = file.name}
Link(p) == [at |-> p, name |-> file.name, to |-> Layer]
Change(links) == IF Building THEN new' = links /\ UNCHANGED entries
                 ELSE entries' = [entries EXCEPT !.links = links] /\ UNCHANGED new
\* A link that is there is removed, and then made again.
MakeLink(p) ==
    /\ On("link") /\ p \in file.at
    /\ IF At(Target, p) # {}
       THEN /\ Change(Target \ At(Target, p)) /\ UNCHANGED file
            /\ excused' = IF Building THEN excused ELSE excused \union Sharing(file.name)
       ELSE /\ Change(Target \union {Link(p)})
            /\ file' = [file EXCEPT !.at = @ \ {p}]
            /\ excused' = excused \ Sharing(file.name)
    /\ UNCHANGED <<disk, installed, aside, overlay, pc, plan, undo, quiet, seen, twice,
                   bounds>>
Linked == /\ On("link") /\ file.at = {}
          /\ seen' = seen \union {file.name} /\ file' = None
          /\ UNCHANGED <<disk, installed, entries, new, aside, overlay, pc, plan, undo, quiet,
                         excused, twice, bounds>>

\* remove_links_into_layers, and the removal of the layer.
Unlink(x) == /\ Doing("unexport") /\ x \in Live /\ x.to = Layer
             /\ entries' = [entries EXCEPT !.links = @ \ {x}]
             /\ excused' = excused \union Sharing(x.name)
             /\ UNCHANGED <<disk, installed, new, aside, overlay, pc, working, twice, bounds>>
AllUnlinked == /\ Doing("unexport") /\ \A x \in Live : x.to # Layer
               /\ NextPhase
               /\ UNCHANGED <<disk, installed, entries, new, aside, overlay, pc, undo, quiet, file,
                              excused, twice, bounds>>
Drop == /\ Doing("drop") /\ NextPhase
        /\ installed' = installed \ {Layer} /\ disk' = [disk EXCEPT ![Layer] = Fresh(Layer)]
        /\ UNCHANGED <<entries, new, aside, overlay, pc, undo, quiet, file, excused, twice, bounds>>

----------------------------------------------------------------------------
\* An error while opening ends the daemon.  One in an operation takes back the
\* new layer, and in the course of this is ignored.
Fails == /\ Building \/ (pc = "work" /\ plan # <<>>)
         /\ stops < MaxStops /\ stops' = stops + 1
         /\ file' = None /\ seen' = {}
         /\ CASE Building     -> pc' = "down" /\ plan' = <<>> /\ UNCHANGED <<undo, quiet, twice>>
              [] undo # None  -> /\ plan' = <<Do("unexport", undo), Do("drop", undo)>>
                                 /\ undo' = None /\ quiet' = TRUE /\ UNCHANGED <<pc, twice>>
              [] quiet        -> plan' = Tail(plan) /\ twice' = TRUE /\ UNCHANGED <<pc, undo, quiet>>
              [] OTHER        -> plan' = <<>> /\ UNCHANGED <<pc, undo, quiet, twice>>
         /\ UNCHANGED <<disk, installed, entries, new, aside, overlay, excused, ops>>

\* It comes back, perhaps as another version, or with another environment.
Killed(other) == /\ pc # "down" /\ stops < MaxStops /\ stops' = stops + 1
                 /\ pc' = "down" /\ file' = None /\ seen' = {}
                 /\ plan' = <<>> /\ undo' = None /\ quiet' = FALSE
                 /\ entries' = IF entries = None THEN None
                               ELSE [entries EXCEPT !.current = @ /\ ~ other]
                 /\ overlay' = (overlay # other)
                 /\ UNCHANGED <<disk, installed, new, aside, excused, twice, ops>>

Next == \/ Open \/ SwapOut \/ SwapIn \/ SwapBack \/ Finish \/ AllTaken \/ AllUnlinked \/ Drop
        \/ \E l \in Layers : Install(l) \/ Uninstall(l) \/ \E k \in Layers : Upgrade(l, k)
        \/ \E n \in AllNames : Take(n)
        \/ Backup \/ MakeCopy \/ Write \/ Clear \/ Rename \/ Place \/ Linked
        \/ \E p \in {"share", "overlay"} : MakeLink(p)
        \/ \E x \in Live : Unlink(x)
        \/ Fails \/ \E other \in BOOLEAN : Killed(other)

Spec == Init /\ [][Next]_vars

----------------------------------------------------------------------------
\* A link leads to a file that is there, in a layer that is installed, and a
\* file of the layer was rewritten once from its original, whatever was killed or
\* failed: only a second failure, while a first one is taken back, leaves links
\* to a removed layer.  What was broken off may leave a copy, which the next
\* building of the entries takes for one more file of the layer and rewrites
\* again, so that an application has an entry too many, perhaps of half a text.
Fits(n, text) == IF n[2] # 0 THEN text \notin {None, 0}
                 ELSE text = IF n[1] \in Desktop THEN 1 ELSE 0
LinksLead ==
    pc \in {"idle", "work"} /\ ~ twice =>
        \A x \in Live : /\ x.to \in installed /\ x.name \in FileNames(x.to)
                        /\ Fits(x.name, disk[x.to][x.name].source)

\* An installed application has its entries, unless their links were taken
\* away with those of another layer (an upgrade that failed, an application
\* with the same files) and not made again, or a file is lost, since a kill
\* came between the two steps that replace it.  Building the entries again
\* loses none, and brings back all.
EntriesKept ==
    pc = "idle" => \A l \in installed : \A n \in Own(l) :
        <<l, n>> \in excused \/ disk[l][n].source = None \/ \E x \in Live : x.name = n

\* The entries of a desktop are those of what is installed.
EntriesSound == LinksLead /\ EntriesKept
=============================================================================
