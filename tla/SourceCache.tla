---------------------------- MODULE SourceCache ----------------------------
(***************************************************************************)
(* How ll-builder gets the sources of a project (apps/ll-builder/src       *)
(* source.rs, debian_source.rs and the helpers of legacy.rs).  Builders    *)
(* that share a fetch cache run at the same time and may be killed at any  *)
(* step: downloads are verified and renamed into the cache, archives and   *)
(* Debian sources are unpacked aside and renamed into it, and a plain file *)
(* reaches the build as a hard link to its cached inode, which the         *)
(* container of the build is free to write to.  ll-builder clean removes   *)
(* the cache with the rest of the project's directory.                     *)
(*                                                                         *)
(* There is one source of each kind, the same for every builder.           *)
(***************************************************************************)
EXTENDS Naturals, Sequences, FiniteSets

CONSTANTS
    Builders,   \* ll-builder processes, each in a project of its own
    Sources,    \* the kinds of the sources of each, in order
    Helpers,    \* the builders that are fetch-*-source helpers
    Format,     \* of the Debian source: "1.0", "native" or "quilt"
    MaxRuns     \* bound: how often a builder is started

Kinds  == {"file", "archive", "dsc", "git"}
Cached == {"archive", "dsc"}

VARIABLES
    pc,       \* what a builder does next
    rest,     \* the sources it has still to get
    inode,    \* the inode of the cached file, 0 without one
    spoiled,  \* the inodes a container has written to
    src,      \* the inode of the file among the sources of a builder
    kept,     \* the downloaded archive is in the cache
    tree,     \* the trees in the cache: "none", "part" or "whole"
    temp,     \* how much of a tree a builder has unpacked aside
    out,      \* the trees among the sources of a builder
    runs,     \* how many times builders were started
    blame,    \* the builders whose world, or whose rival, let them down
    touched,  \* the builders that another one's container overlapped
    torn      \* a clean was killed, or overlapped a build

vars == <<pc, rest, inode, spoiled, src, kept, tree, temp, out, runs, blame, touched, torn>>
cache == <<inode, spoiled, kept, tree, torn>>
mine  == <<src, temp, out, blame, touched>>

Kind(p) == Head(rest[p])
Inodes  == 1..(Cardinality(Builders) + 1)
Used    == {inode} \cup {src[p] : p \in Builders}
\* The inodes that have a name without the file of p.
Others(p) == {inode} \cup {src[q] : q \in Builders \ {p}}
NewInode == CHOOSE i \in Inodes : i \notin Used
Working == {p \in Builders : pc[p] \notin {"idle", "failed"}}

\* What unpacking a Debian source is made of, in order.
Layers == CASE Format = "native" -> <<"tar">>
            [] Format = "1.0"    -> <<"orig", "diff">>
            [] Format = "quilt"  -> <<"orig", "components", "debian", "patches">>

Init ==
    /\ pc = [p \in Builders |-> "idle"]
    /\ rest = [p \in Builders |-> <<>>]
    /\ inode = 0 /\ spoiled = {} /\ kept = FALSE
    /\ src = [p \in Builders |-> 0]
    /\ tree = [k \in Cached |-> "none"]
    /\ temp = [p \in Builders |-> 0]
    /\ out = [p \in Builders |-> [k \in Kinds \ {"file"} |-> "none"]]
    /\ runs = 0 /\ blame = {} /\ touched = {} /\ torn = FALSE

Goto(p, s) == pc' = [pc EXCEPT ![p] = s]
At(p, s)   == pc[p] = s

-----------------------------------------------------------------------------
(* One builder.                                                            *)

\* fetch_sources clears the sources; a helper goes on with what is there.
Start(p) ==
    /\ pc[p] \in {"idle", "failed"} /\ runs < MaxRuns
    /\ Goto(p, "source") /\ rest' = [rest EXCEPT ![p] = Sources[p]]
    /\ runs' = runs + 1
    /\ src' = [src EXCEPT ![p] = 0]
    /\ out' = IF p \in Helpers THEN out
              ELSE [out EXCEPT ![p] = [k \in Kinds \ {"file"} |-> "none"]]
    /\ blame' = blame \ {p}
    /\ touched' = touched \ {p}
    /\ torn' = (torn \/ \E q \in Builders : At(q, "clean"))
    /\ UNCHANGED <<inode, spoiled, kept, tree, temp>>

\* An error the world causes ends the build.
Fail(p) ==
    /\ Goto(p, "failed") /\ blame' = blame \cup {p}
    /\ temp' = [temp EXCEPT ![p] = 0]
    /\ UNCHANGED <<rest, cache, src, out, runs, touched>>

\* So does a cache that lacks what was there before.
Missing(p) ==
    /\ Goto(p, "failed")
    /\ temp' = [temp EXCEPT ![p] = 0]
    /\ UNCHANGED <<rest, cache, src, out, runs, blame, touched>>

\* One source is there: the next, or the container of the build.
Got(p) ==
    /\ rest' = [rest EXCEPT ![p] = Tail(@)]
    /\ Goto(p, IF Len(rest[p]) = 1 THEN "build" ELSE "source")

\* obtain_file: a cached file with the digest will do.
Look(p) ==
    /\ At(p, "source") /\ Kind(p) \in {"file", "archive"}
    /\ LET good == IF Kind(p) = "file" THEN inode # 0 /\ inode \notin spoiled ELSE kept IN
       Goto(p, IF good THEN "use" ELSE "download")
    /\ UNCHANGED <<rest, cache, mine, runs>>

\* obtain_file: into a file of the process's own, whose digest is verified.
Download(p) ==
    /\ At(p, "download")
    /\ \/ Goto(p, IF Kind(p) = "dsc" THEN "related" ELSE "publish")
          /\ UNCHANGED <<rest, cache, mine, runs>>
       \/ Fail(p)

\* obtain_file: renamed over what the cache has.
Publish(p) ==
    /\ At(p, "publish") /\ Goto(p, "use")
    /\ IF Kind(p) = "file"
       THEN /\ inode' = NewInode /\ spoiled' = spoiled \ ({NewInode} \cup ({inode} \ {src[q] : q \in Builders})) /\ UNCHANGED kept
       ELSE kept' = TRUE /\ UNCHANGED <<inode, spoiled>>
    /\ UNCHANGED <<rest, mine, tree, torn, runs>>

\* replace_with_link_or_copy: a copy is an inode of its own, as good as the
\* cached one is by now.
Link(p) ==
    /\ At(p, "use") /\ Kind(p) = "file"
    /\ IF inode = 0 THEN Missing(p)
       ELSE /\ Got(p)
            /\ \/ src' = [src EXCEPT ![p] = inode] /\ UNCHANGED spoiled
               \/ /\ src' = [src EXCEPT ![p] = NewInode]
                  /\ spoiled' = IF inode \in spoiled THEN spoiled \cup {NewInode}
                                ELSE spoiled \ {NewInode}
            /\ UNCHANGED <<inode, kept, tree, torn, temp, out, runs, blame, touched>>

\* The tree of an archive, or of a Debian source, may be in the cache.
Find(p) ==
    /\ \/ At(p, "use") /\ Kind(p) = "archive"
       \/ At(p, "source") /\ Kind(p) = "dsc"
    /\ Goto(p, CASE tree[Kind(p)] # "none" -> "copy"
                 [] Kind(p) = "archive"    -> "unpack"
                 [] OTHER                  -> "download")
    /\ UNCHANGED <<rest, cache, mine, runs>>

\* debian_source::extract downloads and verifies each file the descriptor names.
Related(p) ==
    /\ At(p, "related")
    /\ \/ Goto(p, "unpack") /\ UNCHANGED <<rest, cache, mine, runs>>
       \/ Fail(p)

\* extract_archive into the process's own directory, tar when that fails.
UnpackArchive(p) ==
    /\ At(p, "unpack") /\ Kind(p) = "archive"
    /\ IF ~kept THEN Missing(p)
       ELSE \/ /\ temp' = [temp EXCEPT ![p] = 1] /\ Goto(p, "rename")
               /\ UNCHANGED <<rest, cache, src, out, runs, blame, touched>>
            \/ Goto(p, "fallback") /\ UNCHANGED <<rest, cache, mine, runs>>

\* extract_v1, extract_native, extract_quilt: one layer over the other.
UnpackLayer(p) ==
    /\ At(p, "unpack") /\ Kind(p) = "dsc"
    /\ \/ /\ temp' = [temp EXCEPT ![p] = @ + 1]
          /\ Goto(p, IF temp[p] + 1 = Len(Layers) THEN "rename" ELSE "unpack")
          /\ UNCHANGED <<rest, cache, src, out, runs, blame, touched>>
       \/ Goto(p, "fallback") /\ UNCHANGED <<rest, cache, mine, runs>>

\* Mutant: what tar or dpkg-source could not unpack is taken all the same.
FallbackUnchecked(p) ==
    /\ At(p, "fallback")
    /\ \E n \in {temp[p], IF Kind(p) = "dsc" THEN Len(Layers) ELSE 1} : temp' = [temp EXCEPT ![p] = n]
    /\ Goto(p, "rename")
    /\ UNCHANGED <<rest, cache, src, out, runs, blame, touched>>

\* tar, or dpkg-source, from the beginning.
Fallback(p) ==
    /\ At(p, "fallback")
    /\ \/ /\ temp' = [temp EXCEPT ![p] = IF Kind(p) = "dsc" THEN Len(Layers) ELSE 1]
          /\ Goto(p, "rename")
          /\ UNCHANGED <<rest, cache, src, out, runs, blame, touched>>
       \/ Fail(p)

Unpacked(p) == temp[p] = IF Kind(p) = "dsc" THEN Len(Layers) ELSE 1
\* The builders about to rename a tree of the kind into the cache.
Rivals(p) == {q \in Working \ {p} : rest[q] # <<>> /\ Kind(q) = Kind(p)
                                    /\ pc[q] \in {"download", "related", "unpack", "fallback", "rename"}}

\* The tree of the process becomes that of the cache.
Install(p) ==
    /\ tree[Kind(p)] = "none"
    /\ tree' = [tree EXCEPT ![Kind(p)] = IF Unpacked(p) THEN "whole" ELSE "part"]
    /\ blame' = IF Kind(p) = "dsc" THEN blame \cup Rivals(p) ELSE blame
    /\ temp' = [temp EXCEPT ![p] = 0] /\ Goto(p, "copy")
    /\ UNCHANGED <<rest, inode, spoiled, kept, torn, src, out, runs, touched>>

\* A tree somebody else has put there meanwhile will do for an archive; a
\* Debian source fails.
Rename(p) ==
    /\ At(p, "rename")
    /\ \/ Install(p)
       \/ /\ tree[Kind(p)] # "none"
          /\ temp' = [temp EXCEPT ![p] = 0]
          /\ Goto(p, IF Kind(p) = "archive" THEN "copy" ELSE "failed")
          /\ UNCHANGED <<rest, cache, src, out, runs, blame, touched>>

\* copy_tree.
Copy(p) ==
    /\ At(p, "copy")
    /\ IF tree[Kind(p)] = "none" THEN Missing(p)
       ELSE /\ out' = [out EXCEPT ![p][Kind(p)] = tree[Kind(p)]]
            /\ Got(p) /\ UNCHANGED <<cache, src, temp, runs, blame, touched>>

\* fetch_git_source clones, unless there is a clone; a clone that fails may
\* have come as far as .git.
CloneGit(p) ==
    /\ At(p, "source") /\ Kind(p) = "git"
    /\ \/ /\ out[p]["git"] = "none"
          /\ out' = [out EXCEPT ![p]["git"] = "whole"]
          /\ Got(p)
       \/ /\ out' = [out EXCEPT ![p]["git"] = "part"]
          /\ Goto(p, "git") /\ UNCHANGED rest
    /\ UNCHANGED <<cache, src, temp, runs, blame, touched>>

\* fetch_git_with_command: fetch, add, reset --hard and the submodules.
GitCommand(p) ==
    /\ At(p, "git")
    /\ \/ /\ out' = [out EXCEPT ![p]["git"] = "whole"]
          /\ Got(p) /\ UNCHANGED <<cache, src, temp, runs, blame, touched>>
       \/ Fail(p)

\* The container of the build, or whoever called the helper, may change what
\* it was given; it is over when it is.
Build(p) ==
    /\ At(p, "build") /\ Goto(p, "idle")
    /\ \E wrote \in SUBSET ({src[p]} \ {0}) :
         /\ spoiled' = (spoiled \cup wrote) \cap Others(p)
         /\ touched' = (IF wrote = {} THEN touched ELSE touched \cup Working) \ {p}
    /\ out' = [out EXCEPT ![p]["git"] = IF @ = "whole" THEN "part" ELSE @]
    /\ src' = [src EXCEPT ![p] = 0] /\ blame' = blame \ {p}
    /\ UNCHANGED <<rest, inode, kept, tree, torn, temp, runs>>

Fetch(p) ==
    \/ Look(p) \/ Download(p) \/ Publish(p) \/ Link(p) \/ Find(p) \/ Related(p)
    \/ UnpackArchive(p) \/ UnpackLayer(p) \/ Fallback(p) \/ Rename(p) \/ Copy(p)
    \/ CloneGit(p) \/ GitCommand(p)

-----------------------------------------------------------------------------
(* ll-builder clean, and kills.                                            *)

\* remove_dir_all goes through the cache file by file.
CleanBegin(p) ==
    /\ pc[p] \in {"idle", "failed"} /\ Goto(p, "clean")
    /\ inode' = 0 /\ kept' = FALSE
    /\ tree' = [k \in Cached |-> IF tree[k] = "none" THEN "none" ELSE "part"]
    /\ torn' = (torn \/ Working # {})
    /\ UNCHANGED <<rest, spoiled, src, temp, out, runs, blame, touched>>

CleanEnd(p) ==
    /\ At(p, "clean") /\ Goto(p, "idle")
    /\ tree' = [k \in Cached |-> "none"]
    /\ UNCHANGED <<rest, inode, spoiled, kept, torn, mine, runs>>

\* What a killed builder had aside is named after its process id, and the
\* next one with that id clears it.
Kill(p) ==
    /\ p \in Working /\ Goto(p, "idle")
    /\ temp' = [temp EXCEPT ![p] = 0]
    /\ torn' = (torn \/ At(p, "clean"))
    /\ blame' = blame \ {p} /\ touched' = touched \ {p}
    /\ UNCHANGED <<rest, inode, spoiled, kept, tree, src, out, runs>>

Next == \E p \in Builders :
    Start(p) \/ Fetch(p) \/ Build(p) \/ CleanBegin(p) \/ CleanEnd(p) \/ Kill(p)

Spec == Init /\ [][Next]_vars

-----------------------------------------------------------------------------
(* Properties.                                                             *)

\* A build starts from whole sources with the digests the project names,
\* whatever other builders do at the same time and whoever was killed
\* before: the cache never shows half of a tree.  Two things excuse it: a
\* clean that was killed or overlapped a build, and a container that wrote
\* to the cached inode of a file after its digest was compared.
SourcesWhole ==
    \A p \in Builders : At(p, "build") /\ ~torn =>
        /\ \A i \in 1..Len(Sources[p]) : Sources[p][i] # "file" => out[p][Sources[p][i]] = "whole"
        /\ src[p] \in spoiled => p \in touched

\* What an earlier builder, or one running at the same time, has left in the
\* cache, or taken from it, makes no build fail.  Two things do: a clean, and a
\* Debian source that another builder renames into place first.
FetchSucceeds == \A p \in Builders : At(p, "failed") => torn \/ p \in blame

\* A build gets its sources, and gets them whole.
SourcesServed == SourcesWhole /\ FetchSucceeds
=============================================================================
