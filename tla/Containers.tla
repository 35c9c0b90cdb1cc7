----------------------------- MODULE Containers -----------------------------
(***************************************************************************)
(* The parts of ll-cli that deal with containers and do not meet: the      *)
(* patches of a container, its mounts, its start, and the files of running *)
(* containers.  A step is one of any of them and leaves the others as they *)
(* are.                                                                    *)
(***************************************************************************)
EXTENDS Absent, Integers, Sequences, FiniteSets

CONSTANTS
    Patches, Printed, Documents, Workdirs,                  \* of OciPatches
    Machines, Asked, Configs, Devices, Keys,                \* of ContainerMounts
    Declared, External, Extensions, KeyOrder, Nvidia,       \* of Launch
    Drivers, Packages, MaxChanges,
    Ids, Runs, MaxPid, Overlays, MaxLost                    \* of RunningContainers

\* What names nothing, and what is cut off, is no container and no pid.
ASSUME BoxAssumption == None \notin Ids /\ "cut" \notin Ids /\ MaxPid \in Nat /\ None \notin 1..MaxPid

VARIABLES
    oFiles, oConfig, applied, skipped, workdir, oPc,
    mPc, mHost, asked, mFiles, mounts, env,
    parent, child, bytes, broken, direct, extra, lInstalled, lDriver, spec, resolved,
    context, inside, changes,
    bHost, bCli, runtime, box, alive, bFiles, rootfs, lost, reused, last

O == INSTANCE OciPatches WITH files <- oFiles, config <- oConfig, pc <- oPc, Files <- Patches
M == INSTANCE ContainerMounts WITH
    pc <- mPc, host <- mHost, files <- mFiles, Hosts <- Machines, Requests <- Asked
L == INSTANCE Launch WITH installed <- lInstalled, driver <- lDriver, Requests <- Extensions
B == INSTANCE RunningContainers WITH
    host <- bHost, cli <- bCli, files <- bFiles, Hosts <- Overlays

\* Of the same kind of patches no two have one name.  What programs print and
\* patches insert are documents, with all that is in them; the mark of a patch
\* is in its own documents only, and in no other.
ASSUME PatchAssumption ==
    LET names == {f.name : f \in Patches}
        operations(f) == {f.operations[k] : k \in DOMAIN f.operations}
        IsPath(p) == p \in Seq({p[k] : k \in DOMAIN p})
    IN  /\ IsFiniteSet(Patches)
        /\ \A f \in Patches : f.rank \in Int /\ f.app \in BOOLEAN
        /\ \A f, g \in Patches : f.name = g.name \/ (f.app = g.app /\ f.rank = g.rank) => f = g
        /\ Printed \subseteq Documents
        /\ \A d \in Documents : O!IsMadeOf(d, Documents) /\ (O!IsLeaf(d) => d.leaf \notin names)
        /\ \A f \in Patches : f.kind = "patch" =>
               /\ f.operations \in Seq(operations(f))
               /\ \A o \in operations(f) : /\ IsPath(o.path) /\ IsPath(o.from)
                                            /\ o.value \in Documents \union {O!Leaf(f.name)}
        /\ names \intersect {"1.0.1", "/", "bash", "built", "entrypoint", "init", "null"} = {}

\* Definitions and requests are lists, and the layers are all in their order.
ASSUME LaunchAssumption ==
    LET IsList(s) == s \in Seq({s[k] : k \in DOMAIN s}) IN
    /\ \A l \in L!Layers : IsList(Declared[l]) /\ \A x \in External : IsList(x[l])
    /\ \A r \in Extensions : IsList(r)
    /\ KeyOrder \in Seq(L!Layers) /\ \A l \in L!Layers : \E k \in DOMAIN KeyOrder : KeyOrder[k] = l

oVars == <<oFiles, oConfig, applied, skipped, workdir, oPc>>
mVars == <<mPc, mHost, asked, mFiles, mounts, env>>
lVars == <<parent, child, bytes, broken, direct, extra, lInstalled, lDriver, spec, resolved,
          context, inside, changes>>
bVars == <<bHost, bCli, runtime, box, alive, bFiles, rootfs, lost, reused, last>>

containerVars == <<oVars, mVars, lVars, bVars>>

ContainersInit == O!Init /\ M!Init /\ L!Init /\ B!Init

PatchesStep == O!Next /\ UNCHANGED <<mVars, lVars, bVars>>
MountsStep  == M!Next /\ UNCHANGED <<oVars, lVars, bVars>>
LaunchStep  == L!Next /\ UNCHANGED <<oVars, mVars, bVars>>
BoxesStep   == B!Next /\ UNCHANGED <<oVars, mVars, lVars>>

ContainersNext == PatchesStep \/ MountsStep \/ LaunchStep \/ BoxesStep

ContainersSpec == ContainersInit /\ [][ContainersNext]_containerVars

\* A patch that goes wrong is as if it were not there (OciPatches).
BadPatchIgnored == O!BadPatchIgnored

\* The container has what was asked for, and shows it (ContainerMounts).
AsAsked == M!AsAsked

\* The container is configured as its run context says (Launch).
SameInside == L!SameInside

\* No failure to start leaves processes waiting for each other (Launch).
LaunchEnds == L!LaunchEnds

\* Who looks at the running containers sees what runs (RunningContainers).
SeenAsIs == B!SeenAsIs

\* The root of a container lasts as long as its runtime, and no longer
\* (RunningContainers).
RootKept == B!RootKept
=============================================================================
