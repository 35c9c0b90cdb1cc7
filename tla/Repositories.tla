---------------------------- MODULE Repositories ----------------------------
(***************************************************************************)
(* The parts of ll-cli and the daemon that deal with repositories and do   *)
(* not meet: the repository lock, versions, the configuration of           *)
(* repositories, the entries applications export and the helper for        *)
(* drivers.  A step is one of any of them and leaves the others as they    *)
(* are.                                                                    *)
(***************************************************************************)
EXTENDS Absent, RepoLock, Integers, Sequences

CONSTANTS
    Raws, Wants, MaxOffers,                                 \* of Versions
    Clients, Names, Urls, Priorities, Step, MaxEdits,       \* of RepoConfig
    AppLayers, App, Exported, Desktop, MaxOps, MaxStops,    \* of Exports
    Procs, Options, DriverVersions, Offers, MaxRuns,        \* of DriverDetect
    MaxMoves

\* Versions are numbers; what repositories offer is a sequence, one place each.
\* What names nothing is neither a process nor an action of a notification.
ASSUME DriverAssumption ==
    /\ DriverVersions \subseteq Nat /\ None \notin DriverVersions
    /\ \A o \in Offers : o \in Seq(DriverVersions \union {None})
    /\ Options \subseteq [force : BOOLEAN, mode : {"check", "install", "ask"}]
    /\ None \notin Procs /\ None \notin {"install_now", "not_remind"}

VARIABLES
    kind, want, vOffers, apps, bases, fresh,
    rFile, memory, served, rCli, edits, expected, clash, spoiled,
    disk, eInstalled, entries, new, aside, overlay, ePc, plan, undo, quiet, eFile, seen,
    excused, twice, ops, stops,
    dPc, opts, lock, dFile, dConfig, dDriver, dOffers, dInstalled, look, signals, selected,
    clicked, declined, cut, moved, runs, moves

V == INSTANCE Versions WITH offers <- vOffers
R == INSTANCE RepoConfig WITH file <- rFile, cli <- rCli
E == INSTANCE Exports WITH installed <- eInstalled, pc <- ePc, file <- eFile, Files <- Exported,
    Layers <- AppLayers
D == INSTANCE DriverDetect WITH
    pc <- dPc, file <- dFile, config <- dConfig, driver <- dDriver, offers <- dOffers,
    installed <- dInstalled, Versions <- DriverVersions

\* There is room for finitely many layers; what names nothing is no layer, and
\* neither a directory of entries nor a file that is being exported.
ASSUME ExportAssumption ==
    LET places == {"share", "overlay"}
        links == [at : places, name : E!AllNames, to : AppLayers]
        steps == {"backup", "copy", "write", "clear", "rename", "place", "link"}
    IN  /\ IsFiniteSet(AppLayers) /\ None \notin AppLayers /\ None \notin Int
        /\ MaxStops \in Nat
        /\ None \notin [current : BOOLEAN, links : SUBSET links]
        /\ None \notin [name : E!AllNames, step : steps, at : SUBSET places]

\* What does not belong to the numbers of a version stands in its last parts.
ASSUME VersionAssumption ==
    /\ Raws \subseteq V!Raw /\ None \notin Nat /\ None \notin Wants
    /\ \A r \in Raws : r.pre # 0 \/ r.build # 0 => r.tail # <<>>

\* There are finitely many names, and priorities are integers.
ASSUME EditAssumption == IsFiniteSet(Names) /\ Priorities \subseteq Int /\ Step \in Int

vVars == <<kind, want, vOffers, apps, bases, fresh>>
rVars == <<rFile, memory, served, rCli, edits, expected, clash, spoiled>>
eVars == <<disk, eInstalled, entries, new, aside, overlay, ePc, plan, undo, quiet, eFile,
          seen, excused, twice, ops, stops>>
dVars == <<dPc, opts, lock, dFile, dConfig, dDriver, dOffers, dInstalled, look, signals,
          selected, clicked, declined, cut, moved, runs, moves>>

repositoryVars == <<vars, vVars, rVars, eVars, dVars>>

RepositoriesInit == Init /\ V!Init /\ R!Init /\ E!Init /\ D!Init

LockStep     == Next /\ UNCHANGED <<vVars, rVars, eVars, dVars>>
VersionsStep == V!Next /\ UNCHANGED <<vars, rVars, eVars, dVars>>
ConfigStep   == R!Next /\ UNCHANGED <<vars, vVars, eVars, dVars>>
ExportsStep  == E!Next /\ UNCHANGED <<vars, vVars, rVars, dVars>>
DriverStep   == D!Next /\ UNCHANGED <<vars, vVars, rVars, eVars>>

RepositoriesNext == LockStep \/ VersionsStep \/ ConfigStep \/ ExportsStep \/ DriverStep

RepositoriesSpec == RepositoriesInit /\ [][RepositoriesNext]_repositoryVars

\* An update never replaces a version by one it replaced before, and an
\* updated base is what applications run on, where it fits them (Versions).
UpdatesCount == V!UpdatesCount

\* The edits of the repositories that succeeded are all there, and leave a
\* sound configuration (RepoConfig).
EditsKept == R!EditsKept

\* The entries of a desktop are those of what is installed (Exports).
EntriesSound == E!EntriesSound

\* The helper for drivers does what its user has said (DriverDetect).
AsTold == D!AsTold
=============================================================================
