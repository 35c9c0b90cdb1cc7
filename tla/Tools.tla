------------------------------- MODULE Tools -------------------------------
(***************************************************************************)
(* Four programs that do not meet: the objects of the repository, the      *)
(* sources of builders, a bundle that is run and the library cache of a    *)
(* container.  A behaviour is one of any of them.                          *)
(***************************************************************************)
EXTENDS ObjectStore, Sequences, FiniteSets

CONSTANTS
    Builders, Sources, Helpers, Format, MaxRuns,  \* of SourceCache
    Entries, MaxSignals,                          \* of UabLoader
    Inits, Regular, Links, MaxInits               \* of RunContext

\* A project with sources names at most one of each kind.
ASSUME SourceAssumption ==
    /\ IsFiniteSet(Builders)
    /\ Sources \in [Builders -> Seq({"file", "archive", "dsc", "git"}) \ {<<>>}]
    /\ \A p \in Builders : \A i, j \in 1..Len(Sources[p]) :
          Sources[p][i] = Sources[p][j] => i = j

VARIABLES
    tool,
    sPc, rest, inode, spoiled, src, kept, tree, temp, out, runs, blame, touched, torn,
    uMode, header, loader, box, knows, got, mounted, point, dir, copied, code, sent, slain,
    whole, bundle, cache, saved, iPc, todo, iResult, met, count

S == INSTANCE SourceCache WITH pc <- sPc
U == INSTANCE UabLoader WITH mode <- uMode
C == INSTANCE RunContext WITH pc <- iPc, result <- iResult

sVars == <<sPc, rest, inode, spoiled, src, kept, tree, temp, out, runs, blame, touched, torn>>
uVars == <<uMode, header, loader, box, knows, got, mounted, point, dir, copied, code, sent, slain>>
cVars == <<whole, bundle, cache, saved, iPc, todo, iResult, met, count>>

ToolsInit == /\ tool \in {"objects", "sources", "uab", "context"}
             /\ Init /\ S!Init /\ C!Init
             /\ U!Init /\ (tool # "uab" => uMode = "run")

ObjectsStep == tool = "objects" /\ Next /\ UNCHANGED <<tool, sVars, uVars, cVars>>
SourcesStep == tool = "sources" /\ S!Next /\ UNCHANGED <<tool, vars, uVars, cVars>>
UabStep     == tool = "uab"     /\ U!Next /\ UNCHANGED <<tool, vars, sVars, cVars>>
ContextStep == tool = "context" /\ C!Next /\ UNCHANGED <<tool, vars, sVars, uVars>>

ToolsNext == ObjectsStep \/ SourcesStep \/ UabStep \/ ContextStep

toolsVars == <<tool, vars, sVars, uVars, cVars>>
ToolsSpec == ToolsInit /\ [][ToolsNext]_toolsVars

-----------------------------------------------------------------------------
(* Properties.                                                             *)

\* A build that nothing disturbs gets its sources, whole and as its project
\* names them (SourceCache).
SourcesServed == S!SourcesServed

\* A bundle stays mounted as long as anything of it runs, and leaves nothing
\* behind (UabLoader).
Orderly == U!Orderly

\* No file of the base layer is emptied by the copies made of it, and an
\* application runs on a library cache that was finished (RunContext).
ContextSound == C!ContextSound
=============================================================================
