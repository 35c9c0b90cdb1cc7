---------------------------- MODULE ToolsProofs ----------------------------
(***************************************************************************)
(* Theorems about UabLoader, RunContext, SourceCache and ObjectStore for   *)
(* any entries, processes, files, builders, trees, commits and bounds.     *)
(***************************************************************************)
EXTENDS Tools, FiniteSetTheorems, TLAPS

-----------------------------------------------------------------------------
(* UabLoader.  Each of header, loader and container is there only while    *)
(* the one that started it waits for it, and what it runs on as well; all  *)
(* as long as nobody was ended by SIGKILL.                                 *)

Running == {"start", "find", "write", "store", "wait", "drop"}

NestInv ==
    /\ uMode \in {"run", "mount", "extract"}
    /\ header \in {"start", "open", "run", "mount", "extract", "store", "wait", "drop", "gone"}
    /\ loader \in Running \cup U!Ended /\ box \in {"run"} \cup U!Ended
    /\ loader \in Running => header \in {"store", "wait"}
    /\ header \in {"start", "open", "run", "mount", "extract"} => loader = "none"
    /\ box = "run" => loader \in {"store", "wait"}
    /\ dir \in {"none", "part", "made"}
    /\ dir = "made" <=> loader \in {"write", "store", "wait", "drop"}
    /\ dir = "part" => loader = "gone"
    /\ header \in {"run", "mount", "extract", "store", "wait"} => mounted
    /\ header \in {"start", "open", "gone"} => ~mounted
    /\ header = "start" => ~point
    /\ header = "gone" /\ point => code = "failed"

LEMMA NestInit == U!Init => NestInv
BY DEF U!Init, NestInv, Running, U!Ended

LEMMA NestStep == slain = {} /\ NestInv /\ U!Next => slain' # {} \/ NestInv'
<1> SUFFICES ASSUME slain = {}, NestInv, U!Next PROVE slain' # {} \/ NestInv'
  OBVIOUS
<1> USE DEF NestInv, Running, U!Ended, U!files, U!sigs
<1>1. CASE U!Header
  BY <1>1 DEF U!Header, U!HeaderReady, U!Mount, U!Woken, U!Extract, U!SpawnLoader,
     U!StoreLoader, U!LoaderEnds, U!Unmount, U!HeaderExits
<1>2. CASE U!Loader \/ U!BoxEnds
  BY <1>2 DEF U!Loader, U!LoaderReady, U!MakeDir, U!SpawnBox, U!StoreBox, U!WaitBox,
     U!LoaderExits, U!BoxEnds
<1>3. ASSUME NEW T, U!Signal(T) PROVE NestInv'
  BY <1>3 DEF U!Signal
<1>4. CASE U!SlayHeader \/ U!SlayLoader
  BY <1>4 DEF U!SlayHeader, U!SlayLoader
<1> QED BY <1>1, <1>2, <1>3, <1>4 DEF U!Next

\* Nothing a signal can do ends a bundle before what runs on it, or leaves
\* anything of it behind: only SIGKILL does.
THEOREM OrderlyHolds == ToolsSpec => []Orderly
<1> DEFINE OrderInv == slain = {} => NestInv
<1>1. ToolsInit => OrderInv
  BY NestInit DEF ToolsInit
<1>2. OrderInv /\ [ToolsNext]_toolsVars => OrderInv'
  <2> SUFFICES ASSUME OrderInv, [ToolsNext]_toolsVars PROVE OrderInv'
    OBVIOUS
  <2>1. CASE UNCHANGED uVars
    BY <2>1 DEF uVars, NestInv, Running, U!Ended
  <2>2. CASE U!Next
    <3>1. slain' = {} => slain = {}
      BY <2>2 DEF U!Next, U!Header, U!HeaderReady, U!Mount, U!Woken, U!Extract, U!SpawnLoader,
         U!StoreLoader, U!LoaderEnds, U!Unmount, U!HeaderExits, U!Loader, U!LoaderReady,
         U!MakeDir, U!SpawnBox, U!StoreBox, U!WaitBox, U!LoaderExits, U!BoxEnds, U!Signal,
         U!SlayHeader, U!SlayLoader, U!sigs
    <3> QED BY <2>2, <3>1, NestStep
  <2> QED BY <2>1, <2>2 DEF ToolsNext, toolsVars, ObjectsStep, SourcesStep, UabStep, ContextStep
<1>3. OrderInv => Orderly
  BY DEF NestInv, Running, Orderly, U!Orderly, U!Held, U!Swept, U!Ended
<1> QED BY <1>1, <1>2, <1>3, PTL DEF ToolsSpec

-----------------------------------------------------------------------------
(* RunContext.  As long as no two initializations have met, the one there  *)
(* is has linked what it has not still to copy, and its cache is made of   *)
(* the whole base.                                                         *)

Bundles == [there: BOOLEAN, root: SUBSET C!Base, config: BOOLEAN]

CopyInv ==
    /\ bundle \in Bundles /\ whole \subseteq C!Base
    /\ iPc \in [Inits -> {"idle", "look", "clear", "copy", "run", "save", "leave"}]
    /\ todo \in [Inits -> SUBSET C!Base]
    /\ iResult \in [Inits -> {"none", "done", "failed", "killed"}]

LoneInv ==
    /\ \A p, q \in C!Active : p = q
    /\ whole = C!Base
    /\ \A p \in Inits : /\ iPc[p] = "copy" => bundle.there /\ todo[p] \cap bundle.root = {}
                        /\ iPc[p] \in {"copy", "run"} => C!Base \subseteq bundle.root \cup todo[p]
                        /\ iPc[p] = "run" => bundle.config /\ todo[p] = {}
                        /\ iPc[p] = "save" => cache = "good"
                        /\ iPc[p] = "leave" => saved
                        /\ iResult[p] = "done" => saved
    /\ saved => cache = "good"

ContextInv == CopyInv /\ (~met => LoneInv)

LEMMA ContextInit == C!Init => ContextInv
BY DEF C!Init, ContextInv, CopyInv, LoneInv, Bundles, C!Gone, C!Active

LEMMA CopyStep == CopyInv /\ C!Next => CopyInv'
<1> SUFFICES ASSUME CopyInv, NEW p \in Inits,
                    \/ C!Begin(p) \/ C!Look(p) \/ C!Clear(p) \/ C!Copy(p) \/ C!Prepare(p)
                    \/ C!Run(p) \/ C!Save(p) \/ C!Leave(p) \/ C!Kill(p)
             PROVE  CopyInv'
  BY DEF C!Next
<1> DEFINE Goes(l) == iPc' = [iPc EXCEPT ![p] = l] /\ UNCHANGED <<todo, iResult>>
<1>0. /\ C!Gone \in Bundles /\ C!Fresh \in Bundles
      /\ [bundle EXCEPT !.config = TRUE] \in Bundles
      /\ \A f \in C!Base : [bundle EXCEPT !.root = @ \cup {f}] \in Bundles
  BY DEF CopyInv, Bundles, C!Gone, C!Fresh
<1> USE DEF CopyInv, C!Goto, C!End, C!Bail
<1>1. CASE C!Begin(p)
  BY <1>1 DEF C!Begin
<1>2. CASE C!Look(p)
  BY <1>2 DEF C!Look
<1>3. CASE C!Clear(p)
  BY <1>0, <1>3 DEF C!Clear
<1>4. CASE C!Copy(p)
  <2>1. whole' \subseteq C!Base /\ bundle' \in Bundles
    BY <1>0, <1>4 DEF C!Copy
  <2>2. CASE C!Bail(p)
    BY <1>4, <2>1, <2>2 DEF C!Copy
  <2>3. CASE \E f \in todo[p] : todo' = [todo EXCEPT ![p] = @ \ {f}] /\ UNCHANGED <<iPc, iResult>>
    BY <1>4, <2>1, <2>3 DEF C!Copy
  <2> QED BY <1>4, <2>2, <2>3 DEF C!Copy
<1>5. CASE C!Prepare(p)
  <2>1. CASE C!Bail(p)
    BY <1>0, <1>5, <2>1 DEF C!Prepare
  <2>2. CASE bundle' = [bundle EXCEPT !.config = TRUE] /\ Goes("run")
    BY <1>0, <1>5, <2>2 DEF C!Prepare
  <2> QED BY <1>5, <2>1, <2>2 DEF C!Prepare
<1>6. CASE C!Run(p)
  <2>1. CASE C!Bail(p)
    BY <1>0, <1>6, <2>1 DEF C!Run
  <2>2. CASE Goes("save") /\ UNCHANGED bundle
    BY <1>6, <2>2 DEF C!Run
  <2> QED BY <1>6, <2>1, <2>2 DEF C!Run
<1>7. CASE C!Save(p)
  <2>1. CASE C!Bail(p)
    BY <1>0, <1>7, <2>1 DEF C!Save
  <2>2. CASE Goes("leave") /\ UNCHANGED bundle
    BY <1>7, <2>2 DEF C!Save
  <2> QED BY <1>7, <2>1, <2>2 DEF C!Save
<1>8. CASE C!Leave(p)
  BY <1>0, <1>8 DEF C!Leave
<1>9. CASE C!Kill(p)
  BY <1>9 DEF C!Kill
<1> QED BY <1>1, <1>2, <1>3, <1>4, <1>5, <1>6, <1>7, <1>8, <1>9

LEMMA LoneStep == CopyInv /\ LoneInv /\ C!Next /\ ~met' => LoneInv'
<1> SUFFICES ASSUME CopyInv, LoneInv, ~met', NEW p \in Inits,
                    \/ C!Begin(p) \/ C!Look(p) \/ C!Clear(p) \/ C!Copy(p) \/ C!Prepare(p)
                    \/ C!Run(p) \/ C!Save(p) \/ C!Leave(p) \/ C!Kill(p)
             PROVE  LoneInv'
  BY DEF C!Next
<1> USE DEF CopyInv, LoneInv, C!Goto, C!End, C!Bail, Bundles, C!Gone, C!Fresh, C!Active,
            C!Ldconfig
<1>0. \A q \in Inits : q # p => iPc'[q] = iPc[q] /\ todo'[q] = todo[q] /\ iResult'[q] = iResult[q]
  BY DEF C!Begin, C!Look, C!Clear, C!Copy, C!Prepare, C!Run, C!Save, C!Leave, C!Kill
<1>1. CASE C!Begin(p)
  <2>1. C!Active = {} /\ ~met
    BY <1>1 DEF C!Begin
  <2>2. \A q \in Inits : iPc[q] = "idle"
    BY <2>1
  <2> QED BY <1>0, <1>1, <2>1, <2>2 DEF C!Begin
<1>2. CASE C!Look(p)
  BY <1>2 DEF C!Look
<1>3. CASE C!Clear(p)
  BY <1>3 DEF C!Clear
<1>4. CASE C!Copy(p)
  BY <1>4 DEF C!Copy
<1>5. CASE C!Prepare(p)
  BY <1>5 DEF C!Prepare
<1>6. CASE C!Run(p)
  BY <1>6 DEF C!Run
<1>7. CASE C!Save(p)
  BY <1>7 DEF C!Save
<1>8. CASE C!Leave(p)
  BY <1>8 DEF C!Leave
<1>9. CASE C!Kill(p)
  BY <1>9 DEF C!Kill
<1> QED BY <1>1, <1>2, <1>3, <1>4, <1>5, <1>6, <1>7, <1>8, <1>9

\* Initializations that do not meet spoil no file of the base, and what they
\* left - finished, failed or killed - is never taken for a cache it is not.
THEOREM ContextSoundHolds == ToolsSpec => []ContextSound
<1>1. ToolsInit => ContextInv
  BY ContextInit DEF ToolsInit
<1>2. ContextInv /\ [ToolsNext]_toolsVars => ContextInv'
  <2> SUFFICES ASSUME ContextInv, [ToolsNext]_toolsVars PROVE ContextInv'
    OBVIOUS
  <2>1. CASE UNCHANGED cVars
    BY <2>1 DEF cVars, ContextInv, CopyInv, LoneInv, C!Active
  <2>2. CASE C!Next
    <3>1. met => met'
      BY <2>2 DEF C!Next, C!Begin, C!Look, C!Clear, C!Copy, C!Prepare, C!Run, C!Save,
         C!Leave, C!Kill
    <3> QED BY <2>2, <3>1, CopyStep, LoneStep DEF ContextInv
  <2> QED BY <2>1, <2>2 DEF ToolsNext, toolsVars, ObjectsStep, SourcesStep, UabStep, ContextStep
<1>3. ContextInv => ContextSound
  BY DEF ContextInv, LoneInv, ContextSound, C!ContextSound, C!BaseKept, C!CacheServed
<1> QED BY <1>1, <1>2, <1>3, PTL DEF ToolsSpec

-----------------------------------------------------------------------------
(* SourceCache.  What is left of a project's list and what is done.        *)

Names(s) == {s[i] : i \in 1..Len(s)}
Once(s)  == \A i, j \in 1..Len(s) : s[i] = s[j] => i = j

LEMMA TailNames ==
    ASSUME NEW s \in Seq(S!Kinds), s # <<>>, Once(s)
    PROVE  /\ Head(s) \in Names(s) /\ Names(s) \subseteq S!Kinds
           /\ Tail(s) \in Seq(S!Kinds) /\ Once(Tail(s))
           /\ Names(Tail(s)) = Names(s) \ {Head(s)}
           /\ Tail(s) = <<>> <=> Len(s) = 1
<1> DEFINE n == Len(s)
<1>1. n \in Nat \ {0} /\ \A i \in 1..n : s[i] \in S!Kinds
  OBVIOUS
<1>2. /\ Tail(s) \in Seq(S!Kinds) /\ Len(Tail(s)) = n - 1 /\ Head(s) = s[1]
      /\ \A i \in 1..(n - 1) : Tail(s)[i] = s[i + 1]
  OBVIOUS
<1>3. Once(Tail(s))
  <2> SUFFICES ASSUME NEW i \in 1..(n - 1), NEW j \in 1..(n - 1), s[i + 1] = s[j + 1] PROVE i = j
    BY <1>2 DEF Once
  <2>1. i + 1 \in 1..n /\ j + 1 \in 1..n
    BY <1>1
  <2>2. i + 1 = j + 1
    BY <2>1 DEF Once
  <2> QED BY <2>2
<1>4. Names(Tail(s)) \subseteq Names(s) \ {Head(s)}
  <2> SUFFICES ASSUME NEW i \in 1..(n - 1) PROVE s[i + 1] \in Names(s) \ {s[1]}
    BY <1>2 DEF Names
  <2>1. i + 1 \in 1..n /\ 1 \in 1..n /\ i + 1 # 1
    BY <1>1
  <2> QED BY <2>1 DEF Names, Once
<1>5. Names(s) \ {Head(s)} \subseteq Names(Tail(s))
  <2> SUFFICES ASSUME NEW i \in 1..n, s[i] # s[1] PROVE s[i] \in Names(Tail(s))
    BY <1>2 DEF Names
  <2>1. i - 1 \in 1..(n - 1) /\ i = (i - 1) + 1
    BY <1>1
  <2> QED BY <1>2, <2>1 DEF Names
<1>6. Head(s) \in Names(s) /\ Names(s) \subseteq S!Kinds
  BY <1>1, <1>2 DEF Names
<1>7. Tail(s) = <<>> <=> n = 1
  BY <1>1, <1>2
<1> QED BY <1>2, <1>3, <1>4, <1>5, <1>6, <1>7

-----------------------------------------------------------------------------
(* What each step of a builder finds.                                      *)

Unpacking == {"download", "related", "unpack", "fallback", "rename"}
Fetching  == {"source", "publish", "use", "copy", "git"} \cup Unpacking
Busy(p)   == sPc[p] \in Fetching \cup {"build"}

Whole == {"none", "part", "whole"}

SourceTypes ==
    /\ sPc \in [Builders -> Fetching \cup {"idle", "failed", "build", "clean"}]
    /\ rest \in [Builders -> Seq(S!Kinds)] /\ src \in [Builders -> {0} \cup S!Inodes]
    /\ inode \in {0} \cup S!Inodes /\ kept \in BOOLEAN
    /\ tree \in [S!Cached -> Whole] /\ temp \in [Builders -> Nat]
    /\ out \in [Builders -> [S!Kinds \ {"file"} -> Whole]]
    /\ 0 \notin spoiled

\* The step fits the source it is about.
StepFits(p) ==
    /\ Once(rest[p])
    /\ sPc[p] \in Fetching => rest[p] # <<>>
    /\ sPc[p] = "build" => rest[p] = <<>>
    /\ sPc[p] \in {"publish", "use"} => S!Kind(p) \in {"file", "archive"}
    /\ sPc[p] = "download" => S!Kind(p) # "git"
    /\ sPc[p] = "related" => S!Kind(p) = "dsc"
    /\ sPc[p] \in {"unpack", "fallback", "rename", "copy"} => S!Kind(p) \in S!Cached
    /\ sPc[p] = "git" => S!Kind(p) = "git"
    /\ "file" \in Names(rest[p]) => src[p] = 0

StepInv == SourceTypes /\ \A p \in Builders : Busy(p) => StepFits(p)

\* While no clean has disturbed a build: what p has got is whole, what it is
\* about to use is there, and it has somebody to blame for what is not.
Calm(p) ==
    /\ \A k \in Names(Sources[p]) \ Names(rest[p]) : k # "file" => out[p][k] = "whole"
    /\ src[p] \in spoiled => p \in touched
    /\ sPc[p] = "use" /\ S!Kind(p) = "file" => inode # 0 /\ (inode \in spoiled => p \in touched)
    /\ sPc[p] \in {"use", "unpack"} /\ S!Kind(p) = "archive" => kept
    /\ sPc[p] = "rename" => S!Unpacked(p)
    /\ sPc[p] = "copy" => tree[S!Kind(p)] # "none"
    /\ sPc[p] \in Unpacking /\ S!Kind(p) = "dsc" /\ tree["dsc"] # "none" => p \in blame

CalmInv ==
    /\ \A p \in Builders : /\ Busy(p) => Calm(p)
                           /\ sPc[p] = "failed" => p \in blame
                           /\ sPc[p] = "clean" => S!Working = {p}
    /\ \A k \in S!Cached : tree[k] = "part" => \E p \in Builders : sPc[p] = "clean"

CacheInv == StepInv /\ (~torn => CalmInv)

\* There is always an inode without a name: a builder that is about to link
\* the file has no other name for it yet.
LEMMA InodeFree ==
    ASSUME NEW p \in Builders, src[p] = 0
    PROVE  S!NewInode \in S!Inodes /\ S!NewInode \notin S!Used
<1> DEFINE rivals == Builders \ {p}
           names  == {src[q] : q \in rivals}
           f      == [q \in rivals |-> src[q]]
           n      == Cardinality(Builders)
<1>1. IsFiniteSet(rivals) /\ Cardinality(rivals) = n - 1 /\ n \in Nat
  BY SourceAssumption, FS_RemoveElement, FS_CardinalityType
<1>2. f \in Surjection(rivals, names)
  BY DEF Surjection
<1>3. IsFiniteSet(names) /\ Cardinality(names) <= n - 1
  BY <1>1, <1>2, FS_Surjection
<1>4. S!Used \subseteq names \cup {inode, 0}
  <2> SUFFICES ASSUME NEW q \in Builders PROVE src[q] \in names \cup {inode, 0}
    BY DEF S!Used
  <2> QED OBVIOUS
<1>5. S!Inodes = 1..(n + 1)
  BY Zenon DEF S!Inodes, S!Cardinality, Cardinality, S!IsFiniteSet, IsFiniteSet
<1> HIDE DEF names, n
<1>6. Cardinality(names) \in Nat
  BY <1>3, FS_CardinalityType
<1>7. IsFiniteSet(names \cup {inode}) /\ Cardinality(names \cup {inode}) <= n
  <2>1. /\ IsFiniteSet(names \cup {inode})
        /\ \/ Cardinality(names \cup {inode}) = Cardinality(names)
           \/ Cardinality(names \cup {inode}) = Cardinality(names) + 1
    BY <1>3, FS_AddElement
  <2> QED BY <1>1, <1>3, <1>6, <2>1
<1>8. Cardinality(1..(n + 1)) = n + 1
  BY <1>1, FS_Interval
<1>9. ASSUME 1..(n + 1) \subseteq names \cup {inode} PROVE FALSE
  <2>1. Cardinality(1..(n + 1)) <= Cardinality(names \cup {inode})
    BY <1>7, <1>9, FS_Subset
  <2>2. Cardinality(names \cup {inode}) \in Nat
    BY <1>7, FS_CardinalityType
  <2> QED BY <1>1, <1>7, <1>8, <2>1, <2>2
<1>10. PICK i \in 1..(n + 1) : i \notin names \cup {inode, 0}
  BY <1>1, <1>9
<1>11. i \in S!Inodes /\ i \notin S!Used
  BY <1>4, <1>5, <1>10
<1> QED BY <1>11 DEF S!NewInode

LEMMA CacheInit == S!Init => CacheInv
<1> SUFFICES ASSUME S!Init PROVE CacheInv
  OBVIOUS
<1>1. \A p \in Builders : sPc[p] = "idle"
  BY DEF S!Init
<1>2. out \in [Builders -> [S!Kinds \ {"file"} -> Whole]] /\ tree \in [S!Cached -> Whole]
  BY DEF S!Init, Whole
<1>3. sPc \in [Builders -> {"idle"}] /\ rest \in [Builders -> Seq(S!Kinds)]
  BY DEF S!Init
<1>4. src \in [Builders -> {0}] /\ temp \in [Builders -> Nat]
  BY DEF S!Init
<1>5. SourceTypes
  BY <1>2, <1>3, <1>4 DEF S!Init, SourceTypes
<1> QED BY <1>1, <1>5 DEF S!Init, CacheInv, StepInv, CalmInv, Busy, Fetching, Unpacking

\* One step of one builder changes nothing of another's own.
SameOwn(q) == /\ sPc'[q] = sPc[q] /\ rest'[q] = rest[q] /\ src'[q] = src[q]
              /\ temp'[q] = temp[q] /\ out'[q] = out[q]

SourceStep(p) == S!Start(p) \/ S!Fetch(p) \/ S!Build(p) \/ S!CleanBegin(p) \/ S!CleanEnd(p)
                 \/ S!Kill(p)

LEMMA OwnSteps ==
    ASSUME SourceTypes, NEW p \in Builders, SourceStep(p), NEW q \in Builders, q # p
    PROVE  SameOwn(q)
<1> USE DEF SourceTypes, SameOwn, S!Goto, S!Got, S!Fail, S!Missing, S!Install, S!cache, S!mine
<1>1. CASE S!Start(p)
  BY <1>1 DEF S!Start
<1>2. CASE S!Look(p)
  BY <1>2 DEF S!Look
<1>3. CASE S!Download(p)
  BY <1>3 DEF S!Download
<1>4. CASE S!Publish(p)
  BY <1>4 DEF S!Publish
<1>5. CASE S!Link(p)
  BY <1>5 DEF S!Link
<1>6. CASE S!Find(p)
  BY <1>6 DEF S!Find
<1>7. CASE S!Related(p)
  BY <1>7 DEF S!Related
<1>8. CASE S!UnpackArchive(p)
  BY <1>8 DEF S!UnpackArchive
<1>9. CASE S!UnpackLayer(p)
  BY <1>9 DEF S!UnpackLayer
<1>10. CASE S!Fallback(p)
  BY <1>10 DEF S!Fallback
<1>11. CASE S!Rename(p)
  BY <1>11 DEF S!Rename
<1>12. CASE S!Copy(p)
  BY <1>12 DEF S!Copy
<1>13. CASE S!CloneGit(p)
  BY <1>13 DEF S!CloneGit
<1>14. CASE S!GitCommand(p)
  BY <1>14 DEF S!GitCommand
<1>15. CASE S!Build(p)
  BY <1>15 DEF S!Build
<1>16. CASE S!CleanBegin(p)
  BY <1>16 DEF S!CleanBegin
<1>17. CASE S!CleanEnd(p)
  BY <1>17 DEF S!CleanEnd
<1>18. CASE S!Kill(p)
  BY <1>18 DEF S!Kill
<1> QED BY <1>1, <1>2, <1>3, <1>4, <1>5, <1>6, <1>7, <1>8, <1>9, <1>10, <1>11, <1>12, <1>13, <1>14, <1>15, <1>16, <1>17, <1>18 DEF SourceStep, S!Fetch

\* The next source, or the container.
LEMMA GotFits ==
    ASSUME StepInv, NEW p \in Builders, sPc[p] \in Fetching, S!Got(p),
           src'[p] = src[p] \/ S!Kind(p) = "file"
    PROVE  /\ sPc' = [sPc EXCEPT ![p] = IF rest'[p] = <<>> THEN "build" ELSE "source"]
           /\ rest' = [rest EXCEPT ![p] = Tail(rest[p])] /\ Tail(rest[p]) \in Seq(S!Kinds)
           /\ Names(rest'[p]) = Names(rest[p]) \ {S!Kind(p)} /\ S!Kind(p) \in Names(rest[p])
           /\ StepFits(p)'
<1>1. /\ rest[p] \in Seq(S!Kinds) /\ rest[p] # <<>> /\ Once(rest[p])
      /\ "file" \in Names(rest[p]) => src[p] = 0
  BY DEF StepInv, SourceTypes, StepFits, Busy
<1>2. /\ rest' = [rest EXCEPT ![p] = Tail(rest[p])] /\ rest'[p] = Tail(rest[p])
      /\ sPc' = [sPc EXCEPT ![p] = IF Len(rest[p]) = 1 THEN "build" ELSE "source"]
  BY DEF S!Got, S!Goto, StepInv, SourceTypes
<1>3. /\ Tail(rest[p]) \in Seq(S!Kinds) /\ Once(Tail(rest[p]))
      /\ Names(Tail(rest[p])) = Names(rest[p]) \ {Head(rest[p])} /\ Head(rest[p]) \in Names(rest[p])
      /\ Tail(rest[p]) = <<>> <=> Len(rest[p]) = 1
  BY <1>1, TailNames
<1>4. sPc' = [sPc EXCEPT ![p] = IF rest'[p] = <<>> THEN "build" ELSE "source"]
  BY <1>2, <1>3
<1>5. sPc'[p] = (IF rest'[p] = <<>> THEN "build" ELSE "source")
  BY <1>4 DEF StepInv, SourceTypes
<1>6. StepFits(p)'
  BY <1>1, <1>2, <1>3, <1>5 DEF StepFits, S!Kind, Fetching, Unpacking
<1> QED BY <1>2, <1>3, <1>4, <1>6 DEF S!Kind

LEMMA StepKeeps ==
    ASSUME StepInv, NEW p \in Builders, SourceStep(p)
    PROVE  StepInv'
<1> SUFFICES SourceTypes' /\ (Busy(p)' => StepFits(p)')
  BY OwnSteps DEF StepInv, SameOwn, Busy, StepFits, S!Kind
<1>0. /\ SourceTypes /\ (Busy(p) => StepFits(p)) /\ rest[p] \in Seq(S!Kinds)
      /\ (sPc[p] \in Fetching => S!Kind(p) \in S!Kinds)
  <2>1. SourceTypes /\ (Busy(p) => StepFits(p)) /\ rest[p] \in Seq(S!Kinds)
    BY DEF StepInv, SourceTypes
  <2> QED BY <2>1, TailNames DEF StepFits, Busy, S!Kind
<1> USE DEF Busy, Fetching, Unpacking, S!Goto, S!At, S!cache, S!mine, SourceTypes
<1>t. /\ \A n \in Nat : [temp EXCEPT ![p] = n] \in [Builders -> Nat]
      /\ [temp EXCEPT ![p] = @ + 1] \in [Builders -> Nat]
  BY <1>0
<1>d. ASSUME S!Fail(p) \/ S!Missing(p) PROVE SourceTypes' /\ ~Busy(p)'
  <2>1. temp' \in [Builders -> Nat]
    BY <1>d, <1>t DEF S!Fail, S!Missing
  <2> QED BY <1>0, <1>d, <2>1 DEF S!Fail, S!Missing
<1>1. CASE S!Start(p)
  <2>1. Sources[p] \in Seq(S!Kinds) /\ Sources[p] # <<>> /\ Once(Sources[p])
    BY SourceAssumption DEF Once, S!Kinds
  <2>2. SourceTypes'
    BY <1>0, <1>1, <2>1 DEF S!Start, Whole
  <2> QED BY <1>0, <1>1, <2>1, <2>2 DEF S!Start, StepFits
<1>2. CASE S!Look(p)
  BY <1>0, <1>2 DEF S!Look, StepFits, S!Kind
<1>3. CASE S!Download(p)
  BY <1>0, <1>3, <1>d DEF S!Download, StepFits, S!Kind, S!Kinds
<1>4. CASE S!Publish(p)
  <2>1. S!Kind(p) = "file" => S!NewInode \in S!Inodes
    BY <1>0, <1>4, InodeFree, TailNames DEF S!Publish, StepFits, S!Kind
  <2> QED BY <1>0, <1>4, <2>1 DEF S!Publish, StepFits, S!Kind
<1>5. CASE S!Link(p)
  <2>1. CASE S!Missing(p)
    BY <1>d, <2>1
  <2>2. CASE ~S!Missing(p)
    <3>1. S!Kind(p) = "file" /\ sPc[p] = "use" /\ src[p] = 0
      BY <1>0, <1>5, TailNames DEF S!Link, StepFits, S!Kind
    <3>2. S!NewInode \in S!Inodes /\ S!NewInode # 0
      BY <3>1, InodeFree DEF S!Inodes
    <3>3. S!Got(p) /\ UNCHANGED <<inode, kept, tree, temp, out>>
      BY <1>5, <2>2 DEF S!Link
    <3>4. src' \in [Builders -> {0} \cup S!Inodes] /\ 0 \notin spoiled'
      BY <1>0, <1>5, <2>2, <3>2 DEF S!Link
    <3> QED BY <1>0, <3>1, <3>3, <3>4, GotFits
  <2> QED BY <2>1, <2>2
<1>6. CASE S!Find(p)
  BY <1>0, <1>6 DEF S!Find, StepFits, S!Kind, S!Cached
<1>7. CASE S!Related(p)
  BY <1>0, <1>7, <1>d DEF S!Related, StepFits, S!Kind, S!Cached
<1>8. CASE S!UnpackArchive(p)
  <2>0. temp' = temp \/ temp' = [temp EXCEPT ![p] = 1] \/ S!Missing(p)
    BY <1>8 DEF S!UnpackArchive
  <2>1. temp' \in [Builders -> Nat] \/ S!Missing(p)
    BY <1>0, <1>t, <2>0
  <2> QED BY <1>0, <1>8, <1>d, <2>1 DEF S!UnpackArchive, StepFits, S!Kind, S!Cached
<1>9. CASE S!UnpackLayer(p)
  <2>1. temp' \in [Builders -> Nat]
    BY <1>0, <1>9, <1>t DEF S!UnpackLayer
  <2> QED BY <1>0, <1>9, <2>1 DEF S!UnpackLayer, StepFits, S!Kind, S!Cached
<1>10. CASE S!Fallback(p)
  <2>1. S!Len(S!Layers) \in Nat
    BY DEF S!Layers
  <2>2. temp' \in [Builders -> Nat] \/ S!Fail(p)
    BY <1>0, <1>10, <1>t, <2>1 DEF S!Fallback
  <2> QED BY <1>0, <1>10, <1>d, <2>2 DEF S!Fallback, StepFits, S!Kind, S!Cached
<1>11. CASE S!Rename(p)
  <2>0. /\ temp' = [temp EXCEPT ![p] = 0]
        /\ \/ tree' = tree
           \/ \E w \in {"whole", "part"} : tree' = [tree EXCEPT ![S!Kind(p)] = w]
    BY <1>11 DEF S!Rename, S!Install
  <2>1. temp' \in [Builders -> Nat] /\ tree' \in [S!Cached -> Whole]
    BY <1>0, <1>t, <2>0 DEF Whole
  <2>2. UNCHANGED <<rest, inode, spoiled, kept, src, out>>
    BY <1>11 DEF S!Rename, S!Install
  <2>3. sPc' = [sPc EXCEPT ![p] = "copy"] \/ sPc' = [sPc EXCEPT ![p] = "failed"]
    BY <1>11 DEF S!Rename, S!Install
  <2> QED BY <1>0, <1>11, <2>1, <2>2, <2>3 DEF S!Rename, StepFits, S!Kind, S!Cached
<1>12. CASE S!Copy(p)
  <2>1. CASE S!Missing(p)
    BY <1>d, <2>1
  <2>2. CASE ~S!Missing(p)
    <3>1. /\ S!Got(p) /\ UNCHANGED <<inode, spoiled, kept, tree, src, temp>>
          /\ out' = [out EXCEPT ![p][S!Kind(p)] = tree[S!Kind(p)]] /\ S!Kind(p) \in S!Cached
      BY <1>0, <1>12, <2>2 DEF S!Copy, StepFits
    <3>2. out' \in [Builders -> [S!Kinds \ {"file"} -> Whole]]
      BY <1>0, <3>1 DEF S!Cached, S!Kinds
    <3> QED BY <1>0, <1>12, <3>1, <3>2, GotFits DEF S!Copy
  <2> QED BY <2>1, <2>2
<1>13. CASE S!CloneGit(p)
  <2>0. \A w \in Whole : [out EXCEPT ![p]["git"] = w] \in [Builders -> [S!Kinds \ {"file"} -> Whole]]
    BY <1>0 DEF S!Kinds
  <2>1. /\ out' \in [Builders -> [S!Kinds \ {"file"} -> Whole]]
        /\ UNCHANGED <<inode, spoiled, kept, tree, src, temp>>
    BY <2>0, <1>13 DEF S!CloneGit, Whole
  <2>2. CASE S!Got(p)
    BY <1>0, <1>13, <2>1, <2>2, GotFits DEF S!CloneGit
  <2>3. CASE S!Goto(p, "git") /\ UNCHANGED rest
    BY <1>0, <1>13, <2>1, <2>3 DEF S!CloneGit, StepFits, S!Kind
  <2> QED BY <1>13, <2>2, <2>3 DEF S!CloneGit
<1>14. CASE S!GitCommand(p)
  <2>1. CASE S!Fail(p)
    BY <1>d, <2>1
  <2>2. CASE S!Got(p) /\ out' = [out EXCEPT ![p]["git"] = "whole"] /\ UNCHANGED <<inode, spoiled, kept, tree, src, temp>>
    <3>1. out' \in [Builders -> [S!Kinds \ {"file"} -> Whole]]
      BY <1>0, <2>2 DEF S!Kinds, Whole
    <3> QED BY <1>0, <1>14, <2>2, <3>1, GotFits DEF S!GitCommand
  <2> QED BY <1>14, <2>1, <2>2 DEF S!GitCommand
<1>15. CASE S!Build(p)
  BY <1>0, <1>15 DEF S!Build, S!Others, S!Kinds, Whole
<1>16. CASE S!CleanBegin(p)
  BY <1>0, <1>16 DEF S!CleanBegin, Whole
<1>17. CASE S!CleanEnd(p)
  BY <1>0, <1>17 DEF S!CleanEnd, Whole
<1>18. CASE S!Kill(p)
  BY <1>0, <1>18 DEF S!Kill
<1> QED BY <1>1, <1>2, <1>3, <1>4, <1>5, <1>6, <1>7, <1>8, <1>9, <1>10, <1>11, <1>12,
     <1>13, <1>14, <1>15, <1>16, <1>17, <1>18
  DEF SourceStep, S!Fetch

\* What a step of p may do to the others and to the cache.
Unharmed(p) ==
    /\ \A q \in Builders \ {p} :
         /\ (q \in blame => q \in blame') /\ (q \in touched => q \in touched')
         /\ Busy(q) =>
              /\ src[q] \in spoiled' => src[q] \in spoiled \/ q \in touched'
              /\ inode' \in spoiled' => (inode' = inode /\ inode \in spoiled) \/ q \in touched'
              /\ sPc[q] \in Unpacking /\ S!Kind(q) = "dsc" =>
                   tree'["dsc"] = tree["dsc"] \/ q \in blame'
    /\ inode # 0 => inode' # 0
    /\ kept => kept'
    /\ \A k \in S!Cached : tree'[k] = tree[k] \/ tree'[k] = "whole"

LEMMA OthersCalm ==
    ASSUME StepInv, CalmInv, NEW p \in Builders, Busy(p), Unharmed(p), sPc'[p] # "clean",
           \A q \in Builders \ {p} : SameOwn(q),
           Busy(p)' => Calm(p)', sPc'[p] = "failed" => p \in blame'
    PROVE  CalmInv'
<1>1. \A q \in Builders : sPc[q] # "clean" /\ sPc'[q] # "clean"
  <2>1. p \in S!Working /\ sPc[p] # "clean"
    BY DEF S!Working, Busy, Fetching, Unpacking
  <2> QED BY <2>1 DEF CalmInv, SameOwn
<1>2. \A k \in S!Cached : tree[k] # "part" /\ tree'[k] # "part"
  BY <1>1 DEF CalmInv, Unharmed
<1>3. ASSUME NEW q \in Builders, q # p, Busy(q)' PROVE Calm(q)'
  <2>1. SameOwn(q) /\ Busy(q) /\ Calm(q) /\ StepFits(q)
    BY <1>3 DEF SameOwn, Busy, CalmInv, StepInv
  <2>2. \A k \in S!Cached : tree[k] # "none" => tree'[k] # "none"
    BY DEF Unharmed
  <2>3. sPc[q] = "copy" => S!Kind(q) \in S!Cached
    BY <2>1 DEF StepFits
  <2>4. S!Kind(q)' = S!Kind(q) /\ (S!Unpacked(q)' <=> S!Unpacked(q))
    BY <2>1 DEF SameOwn, S!Kind, S!Unpacked
  <2>5. "dsc" \in S!Cached
    BY DEF S!Cached
  <2>6. sPc'[q] = "copy" => tree'[S!Kind(q)] # "none"
    BY <2>1, <2>2, <2>3 DEF Calm, SameOwn
  <2>7. sPc'[q] \in Unpacking /\ S!Kind(q) = "dsc" /\ tree'["dsc"] # "none" => q \in blame'
    BY <1>3, <2>1 DEF Calm, SameOwn, Unharmed
  <2>8. src'[q] \in spoiled' => q \in touched'
    BY <1>3, <2>1 DEF Calm, SameOwn, Unharmed
  <2>9. sPc'[q] = "use" /\ S!Kind(q) = "file" => inode' # 0 /\ (inode' \in spoiled' => q \in touched')
    BY <1>3, <2>1 DEF Calm, SameOwn, Unharmed
  <2>10. /\ \A k \in Names(Sources[q]) \ Names(rest'[q]) : k # "file" => out'[q][k] = "whole"
         /\ sPc'[q] \in {"use", "unpack"} /\ S!Kind(q) = "archive" => kept'
         /\ sPc'[q] = "rename" => S!Unpacked(q)'
    BY <2>1, <2>4 DEF Calm, SameOwn, Unharmed
  <2> QED BY <2>4, <2>6, <2>7, <2>8, <2>9, <2>10 DEF Calm
<1>4. \A q \in Builders : sPc'[q] = "failed" => q \in blame'
  BY DEF CalmInv, SameOwn, Unharmed
<1> QED BY <1>1, <1>2, <1>3, <1>4 DEF CalmInv

\* A step that leaves the cache alone.
LEMMA CacheSame ==
    ASSUME NEW p, UNCHANGED <<inode, spoiled, kept, tree>>, blame \ {p} \subseteq blame',
           touched \ {p} \subseteq touched'
    PROVE  Unharmed(p)
BY DEF Unharmed

\* p has got the source it was at.
LEMMA GotCalm ==
    ASSUME StepInv, NEW p \in Builders, sPc[p] \in Fetching, S!Got(p), Calm(p),
           src'[p] = src[p] \/ S!Kind(p) = "file",
           src'[p] \in spoiled' => p \in touched',
           S!Kind(p) # "file" => out'[p][S!Kind(p)] = "whole",
           \A k : k # S!Kind(p) /\ k \in S!Kinds \ {"file"} => out'[p][k] = out[p][k]
    PROVE  Calm(p)'
<1>1. /\ sPc'[p] \in {"build", "source"}
      /\ Names(rest'[p]) = Names(rest[p]) \ {S!Kind(p)}
  BY GotFits DEF StepInv, SourceTypes
<1>2. \A k \in Names(Sources[p]) : k \in S!Kinds
  BY SourceAssumption DEF Names, S!Kinds
<1>3. \A k \in Names(Sources[p]) \ Names(rest'[p]) : k # "file" => out'[p][k] = "whole"
  BY <1>1, <1>2 DEF Calm
<1> QED BY <1>1, <1>3 DEF Calm, Unpacking

LEMMA FetchCalm ==
    ASSUME StepInv, CalmInv, ~torn, NEW p \in Builders, S!Fetch(p) \/ S!Build(p)
    PROVE  CalmInv'
<1>0. Busy(p) /\ Calm(p) /\ StepFits(p) /\ SourceTypes /\ SourceStep(p) /\ \A q \in Builders \ {p} : SameOwn(q)
  <2>1. Busy(p)
    BY DEF Busy, Fetching, Unpacking, S!Fetch, S!At, S!Look, S!Download, S!Publish, S!Link,
       S!Find, S!Related, S!UnpackArchive, S!UnpackLayer, S!Fallback, S!Rename, S!Copy,
       S!CloneGit, S!GitCommand, S!Build
  <2>2. SourceStep(p)
    BY DEF SourceStep
  <2> QED BY <2>1, <2>2, OwnSteps DEF StepInv, CalmInv
<1>f. ASSUME S!Fail(p) PROVE CalmInv'
  <2>1. Unharmed(p) /\ sPc'[p] = "failed" /\ p \in blame'
    BY <1>0, <1>f, CacheSame DEF S!Fail, S!Goto, S!cache, SourceTypes
  <2> QED BY <1>0, <2>1, OthersCalm DEF Busy, Fetching, Unpacking
<1>u. ASSUME UNCHANGED <<rest, inode, spoiled, kept, tree, src, out>>, Calm(p)',
             blame \ {p} \subseteq blame', touched \ {p} \subseteq touched',
             sPc'[p] \notin {"clean", "failed"}
      PROVE  CalmInv'
  <2>1. Unharmed(p)
    BY <1>u, CacheSame
  <2> QED BY <1>0, <1>u, <2>1, OthersCalm
<1> USE DEF S!Goto, S!At, S!cache, S!mine
<1>2. CASE S!Look(p)
  <2>1. Calm(p)'
    BY <1>0, <1>2 DEF S!Look, Calm, S!Kind, S!Unpacked, SourceTypes, StepFits, Unpacking
  <2> QED BY <1>0, <1>2, <1>u, <2>1 DEF S!Look, SourceTypes
<1>3. CASE S!Download(p)
  <2>1. CASE ~S!Fail(p)
    <3>1. Calm(p)'
      BY <1>0, <1>3, <2>1 DEF S!Download, Calm, S!Kind, S!Unpacked, SourceTypes, StepFits, Unpacking
    <3> QED BY <1>0, <1>3, <1>u, <2>1, <3>1 DEF S!Download, SourceTypes
  <2> QED BY <1>f, <2>1
<1>4. CASE S!Publish(p)
  <2>1. S!Kind(p) = "file" => S!NewInode \in S!Inodes /\ src[p] = 0
    BY <1>0, <1>4, InodeFree, TailNames DEF S!Publish, StepFits, S!Kind, Fetching, SourceTypes
  <2>2. UNCHANGED <<rest, src, tree, temp, out, blame, touched>> /\ sPc'[p] = "use"
    BY <1>0, <1>4 DEF S!Publish, SourceTypes
  <2>3. CASE S!Kind(p) = "file"
    <3>1. /\ inode' # 0 /\ inode' \notin spoiled' /\ spoiled' \subseteq spoiled /\ kept' = kept
      BY <1>4, <2>1, <2>3 DEF S!Publish, S!Inodes
    <3>2. Unharmed(p)
      BY <2>2, <3>1 DEF Unharmed
    <3>3. Calm(p)'
      BY <1>0, <2>2, <2>3, <3>1 DEF Calm, S!Kind, S!Unpacked, Unpacking
    <3> QED BY <1>0, <2>2, <3>2, <3>3, OthersCalm
  <2>4. CASE S!Kind(p) # "file"
    <3>1. /\ UNCHANGED <<inode, spoiled>> /\ kept' = TRUE
      BY <1>4, <2>4 DEF S!Publish
    <3>2. Unharmed(p)
      BY <2>2, <3>1 DEF Unharmed
    <3>3. Calm(p)'
      BY <1>0, <2>2, <2>4, <3>1 DEF Calm, S!Kind, S!Unpacked, Unpacking
    <3> QED BY <1>0, <2>2, <3>2, <3>3, OthersCalm
  <2> QED BY <2>3, <2>4
<1>5. CASE S!Link(p)
  <2>1. S!Kind(p) = "file" /\ sPc[p] = "use" /\ src[p] = 0 /\ inode # 0
    BY <1>0, <1>5, TailNames DEF S!Link, StepFits, S!Kind, Calm, Fetching, SourceTypes
  <2>2. S!NewInode \notin S!Used
    BY <2>1, InodeFree
  <2>3. /\ S!Got(p) /\ UNCHANGED <<inode, kept, tree, out, blame, touched>>
        /\ \/ src'[p] = inode /\ UNCHANGED spoiled
           \/ /\ src'[p] = S!NewInode
              /\ spoiled' = IF inode \in spoiled THEN spoiled \cup {S!NewInode}
                                  ELSE spoiled \ {S!NewInode}
    BY <1>0, <1>5, <2>1 DEF S!Link, SourceTypes
  <2>4. Unharmed(p)
    BY <2>2, <2>3 DEF Unharmed, S!Used
  <2>5. src'[p] \in spoiled' => p \in touched'
    BY <1>0, <2>1, <2>3 DEF Calm
  <2>6. Calm(p)'
    BY <1>0, <2>1, <2>3, <2>5, GotCalm DEF Fetching
  <2>7. sPc'[p] \notin {"clean", "failed"}
    BY <1>0, <2>3 DEF S!Got, SourceTypes
  <2> QED BY <1>0, <2>4, <2>6, <2>7, OthersCalm
<1>6. CASE S!Find(p)
  <2>1. Calm(p)'
    BY <1>0, <1>6 DEF S!Find, Calm, S!Kind, S!Unpacked, SourceTypes, StepFits, Unpacking
  <2> QED BY <1>0, <1>6, <1>u, <2>1 DEF S!Find, SourceTypes
<1>7. CASE S!Related(p)
  <2>1. CASE ~S!Fail(p)
    <3>1. Calm(p)'
      BY <1>0, <1>7, <2>1 DEF S!Related, Calm, S!Kind, S!Unpacked, SourceTypes, StepFits, Unpacking
    <3> QED BY <1>0, <1>7, <1>u, <2>1, <3>1 DEF S!Related, SourceTypes
  <2> QED BY <1>f, <2>1
<1>8. CASE S!UnpackArchive(p)
  <2>1. kept
    BY <1>0, <1>8 DEF S!UnpackArchive, Calm
  <2>2. \/ sPc'[p] = "rename" /\ temp'[p] = 1
        \/ sPc'[p] = "fallback"
    BY <1>0, <1>8, <2>1 DEF S!UnpackArchive, SourceTypes
  <2>3. UNCHANGED <<rest, inode, spoiled, kept, tree, src, out, blame, touched>>
    BY <1>8, <2>1 DEF S!UnpackArchive
  <2>4. Calm(p)'
    BY <1>0, <1>8, <2>2, <2>3 DEF S!UnpackArchive, Calm, S!Kind, S!Unpacked
  <2> QED BY <1>u, <2>2, <2>3, <2>4
<1>9. CASE S!UnpackLayer(p)
  <2>1. UNCHANGED <<rest, inode, spoiled, kept, tree, src, out, blame, touched>>
    BY <1>9 DEF S!UnpackLayer
  <2>2. \/ sPc'[p] = "rename" /\ temp'[p] = S!Len(S!Layers)
        \/ sPc'[p] \in {"unpack", "fallback"}
    BY <1>0, <1>9 DEF S!UnpackLayer, SourceTypes
  <2>3. Calm(p)'
    BY <1>0, <1>9, <2>1, <2>2 DEF S!UnpackLayer, Calm, S!Kind, S!Unpacked, Unpacking
  <2> QED BY <1>u, <2>1, <2>2, <2>3
<1>10. CASE S!Fallback(p)
  <2>1. CASE ~S!Fail(p)
    <3>1. /\ UNCHANGED <<rest, inode, spoiled, kept, tree, src, out, blame, touched>>
          /\ sPc'[p] = "rename" /\ S!Unpacked(p)'
      BY <1>0, <1>10, <2>1 DEF S!Fallback, S!Unpacked, S!Kind, SourceTypes
    <3>2. Calm(p)'
      BY <1>0, <1>10, <3>1 DEF S!Fallback, Calm, S!Kind, Unpacking
    <3> QED BY <1>u, <3>1, <3>2
  <2> QED BY <1>f, <2>1
<1>11. CASE S!Rename(p)
  <2> DEFINE k == S!Kind(p)
  <2>1. k \in S!Cached /\ sPc[p] = "rename" /\ S!Unpacked(p)
    BY <1>0, <1>11 DEF S!Rename, StepFits, Calm
  <2>2. CASE S!Install(p)
    <3>1. /\ tree' = [tree EXCEPT ![k] = "whole"] /\ sPc'[p] = "copy"
          /\ UNCHANGED <<rest, inode, spoiled, kept, src, out, touched>>
          /\ blame \subseteq blame' /\ (k = "dsc" => S!Rivals(p) \subseteq blame')
      BY <1>0, <2>1, <2>2 DEF S!Install, SourceTypes
    <3>2. tree'[k] = "whole" /\ \A j \in S!Cached \ {k} : tree'[j] = tree[j]
      BY <1>0, <2>1, <3>1 DEF SourceTypes
    <3>3. ASSUME NEW q \in Builders \ {p}, sPc[q] \in Unpacking, S!Kind(q) = "dsc", k = "dsc"
          PROVE  q \in S!Rivals(p)
      <4>1. q \in S!Working /\ rest[q] # <<>>
        BY <3>3 DEF S!Working, StepInv, StepFits, Busy, Fetching, Unpacking
      <4> QED BY <3>3, <4>1 DEF S!Rivals, Unpacking
    <3>4. Unharmed(p)
      BY <3>1, <3>2, <3>3 DEF Unharmed, S!Cached
    <3>5. Calm(p)'
      BY <1>0, <3>1, <3>2 DEF Calm, S!Kind, Unpacking
    <3> QED BY <1>0, <3>1, <3>4, <3>5, OthersCalm
  <2>3. CASE tree[k] # "none" /\ sPc' = [sPc EXCEPT ![p] = IF k = "archive" THEN "copy" ELSE "failed"]
             /\ UNCHANGED <<rest, inode, spoiled, kept, tree, src, out, blame, touched>>
    <3>1. CASE k = "archive"
      <4>1. sPc'[p] = "copy"
        BY <1>0, <2>3, <3>1 DEF SourceTypes
      <4>2. Calm(p)'
        BY <1>0, <2>3, <4>1 DEF Calm, S!Kind, Unpacking
      <4> QED BY <1>u, <2>3, <4>1, <4>2
    <3>2. CASE k = "dsc"
      <4>1. sPc'[p] = "failed" /\ p \in blame'
        BY <1>0, <2>1, <2>3, <3>2 DEF SourceTypes, Calm, Unpacking
      <4>2. Unharmed(p)
        BY <2>3, CacheSame
      <4> QED BY <1>0, <4>1, <4>2, OthersCalm DEF Busy, Fetching, Unpacking
    <3> QED BY <2>1, <3>1, <3>2 DEF S!Cached
  <2> QED BY <1>11, <2>2, <2>3 DEF S!Rename
<1>12. CASE S!Copy(p)
  <2> DEFINE k == S!Kind(p)
  <2>1. k \in S!Cached /\ sPc[p] = "copy" /\ tree[k] # "none"
    BY <1>0, <1>12 DEF S!Copy, StepFits, Calm
  <2>2. tree[k] = "whole"
    <3>1. \A q \in Builders : sPc[q] # "clean"
      BY <2>1 DEF CalmInv, S!Working
    <3> QED BY <1>0, <2>1, <3>1 DEF CalmInv, SourceTypes, Whole
  <2>3. /\ out' = [out EXCEPT ![p][k] = "whole"] /\ S!Got(p)
        /\ UNCHANGED <<inode, spoiled, kept, tree, src, blame, touched>>
    BY <1>12, <2>1, <2>2 DEF S!Copy
  <2>4. k # "file" /\ out'[p][k] = "whole" /\ \A j \in S!Kinds \ {"file"} : j # k => out'[p][j] = out[p][j]
    BY <1>0, <2>1, <2>3 DEF SourceTypes, S!Cached, S!Kinds
  <2>5. src'[p] \in spoiled' => p \in touched'
    BY <1>0, <2>3 DEF Calm
  <2>6. Calm(p)'
    BY <1>0, <2>1, <2>3, <2>4, <2>5, GotCalm DEF Fetching
  <2>7. sPc'[p] \notin {"clean", "failed"} /\ Unharmed(p)
    BY <1>0, <2>3, CacheSame DEF S!Got, SourceTypes
  <2> QED BY <1>0, <2>6, <2>7, OthersCalm
<1>13. CASE S!CloneGit(p)
  <2>1. UNCHANGED <<inode, spoiled, kept, tree, src, blame, touched>> /\ S!Kind(p) = "git" /\ sPc[p] = "source"
    BY <1>13 DEF S!CloneGit
  <2>2. src'[p] \in spoiled' => p \in touched'
    BY <1>0, <2>1 DEF Calm
  <2>3. CASE S!Got(p) /\ out' = [out EXCEPT ![p]["git"] = "whole"]
    <3>1. out'[p]["git"] = "whole" /\ \A j \in S!Kinds \ {"file"} : j # "git" => out'[p][j] = out[p][j]
      BY <1>0, <2>3 DEF SourceTypes, S!Kinds
    <3>2. Calm(p)'
      BY <1>0, <2>1, <2>2, <2>3, <3>1, GotCalm DEF Fetching
    <3>3. sPc'[p] \notin {"clean", "failed"} /\ Unharmed(p)
      BY <1>0, <2>1, <2>3, CacheSame DEF S!Got, SourceTypes
    <3> QED BY <1>0, <3>2, <3>3, OthersCalm
  <2>4. CASE sPc' = [sPc EXCEPT ![p] = "git"] /\ UNCHANGED rest /\ out' = [out EXCEPT ![p]["git"] = "part"]
    <3>1. \A j \in S!Kinds \ {"file"} : j # "git" => out'[p][j] = out[p][j]
      BY <1>0, <2>4 DEF SourceTypes, S!Kinds
    <3>2. "git" \in Names(rest[p])
      BY <1>0, <2>1, TailNames DEF StepFits, S!Kind, SourceTypes, Fetching
    <3>3. \A j \in Names(Sources[p]) : j \in S!Kinds
      BY SourceAssumption DEF Names, S!Kinds
    <3>4. sPc'[p] = "git" /\ Unharmed(p)
      BY <1>0, <2>1, <2>4, CacheSame DEF SourceTypes
    <3>5. Calm(p)'
      BY <1>0, <2>1, <2>2, <2>4, <3>1, <3>2, <3>3, <3>4 DEF Calm, Unpacking
    <3> QED BY <1>0, <3>4, <3>5, OthersCalm
  <2> QED BY <1>13, <2>3, <2>4 DEF S!CloneGit
<1>14. CASE S!GitCommand(p)
  <2>1. CASE ~S!Fail(p)
    <3>1. /\ S!Got(p) /\ out' = [out EXCEPT ![p]["git"] = "whole"] /\ sPc[p] = "git" /\ S!Kind(p) = "git"
          /\ UNCHANGED <<inode, spoiled, kept, tree, src, blame, touched>>
      BY <1>0, <1>14, <2>1 DEF S!GitCommand, StepFits
    <3>2. out'[p]["git"] = "whole" /\ \A j \in S!Kinds \ {"file"} : j # "git" => out'[p][j] = out[p][j]
      BY <1>0, <3>1 DEF SourceTypes, S!Kinds
    <3>3. src'[p] \in spoiled' => p \in touched'
      BY <1>0, <3>1 DEF Calm
    <3>4. Calm(p)'
      BY <1>0, <3>1, <3>2, <3>3, GotCalm DEF Fetching
    <3>5. sPc'[p] \notin {"clean", "failed"} /\ Unharmed(p)
      BY <1>0, <3>1, CacheSame DEF S!Got, SourceTypes
    <3> QED BY <1>0, <3>4, <3>5, OthersCalm
  <2> QED BY <1>f, <2>1
<1>15. CASE S!Build(p)
  <2>1. UNCHANGED <<inode, kept, tree>> /\ blame' = blame \ {p} /\ sPc'[p] = "idle"
    BY <1>0, <1>15 DEF S!Build, SourceTypes
  <2>2. PICK wrote \in SUBSET ({src[p]} \ {0}) :
          /\ spoiled' = (spoiled \cup wrote) \cap S!Others(p)
          /\ touched' = (IF wrote = {} THEN touched ELSE touched \cup S!Working) \ {p}
    BY <1>15 DEF S!Build
  <2>3. \A q \in Builders : Busy(q) => q \in S!Working
    BY DEF Busy, S!Working, Fetching, Unpacking
  <2>4. \A q \in Builders \ {p} : /\ q \in touched => q \in touched'
                                  /\ Busy(q) => (\A i \in spoiled' : i \in spoiled \/ q \in touched')
    BY <2>2, <2>3
  <2>5. Unharmed(p)
    BY <2>1, <2>4 DEF Unharmed
  <2> QED BY <1>0, <2>1, <2>5, OthersCalm DEF Busy, Fetching, Unpacking
<1> QED BY <1>2, <1>3, <1>4, <1>5, <1>6, <1>7, <1>8, <1>9, <1>10, <1>11, <1>12,
     <1>13, <1>14, <1>15 DEF S!Fetch

\* Starts, cleans and kills.
LEMMA CalmStep ==
    ASSUME StepInv, CalmInv, ~torn, NEW p \in Builders, SourceStep(p), ~torn'
    PROVE  CalmInv'
<1>0. SourceTypes /\ \A q \in Builders \ {p} : SameOwn(q)
  BY OwnSteps DEF StepInv
<1> USE DEF S!Goto, S!At
<1>1. CASE S!Start(p)
  <2>1. \A q \in Builders : sPc[q] # "clean"
    BY <1>1 DEF S!Start
  <2>2. /\ sPc'[p] = "source" /\ rest'[p] = Sources[p] /\ src'[p] = 0
        /\ UNCHANGED <<inode, spoiled, kept, tree>>
        /\ blame' = blame \ {p} /\ touched' = touched \ {p}
    BY <1>0, <1>1 DEF S!Start, SourceTypes
  <2>3. Calm(p)'
    BY <1>0, <2>2 DEF Calm, SourceTypes, Unpacking
  <2>4. ASSUME NEW q \in Builders, q # p, Busy(q)' PROVE Calm(q)'
    BY <1>0, <2>2, <2>4 DEF CalmInv, Calm, Busy, SameOwn, S!Kind, S!Unpacked
  <2>5. \A q \in Builders : sPc'[q] # "clean" /\ (sPc'[q] = "failed" => q \in blame')
    BY <1>0, <2>1, <2>2 DEF CalmInv, SameOwn
  <2> QED BY <2>1, <2>2, <2>3, <2>4, <2>5 DEF CalmInv
<1>2. CASE S!CleanBegin(p)
  <2>1. S!Working = {} /\ sPc' = [sPc EXCEPT ![p] = "clean"] /\ UNCHANGED blame
    BY <1>2 DEF S!CleanBegin
  <2>2. \A q \in Builders : ~Busy(q) /\ sPc[q] \in {"idle", "failed"}
    BY <2>1 DEF Busy, Fetching, Unpacking, S!Working
  <2>3. sPc'[p] = "clean" /\ \A q \in Builders \ {p} : sPc'[q] = sPc[q]
    BY <1>0, <2>1 DEF SourceTypes
  <2>4. S!Working' = {p} /\ \A q \in Builders : ~Busy(q)'
    BY <2>2, <2>3 DEF S!Working, Busy, Fetching, Unpacking
  <2> QED BY <2>1, <2>2, <2>3, <2>4 DEF CalmInv
<1>3. CASE S!CleanEnd(p)
  <2>1. sPc[p] = "clean" /\ S!Working = {p} /\ sPc'[p] = "idle"
    BY <1>0, <1>3 DEF S!CleanEnd, CalmInv, SourceTypes
  <2>2. \A q \in Builders \ {p} : sPc'[q] = sPc[q] /\ sPc[q] \in {"idle", "failed"}
    BY <1>0, <2>1 DEF SameOwn, S!Working
  <2>3. \A q \in Builders : ~Busy(q)' /\ sPc'[q] # "clean"
    BY <2>1, <2>2 DEF Busy, Fetching, Unpacking
  <2>4. UNCHANGED blame /\ \A k \in S!Cached : tree'[k] = "none"
    BY <1>3 DEF S!CleanEnd, S!mine
  <2> QED BY <2>1, <2>2, <2>3, <2>4 DEF CalmInv
<1>4. CASE S!Kill(p)
  <2>1. /\ sPc[p] # "clean" /\ p \in S!Working /\ sPc'[p] = "idle"
        /\ UNCHANGED <<inode, spoiled, kept, tree>>
        /\ blame' = blame \ {p} /\ touched' = touched \ {p}
    BY <1>0, <1>4 DEF S!Kill, SourceTypes
  <2>2. Busy(p)
    BY <1>0, <2>1 DEF Busy, S!Working, SourceTypes
  <2>3. Unharmed(p)
    BY <2>1, CacheSame
  <2> QED BY <1>0, <2>1, <2>2, <2>3, OthersCalm DEF Busy, Fetching, Unpacking
<1> QED BY <1>1, <1>2, <1>3, <1>4, FetchCalm DEF SourceStep

\* Whatever other builders and killed ones have left in the cache, a build gets
\* its sources whole; what can spoil them is a clean, a container that writes to
\* the file it shares, or a Debian source that is renamed into place first.
THEOREM SourcesServedHolds == ToolsSpec => []SourcesServed
<1>1. ToolsInit => CacheInv
  BY CacheInit DEF ToolsInit
<1>2. CacheInv /\ [ToolsNext]_toolsVars => CacheInv'
  <2> SUFFICES ASSUME CacheInv, [ToolsNext]_toolsVars PROVE CacheInv'
    OBVIOUS
  <2>1. CASE UNCHANGED sVars
    BY <2>1 DEF sVars, CacheInv, StepInv, SourceTypes, StepFits, CalmInv, Calm, Busy, S!Kind,
       S!Unpacked, S!Working
  <2>2. CASE S!Next
    <3>1. PICK p \in Builders : SourceStep(p)
      BY <2>2 DEF S!Next, SourceStep
    <3>2. torn => torn'
      BY <3>1 DEF SourceStep, S!Fetch, S!Start, S!Look, S!Download, S!Publish, S!Link,
         S!Find, S!Related, S!UnpackArchive, S!UnpackLayer, S!Fallback, S!Rename, S!Install,
         S!Copy, S!CloneGit, S!GitCommand, S!Build, S!CleanBegin, S!CleanEnd, S!Kill, S!Fail,
         S!Missing, S!cache
    <3> QED BY <3>1, <3>2, StepKeeps, CalmStep DEF CacheInv
  <2> QED BY <2>1, <2>2 DEF ToolsNext, toolsVars, ObjectsStep, SourcesStep, UabStep, ContextStep
<1>3. CacheInv => SourcesServed
  <2> SUFFICES ASSUME CacheInv, ~torn PROVE SourcesServed
    BY DEF SourcesServed, S!SourcesServed, S!SourcesWhole, S!FetchSucceeds
  <2>1. S!FetchSucceeds
    BY DEF CacheInv, CalmInv, S!FetchSucceeds, S!At
  <2>2. ASSUME NEW p \in Builders, sPc[p] = "build"
        PROVE  /\ \A i \in 1..Len(Sources[p]) : Sources[p][i] # "file" => out[p][Sources[p][i]] = "whole"
               /\ src[p] \in spoiled => p \in touched
    <3>1. Calm(p) /\ rest[p] = <<>>
      BY <2>2 DEF CacheInv, CalmInv, StepInv, StepFits, Busy
    <3>2. Names(rest[p]) = {}
      BY <3>1 DEF Names
    <3>3. \A i \in 1..Len(Sources[p]) : Sources[p][i] \in Names(Sources[p])
      BY DEF Names
    <3> QED BY <3>1, <3>2, <3>3 DEF Calm
  <2>3. S!SourcesWhole
    BY <2>2 DEF S!SourcesWhole, S!At
  <2> QED BY <2>1, <2>3 DEF SourcesServed, S!SourcesServed
<1> QED BY <1>1, <1>2, <1>3, PTL DEF ToolsSpec


-----------------------------------------------------------------------------
(* ObjectStore: what a process has reached of a commit and what is due to  *)
(* it make up the commit, as long as nobody prunes next to it.             *)

\* Who transfers has the lock shared, who prunes has it alone.
LockInv ==
    /\ \A p \in Procs : /\ pc[p] \in {"commit", "walk"} <=> lock[p] = "shared"
                        /\ pc[p] \in {"mark", "sweep"}  <=> lock[p] = "exclusive"
    /\ \A p, q \in Procs : p # q /\ lock[p] = "exclusive" => lock[q] = "none"

\* What a process is about, where it is about something; it has nothing left
\* of an operation before.
AboutInv ==
    \A p \in Procs :
        /\ pc[p] \in {"commit", "walk", "read"} => on[p] \in Commits
        /\ pc[p] \in {"idle", "commit"} => trees[p] = {} /\ files[p] = {} /\ staged[p] = {}
        /\ pc[p] = "idle" => on[p] = None

\* Two that work at the same time are both in the crowd.
CrowdInv ==
    \A p, q \in Procs : p # q /\ pc[p] # "idle" /\ pc[q] # "idle" => p \in crowd

\* What p has of the commit it transfers, or has still to get.
Reached(p)     == store \cup staged[p]
Due(p)     == files[p] \cup UNION {Below[t] : t \in trees[p]}
WalkFull(p) == All(on[p]) \subseteq Reached(p) \cup Due(p)
WalkInfo(p) ==
    /\ on[p] \in Reached(p)
    /\ \/ trees[p] = {Root[on[p]]} /\ files[p] = {}
       \/ trees[p] = {} /\ Root[on[p]] \in Reached(p) /\ Info[on[p]] \in Reached(p) \cup files[p]
WalkInv ==
    \A p \in Procs : pc[p] = "walk" =>
        /\ mode[p] \in Naming => WalkFull(p)
        /\ mode[p] = "info"   => WalkInfo(p)
        /\ mode[p] = "head"   => on[p] \in Reached(p)

\* Alone, a process finds what it transferred, and can set back the ref it
\* has unset.
ReadInv == \A p \in Procs : pc[p] = "read" /\ p \notin crowd => Wanted(p) \subseteq store
DropInv == \A p \in Procs :
    pc[p] = "drop" /\ p \notin crowd /\ on[p] # None /\ ~broken => All(on[p]) \subseteq store

\* Everything a ref names is marked.
SweepInv == \A p \in Procs : pc[p] = "sweep" /\ ~broken =>
    \A r \in RefNames : refs[r] # None => All(refs[r]) \subseteq keep[p]

StoreInv == /\ TypeOK /\ LockInv /\ AboutInv /\ CrowdInv
            /\ WalkInv /\ ReadInv /\ DropInv /\ SweepInv /\ ObjectsWhole

-----------------------------------------------------------------------------
(* Types.                                                                  *)

LEMMA TreesTyped ==
    ASSUME NEW t \in Trees
    PROVE  /\ Kids[t] \subseteq Trees /\ Holds[t] \subseteq Files
           /\ Below[t] \subseteq Trees \cup Files
BY TreeAssumption

LEMMA TypeStep == TypeOK /\ AboutInv /\ [Next]_vars => TypeOK'
<1> SUFFICES ASSUME TypeOK /\ AboutInv, [Next]_vars PROVE TypeOK'
  OBVIOUS
<1> USE TreeAssumption, TreesTyped DEF TypeOK, AboutInv, Objects, Modes, objects, plan
<1>1. ASSUME NEW p \in Procs, \E c \in Commits, m \in Modes : Open(p, c, m) PROVE TypeOK'
  BY <1>1 DEF Open, Begin, Working
<1>2. ASSUME NEW p \in Procs, GetCommit(p) PROVE TypeOK'
  BY <1>2 DEF GetCommit, Get
<1>3. ASSUME NEW p \in Procs, GetTree(p) PROVE TypeOK'
  <2>1. PICK t \in trees[p] :
          /\ Get(p, t)
          /\ \/ /\ trees' = [trees EXCEPT ![p] = {}]
                /\ files' = [files EXCEPT ![p] = {Info[on[p]]}]
             \/ /\ trees' = [trees EXCEPT ![p] = (@ \ {t}) \cup Kids[t]]
                /\ files' = [files EXCEPT ![p] = @ \cup Holds[t]]
    BY <1>3 DEF GetTree
  <2>2. t \in Trees /\ Kids[t] \subseteq Trees /\ Holds[t] \subseteq Files /\ Info[on[p]] \in Files
    BY <1>3, <2>1 DEF GetTree
  <2>3. trees' \in [Procs -> SUBSET Trees] /\ files' \in [Procs -> SUBSET Files]
    <3>1. {} \in SUBSET Trees /\ {Info[on[p]]} \in SUBSET Files
      BY <2>2
    <3>2. (trees[p] \ {t}) \cup Kids[t] \in SUBSET Trees /\ files[p] \cup Holds[t] \in SUBSET Files
      BY <2>2
    <3>3. CASE trees' = [trees EXCEPT ![p] = {}] /\ files' = [files EXCEPT ![p] = {Info[on[p]]}]
      BY <3>1, <3>3
    <3>4. CASE /\ trees' = [trees EXCEPT ![p] = (@ \ {t}) \cup Kids[t]]
               /\ files' = [files EXCEPT ![p] = @ \cup Holds[t]]
      BY <3>2, <3>4
    <3> QED BY <2>1, <3>3, <3>4
  <2> QED BY <1>3, <2>1, <2>2, <2>3 DEF GetTree, Get
<1>4. ASSUME NEW p \in Procs, GetFile(p) PROVE TypeOK'
  BY <1>4 DEF GetFile, Get
<1>5. ASSUME NEW p \in Procs, Fails(p) PROVE TypeOK'
  BY <1>5 DEF Fails, End
<1>6. ASSUME NEW p \in Procs, Move(p) PROVE TypeOK'
  BY <1>6 DEF Move, Fetched
<1>7. ASSUME NEW p \in Procs, Settle(p) PROVE TypeOK'
  BY <1>7 DEF Settle, Fetched
<1>8. ASSUME NEW p \in Procs, Read(p) PROVE TypeOK'
  BY <1>8 DEF Read, End
<1>9. ASSUME NEW p \in Procs, \E c \in Commits : Remove(p, c) PROVE TypeOK'
  BY <1>9 DEF Remove, Begin, Working
<1>10. ASSUME NEW p \in Procs, Clean(p) PROVE TypeOK'
  BY <1>10 DEF Clean, Begin, Working
<1>11. ASSUME NEW p \in Procs, Unset(p) PROVE TypeOK'
  BY <1>11 DEF Unset
<1>12. ASSUME NEW p \in Procs, Unlisted(p) PROVE TypeOK'
  BY <1>12 DEF Unlisted
<1>13. ASSUME NEW p \in Procs, SetBack(p) PROVE TypeOK'
  BY <1>13 DEF SetBack, End
<1>14. ASSUME NEW p \in Procs, PruneLock(p) PROVE TypeOK'
  BY <1>14 DEF PruneLock
<1>15. ASSUME NEW p \in Procs, Mark(p) PROVE TypeOK'
  <2>1. UNION {All(c) : c \in Named} \subseteq Objects
    BY DEF Named, All
  <2>2. keep' \in [Procs -> SUBSET Objects]
    BY <1>15, <2>1 DEF Mark, End
  <2>3. CASE pc' = [pc EXCEPT ![p] = "sweep"] /\ UNCHANGED <<lock, mode, on, trees, files, staged, drop, result>>
    BY <1>15, <2>2, <2>3 DEF Mark
  <2>4. CASE End(p, "missing")
    BY <1>15, <2>2, <2>4 DEF Mark, End
  <2> QED BY <1>15, <2>3, <2>4 DEF Mark
<1>16. ASSUME NEW p \in Procs, Sweep(p) PROVE TypeOK'
  BY <1>16 DEF Sweep
<1>17. ASSUME NEW p \in Procs, Swept(p) PROVE TypeOK'
  BY <1>17 DEF Swept, End
<1>18. ASSUME NEW p \in Procs, Kill(p) PROVE TypeOK'
  BY <1>18 DEF Kill, End
<1>19. CASE UNCHANGED vars
  BY <1>19 DEF vars
<1> QED BY <1>1, <1>2, <1>3, <1>4, <1>5, <1>6, <1>7, <1>8, <1>9, <1>10, <1>11, <1>12, <1>13, <1>14, <1>15, <1>16, <1>17, <1>18, <1>19 DEF Next, Transfer, Removal

-----------------------------------------------------------------------------
(* The lock, and who works with whom.                                      *)

LEMMA LockStep == TypeOK /\ LockInv /\ [Next]_vars => LockInv'
<1> SUFFICES ASSUME TypeOK /\ LockInv, [Next]_vars PROVE LockInv'
  OBVIOUS
<1> USE DEF TypeOK, LockInv, objects, plan
<1>1. ASSUME NEW p \in Procs, \E c \in Commits, m \in Modes : Open(p, c, m) PROVE LockInv'
  BY <1>1 DEF Open, Begin
<1>2. ASSUME NEW p \in Procs, GetCommit(p) PROVE LockInv'
  BY <1>2 DEF GetCommit, Get
<1>3. ASSUME NEW p \in Procs, GetTree(p) PROVE LockInv'
  BY <1>3 DEF GetTree, Get
<1>4. ASSUME NEW p \in Procs, GetFile(p) PROVE LockInv'
  BY <1>4 DEF GetFile, Get
<1>5. ASSUME NEW p \in Procs, Fails(p) PROVE LockInv'
  BY <1>5 DEF Fails, End
<1>6. ASSUME NEW p \in Procs, Move(p) PROVE LockInv'
  BY <1>6 DEF Move, Fetched
<1>7. ASSUME NEW p \in Procs, Settle(p) PROVE LockInv'
  BY <1>7 DEF Settle, Fetched
<1>8. ASSUME NEW p \in Procs, Read(p) PROVE LockInv'
  BY <1>8 DEF Read, End
<1>9. ASSUME NEW p \in Procs, \E c \in Commits : Remove(p, c) PROVE LockInv'
  BY <1>9 DEF Remove, Begin
<1>10. ASSUME NEW p \in Procs, Clean(p) PROVE LockInv'
  BY <1>10 DEF Clean, Begin
<1>11. ASSUME NEW p \in Procs, Unset(p) PROVE LockInv'
  BY <1>11 DEF Unset
<1>12. ASSUME NEW p \in Procs, Unlisted(p) PROVE LockInv'
  BY <1>12 DEF Unlisted
<1>13. ASSUME NEW p \in Procs, SetBack(p) PROVE LockInv'
  BY <1>13 DEF SetBack, End
<1>14. ASSUME NEW p \in Procs, PruneLock(p) PROVE LockInv'
  BY <1>14 DEF PruneLock
<1>15. ASSUME NEW p \in Procs, Mark(p) PROVE LockInv'
  BY <1>15 DEF Mark, End
<1>16. ASSUME NEW p \in Procs, Sweep(p) PROVE LockInv'
  BY <1>16 DEF Sweep
<1>17. ASSUME NEW p \in Procs, Swept(p) PROVE LockInv'
  BY <1>17 DEF Swept, End
<1>18. ASSUME NEW p \in Procs, Kill(p) PROVE LockInv'
  BY <1>18 DEF Kill, End
<1>19. CASE UNCHANGED vars
  BY <1>19 DEF vars
<1> QED BY <1>1, <1>2, <1>3, <1>4, <1>5, <1>6, <1>7, <1>8, <1>9, <1>10, <1>11, <1>12, <1>13, <1>14, <1>15, <1>16, <1>17, <1>18, <1>19 DEF Next, Transfer, Removal

LEMMA AboutStep == TypeOK /\ AboutInv /\ [Next]_vars => AboutInv'
<1> SUFFICES ASSUME TypeOK /\ AboutInv, [Next]_vars PROVE AboutInv'
  OBVIOUS
<1> USE TreeAssumption DEF TypeOK, AboutInv, objects, plan
<1>1. ASSUME NEW p \in Procs, \E c \in Commits, m \in Modes : Open(p, c, m) PROVE AboutInv'
  BY <1>1 DEF Open, Begin
<1>2. ASSUME NEW p \in Procs, GetCommit(p) PROVE AboutInv'
  BY <1>2 DEF GetCommit, Get
<1>3. ASSUME NEW p \in Procs, GetTree(p) PROVE AboutInv'
  BY <1>3 DEF GetTree, Get
<1>4. ASSUME NEW p \in Procs, GetFile(p) PROVE AboutInv'
  BY <1>4 DEF GetFile, Get
<1>5. ASSUME NEW p \in Procs, Fails(p) PROVE AboutInv'
  BY <1>5 DEF Fails, End
<1>6. ASSUME NEW p \in Procs, Move(p) PROVE AboutInv'
  BY <1>6 DEF Move, Fetched
<1>7. ASSUME NEW p \in Procs, Settle(p) PROVE AboutInv'
  BY <1>7 DEF Settle, Fetched
<1>8. ASSUME NEW p \in Procs, Read(p) PROVE AboutInv'
  BY <1>8 DEF Read, End
<1>9. ASSUME NEW p \in Procs, \E c \in Commits : Remove(p, c) PROVE AboutInv'
  BY <1>9 DEF Remove, Begin
<1>10. ASSUME NEW p \in Procs, Clean(p) PROVE AboutInv'
  BY <1>10 DEF Clean, Begin
<1>11. ASSUME NEW p \in Procs, Unset(p) PROVE AboutInv'
  BY <1>11 DEF Unset
<1>12. ASSUME NEW p \in Procs, Unlisted(p) PROVE AboutInv'
  BY <1>12 DEF Unlisted
<1>13. ASSUME NEW p \in Procs, SetBack(p) PROVE AboutInv'
  BY <1>13 DEF SetBack, End
<1>14. ASSUME NEW p \in Procs, PruneLock(p) PROVE AboutInv'
  BY <1>14 DEF PruneLock
<1>15. ASSUME NEW p \in Procs, Mark(p) PROVE AboutInv'
  BY <1>15 DEF Mark, End
<1>16. ASSUME NEW p \in Procs, Sweep(p) PROVE AboutInv'
  BY <1>16 DEF Sweep
<1>17. ASSUME NEW p \in Procs, Swept(p) PROVE AboutInv'
  BY <1>17 DEF Swept, End
<1>18. ASSUME NEW p \in Procs, Kill(p) PROVE AboutInv'
  BY <1>18 DEF Kill, End
<1>19. CASE UNCHANGED vars
  BY <1>19 DEF vars
<1> QED BY <1>1, <1>2, <1>3, <1>4, <1>5, <1>6, <1>7, <1>8, <1>9, <1>10, <1>11, <1>12, <1>13, <1>14, <1>15, <1>16, <1>17, <1>18, <1>19 DEF Next, Transfer, Removal

LEMMA CrowdStep == TypeOK /\ CrowdInv /\ [Next]_vars => CrowdInv'
<1> SUFFICES ASSUME TypeOK /\ CrowdInv, [Next]_vars PROVE CrowdInv'
  OBVIOUS
<1> USE TreeAssumption DEF TypeOK, CrowdInv, objects, plan, Working
<1>1. ASSUME NEW p \in Procs, \E c \in Commits, m \in Modes : Open(p, c, m) PROVE CrowdInv'
  BY <1>1 DEF Open, Begin
<1>2. ASSUME NEW p \in Procs, GetCommit(p) PROVE CrowdInv'
  BY <1>2 DEF GetCommit, Get
<1>3. ASSUME NEW p \in Procs, GetTree(p) PROVE CrowdInv'
  BY <1>3 DEF GetTree, Get
<1>4. ASSUME NEW p \in Procs, GetFile(p) PROVE CrowdInv'
  BY <1>4 DEF GetFile, Get
<1>5. ASSUME NEW p \in Procs, Fails(p) PROVE CrowdInv'
  BY <1>5 DEF Fails, End
<1>6. ASSUME NEW p \in Procs, Move(p) PROVE CrowdInv'
  BY <1>6 DEF Move, Fetched
<1>7. ASSUME NEW p \in Procs, Settle(p) PROVE CrowdInv'
  BY <1>7 DEF Settle, Fetched
<1>8. ASSUME NEW p \in Procs, Read(p) PROVE CrowdInv'
  BY <1>8 DEF Read, End
<1>9. ASSUME NEW p \in Procs, \E c \in Commits : Remove(p, c) PROVE CrowdInv'
  BY <1>9 DEF Remove, Begin
<1>10. ASSUME NEW p \in Procs, Clean(p) PROVE CrowdInv'
  BY <1>10 DEF Clean, Begin
<1>11. ASSUME NEW p \in Procs, Unset(p) PROVE CrowdInv'
  BY <1>11 DEF Unset
<1>12. ASSUME NEW p \in Procs, Unlisted(p) PROVE CrowdInv'
  BY <1>12 DEF Unlisted
<1>13. ASSUME NEW p \in Procs, SetBack(p) PROVE CrowdInv'
  BY <1>13 DEF SetBack, End
<1>14. ASSUME NEW p \in Procs, PruneLock(p) PROVE CrowdInv'
  BY <1>14 DEF PruneLock
<1>15. ASSUME NEW p \in Procs, Mark(p) PROVE CrowdInv'
  BY <1>15 DEF Mark, End
<1>16. ASSUME NEW p \in Procs, Sweep(p) PROVE CrowdInv'
  BY <1>16 DEF Sweep
<1>17. ASSUME NEW p \in Procs, Swept(p) PROVE CrowdInv'
  BY <1>17 DEF Swept, End
<1>18. ASSUME NEW p \in Procs, Kill(p) PROVE CrowdInv'
  BY <1>18 DEF Kill, End
<1>19. CASE UNCHANGED vars
  BY <1>19 DEF vars
<1> QED BY <1>1, <1>2, <1>3, <1>4, <1>5, <1>6, <1>7, <1>8, <1>9, <1>10, <1>11, <1>12, <1>13, <1>14, <1>15, <1>16, <1>17, <1>18, <1>19 DEF Next, Transfer, Removal

-----------------------------------------------------------------------------
(* What is fetched, and what of it is found and named later.               *)

\* The walk of a tree leads to what is below it.
LEMMA BelowTree ==
    ASSUME NEW t \in Trees
    PROVE  Below[t] = {t} \cup Holds[t] \cup UNION {Below[k] : k \in Kids[t]}
BY TreeAssumption

LEMMA WalkStep == TypeOK /\ LockInv /\ AboutInv /\ WalkInv /\ [Next]_vars => WalkInv'
<1> SUFFICES ASSUME TypeOK /\ LockInv /\ AboutInv /\ WalkInv, [Next]_vars PROVE WalkInv'
  OBVIOUS
<1> USE DEF TypeOK, LockInv, AboutInv, WalkInv, objects, plan
<1>1. ASSUME NEW p \in Procs, \E c \in Commits, m \in Modes : Open(p, c, m) PROVE WalkInv'
  BY <1>1 DEF Open, Begin, Reached, Due, WalkFull, WalkInfo, Naming
<1>2. ASSUME NEW p \in Procs, GetCommit(p) PROVE WalkInv'
  <2>1. on[p] \in Commits /\ Root[on[p]] \in Trees
    BY <1>2, TreeAssumption DEF GetCommit
  <2>2. on'[p] \in Reached(p)'
    BY <1>2 DEF GetCommit, Get, Reached
  <2>3. CASE mode[p] = "head"
    BY <1>2, <2>2, <2>3 DEF GetCommit, Get, WalkInfo, WalkFull, Due, Reached, Naming
  <2>4. CASE mode[p] # "head"
    <3>1. trees'[p] = {Root[on[p]]} /\ files'[p] = {} /\ on'[p] = on[p]
      BY <1>2, <2>4 DEF GetCommit
    <3>2. WalkFull(p)'
      BY <2>2, <3>1 DEF WalkFull, All, Due
    <3>3. WalkInfo(p)'
      BY <2>2, <3>1 DEF WalkInfo
    <3> QED BY <1>2, <2>2, <3>2, <3>3 DEF GetCommit, Get, WalkInfo, WalkFull, Due, Reached
  <2> QED BY <2>3, <2>4
<1>3. ASSUME NEW p \in Procs, GetTree(p) PROVE WalkInv'
  <2>1. PICK t \in trees[p] :
          /\ Get(p, t)
          /\ IF mode[p] = "info"
             THEN /\ trees' = [trees EXCEPT ![p] = {}]
                  /\ files' = [files EXCEPT ![p] = {Info[on[p]]}]
             ELSE /\ trees' = [trees EXCEPT ![p] = (@ \ {t}) \cup Kids[t]]
                  /\ files' = [files EXCEPT ![p] = @ \cup Holds[t]]
    BY <1>3 DEF GetTree
  <2> DEFINE others == UNION {Below[k] : k \in Kids[t]}
  <2>2. t \in Trees /\ t \in Reached(p)' /\ Reached(p) \subseteq Reached(p)'
    BY <1>3, <2>1 DEF GetTree, Get, Reached
  <2>3. UNCHANGED <<store, pc, mode, on>>
    BY <1>3 DEF GetTree, objects
  <2>4. ASSUME NEW q \in Procs, q # p
        PROVE  trees'[q] = trees[q] /\ files'[q] = files[q] /\ staged'[q] = staged[q]
    BY <1>3, <2>1, <2>4 DEF GetTree, Get
  <2>5. CASE mode[p] = "info"
    <3>1. WalkInfo(p)'
      BY <1>3, <2>1, <2>2, <2>3, <2>5 DEF WalkInfo, GetTree
    <3> QED BY <2>3, <2>4, <2>5, <3>1 DEF WalkInfo, WalkFull, Due, Reached, Naming
  <2>6. CASE mode[p] # "info"
    <3>1. mode[p] \in Naming => WalkFull(p)'
      <4> SUFFICES ASSUME mode[p] \in Naming PROVE WalkFull(p)'
        OBVIOUS
      <4>1. All(on[p]) \subseteq Reached(p) \cup Due(p)
        BY <1>3 DEF WalkFull, GetTree
      <4>2. Below[t] = {t} \cup Holds[t] \cup others
        BY <2>2, BelowTree
      <4>3. files'[p] = files[p] \cup Holds[t] /\ trees'[p] = (trees[p] \ {t}) \cup Kids[t]
        BY <2>1, <2>6
      <4> HIDE DEF others
      <4>4. others \subseteq Due(p)' /\ Holds[t] \subseteq Due(p)' /\ files[p] \subseteq Due(p)'
        BY <4>3 DEF Due, others
      <4>5. ASSUME NEW u \in trees[p] PROVE Below[u] \subseteq Reached(p)' \cup Due(p)'
        <5>1. CASE u = t
          BY <2>2, <4>2, <4>4, <5>1
        <5>2. CASE u # t
          BY <4>3, <5>2 DEF Due
        <5> QED BY <5>1, <5>2
      <4>6. Due(p) \subseteq Reached(p)' \cup Due(p)'
        BY <4>4, <4>5 DEF Due
      <4> QED BY <2>2, <2>3, <4>1, <4>6 DEF WalkFull, All
    <3>2. mode[p] = "head" => on'[p] \in Reached(p)'
      BY <1>3, <2>2, <2>3 DEF GetTree
    <3> QED BY <2>3, <2>4, <2>6, <3>1, <3>2 DEF WalkInfo, WalkFull, Due, Reached, Naming
  <2> QED BY <2>5, <2>6
<1>4. ASSUME NEW p \in Procs, GetFile(p) PROVE WalkInv'
  BY <1>4 DEF GetFile, Get, Reached, Due, WalkFull, WalkInfo, Naming
<1>5. ASSUME NEW p \in Procs, Fails(p) PROVE WalkInv'
  BY <1>5 DEF Fails, End, Reached, Due, WalkFull, WalkInfo, Naming
<1>6. ASSUME NEW p \in Procs, Move(p) PROVE WalkInv'
  BY <1>6 DEF Move, Fetched, Reached, Due, WalkFull, WalkInfo, Naming
<1>7. ASSUME NEW p \in Procs, Settle(p) PROVE WalkInv'
  BY <1>7 DEF Settle, Fetched, Reached, Due, WalkFull, WalkInfo, Naming
<1>8. ASSUME NEW p \in Procs, Read(p) PROVE WalkInv'
  BY <1>8 DEF Read, End, Reached, Due, WalkFull, WalkInfo, Naming
<1>9. ASSUME NEW p \in Procs, \E c \in Commits : Remove(p, c) PROVE WalkInv'
  BY <1>9 DEF Remove, Begin, Reached, Due, WalkFull, WalkInfo, Naming
<1>10. ASSUME NEW p \in Procs, Clean(p) PROVE WalkInv'
  BY <1>10 DEF Clean, Begin, Reached, Due, WalkFull, WalkInfo, Naming
<1>11. ASSUME NEW p \in Procs, Unset(p) PROVE WalkInv'
  BY <1>11 DEF Unset, Reached, Due, WalkFull, WalkInfo, Naming
<1>12. ASSUME NEW p \in Procs, Unlisted(p) PROVE WalkInv'
  BY <1>12 DEF Unlisted, Reached, Due, WalkFull, WalkInfo, Naming
<1>13. ASSUME NEW p \in Procs, SetBack(p) PROVE WalkInv'
  BY <1>13 DEF SetBack, End, Reached, Due, WalkFull, WalkInfo, Naming
<1>14. ASSUME NEW p \in Procs, PruneLock(p) PROVE WalkInv'
  BY <1>14 DEF PruneLock, Reached, Due, WalkFull, WalkInfo, Naming
<1>15. ASSUME NEW p \in Procs, Mark(p) PROVE WalkInv'
  BY <1>15 DEF Mark, End, Reached, Due, WalkFull, WalkInfo, Naming
<1>16. ASSUME NEW p \in Procs, Sweep(p) PROVE WalkInv'
  <2>1. \A q \in Procs : pc[q] # "walk"
    BY <1>16 DEF Sweep
  <2> QED BY <1>16, <2>1 DEF Sweep
<1>17. ASSUME NEW p \in Procs, Swept(p) PROVE WalkInv'
  BY <1>17 DEF Swept, End, Reached, Due, WalkFull, WalkInfo, Naming
<1>18. ASSUME NEW p \in Procs, Kill(p) PROVE WalkInv'
  BY <1>18 DEF Kill, End, Reached, Due, WalkFull, WalkInfo, Naming
<1>19. CASE UNCHANGED vars
  BY <1>19 DEF vars, Reached, Due, WalkFull, WalkInfo, Naming
<1> QED BY <1>1, <1>2, <1>3, <1>4, <1>5, <1>6, <1>7, <1>8, <1>9, <1>10, <1>11, <1>12, <1>13, <1>14, <1>15, <1>16, <1>17, <1>18, <1>19 DEF Next, Transfer, Removal

LEMMA ReadStep == TypeOK /\ AboutInv /\ CrowdInv /\ WalkInv /\ ReadInv /\ [Next]_vars => ReadInv'
<1> SUFFICES ASSUME TypeOK /\ AboutInv /\ CrowdInv /\ WalkInv /\ ReadInv, [Next]_vars PROVE ReadInv'
  OBVIOUS
<1> USE DEF TypeOK, AboutInv, ReadInv, objects, plan
<1>1. ASSUME NEW p \in Procs, \E c \in Commits, m \in Modes : Open(p, c, m) PROVE ReadInv'
  BY <1>1 DEF Open, Begin, Wanted, All, Working
<1>2. ASSUME NEW p \in Procs, GetCommit(p) PROVE ReadInv'
  BY <1>2 DEF GetCommit, Get, Wanted, All
<1>3. ASSUME NEW p \in Procs, GetTree(p) PROVE ReadInv'
  BY <1>3 DEF GetTree, Get, Wanted, All
<1>4. ASSUME NEW p \in Procs, GetFile(p) PROVE ReadInv'
  BY <1>4 DEF GetFile, Get, Wanted, All
<1>5. ASSUME NEW p \in Procs, Fails(p) PROVE ReadInv'
  BY <1>5 DEF Fails, End, Wanted, All
<1>6. ASSUME NEW p \in Procs, Move(p) PROVE ReadInv'
  BY <1>6 DEF Move, Fetched, Wanted, All
<1>7. ASSUME NEW p \in Procs, Settle(p) PROVE ReadInv'
  <2>1. on[p] \in Commits /\ staged[p] = {} /\ Due(p) = {} /\ mode[p] \in Modes
    BY <1>7 DEF Settle, Fetched, Due
  <2>2. Reached(p) = store
    BY <2>1 DEF Reached
  <2>3. Wanted(p) \subseteq store
    BY <1>7, <2>1, <2>2 DEF Settle, Fetched, Wanted, WalkInv, WalkFull, WalkInfo, Modes, Naming
  <2>4. \A q \in Procs : Wanted(q)' = Wanted(q)
    BY <1>7 DEF Settle, Wanted, All
  <2> QED BY <1>7, <2>3, <2>4 DEF Settle, Fetched
<1>8. ASSUME NEW p \in Procs, Read(p) PROVE ReadInv'
  BY <1>8 DEF Read, End, Wanted, All
<1>9. ASSUME NEW p \in Procs, \E c \in Commits : Remove(p, c) PROVE ReadInv'
  BY <1>9 DEF Remove, Begin, Wanted, All, Working
<1>10. ASSUME NEW p \in Procs, Clean(p) PROVE ReadInv'
  BY <1>10 DEF Clean, Begin, Wanted, All, Working
<1>11. ASSUME NEW p \in Procs, Unset(p) PROVE ReadInv'
  BY <1>11 DEF Unset, Wanted, All
<1>12. ASSUME NEW p \in Procs, Unlisted(p) PROVE ReadInv'
  BY <1>12 DEF Unlisted, Wanted, All
<1>13. ASSUME NEW p \in Procs, SetBack(p) PROVE ReadInv'
  BY <1>13 DEF SetBack, End, Wanted, All
<1>14. ASSUME NEW p \in Procs, PruneLock(p) PROVE ReadInv'
  BY <1>14 DEF PruneLock, Wanted, All
<1>15. ASSUME NEW p \in Procs, Mark(p) PROVE ReadInv'
  BY <1>15 DEF Mark, End, Wanted, All
<1>16. ASSUME NEW p \in Procs, Sweep(p) PROVE ReadInv'
  <2>1. \A q \in Procs \ {p} : pc[q] # "idle" => q \in crowd
    BY <1>16 DEF Sweep, CrowdInv
  <2> QED BY <1>16, <2>1 DEF Sweep
<1>17. ASSUME NEW p \in Procs, Swept(p) PROVE ReadInv'
  BY <1>17 DEF Swept, End, Wanted, All
<1>18. ASSUME NEW p \in Procs, Kill(p) PROVE ReadInv'
  BY <1>18 DEF Kill, End, Wanted, All
<1>19. CASE UNCHANGED vars
  BY <1>19 DEF vars, Wanted, All
<1> QED BY <1>1, <1>2, <1>3, <1>4, <1>5, <1>6, <1>7, <1>8, <1>9, <1>10, <1>11, <1>12, <1>13, <1>14, <1>15, <1>16, <1>17, <1>18, <1>19 DEF Next, Transfer, Removal

LEMMA DropStep == TypeOK /\ AboutInv /\ CrowdInv /\ DropInv /\ RefsWhole /\ [Next]_vars => DropInv'
<1> SUFFICES ASSUME TypeOK /\ AboutInv /\ CrowdInv /\ DropInv /\ RefsWhole, [Next]_vars PROVE DropInv'
  OBVIOUS
<1> USE TreeAssumption DEF TypeOK, AboutInv, DropInv, objects, plan
<1>1. ASSUME NEW p \in Procs, \E c \in Commits, m \in Modes : Open(p, c, m) PROVE DropInv'
  BY <1>1 DEF Open, Begin, All, Working, RefsWhole
<1>2. ASSUME NEW p \in Procs, GetCommit(p) PROVE DropInv'
  BY <1>2 DEF GetCommit, Get, All
<1>3. ASSUME NEW p \in Procs, GetTree(p) PROVE DropInv'
  BY <1>3 DEF GetTree, Get, All
<1>4. ASSUME NEW p \in Procs, GetFile(p) PROVE DropInv'
  BY <1>4 DEF GetFile, Get, All
<1>5. ASSUME NEW p \in Procs, Fails(p) PROVE DropInv'
  BY <1>5 DEF Fails, End, All
<1>6. ASSUME NEW p \in Procs, Move(p) PROVE DropInv'
  BY <1>6 DEF Move, Fetched, All
<1>7. ASSUME NEW p \in Procs, Settle(p) PROVE DropInv'
  BY <1>7 DEF Settle, Fetched, All
<1>8. ASSUME NEW p \in Procs, Read(p) PROVE DropInv'
  BY <1>8 DEF Read, End, All
<1>9. ASSUME NEW p \in Procs, \E c \in Commits : Remove(p, c) PROVE DropInv'
  BY <1>9 DEF Remove, Begin, All, Working, RefsWhole
<1>10. ASSUME NEW p \in Procs, Clean(p) PROVE DropInv'
  BY <1>10 DEF Clean, Begin, All, Working, RefsWhole
<1>11. ASSUME NEW p \in Procs, Unset(p) PROVE DropInv'
  BY <1>11 DEF Unset, All
<1>12. ASSUME NEW p \in Procs, Unlisted(p) PROVE DropInv'
  BY <1>12 DEF Unlisted, All
<1>13. ASSUME NEW p \in Procs, SetBack(p) PROVE DropInv'
  BY <1>13 DEF SetBack, End, All
<1>14. ASSUME NEW p \in Procs, PruneLock(p) PROVE DropInv'
  BY <1>14 DEF PruneLock, All
<1>15. ASSUME NEW p \in Procs, Mark(p) PROVE DropInv'
  BY <1>15 DEF Mark, End, All
<1>16. ASSUME NEW p \in Procs, Sweep(p) PROVE DropInv'
  <2>1. \A q \in Procs \ {p} : pc[q] # "idle" => q \in crowd
    BY <1>16 DEF Sweep, CrowdInv
  <2> QED BY <1>16, <2>1 DEF Sweep
<1>17. ASSUME NEW p \in Procs, Swept(p) PROVE DropInv'
  BY <1>17 DEF Swept, End, All
<1>18. ASSUME NEW p \in Procs, Kill(p) PROVE DropInv'
  BY <1>18 DEF Kill, End, All
<1>19. CASE UNCHANGED vars
  BY <1>19 DEF vars, All
<1> QED BY <1>1, <1>2, <1>3, <1>4, <1>5, <1>6, <1>7, <1>8, <1>9, <1>10, <1>11, <1>12, <1>13, <1>14, <1>15, <1>16, <1>17, <1>18, <1>19 DEF Next, Transfer, Removal

LEMMA SweepStep == TypeOK /\ LockInv /\ CrowdInv /\ SweepInv /\ [Next]_vars => SweepInv'
<1> SUFFICES ASSUME TypeOK /\ LockInv /\ CrowdInv /\ SweepInv, [Next]_vars PROVE SweepInv'
  OBVIOUS
<1> USE TreeAssumption DEF TypeOK, SweepInv, objects, plan
<1>1. ASSUME NEW p \in Procs, \E c \in Commits, m \in Modes : Open(p, c, m) PROVE SweepInv'
  BY <1>1 DEF Open, Begin, All
<1>2. ASSUME NEW p \in Procs, GetCommit(p) PROVE SweepInv'
  BY <1>2 DEF GetCommit, Get, All
<1>3. ASSUME NEW p \in Procs, GetTree(p) PROVE SweepInv'
  BY <1>3 DEF GetTree, Get, All
<1>4. ASSUME NEW p \in Procs, GetFile(p) PROVE SweepInv'
  BY <1>4 DEF GetFile, Get, All
<1>5. ASSUME NEW p \in Procs, Fails(p) PROVE SweepInv'
  BY <1>5 DEF Fails, End, All
<1>6. ASSUME NEW p \in Procs, Move(p) PROVE SweepInv'
  BY <1>6 DEF Move, Fetched, All
<1>7. ASSUME NEW p \in Procs, Settle(p) PROVE SweepInv'
  <2>1. \A q \in Procs : pc[q] # "sweep"
    BY <1>7 DEF Settle, Fetched, LockInv
  <2> QED BY <1>7, <2>1 DEF Settle
<1>8. ASSUME NEW p \in Procs, Read(p) PROVE SweepInv'
  BY <1>8 DEF Read, End, All
<1>9. ASSUME NEW p \in Procs, \E c \in Commits : Remove(p, c) PROVE SweepInv'
  BY <1>9 DEF Remove, Begin, All
<1>10. ASSUME NEW p \in Procs, Clean(p) PROVE SweepInv'
  BY <1>10 DEF Clean, Begin, All
<1>11. ASSUME NEW p \in Procs, Unset(p) PROVE SweepInv'
  BY <1>11 DEF Unset, All
<1>12. ASSUME NEW p \in Procs, Unlisted(p) PROVE SweepInv'
  BY <1>12 DEF Unlisted, All
<1>13. ASSUME NEW p \in Procs, SetBack(p) PROVE SweepInv'
  <2>1. ASSUME NEW q \in Procs, pc[q] = "sweep" PROVE p \in crowd
    BY <1>13, <2>1 DEF SetBack, CrowdInv
  <2> QED BY <1>13, <2>1 DEF SetBack, End
<1>14. ASSUME NEW p \in Procs, PruneLock(p) PROVE SweepInv'
  BY <1>14 DEF PruneLock, All
<1>15. ASSUME NEW p \in Procs, Mark(p) PROVE SweepInv'
  <2>1. CASE pc' = [pc EXCEPT ![p] = "sweep"] /\ keep' = [keep EXCEPT ![p] = UNION {All(c) : c \in Named}]
    <3>1. \A r \in RefNames : refs[r] # None => All(refs[r]) \subseteq keep'[p]
      BY <1>15, <2>1 DEF Named
    <3> QED BY <1>15, <2>1, <3>1 DEF Mark, All
  <2>2. CASE End(p, "missing")
    BY <1>15, <2>2 DEF Mark, End, All
  <2> QED BY <1>15, <2>1, <2>2 DEF Mark
<1>16. ASSUME NEW p \in Procs, Sweep(p) PROVE SweepInv'
  BY <1>16 DEF Sweep, All
<1>17. ASSUME NEW p \in Procs, Swept(p) PROVE SweepInv'
  BY <1>17 DEF Swept, End, All
<1>18. ASSUME NEW p \in Procs, Kill(p) PROVE SweepInv'
  BY <1>18 DEF Kill, End, All
<1>19. CASE UNCHANGED vars
  BY <1>19 DEF vars, All
<1> QED BY <1>1, <1>2, <1>3, <1>4, <1>5, <1>6, <1>7, <1>8, <1>9, <1>10, <1>11, <1>12, <1>13, <1>14, <1>15, <1>16, <1>17, <1>18, <1>19 DEF Next, Transfer, Removal

LEMMA RefsStep == TypeOK /\ AboutInv /\ WalkInv /\ DropInv /\ SweepInv /\ RefsWhole /\ [Next]_vars => RefsWhole'
<1> SUFFICES ASSUME TypeOK /\ AboutInv /\ WalkInv /\ DropInv /\ SweepInv /\ RefsWhole, [Next]_vars PROVE RefsWhole'
  OBVIOUS
<1> USE TreeAssumption DEF TypeOK, RefsWhole, objects, plan
<1>1. ASSUME NEW p \in Procs, \E c \in Commits, m \in Modes : Open(p, c, m) PROVE RefsWhole'
  BY <1>1 DEF Open, Begin, All
<1>2. ASSUME NEW p \in Procs, GetCommit(p) PROVE RefsWhole'
  BY <1>2 DEF GetCommit, Get, All
<1>3. ASSUME NEW p \in Procs, GetTree(p) PROVE RefsWhole'
  BY <1>3 DEF GetTree, Get, All
<1>4. ASSUME NEW p \in Procs, GetFile(p) PROVE RefsWhole'
  BY <1>4 DEF GetFile, Get, All
<1>5. ASSUME NEW p \in Procs, Fails(p) PROVE RefsWhole'
  BY <1>5 DEF Fails, End, All
<1>6. ASSUME NEW p \in Procs, Move(p) PROVE RefsWhole'
  BY <1>6 DEF Move, Fetched, All
<1>7. ASSUME NEW p \in Procs, Settle(p) PROVE RefsWhole'
  <2>1. on[p] \in Commits /\ staged[p] = {} /\ Due(p) = {} /\ RefOf[on[p]] \in RefNames
    BY <1>7 DEF Settle, Fetched, Due, AboutInv
  <2>2. mode[p] \in Naming => All(on[p]) \subseteq store
    BY <1>7, <2>1 DEF Settle, Fetched, WalkInv, WalkFull, Reached
  <2>3. CASE mode[p] \in Naming
    BY <1>7, <2>1, <2>2, <2>3 DEF Settle
  <2>4. CASE mode[p] \notin Naming
    BY <1>7, <2>4 DEF Settle
  <2> QED BY <2>3, <2>4
<1>8. ASSUME NEW p \in Procs, Read(p) PROVE RefsWhole'
  BY <1>8 DEF Read, End, All
<1>9. ASSUME NEW p \in Procs, \E c \in Commits : Remove(p, c) PROVE RefsWhole'
  BY <1>9 DEF Remove, Begin, All
<1>10. ASSUME NEW p \in Procs, Clean(p) PROVE RefsWhole'
  BY <1>10 DEF Clean, Begin, All
<1>11. ASSUME NEW p \in Procs, Unset(p) PROVE RefsWhole'
  BY <1>11 DEF Unset, All
<1>12. ASSUME NEW p \in Procs, Unlisted(p) PROVE RefsWhole'
  BY <1>12 DEF Unlisted, All
<1>13. ASSUME NEW p \in Procs, SetBack(p) PROVE RefsWhole'
  <2>1. on[p] \in Commits /\ RefOf[on[p]] \in RefNames
    BY <1>13 DEF SetBack
  <2>2. ~broken' => All(on[p]) \subseteq store
    BY <1>13 DEF SetBack, DropInv
  <2>3. UNCHANGED store /\ (~broken' => ~broken)
    BY <1>13 DEF SetBack
  <2>4. refs' = [refs EXCEPT ![RefOf[on[p]]] = on[p]]
    BY <1>13 DEF SetBack
  <2> QED BY <2>1, <2>2, <2>3, <2>4
<1>14. ASSUME NEW p \in Procs, PruneLock(p) PROVE RefsWhole'
  BY <1>14 DEF PruneLock, All
<1>15. ASSUME NEW p \in Procs, Mark(p) PROVE RefsWhole'
  BY <1>15 DEF Mark, End, All
<1>16. ASSUME NEW p \in Procs, Sweep(p) PROVE RefsWhole'
  <2>1. ~broken => \A r \in RefNames : refs[r] # None => All(refs[r]) \subseteq keep[p]
    BY <1>16 DEF Sweep, SweepInv
  <2> QED BY <1>16, <2>1 DEF Sweep
<1>17. ASSUME NEW p \in Procs, Swept(p) PROVE RefsWhole'
  BY <1>17 DEF Swept, End, All
<1>18. ASSUME NEW p \in Procs, Kill(p) PROVE RefsWhole'
  BY <1>18 DEF Kill, End, All
<1>19. CASE UNCHANGED vars
  BY <1>19 DEF vars, All
<1> QED BY <1>1, <1>2, <1>3, <1>4, <1>5, <1>6, <1>7, <1>8, <1>9, <1>10, <1>11, <1>12, <1>13, <1>14, <1>15, <1>16, <1>17, <1>18, <1>19 DEF Next, Transfer, Removal

LEMMA ReadsStep == TypeOK /\ ReadInv /\ RefsWhole /\ ReadsWhole /\ [Next]_vars => ReadsWhole'
<1> SUFFICES ASSUME TypeOK /\ ReadInv /\ RefsWhole /\ ReadsWhole, [Next]_vars PROVE ReadsWhole'
  OBVIOUS
<1> USE DEF TypeOK, ReadsWhole, objects, plan
<1>1. ASSUME NEW p \in Procs, \E c \in Commits, m \in Modes : Open(p, c, m) PROVE ReadsWhole'
  BY <1>1 DEF Open, Begin, Working
<1>2. ASSUME NEW p \in Procs, GetCommit(p) PROVE ReadsWhole'
  BY <1>2 DEF GetCommit, Get
<1>3. ASSUME NEW p \in Procs, GetTree(p) PROVE ReadsWhole'
  BY <1>3 DEF GetTree, Get
<1>4. ASSUME NEW p \in Procs, GetFile(p) PROVE ReadsWhole'
  BY <1>4 DEF GetFile, Get
<1>5. ASSUME NEW p \in Procs, Fails(p) PROVE ReadsWhole'
  BY <1>5 DEF Fails, End
<1>6. ASSUME NEW p \in Procs, Move(p) PROVE ReadsWhole'
  BY <1>6 DEF Move, Fetched
<1>7. ASSUME NEW p \in Procs, Settle(p) PROVE ReadsWhole'
  BY <1>7 DEF Settle, Fetched
<1>8. ASSUME NEW p \in Procs, Read(p) PROVE ReadsWhole'
  <2>1. p \notin crowd => Wanted(p) \subseteq store
    BY <1>8 DEF Read, ReadInv
  <2> QED BY <1>8, <2>1 DEF Read, End
<1>9. ASSUME NEW p \in Procs, \E c \in Commits : Remove(p, c) PROVE ReadsWhole'
  BY <1>9 DEF Remove, Begin, Working
<1>10. ASSUME NEW p \in Procs, Clean(p) PROVE ReadsWhole'
  BY <1>10 DEF Clean, Begin, Working
<1>11. ASSUME NEW p \in Procs, Unset(p) PROVE ReadsWhole'
  BY <1>11 DEF Unset
<1>12. ASSUME NEW p \in Procs, Unlisted(p) PROVE ReadsWhole'
  BY <1>12 DEF Unlisted
<1>13. ASSUME NEW p \in Procs, SetBack(p) PROVE ReadsWhole'
  BY <1>13 DEF SetBack, End
<1>14. ASSUME NEW p \in Procs, PruneLock(p) PROVE ReadsWhole'
  BY <1>14 DEF PruneLock
<1>15. ASSUME NEW p \in Procs, Mark(p) PROVE ReadsWhole'
  <2>1. CASE \A c \in Named : All(c) \ Files \subseteq store
    BY <1>15, <2>1 DEF Mark
  <2>2. CASE \E c \in Named : ~(All(c) \ Files \subseteq store)
    <3>1. broken
      BY <2>2 DEF RefsWhole, Named
    <3> QED BY <1>15, <3>1 DEF Mark
  <2> QED BY <2>1, <2>2
<1>16. ASSUME NEW p \in Procs, Sweep(p) PROVE ReadsWhole'
  BY <1>16 DEF Sweep
<1>17. ASSUME NEW p \in Procs, Swept(p) PROVE ReadsWhole'
  BY <1>17 DEF Swept, End
<1>18. ASSUME NEW p \in Procs, Kill(p) PROVE ReadsWhole'
  BY <1>18 DEF Kill, End
<1>19. CASE UNCHANGED vars
  BY <1>19 DEF vars
<1> QED BY <1>1, <1>2, <1>3, <1>4, <1>5, <1>6, <1>7, <1>8, <1>9, <1>10, <1>11, <1>12, <1>13, <1>14, <1>15, <1>16, <1>17, <1>18, <1>19 DEF Next, Transfer, Removal

-----------------------------------------------------------------------------
(* The theorems.                                                           *)

LEMMA StoreInit == Init => StoreInv
<1> SUFFICES ASSUME Init PROVE StoreInv
  OBVIOUS
<1>1. TypeOK
  BY DEF Init, TypeOK, Modes
<1>2. LockInv /\ AboutInv /\ CrowdInv
  BY DEF Init, LockInv, AboutInv, CrowdInv
<1>3. WalkInv /\ ReadInv /\ DropInv /\ SweepInv
  BY DEF Init, WalkInv, ReadInv, DropInv, SweepInv
<1>4. ObjectsWhole
  BY DEF Init, ObjectsWhole, RefsWhole, ReadsWhole
<1> QED BY <1>1, <1>2, <1>3, <1>4 DEF StoreInv

LEMMA StoreStep == StoreInv /\ [Next]_vars => StoreInv'
BY TypeStep, LockStep, AboutStep, CrowdStep, WalkStep, ReadStep, DropStep, SweepStep, RefsStep, ReadsStep
   DEF StoreInv, ObjectsWhole

LEMMA StoreHolds == Spec => []StoreInv
BY StoreInit, StoreStep, PTL DEF Spec

\* Every variable of the repository's objects, locks and transactions keeps
\* its type.
THEOREM TypeOKHolds == Spec => []TypeOK
<1>1. StoreInv => TypeOK
  BY DEF StoreInv
<1> QED BY StoreHolds, <1>1, PTL

\* For any processes, commits and trees that share what they share: whatever
\* fetches, removals and prunes overlap, and wherever one of them is killed or
\* fails, a ref names a commit that is all there, and an operation that finds
\* something missing was not alone.  The excuse is a removal that failed and
\* set its ref again after another may have pruned.
THEOREM ObjectsWholeHolds == Spec => []ObjectsWhole
<1>1. StoreInv => ObjectsWhole
  BY DEF StoreInv
<1> QED BY StoreHolds, <1>1, PTL
=============================================================================
