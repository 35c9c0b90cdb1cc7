-------------------------- MODULE ContainersProofs --------------------------
(***************************************************************************)
(* What the parts of Containers keep, for every value of the constants.  A *)
(* step of Containers is a step of one of its parts, which leaves the      *)
(* others as they are: every part is proved about on its own.              *)
(***************************************************************************)
EXTENDS Containers, FiniteSetTheorems, WellFoundedInduction, TLAPS

----------------------------------------------------------------------------
(* One part runs.                                                          *)

LEMMA PatchesRun == [ContainersNext]_containerVars => [O!Next]_oVars
  BY DEF ContainersNext, containerVars, PatchesStep, MountsStep, LaunchStep, BoxesStep

LEMMA LaunchRuns == [ContainersNext]_containerVars => [L!Next]_lVars
  BY DEF ContainersNext, containerVars, PatchesStep, MountsStep, LaunchStep, BoxesStep

LEMMA BoxesRun == [ContainersNext]_containerVars => [B!Next]_bVars
  BY DEF ContainersNext, containerVars, PatchesStep, MountsStep, LaunchStep, BoxesStep

----------------------------------------------------------------------------
(* Sets, numbers and folds.                                                *)

\* A family of subsets of a finite set has a member that no other is part of.
LEMMA MinimalSet ==
  ASSUME NEW S, IsFiniteSet(S), NEW C, C \subseteq SUBSET S, C # {}
  PROVE  \E T \in C : \A U \in C : U \subseteq T => U = T
<1>1. IsWellFoundedOn(StrictSubsetOrdering(S), FiniteSubsetsOf(S))
  BY FS_StrictSubsetOrderingWellFounded
<1>2. C \subseteq FiniteSubsetsOf(S)
  BY FS_FiniteSubsetsOfFinite
<1>3. PICK T \in C : \A U \in C : <<U, T>> \notin StrictSubsetOrdering(S)
  <2> HIDE DEF FiniteSubsetsOf
  <2> QED BY <1>1, <1>2, WFMin
<1>4. ASSUME NEW U \in C, U \subseteq T, U # T PROVE FALSE
  <2>1. <<U, T>> \in (SUBSET S) \X (SUBSET S)
    OBVIOUS
  <2>2. <<U, T>> \in StrictSubsetOrdering(S)
    BY <2>1, <1>4 DEF StrictSubsetOrdering
  <2> QED BY <2>2, <1>3
<1> QED BY <1>4

\* The positions of a sequence have a last one.
LEMMA LastPlace ==
  ASSUME NEW n \in Nat, NEW s \in SUBSET (1..n), s # {}
  PROVE  \E x \in s : \A y \in s : x >= y
<1> DEFINE T == {n - x : x \in s}
<1>0. \A x \in s : x \in Nat /\ n - x \in Nat
  OBVIOUS
<1>1. T \subseteq Nat /\ T # {}
  BY <1>0
<1>2. PICK t \in T : \A y \in T : ~ (y < t)
  <2>1. \E t \in T : \A y \in T : <<y, t>> \notin OpToRel(<, Nat)
    <3> HIDE DEF T
    <3> QED BY <1>1, NatLessThanWellFounded, WFMin
  <2>2. PICK t \in T : \A y \in T : <<y, t>> \notin OpToRel(<, Nat)
    BY <2>1
  <2>3. ASSUME NEW y \in T, y < t PROVE FALSE
    <3>1. y \in Nat /\ t \in Nat
      BY <1>1
    <3> QED BY <3>1, <2>2, <2>3 DEF OpToRel
  <2> QED BY <2>3
<1>3. PICK x \in s : t = n - x
  OBVIOUS
<1>4. \A y \in s : n - y \in T
  OBVIOUS
<1>5. \A y \in s : ~ (n - y < n - x)
  BY <1>2, <1>3, <1>4
<1> QED BY <1>0, <1>5

\* What holds of 0, and of n + 1 where it holds of n, holds of all numbers.
LEMMA EveryNumber ==
  ASSUME NEW N \in SUBSET Nat, 0 \in N, \A n \in N : n + 1 \in N PROVE N = Nat
<1> SUFFICES ASSUME Nat \ N # {} PROVE FALSE
  OBVIOUS
<1> DEFINE T == Nat \ N
<1>1. \E t \in T : \A y \in T : <<y, t>> \notin OpToRel(<, Nat)
  <2>1. T \subseteq Nat /\ T # {}
    OBVIOUS
  <2> HIDE DEF T
  <2> QED BY <2>1, NatLessThanWellFounded, WFMin
<1>2. PICK t \in T : \A y \in T : <<y, t>> \notin OpToRel(<, Nat)
  BY <1>1
<1>3. t \in Nat /\ t \notin N /\ t # 0 /\ t - 1 \in Nat /\ t - 1 < t /\ (t - 1) + 1 = t
  OBVIOUS
<1>4. <<t - 1, t>> \in OpToRel(<, Nat)
  BY <1>3 DEF OpToRel
<1>5. t - 1 \notin T
  BY <1>2, <1>4
<1> QED BY <1>3, <1>5

\* A fold over the subsets of S has a value: pick chooses the member that is
\* taken last, and G makes the value of a set from that of the set without it.
Folds(g, S, b, pick, G) ==
    \A s \in SUBSET S : g[s] = IF s = {} THEN b ELSE G[<<s, g[s \ {pick[s]}]>>]

LEMMA FoldOnce ==
  ASSUME NEW S, IsFiniteSet(S), NEW W, NEW b, NEW pick, NEW G,
         \A s \in SUBSET S : s # {} => pick[s] \in s,
         NEW T \in SUBSET S, NEW U \in SUBSET S,
         NEW g, Folds(g, T, b, pick, G), NEW h, Folds(h, U, b, pick, G)
  PROVE  \A s \in SUBSET (T \intersect U) : g[s] = h[s]
<1> DEFINE C == {s \in SUBSET (T \intersect U) : g[s] # h[s]}
<1> SUFFICES ASSUME C # {} PROVE FALSE
  OBVIOUS
<1>1. PICK s \in C : \A u \in C : u \subseteq s => u = s
  <2>1. C \subseteq SUBSET S
    OBVIOUS
  <2> HIDE DEF C
  <2> QED BY <2>1, MinimalSet
<1>2. s \in SUBSET T /\ s \in SUBSET U /\ s \in SUBSET S
  OBVIOUS
<1>3. s # {}
  BY <1>2 DEF Folds
<1>4. pick[s] \in s
  BY <1>2, <1>3
<1>5. s \ {pick[s]} \notin C
  BY <1>1, <1>4
<1>6. g[s \ {pick[s]}] = h[s \ {pick[s]}]
  BY <1>5, <1>2
<1>7. g[s] = G[<<s, g[s \ {pick[s]}]>>] /\ h[s] = G[<<s, h[s \ {pick[s]}]>>]
  BY <1>2, <1>3 DEF Folds
<1> QED BY <1>6, <1>7

LEMMA FoldThere ==
  ASSUME NEW S, IsFiniteSet(S), NEW W, NEW b \in W, NEW pick, NEW G,
         \A s \in SUBSET S : s # {} => pick[s] \in s,
         \A s \in SUBSET S, w \in W : s # {} => G[<<s, w>>] \in W
  PROVE  \E g \in [SUBSET S -> W] : Folds(g, S, b, pick, G)
<1> DEFINE Holds(T) == \E g \in [SUBSET T -> W] : Folds(g, T, b, pick, G)
           C == {T \in SUBSET S : ~ Holds(T)}
<1> SUFFICES ASSUME C # {} PROVE FALSE
  OBVIOUS
<1>1. PICK T \in C : \A U \in C : U \subseteq T => U = T
  <2>1. C \subseteq SUBSET S
    OBVIOUS
  <2> HIDE DEF C
  <2> QED BY <2>1, MinimalSet
<1>2. \A U \in SUBSET T : U # T => Holds(U)
  BY <1>1
<1> DEFINE Of(U) == CHOOSE g : g \in [SUBSET U -> W] /\ Folds(g, U, b, pick, G)
<1>3. \A U \in SUBSET T : U # T => Of(U) \in [SUBSET U -> W] /\ Folds(Of(U), U, b, pick, G)
  BY <1>2
<1> HIDE DEF Of
<1> DEFINE Last == Of(T \ {pick[T]})
           f == [s \in SUBSET T |-> IF s # T THEN Of(s)[s]
                                    ELSE IF T = {} THEN b ELSE G[<<T, Last[T \ {pick[T]}]>>]]
<1>4. ASSUME NEW U \in SUBSET T, U # T, NEW s \in SUBSET U PROVE Of(U)[s] \in W
  <2>1. Of(U) \in [SUBSET U -> W]
    BY <1>3, <1>4
  <2> QED BY <2>1
<1>5. T # {} => Last[T \ {pick[T]}] \in W
  <2>1. T # {} => T \ {pick[T]} \in SUBSET T /\ T \ {pick[T]} # T
    OBVIOUS
  <2> QED BY <2>1, <1>4
<1>6. f \in [SUBSET T -> W]
  <2>1. \A s \in SUBSET T : f[s] \in W
    <3> SUFFICES ASSUME NEW s \in SUBSET T PROVE f[s] \in W
      OBVIOUS
    <3>1. CASE s # T
      <4>1. f[s] = Of(s)[s] /\ s \in SUBSET s
        BY <3>1
      <4> QED BY <4>1, <3>1, <1>4
    <3>2. CASE s = T
      BY <3>2, <1>5
    <3> QED BY <3>1, <3>2
  <2> QED BY <2>1
<1>7. \A s \in SUBSET T : s # {} => f[s \ {pick[s]}] = Of(s \ {pick[s]})[s \ {pick[s]}]
  <2> SUFFICES ASSUME NEW s \in SUBSET T, s # {}
               PROVE f[s \ {pick[s]}] = Of(s \ {pick[s]})[s \ {pick[s]}]
    OBVIOUS
  <2>1. pick[s] \in s /\ s \ {pick[s]} # T
    OBVIOUS
  <2> QED BY <2>1
<1>8. Folds(f, T, b, pick, G)
  <2> SUFFICES ASSUME NEW s \in SUBSET T
               PROVE f[s] = IF s = {} THEN b ELSE G[<<s, f[s \ {pick[s]}]>>]
    BY DEF Folds
  <2>1. CASE s = T
    BY <2>1, <1>7
  <2>2. CASE s # T
    <3>1. f[s] = Of(s)[s] /\ Folds(Of(s), s, b, pick, G)
      BY <2>2, <1>3
    <3>2. Of(s)[s] = IF s = {} THEN b ELSE G[<<s, Of(s)[s \ {pick[s]}]>>]
      BY <3>1 DEF Folds
    <3>3. ASSUME s # {} PROVE Of(s)[s \ {pick[s]}] = f[s \ {pick[s]}]
      <4>1. pick[s] \in s
        BY <3>3
      <4> DEFINE r == s \ {pick[s]}
      <4>2. r \in SUBSET T /\ r # T /\ r \in SUBSET S /\ s \in SUBSET S
        BY <4>1
      <4>3. Folds(Of(r), r, b, pick, G)
        BY <4>2, <1>3
      <4>4. \A u \in SUBSET (s \intersect r) : Of(s)[u] = Of(r)[u]
        <5> HIDE DEF r
        <5> QED BY <4>2, <4>3, <3>1, FoldOnce
      <4>5. Of(s)[r] = Of(r)[r]
        BY <4>4
      <4> QED BY <4>5, <1>7, <3>3
    <3> QED BY <3>1, <3>2, <3>3
  <2> QED BY <2>1, <2>2
<1> QED BY <1>6, <1>8

----------------------------------------------------------------------------
(* The start of a container.                                               *)

\* The command and its child take turns: each is at a place where the other
\* has sent, or will send, the byte it reads.
HandsOver ==
    /\ bytes \in [parent : Nat, child : Nat]
    /\ parent \in {"resolve", "clone", "run"} => child = "none"
    /\ child = "none" => parent \in {"resolve", "clone", "run", "done", "failed"}
    /\ child = "start" => parent \in {"hello", "killed"}
    /\ child \in {"none", "start"} => bytes.parent = 0 /\ bytes.child = 0
    /\ parent = "hello" /\ child # "start" => bytes.parent > 0 /\ child = "read" /\ bytes.child = 0
    /\ parent \in {"map", "release"} => child = "read" /\ bytes.child = 0
    /\ parent = "wait" /\ child = "read" => bytes.child > 0 \/ broken
    /\ child = "read" /\ bytes.child = 0 =>
           parent \in {"hello", "map", "release", "killed"} \/ broken
    /\ parent \in {"done", "failed"} => child \in {"none", "done", "failed"}

LEMMA HandsOverInit == ContainersInit => HandsOver
  BY DEF ContainersInit, L!Init, HandsOver

LEMMA HandsOverNext == HandsOver /\ [L!Next]_lVars => HandsOver'
<1> SUFFICES ASSUME HandsOver, [L!Next]_lVars PROVE HandsOver'
  OBVIOUS
<1> USE DEF HandsOver
<1>0. CASE UNCHANGED lVars
  BY <1>0 DEF lVars
<1>1. CASE L!Resolve
  <2>1. UNCHANGED <<child, bytes, broken>> /\ parent = "resolve"
        /\ parent' \in {"failed", "run", "clone"}
    BY <1>1 DEF L!Resolve
  <2> QED BY <2>1
<1>2. CASE L!Clone
  BY <1>2 DEF L!Clone
<1>3. CASE L!Hello
  BY <1>3 DEF L!Hello
<1>4. CASE L!ReadHello
  BY <1>4 DEF L!ReadHello
<1>5. CASE L!Map \/ L!MapFails
  BY <1>5 DEF L!Map, L!MapFails
<1>6. CASE L!Release
  BY <1>6 DEF L!Release
<1>7. CASE \E ok \in BOOLEAN : L!ReadRelease(ok)
  BY <1>7 DEF L!ReadRelease
<1>8. CASE L!ResolveAgain
  <2>1. UNCHANGED <<parent, bytes, broken>> /\ child = "exec" /\ child' \in {"configure", "failed"}
    BY <1>8 DEF L!ResolveAgain
  <2> QED BY <2>1
<1>9. CASE L!Configure
  <2>1. UNCHANGED <<parent, bytes, broken>> /\ child = "configure" /\ child' \in {"done", "failed"}
    BY <1>9 DEF L!Configure
  <2> QED BY <2>1
<1>10. CASE L!Waited
  BY <1>10 DEF L!Waited
<1>11. CASE L!RunDirect
  <2>1. UNCHANGED <<child, bytes, broken>> /\ parent = "run" /\ parent' \in {"done", "failed"}
    BY <1>11 DEF L!RunDirect
  <2> QED BY <2>1
<1>12. CASE L!Killed
  BY <1>12 DEF L!Killed
<1>13. CASE L!Change
  BY <1>13 DEF L!Change
<1> QED BY <1>0, <1>1, <1>2, <1>3, <1>4, <1>5, <1>6, <1>7, <1>8, <1>9, <1>10, <1>11, <1>12, <1>13
       DEF L!Next, L!Steps

\* No failure to start leaves the command and its child waiting for each
\* other, but where the namespace could not be set up.
THEOREM LaunchEndsHolds == ContainersSpec => []LaunchEnds
<1>1. HandsOver => LaunchEnds
  BY DEF HandsOver, LaunchEnds, L!LaunchEnds
<1> QED BY <1>1, HandsOverInit, HandsOverNext, LaunchRuns, PTL DEF ContainersSpec

----------------------------------------------------------------------------
(* What a container has.                                                   *)

\* What the packages define for the layers, what is added to it, and what is
\* asked for.
Wishes(l) == {Declared[l][k] : k \in DOMAIN Declared[l]}
             \union {extra.external[l][k] : k \in DOMAIN extra.external[l]}
             \union {[name |-> extra.requested[k], version |-> None, allow |-> None] :
                        k \in DOMAIN extra.requested}
Entries   == [for : L!Layers, ref : Packages,
              allow : {d.allow : d \in UNION {Wishes(l) : l \in L!Layers}}]

\* The definitions of an extension that is not the driver's.
Plainly(l, p) == {k \in DOMAIN Declared[l] : Declared[l][k].name = p.name /\ p.name # Nvidia}

\* One that only its package defines, and once, has the variables of that
\* definition.
Known(x) ==
    \A k \in DOMAIN Declared[x.for] :
        /\ x.ref.driver = None /\ Plainly(x.for, x.ref) = {k}
        /\ \A j \in DOMAIN extra.external[x.for] : extra.external[x.for][j].name # x.ref.name
        /\ \A j \in DOMAIN extra.requested : extra.requested[j] # x.ref.name
        => x.allow = Declared[x.for][k].allow

\* What is resolved is no extension of a layer twice.
Listed(list) == /\ list \in Seq(Entries)
                /\ \A k \in DOMAIN list : Known(list[k])
                /\ \A j, k \in DOMAIN list : list[j].for = list[k].for /\ list[j].ref = list[k].ref
                                             => j = k
Lists == {None} \union {s \in Seq(Entries) : Listed(s)}

\* Where an extension has no driver, that of the host does not matter.
LEMMA PlainDefinitions ==
  ASSUME NEW l, NEW p, p.driver = None PROVE L!Definitions(l, p) = Plainly(l, p)
  BY DEF L!Definitions, Plainly, L!IsEnabled, L!Enabled

LEMMA ListGrows ==
  ASSUME NEW list, Listed(list), NEW x \in Entries, Known(x),
         \A k \in DOMAIN list : ~ (list[k].for = x.for /\ list[k].ref = x.ref)
  PROVE  Listed(Append(list, x))
<1> DEFINE longer == Append(list, x)
<1>1. list \in Seq(Entries)
  BY DEF Listed
<1>2. longer \in Seq(Entries) /\ Len(longer) = Len(list) + 1
  BY <1>1
<1>3. \A k \in DOMAIN longer : \/ k \in DOMAIN list /\ longer[k] = list[k]
                               \/ k = Len(list) + 1 /\ longer[k] = x
  BY <1>1
<1> HIDE DEF longer
<1>4. \A k \in DOMAIN longer : Known(longer[k])
  BY <1>3 DEF Listed
<1>5. ASSUME NEW j \in DOMAIN longer, NEW k \in DOMAIN longer,
             longer[j].for = longer[k].for, longer[j].ref = longer[k].ref
      PROVE  j = k
  BY <1>3, <1>5 DEF Listed
<1>6. Listed(longer)
  BY <1>2, <1>4, <1>5 DEF Listed
<1> QED BY <1>6 DEF longer

LEMMA TakeKeeps ==
  ASSUME lInstalled \subseteq Packages, NEW list \in Lists, NEW l \in L!Layers, NEW d \in Wishes(l),
         NEW needed \in BOOLEAN
  PROVE  L!Take(list, l, d, needed) \in Lists
<1>1. CASE list = None
  BY <1>1 DEF L!Take, Lists
<1>2. CASE list # None /\ (~ L!IsEnabled(d.name) \/ L!Candidates(d) = {})
  BY <1>2 DEF L!Take, Lists
<1>3. CASE list # None /\ L!IsEnabled(d.name) /\ L!Candidates(d) # {}
  <2> DEFINE p == CHOOSE p \in L!Candidates(d) : TRUE
             x == L!Extension(l, d, p)
  <2>1. /\ p \in Packages /\ p.name = d.name /\ p.driver = L!Enabled(d.name).driver
    <3>1. p \in L!Candidates(d)
      BY <1>3
    <3> QED BY <3>1 DEF L!Candidates, L!Newest, L!Matches
  <2>2. L!Take(list, l, d, needed) = IF p.kind # "extension" THEN None
                                     ELSE IF L!Taken(list, l, p) THEN list
                                     ELSE Append(list, x)
    BY <1>3 DEF L!Take
  <2> HIDE DEF p
  <2>3. x = [for |-> l, ref |-> p, allow |-> d.allow]
    BY DEF L!Extension
  <2> HIDE DEF x
  <2>4. x \in Entries
    BY <2>1, <2>3 DEF Entries
  <2>5. Known(x)
    <3> SUFFICES ASSUME NEW k \in DOMAIN Declared[l],
                        p.driver = None, Plainly(l, p) = {k},
                        \A j \in DOMAIN extra.external[l] : extra.external[l][j].name # p.name,
                        \A j \in DOMAIN extra.requested : extra.requested[j] # p.name
                 PROVE  d.allow = Declared[l][k].allow
      BY <2>3 DEF Known
    <3>1. d.name # Nvidia
      BY <1>3, <2>1 DEF L!IsEnabled, L!Enabled
    <3>2. PICK i \in DOMAIN Declared[l] : d = Declared[l][i]
      BY <2>1 DEF Wishes
    <3>3. i \in Plainly(l, p)
      BY <3>1, <3>2, <2>1 DEF Plainly
    <3> QED BY <3>2, <3>3
  <2>6. Listed(list)
    BY <1>3 DEF Lists
  <2>7. ~ L!Taken(list, l, p) => Listed(Append(list, x))
    BY <2>3, <2>4, <2>5, <2>6, ListGrows DEF L!Taken
  <2> QED BY <2>2, <2>7 DEF Lists, Listed
<1> QED BY <1>1, <1>2, <1>3

LEMMA TakeAllKeeps ==
  ASSUME lInstalled \subseteq Packages, NEW list \in Lists, NEW l \in L!Layers,
         NEW definitions \in Seq(Wishes(l)), NEW needed \in BOOLEAN
  PROVE  L!TakeAll(list, l, definitions, needed) \in Lists
<1> DEFINE places == DOMAIN definitions
           pick == [s \in SUBSET places |-> L!Max(s)]
           G == [p \in (SUBSET places) \X Lists |-> L!Take(p[2], l, definitions[pick[p[1]]], needed)]
           Q(g) == g = [s \in SUBSET places |->
                          IF s = {} THEN list
                          ELSE L!Take(g[s \ {L!Max(s)}], l, definitions[L!Max(s)], needed)]
<1>1. places = 1..Len(definitions) /\ Len(definitions) \in Nat /\ IsFiniteSet(places)
      /\ \A k \in places : definitions[k] \in Wishes(l)
  BY FS_Interval
<1>2. \A s \in SUBSET places : s # {} => L!Max(s) \in s
  <2> SUFFICES ASSUME NEW s \in SUBSET places, s # {} PROVE L!Max(s) \in s
    OBVIOUS
  <2>1. \E x \in s : \A y \in s : x >= y
    BY <1>1, LastPlace
  <2> QED BY <2>1 DEF L!Max
<1>3. \A s \in SUBSET places, w \in Lists :
         s # {} => L!Take(w, l, definitions[L!Max(s)], needed) \in Lists
  BY <1>1, <1>2, TakeKeeps
<1>4. \E g : Q(g)
  <2>1. PICK g \in [SUBSET places -> Lists] : Folds(g, places, list, pick, G)
    <3>1. \A s \in SUBSET places, w \in Lists : s # {} => G[<<s, w>>] \in Lists
      BY <1>3
    <3>2. \A s \in SUBSET places : s # {} => pick[s] \in s
      BY <1>2
    <3> HIDE DEF pick, G, places
    <3> QED BY <1>1, <3>1, <3>2, FoldThere
  <2>2. ASSUME NEW s \in SUBSET places
        PROVE  g[s] = IF s = {} THEN list
                      ELSE L!Take(g[s \ {L!Max(s)}], l, definitions[L!Max(s)], needed)
    <3>1. g[s] = IF s = {} THEN list ELSE G[<<s, g[s \ {pick[s]}]>>]
      BY <2>1 DEF Folds
    <3>2. pick[s] = L!Max(s) /\ g[s \ {L!Max(s)}] \in Lists
      OBVIOUS
    <3>3. G[<<s, g[s \ {L!Max(s)}]>>] =
            L!Take(g[s \ {L!Max(s)}], l, definitions[L!Max(s)], needed)
      BY <3>2
    <3> QED BY <3>1, <3>2, <3>3
  <2>3. Q(g)
    <3> HIDE DEF pick, G, places
    <3> QED BY <2>2
  <2> QED BY <2>3
<1> DEFINE H == CHOOSE g : Q(g)
<1>5. L!TakeAll(list, l, definitions, needed) = H[places]
  BY DEF L!TakeAll, L!FoldLeft, L!MapThenFoldSet
<1>6. Q(H)
  <2> HIDE DEF Q
  <2> QED BY <1>4
<1>7. H[{}] = list
  BY <1>6
<1>8. \A s \in SUBSET places : s # {} =>
         H[s] = L!Take(H[s \ {L!Max(s)}], l, definitions[L!Max(s)], needed)
  BY <1>6
<1> HIDE DEF H, Q, places
<1>9. \A s \in SUBSET places : H[s] \in Lists
  <2> DEFINE C == {s \in SUBSET places : H[s] \notin Lists}
  <2> SUFFICES ASSUME C # {} PROVE FALSE
    OBVIOUS
  <2>1. PICK s \in C : \A u \in C : u \subseteq s => u = s
    <3>1. C \subseteq SUBSET places
      OBVIOUS
    <3>2. IsFiniteSet(places)
      BY <1>1
    <3> HIDE DEF C
    <3> QED BY <3>1, <3>2, MinimalSet
  <2>2. s # {} /\ L!Max(s) \in s
    BY <1>7, <1>2
  <2>3. H[s \ {L!Max(s)}] \in Lists
    BY <2>1, <2>2
  <2> QED BY <2>2, <2>3, <1>8, <1>3
<1> QED BY <1>5, <1>9

\* The run context has of each layer what was resolved for it.
LEMMA OfIs ==
  ASSUME NEW list \in Seq(Entries), NEW l
  PROVE  /\ L!Of(list, l) \in Seq(Packages)
         /\ {L!Of(list, l)[k] : k \in DOMAIN L!Of(list, l)} =
              {list[k].ref : k \in {k \in DOMAIN list : list[k].for = l}}
<1> DEFINE places == DOMAIN list
           Refs == Seq(Packages)
           With(refs, k) == IF list[k].for = l THEN Append(refs, list[k].ref) ELSE refs
           pick == [s \in SUBSET places |-> L!Max(s)]
           G == [p \in (SUBSET places) \X Refs |-> With(p[2], pick[p[1]])]
           Q(g) == g = [s \in SUBSET places |->
                          IF s = {} THEN <<>>
                          ELSE IF list[L!Max(s)].for = l
                               THEN Append(g[s \ {L!Max(s)}], list[L!Max(s)].ref)
                               ELSE g[s \ {L!Max(s)}]]
<1>1. places = 1..Len(list) /\ Len(list) \in Nat /\ IsFiniteSet(places)
  BY FS_Interval
<1>2. \A k \in places : list[k].ref \in Packages
  <2> SUFFICES ASSUME NEW k \in places PROVE list[k].ref \in Packages
    OBVIOUS
  <2>1. list[k] \in Entries
    OBVIOUS
  <2> QED BY <2>1 DEF Entries
<1>3. \A s \in SUBSET places : s # {} => L!Max(s) \in s
  <2> SUFFICES ASSUME NEW s \in SUBSET places, s # {} PROVE L!Max(s) \in s
    OBVIOUS
  <2>1. \E x \in s : \A y \in s : x >= y
    BY <1>1, LastPlace
  <2> QED BY <2>1 DEF L!Max
<1>4. \A k \in places, refs \in Refs : With(refs, k) \in Refs
  BY <1>2
<1>5. \E g : Q(g)
  <2>1. PICK g \in [SUBSET places -> Refs] : Folds(g, places, <<>>, pick, G)
    <3>1. \A s \in SUBSET places, w \in Refs : s # {} => G[<<s, w>>] \in Refs
      BY <1>3, <1>4
    <3>2. \A s \in SUBSET places : s # {} => pick[s] \in s
      BY <1>3
    <3>3. IsFiniteSet(places) /\ <<>> \in Refs
      BY <1>1
    <3> HIDE DEF pick, G, places, Refs
    <3> QED BY <3>1, <3>2, <3>3, FoldThere
  <2>2. ASSUME NEW s \in SUBSET places
        PROVE  g[s] = IF s = {} THEN <<>> ELSE With(g[s \ {L!Max(s)}], L!Max(s))
    <3>1. g[s] = IF s = {} THEN <<>> ELSE G[<<s, g[s \ {pick[s]}]>>]
      BY <2>1 DEF Folds
    <3>2. pick[s] = L!Max(s) /\ g[s \ {L!Max(s)}] \in Refs
      OBVIOUS
    <3>3. G[<<s, g[s \ {L!Max(s)}]>>] = With(g[s \ {L!Max(s)}], L!Max(s))
      BY <3>2
    <3> QED BY <3>1, <3>2, <3>3
  <2>3. Q(g)
    <3> HIDE DEF pick, G, places
    <3> QED BY <2>2
  <2> QED BY <2>3
<1> DEFINE H == CHOOSE g : Q(g)
<1>6. L!Of(list, l) = H[places]
  BY DEF L!Of, L!FoldLeft, L!MapThenFoldSet
<1>7. Q(H)
  <2> HIDE DEF Q
  <2> QED BY <1>5
<1>8. H[{}] = <<>> /\ \A s \in SUBSET places : s # {} => H[s] = With(H[s \ {L!Max(s)}], L!Max(s))
  BY <1>7
<1> DEFINE Good(s) == /\ H[s] \in Refs
                      /\ {H[s][k] : k \in DOMAIN H[s]} =
                           {list[k].ref : k \in {k \in s : list[k].for = l}}
<1> HIDE DEF H, Q, places
<1>9. \A s \in SUBSET places : Good(s)
  <2> DEFINE C == {s \in SUBSET places : ~ Good(s)}
  <2> SUFFICES ASSUME C # {} PROVE FALSE
    OBVIOUS
  <2>1. PICK s \in C : \A u \in C : u \subseteq s => u = s
    <3>1. C \subseteq SUBSET places
      OBVIOUS
    <3>2. IsFiniteSet(places)
      BY <1>1
    <3> HIDE DEF C
    <3> QED BY <3>1, <3>2, MinimalSet
  <2>2. s \in SUBSET places /\ ~ Good(s)
    OBVIOUS
  <2>3. s # {}
    <3>1. Good({})
      BY <1>8
    <3> QED BY <2>2, <3>1
  <2> DEFINE x == L!Max(s)
             rest == s \ {x}
  <2>4. x \in s /\ x \in places
    BY <1>3, <2>3
  <2>5. Good(rest)
    <3>1. rest \in SUBSET places /\ rest \subseteq s /\ rest # s
      BY <2>2, <2>4
    <3>2. rest \notin C
      <4> HIDE DEF C, Good, x
      <4> QED BY <2>1, <3>1
    <3> HIDE DEF Good, x
    <3> QED BY <3>1, <3>2
  <2>6. H[s] = With(H[rest], x)
    BY <1>8, <2>3
  <2> HIDE DEF x
  <2> DEFINE before == H[rest]
             after == H[s]
  <2>7. before \in Refs /\ list[x].ref \in Packages
    BY <2>5, <1>2, <2>4
  <2>8. {before[k] : k \in DOMAIN before} = {list[k].ref : k \in {k \in rest : list[k].for = l}}
    BY <2>5
  <2>9. after \in Refs /\ {after[k] : k \in DOMAIN after} =
           IF list[x].for = l THEN {before[k] : k \in DOMAIN before} \union {list[x].ref}
                              ELSE {before[k] : k \in DOMAIN before}
    <3>1. CASE list[x].for = l
      <4>1. after = Append(before, list[x].ref)
        BY <2>6, <3>1
      <4> HIDE DEF before, after
      <4>2. /\ after \in Refs /\ DOMAIN after = DOMAIN before \union {Len(before) + 1}
            /\ \A k \in DOMAIN before : after[k] = before[k] /\ after[Len(before) + 1] = list[x].ref
            /\ after[Len(before) + 1] = list[x].ref
        BY <4>1, <2>7
      <4>3. {after[k] : k \in DOMAIN after} = {before[k] : k \in DOMAIN before} \union {list[x].ref}
        BY <4>2
      <4> QED BY <4>2, <4>3, <3>1
    <3>2. CASE list[x].for # l
      BY <2>6, <2>7, <3>2
    <3> QED BY <3>1, <3>2
  <2>10. {list[k].ref : k \in {k \in s : list[k].for = l}} =
           IF list[x].for = l
           THEN {list[k].ref : k \in {k \in rest : list[k].for = l}} \union {list[x].ref}
           ELSE {list[k].ref : k \in {k \in rest : list[k].for = l}}
    BY <2>4
  <2>11. Good(s)
    BY <2>8, <2>9, <2>10
  <2> QED BY <2>11, <2>2
<1>10. Good(places)
  BY <1>9
<1> QED BY <1>6, <1>10 DEF places

\* Lists that are put together have all their members, and no other.
LEMMA FlattenIs ==
  ASSUME NEW S, NEW seqs \in Seq(Seq(S))
  PROVE  /\ L!FlattenSeq(seqs) \in Seq(S)
         /\ {L!FlattenSeq(seqs)[j] : j \in DOMAIN L!FlattenSeq(seqs)} =
              UNION {{seqs[k][j] : j \in DOMAIN seqs[k]} : k \in DOMAIN seqs}
<1> DEFINE n == Len(seqs)
           Joined(f, m) == f = [i \in 1..m |-> IF i = 1 THEN seqs[i] ELSE f[i - 1] \o seqs[i]]
<1>1. n \in Nat /\ DOMAIN seqs = 1..n /\ \A i \in 1..n : seqs[i] \in Seq(S)
  OBVIOUS
<1> HIDE DEF n
<1>2. \A m \in Nat : \E f : Joined(f, m)
  <2> DEFINE N == {m \in Nat : \E f : Joined(f, m)}
  <2>1. 0 \in N
    <3> DEFINE f == [i \in 1..0 |-> seqs[i]]
    <3>1. Joined(f, 0)
      OBVIOUS
    <3> HIDE DEF f
    <3> QED BY <3>1
  <2>2. ASSUME NEW m \in N PROVE m + 1 \in N
    <3>1. PICK f : Joined(f, m)
      OBVIOUS
    <3> DEFINE h == [i \in 1..(m + 1) |-> IF i = 1 THEN seqs[i]
                                          ELSE IF i <= m THEN f[i]
                                          ELSE f[m] \o seqs[i]]
    <3>2. ASSUME NEW i \in 1..(m + 1), i # 1
          PROVE  h[i] = h[i - 1] \o seqs[i]
      <4>1. m \in Nat /\ i - 1 \in 1..m /\ i - 1 \in 1..(m + 1)
        BY <3>2
      <4>2. \A k \in 1..m : f[k] = IF k = 1 THEN seqs[k] ELSE f[k - 1] \o seqs[k]
        BY <3>1
      <4>3. h[i] = IF i <= m THEN f[i] ELSE f[m] \o seqs[i]
        BY <3>2
      <4>4. h[i - 1] = f[i - 1]
        <5>1. CASE i - 1 = 1
          BY <5>1, <4>1, <4>2
        <5>2. CASE i - 1 # 1
          BY <5>2, <4>1
        <5> QED BY <5>1, <5>2
      <4> HIDE DEF h, Joined, N
      <4>5. CASE i <= m
        <5>1. i \in 1..m
          BY <4>1, <4>5
        <5>2. f[i] = f[i - 1] \o seqs[i]
          BY <5>1, <4>2, <3>2
        <5> QED BY <5>2, <4>3, <4>4, <4>5
      <4>6. CASE ~ (i <= m)
        <5>1. i - 1 = m
          BY <4>1, <4>6
        <5> QED BY <5>1, <4>3, <4>4, <4>6
      <4> QED BY <4>5, <4>6
    <3>3. Joined(h, m + 1)
      <4>1. h = [i \in 1..(m + 1) |-> h[i]] /\ h[1] = seqs[1]
        OBVIOUS
      <4> HIDE DEF h
      <4> QED BY <4>1, <3>2
    <3> HIDE DEF h, Joined
    <3> QED BY <3>3
  <2>3. N \in SUBSET Nat
    OBVIOUS
  <2> HIDE DEF N
  <2>4. N = Nat
    BY <2>1, <2>2, <2>3, EveryNumber
  <2> QED BY <2>4 DEF N
<1>3. CASE n = 0
  BY <1>1, <1>3 DEF L!FlattenSeq, n
<1>4. CASE n # 0
  <2> DEFINE F == CHOOSE f : Joined(f, n)
  <2>1. L!FlattenSeq(seqs) = F[n]
    BY <1>4 DEF L!FlattenSeq, n
  <2>2. Joined(F, n)
    <3> HIDE DEF Joined
    <3> QED BY <1>1, <1>2
  <2>3. \A i \in 1..n : F[i] = IF i = 1 THEN seqs[i] ELSE F[i - 1] \o seqs[i]
    BY <2>2
  <2> HIDE DEF F, Joined
  <2> DEFINE Members(s) == {s[j] : j \in DOMAIN s}
             All(m) == UNION {Members(seqs[k]) : k \in 1..m}
             Flat(i) == F[i] \in Seq(S) /\ Members(F[i]) = All(i)
             N == {m \in Nat : m + 1 \in 1..n => Flat(m + 1)}
  <2>4. 0 \in N
    <3>1. 1 \in 1..n => F[1] = seqs[1]
      BY <2>3
    <3>2. All(1) = Members(seqs[1])
      <4>1. 1..1 = {1}
        OBVIOUS
      <4> QED BY <4>1
    <3> QED BY <3>1, <3>2, <1>1
  <2>5. ASSUME NEW m \in N PROVE m + 1 \in N
    <3> DEFINE i == m + 2
    <3> SUFFICES ASSUME i \in 1..n PROVE Flat(i)
      <4>1. m + 1 \in Nat /\ (m + 1) + 1 = m + 2
        OBVIOUS
      <4> HIDE DEF Flat
      <4> QED BY <4>1
    <3>1. m \in Nat /\ i - 1 = m + 1 /\ m + 1 \in 1..n /\ i # 1 /\ i \in Nat
      BY <1>1
    <3>7. Flat(m + 1)
      <4> HIDE DEF Flat
      <4> QED BY <3>1
    <3> HIDE DEF i, N
    <3>2. F[i] = F[m + 1] \o seqs[i]
      BY <2>3, <3>1
    <3>3. F[m + 1] \in Seq(S) /\ Members(F[m + 1]) = All(m + 1) /\ seqs[i] \in Seq(S)
      BY <3>7, <1>1
    <3>4. ASSUME NEW s \in Seq(S), NEW t \in Seq(S)
          PROVE  s \o t \in Seq(S) /\ Members(s \o t) = Members(s) \union Members(t)
      <4> DEFINE st == s \o t
      <4>1. st \in Seq(S) /\ DOMAIN st = 1..(Len(s) + Len(t))
            /\ \A j \in 1..(Len(s) + Len(t)) : st[j] = IF j <= Len(s) THEN s[j] ELSE t[j - Len(s)]
        OBVIOUS
      <4> HIDE DEF st
      <4>2. ASSUME NEW x \in Members(st) PROVE x \in Members(s) \union Members(t)
        <5>1. PICK j \in 1..(Len(s) + Len(t)) : x = st[j]
          BY <4>1
        <5>2. CASE j <= Len(s)
          BY <5>1, <5>2, <4>1
        <5>3. CASE ~ (j <= Len(s))
          <6>1. j - Len(s) \in DOMAIN t /\ x = t[j - Len(s)]
            BY <5>1, <5>3, <4>1
          <6> QED BY <6>1
        <5> QED BY <5>2, <5>3
      <4>3. ASSUME NEW j \in DOMAIN s PROVE s[j] \in Members(st)
        <5>1. j \in 1..Len(s) /\ Len(s) \in Nat /\ Len(t) \in Nat
          OBVIOUS
        <5>2. j \in DOMAIN st /\ st[j] = s[j]
          BY <4>1, <5>1
        <5> QED BY <5>2
      <4>4. ASSUME NEW j \in DOMAIN t PROVE t[j] \in Members(st)
        <5>1. Len(s) + j \in DOMAIN st /\ st[Len(s) + j] = t[j]
          BY <4>1
        <5> QED BY <5>1
      <4> QED BY <4>1, <4>2, <4>3, <4>4 DEF st
    <3>5. 1..i = 1..(m + 1) \union {i}
      BY <3>1
    <3>6. All(i) = All(m + 1) \union Members(seqs[i])
      BY <3>5
    <3>8. /\ F[m + 1] \o seqs[i] \in Seq(S)
          /\ Members(F[m + 1] \o seqs[i]) = Members(F[m + 1]) \union Members(seqs[i])
      <4> HIDE DEF Members
      <4> QED BY <3>3, <3>4
    <3> HIDE DEF Members, All
    <3> QED BY <3>2, <3>3, <3>6, <3>8
  <2>6. N \in SUBSET Nat
    OBVIOUS
  <2>7. n - 1 \in Nat
    BY <1>1, <1>4
  <2>8. n - 1 \in N
    <3> HIDE DEF N
    <3> QED BY <2>4, <2>5, <2>6, <2>7, EveryNumber
  <2>9. Flat(n)
    <3>1. (n - 1) + 1 = n /\ n \in 1..n
      BY <2>7, <1>1
    <3> HIDE DEF Flat
    <3> QED BY <2>8, <3>1
  <2> QED BY <2>1, <2>9, <1>1
<1> QED BY <1>3, <1>4

LEMMA WishLists ==
  ASSUME extra \in [external : External, requested : Extensions], NEW l \in L!Layers
  PROVE  /\ Declared[l] \o extra.external[l] \in Seq(Wishes(l))
         /\ [k \in DOMAIN extra.requested |->
                [name |-> extra.requested[k], version |-> None, allow |-> None]] \in Seq(Wishes(l))
<1> DEFINE own == Declared[l]
           more == extra.external[l]
           names == extra.requested
           wish(n) == [name |-> n, version |-> None, allow |-> None]
<1>1. /\ own \in Seq({own[k] : k \in DOMAIN own}) /\ more \in Seq({more[k] : k \in DOMAIN more})
      /\ names \in Seq({names[k] : k \in DOMAIN names})
  BY LaunchAssumption
<1>2. Wishes(l) = {own[k] : k \in DOMAIN own} \union {more[k] : k \in DOMAIN more}
                  \union {wish(names[k]) : k \in DOMAIN names}
  BY DEF Wishes
<1> HIDE DEF own, more, names, wish
<1>3. own \in Seq(Wishes(l)) /\ more \in Seq(Wishes(l))
  BY <1>1, <1>2
<1>4. own \o more \in Seq(Wishes(l))
  BY <1>3
<1>5. [k \in DOMAIN names |-> wish(names[k])] \in Seq(Wishes(l))
  <2>1. Len(names) \in Nat /\ DOMAIN names = 1..Len(names)
    BY <1>1
  <2>2. \A k \in 1..Len(names) : wish(names[k]) \in Wishes(l)
    BY <1>2, <2>1
  <2> QED BY <2>1, <2>2
<1> QED BY <1>4, <1>5 DEF own, more, names, wish

LEMMA ResolvedLists ==
  ASSUME lInstalled \subseteq Packages, extra \in [external : External, requested : Extensions]
  PROVE  L!ResolveRequested \in Lists
<1>1. <<>> \in Lists
  <2>1. <<>> \in Seq(Entries) /\ DOMAIN <<>> = {}
    OBVIOUS
  <2> QED BY <2>1 DEF Lists, Listed
<1>2. ASSUME NEW list \in Lists, NEW l \in L!Layers PROVE L!ResolveDeclared(list, l) \in Lists
  BY WishLists, TakeAllKeeps DEF L!ResolveDeclared
<1>3. "base" \in L!Layers /\ "runtime" \in L!Layers /\ "app" \in L!Layers
  BY DEF L!Layers
<1> DEFINE base == L!ResolveDeclared(<<>>, "base")
           rt == L!ResolveDeclared(base, "runtime")
           app == L!ResolveDeclared(rt, "app")
           wishes == [k \in DOMAIN extra.requested |->
                         [name |-> extra.requested[k], version |-> None, allow |-> None]]
<1>4. base \in Lists
  BY <1>1, <1>2, <1>3
<1>5. rt \in Lists
  BY <1>2, <1>3, <1>4
<1>6. app \in Lists
  BY <1>2, <1>3, <1>5
<1>7. L!TakeAll(app, "app", wishes, TRUE) \in Lists
  <2>1. wishes \in Seq(Wishes("app"))
    BY <1>3, WishLists
  <2> HIDE DEF app, wishes
  <2> QED BY <1>3, <1>6, <2>1, TakeAllKeeps
<1>8. L!ResolveRequested = L!TakeAll(app, "app", wishes, TRUE)
  BY DEF L!ResolveRequested
<1> QED BY <1>7, <1>8

\* The run context has, of each layer, what was resolved for it.
Has(c, list) ==
    \A l \in L!Layers :
        LET refs == c.extensions[l] IN
        /\ refs \in Seq(Packages)
        /\ {refs[k] : k \in DOMAIN refs} =
             {list[k].ref : k \in {k \in DOMAIN list : list[k].for = l}}
Ready == Listed(resolved) /\ Has(context, resolved)

\* Clear, whatever the driver of the host is.
Clearly(l, p) ==
    /\ p.driver = None /\ \E k \in DOMAIN Declared[l] : Plainly(l, p) = {k}
    /\ \A k \in DOMAIN extra.external[l] : extra.external[l][k].name # p.name
    /\ \A k \in DOMAIN extra.requested : extra.requested[k] # p.name

AsResolved(list) ==
    /\ L!Pairs(list) = L!Pairs(resolved)
    /\ \A j \in DOMAIN list, k \in DOMAIN resolved :
           /\ list[j].for = resolved[k].for /\ list[j].ref = resolved[k].ref
           /\ Clearly(list[j].for, list[j].ref)
           => list[j].allow = resolved[k].allow

LEMMA ClearIs == ASSUME NEW l, NEW p PROVE L!Clear(l, p) <=> Clearly(l, p)
<1>1. p.driver = None => L!Definitions(l, p) = Plainly(l, p)
  BY PlainDefinitions
<1>2. p.name \notin L!Range(extra.requested)
        <=> \A k \in DOMAIN extra.requested : extra.requested[k] # p.name
  BY DEF L!Range
<1> QED BY <1>1, <1>2 DEF L!Clear, Clearly

LEMMA ReadyIs == ASSUME NEW list, Listed(list) PROVE Has(L!ContextOf(list), list)
<1>1. list \in Seq(Entries)
  BY DEF Listed
<1> SUFFICES ASSUME NEW l \in L!Layers
             PROVE  LET refs == L!Of(list, l) IN
                    /\ refs \in Seq(Packages)
                    /\ {refs[k] : k \in DOMAIN refs} =
                         {list[k].ref : k \in {k \in DOMAIN list : list[k].for = l}}
  BY DEF L!ContextOf, Has
<1> QED BY <1>1, OfIs

\* What is resolved with the capability is what the container has.
LEMMA OnceResolved == ASSUME Listed(resolved) PROVE AsResolved(resolved)
  BY DEF AsResolved, Listed

\* What is resolved again is what the context names, and nothing else.
LEMMA AgainIs ==
  ASSUME Ready
  PROVE  LET list == L!ResolveExternal
             pairs == {q \in L!Layers \X Packages :
                          \E k \in DOMAIN context.extensions[q[1]] :
                              context.extensions[q[1]][k] = q[2]}
         IN  {list[j] : j \in DOMAIN list} =
               {[for |-> q[1], ref |-> q[2], allow |-> L!AllowOf(q[1], q[2])] : q \in pairs}
<1> DEFINE list == L!ResolveExternal
           names(l) == context.extensions[l]
           made(l, p) == [for |-> l, ref |-> p, allow |-> L!AllowOf(l, p)]
           pairs == {q \in L!Layers \X Packages : \E k \in DOMAIN names(q[1]) : names(q[1])[k] = q[2]}
           X == {made(q[1], q[2]) : q \in L!Layers \X Packages}
           part(i) == [j \in DOMAIN names(KeyOrder[i]) |-> made(KeyOrder[i], names(KeyOrder[i])[j])]
           parts == [i \in DOMAIN KeyOrder |-> part(i)]
<1>1. list = L!FlattenSeq(parts)
  BY DEF L!ResolveExternal
<1>2. \A l \in L!Layers : names(l) \in Seq(Packages)
  BY DEF Ready, Has
<1>3. /\ KeyOrder \in Seq(L!Layers)
      /\ \A l \in L!Layers : \E k \in DOMAIN KeyOrder : KeyOrder[k] = l
  BY LaunchAssumption
<1> HIDE DEF names
<1>4. \A q \in L!Layers \X Packages : made(q[1], q[2]) \in X
  OBVIOUS
<1>5. \A l \in L!Layers, p \in Packages : made(l, p) \in X
  <2> SUFFICES ASSUME NEW l \in L!Layers, NEW p \in Packages PROVE made(l, p) \in X
    OBVIOUS
  <2>1. <<l, p>> \in L!Layers \X Packages /\ <<l, p>>[1] = l /\ <<l, p>>[2] = p
    OBVIOUS
  <2> HIDE DEF made, X
  <2> QED BY <2>1, <1>4
<1> HIDE DEF made
<1>6. ASSUME NEW i \in DOMAIN KeyOrder
      PROVE  part(i) \in Seq(X)
  <2> DEFINE l == KeyOrder[i]
  <2>1. l \in L!Layers
    BY <1>3
  <2> HIDE DEF l, X
  <2>2. /\ Len(names(l)) \in Nat /\ DOMAIN names(l) = 1..Len(names(l))
        /\ \A j \in 1..Len(names(l)) : names(l)[j] \in Packages
    BY <2>1, <1>2
  <2>3. \A j \in 1..Len(names(l)) : made(l, names(l)[j]) \in X
    BY <2>1, <2>2, <1>5
  <2>4. [j \in DOMAIN names(l) |-> made(l, names(l)[j])] \in Seq(X)
    BY <2>2, <2>3
  <2> QED BY <2>4 DEF l
<1>7. parts \in Seq(Seq(X)) /\ DOMAIN parts = DOMAIN KeyOrder
  <2>1. Len(KeyOrder) \in Nat /\ DOMAIN KeyOrder = 1..Len(KeyOrder)
    BY <1>3
  <2> HIDE DEF part, X
  <2> QED BY <2>1, <1>6
<1>8. {list[j] : j \in DOMAIN list} = UNION {{parts[k][j] : j \in DOMAIN parts[k]} : k \in DOMAIN parts}
  <2> DEFINE flat == L!FlattenSeq(parts)
  <2>1. {flat[j] : j \in DOMAIN flat} = UNION {{parts[k][j] : j \in DOMAIN parts[k]} : k \in DOMAIN parts}
    <3> HIDE DEF parts, X
    <3> QED BY <1>7, FlattenIs
  <2>2. list = flat
    BY <1>1
  <2> HIDE DEF parts, list, flat
  <2> QED BY <2>1, <2>2
<1> HIDE DEF list
<1>9. ASSUME NEW x \in {list[j] : j \in DOMAIN list}
      PROVE  x \in {made(q[1], q[2]) : q \in pairs}
  <2>1. PICK k \in DOMAIN parts : x \in {parts[k][j] : j \in DOMAIN parts[k]}
    <3> HIDE DEF parts
    <3> QED BY <1>8
  <2> DEFINE l == KeyOrder[k]
  <2>2. k \in DOMAIN KeyOrder /\ parts[k] = part(k)
    BY <1>7
  <2>3. PICK j \in DOMAIN part(k) : x = part(k)[j]
    <3> HIDE DEF part, parts
    <3> QED BY <2>1, <2>2
  <2>4. j \in DOMAIN names(l) /\ x = made(l, names(l)[j])
    BY <2>3
  <2>5. l \in L!Layers
    BY <2>2, <1>3
  <2> HIDE DEF l
  <2> DEFINE q == <<l, names(l)[j]>>
  <2>6. q \in L!Layers \X Packages /\ q[1] = l /\ q[2] = names(l)[j]
    BY <2>4, <2>5, <1>2
  <2> HIDE DEF q
  <2>7. q \in pairs
    BY <2>6, <2>4
  <2>8. x = made(q[1], q[2])
    BY <2>6, <2>4
  <2> HIDE DEF pairs
  <2> QED BY <2>7, <2>8
<1>10. ASSUME NEW q \in pairs PROVE made(q[1], q[2]) \in {list[j] : j \in DOMAIN list}
  <2>1. PICK k \in DOMAIN KeyOrder : KeyOrder[k] = q[1]
    BY <1>3
  <2>2. PICK j \in DOMAIN names(q[1]) : names(q[1])[j] = q[2]
    OBVIOUS
  <2>3. k \in DOMAIN parts /\ parts[k] = part(k)
    BY <1>7
  <2>4. j \in DOMAIN part(k) /\ part(k)[j] = made(q[1], q[2])
    BY <2>1, <2>2
  <2> HIDE DEF parts, part
  <2> QED BY <2>3, <2>4, <1>8
<1>11. {list[j] : j \in DOMAIN list} = {made(q[1], q[2]) : q \in pairs}
  <2> HIDE DEF pairs
  <2> QED BY <1>9, <1>10
<1> QED BY <1>11 DEF list, names, made

LEMMA AgainResolved == ASSUME Ready PROVE AsResolved(L!ResolveExternal)
<1> DEFINE list == L!ResolveExternal
           names(l) == context.extensions[l]
           made(l, p) == [for |-> l, ref |-> p, allow |-> L!AllowOf(l, p)]
           pairs == {q \in L!Layers \X Packages : \E k \in DOMAIN names(q[1]) : names(q[1])[k] = q[2]}
<1>1. {list[j] : j \in DOMAIN list} = {made(q[1], q[2]) : q \in pairs}
  BY AgainIs
<1>2. /\ resolved \in Seq(Entries) /\ \A k \in DOMAIN resolved : Known(resolved[k])
      /\ \A l \in L!Layers : {names(l)[k] : k \in DOMAIN names(l)} =
             {resolved[k].ref : k \in {k \in DOMAIN resolved : resolved[k].for = l}}
  BY DEF Ready, Has, Listed
<1>3. \A k \in DOMAIN resolved : resolved[k].for \in L!Layers /\ resolved[k].ref \in Packages
  <2> SUFFICES ASSUME NEW k \in DOMAIN resolved
               PROVE  resolved[k].for \in L!Layers /\ resolved[k].ref \in Packages
    OBVIOUS
  <2>1. resolved[k] \in Entries
    BY <1>2
  <2> QED BY <2>1 DEF Entries
<1> HIDE DEF list, names
<1>4. pairs = L!Pairs(resolved)
  <2>1. ASSUME NEW q \in pairs PROVE q \in L!Pairs(resolved)
    <3>1. q[2] \in {names(q[1])[k] : k \in DOMAIN names(q[1])} /\ q[1] \in L!Layers /\ q = <<q[1], q[2]>>
      OBVIOUS
    <3>2. PICK k \in DOMAIN resolved : resolved[k].for = q[1] /\ resolved[k].ref = q[2]
      BY <3>1, <1>2
    <3> QED BY <3>1, <3>2 DEF L!Pairs
  <2>2. ASSUME NEW q \in L!Pairs(resolved) PROVE q \in pairs
    <3>1. PICK k \in DOMAIN resolved : q = <<resolved[k].for, resolved[k].ref>>
      BY DEF L!Pairs
    <3>2. q[1] = resolved[k].for /\ q[2] = resolved[k].ref /\ q \in L!Layers \X Packages
      BY <3>1, <1>3
    <3>3. q[2] \in {names(q[1])[i] : i \in DOMAIN names(q[1])}
      BY <3>2, <1>2
    <3> QED BY <3>2, <3>3
  <2> HIDE DEF pairs
  <2> QED BY <2>1, <2>2
<1>5. \A j \in DOMAIN list : \E q \in pairs : list[j] = made(q[1], q[2])
  <2> HIDE DEF pairs, made
  <2> QED BY <1>1
<1>6. \A q \in pairs : \E j \in DOMAIN list : list[j] = made(q[1], q[2])
  <2> HIDE DEF pairs, made
  <2> QED BY <1>1
<1>7. \A q \in pairs : /\ made(q[1], q[2]).for = q[1] /\ made(q[1], q[2]).ref = q[2]
                       /\ q = <<q[1], q[2]>>
  OBVIOUS
<1>8. L!Pairs(list) = pairs
  <2> HIDE DEF pairs, made
  <2> QED BY <1>5, <1>6, <1>7 DEF L!Pairs
<1>9. ASSUME NEW j \in DOMAIN list, NEW k \in DOMAIN resolved,
             list[j].for = resolved[k].for, list[j].ref = resolved[k].ref,
             Clearly(list[j].for, list[j].ref)
      PROVE  list[j].allow = resolved[k].allow
  <2> DEFINE l == resolved[k].for
             p == resolved[k].ref
  <2>1. list[j].allow = L!AllowOf(l, p)
    <3>1. PICK q \in pairs : list[j] = made(q[1], q[2])
      BY <1>5
    <3>2. list[j].for = q[1] /\ list[j].ref = q[2] /\ list[j].allow = L!AllowOf(q[1], q[2])
      BY <3>1
    <3> QED BY <3>2, <1>9
  <2>2. Clearly(l, p) /\ Known(resolved[k])
    BY <1>9, <1>2
  <2> HIDE DEF l, p
  <2>3. PICK i \in DOMAIN Declared[l] : Plainly(l, p) = {i}
    BY <2>2 DEF Clearly
  <2>4. resolved[k].allow = Declared[l][i].allow
    BY <2>2, <2>3 DEF Clearly, Known, l, p
  <2>5. L!Definitions(l, p) = {i}
    BY <2>2, <2>3, PlainDefinitions DEF Clearly
  <2>6. i \in Nat
    <3>1. l \in L!Layers
      BY <1>3 DEF l
    <3>2. Declared[l] \in Seq({Declared[l][m] : m \in DOMAIN Declared[l]})
      BY <3>1, LaunchAssumption
    <3> QED BY <3>2
  <2>7. L!Min({i}) = i
    BY <2>6 DEF L!Min
  <2>8. L!AllowOf(l, p) = Declared[l][i].allow
    BY <2>5, <2>7 DEF L!AllowOf
  <2> QED BY <2>1, <2>4, <2>8
<1>10. AsResolved(list)
  BY <1>4, <1>8, <1>9 DEF AsResolved
<1> QED BY <1>10 DEF list

----------------------------------------------------------------------------
\* What is decided is resolved, and what is configured is what was decided.
LaunchInv ==
    /\ lInstalled \subseteq Packages /\ extra \in [external : External, requested : Extensions]
    /\ parent = "resolve" => inside = None
    /\ child # "none" \/ parent \in {"clone", "run"} \/ inside # None => Ready
    /\ child = "configure" \/ inside # None =>
           /\ inside = [list |-> inside.list, device |-> inside.device]
           /\ AsResolved(inside.list) /\ inside.device \in {None, context.device}

LEMMA LaunchInit == ContainersInit => LaunchInv
  BY DEF ContainersInit, L!Init, LaunchInv

LEMMA ReadySame == UNCHANGED <<extra, resolved, context>> /\ Ready => Ready'
<1> SUFFICES ASSUME UNCHANGED <<extra, resolved, context>>, Ready PROVE Ready'
  OBVIOUS
<1>1. Listed(resolved)'
  <2>1. \A l : Wishes(l)' = Wishes(l)
    BY DEF Wishes
  <2>2. Entries' = Entries
    BY <2>1 DEF Entries
  <2>3. \A x : Known(x)' <=> Known(x)
    BY DEF Known, Plainly
  <2>4. resolved' = resolved
    OBVIOUS
  <2> QED BY <2>2, <2>3, <2>4 DEF Listed, Ready
<1> QED BY <1>1 DEF Ready

LEMMA AsResolvedSame ==
  ASSUME UNCHANGED <<extra, resolved>>, NEW list PROVE AsResolved(list)' <=> AsResolved(list)
  BY DEF AsResolved, Clearly, Plainly, L!Pairs

LEMMA LaunchNext == HandsOver /\ LaunchInv /\ [L!Next]_lVars => LaunchInv'
<1> SUFFICES ASSUME HandsOver, LaunchInv, [L!Next]_lVars PROVE LaunchInv'
  OBVIOUS
<1>1. /\ lInstalled \subseteq Packages /\ extra \in [external : External, requested : Extensions]
      /\ parent = "resolve" => inside = None /\ child = "none"
      /\ child # "none" \/ parent \in {"clone", "run"} \/ inside # None => Ready
      /\ child = "configure" \/ inside # None =>
             /\ inside = [list |-> inside.list, device |-> inside.device]
             /\ AsResolved(inside.list) /\ inside.device \in {None, context.device}
  BY DEF LaunchInv, HandsOver
\* Steps that decide nothing, and configure nothing.
<1> DEFINE Goes == /\ UNCHANGED <<extra, resolved, context, inside>> /\ lInstalled' \subseteq Packages
                   /\ parent' # "resolve" \/ parent = "resolve"
                   /\ parent' \in {"clone", "run"} => parent' = parent
                   /\ child' # "none" => child # "none" \/ parent = "clone"
                   /\ child' = "configure" => child = "configure"
<1>2. ASSUME Goes PROVE LaunchInv'
  <2>1. child' # "none" \/ parent' \in {"clone", "run"} \/ inside' # None => Ready'
    BY <1>1, <1>2, ReadySame
  <2>2. child' = "configure" \/ inside' # None => AsResolved(inside.list)'
    BY <1>1, <1>2, AsResolvedSame
  <2> QED BY <1>1, <1>2, <2>1, <2>2 DEF LaunchInv
<1>3. CASE L!Resolve
  <2>1. CASE L!ResolveRequested = None
    <3>1. Goes /\ parent' = "failed" /\ child' = "none"
      BY <1>1, <1>3, <2>1 DEF L!Resolve, L!world
    <3> QED BY <3>1, <1>2
  <2>2. CASE L!ResolveRequested # None
    <3>1. PICK list : list = L!ResolveRequested
      OBVIOUS
    <3>2. PICK c : c = L!ContextOf(list)
      OBVIOUS
    <3>3. Listed(list) /\ Has(c, list)
      <4>1. Listed(list)
        BY <1>1, <2>2, <3>1, ResolvedLists DEF Lists
      <4> QED BY <4>1, <3>2, ReadyIs
    <3>4. /\ resolved' = list /\ context' = c /\ UNCHANGED <<inside, child, extra, lInstalled>>
          /\ inside = None /\ child = "none" /\ parent' \in {"run", "clone"}
      BY <1>1, <1>3, <2>2, <3>1, <3>2 DEF L!Resolve, L!world
    <3>5. Listed(resolved)'
      <4>1. \A l : Wishes(l)' = Wishes(l)
        BY <3>4 DEF Wishes
      <4>2. Entries' = Entries
        BY <4>1 DEF Entries
      <4>3. \A x : Known(x)' <=> Known(x)
        BY <3>4 DEF Known, Plainly
      <4> QED BY <4>2, <4>3, <3>3, <3>4 DEF Listed
    <3>6. Ready'
      BY <3>3, <3>4, <3>5 DEF Ready
    <3> QED BY <1>1, <3>4, <3>6 DEF LaunchInv
  <2> QED BY <2>1, <2>2
<1>4. CASE L!Clone \/ L!Hello \/ L!ReadHello \/ L!Map \/ L!MapFails \/ L!Release
           \/ (\E ok \in BOOLEAN : L!ReadRelease(ok)) \/ L!Waited \/ L!Killed
  <2>1. Goes
    BY <1>1, <1>4 DEF L!Clone, L!Hello, L!ReadHello, L!Map, L!MapFails, L!Release, L!ReadRelease,
                      L!Waited, L!Killed, L!plan, L!world
  <2> QED BY <2>1, <1>2
<1>5. CASE L!ResolveAgain
  <2>1. CASE ~ L!AllThere
    <3>1. Goes
      BY <1>1, <1>5, <2>1 DEF L!ResolveAgain, L!plan, L!world
    <3> QED BY <3>1, <1>2
  <2>2. CASE L!AllThere
    <3>1. PICK list : list = L!ResolveExternal
      OBVIOUS
    <3>2. /\ UNCHANGED <<extra, resolved, context, lInstalled, parent>>
          /\ inside' = [list |-> list, device |-> None] /\ child = "exec" /\ child' = "configure"
      BY <1>5, <2>2, <3>1 DEF L!ResolveAgain, L!plan, L!world
    <3>3. Ready /\ AsResolved(list)
      BY <3>1, <3>2, <1>1, AgainResolved
    <3>4. /\ inside'.list = list /\ inside'.device = None
          /\ inside' = [list |-> inside'.list, device |-> inside'.device]
      BY <3>2
    <3>5. Ready' /\ AsResolved(list)'
      BY <3>2, <3>3, ReadySame, AsResolvedSame
    <3>6. AsResolved(inside.list)'
      BY <3>4, <3>5 DEF AsResolved
    <3>7. parent' # "resolve"
      BY <3>2, <1>1
    <3> QED BY <1>1, <3>2, <3>4, <3>5, <3>6, <3>7 DEF LaunchInv
  <2> QED BY <2>1, <2>2
<1>6. CASE L!Configure
  <2>1. CASE context.device \notin {None, spec}
    <3>1. Goes
      BY <1>1, <1>6, <2>1 DEF L!Configure, L!plan, L!world
    <3> QED BY <3>1, <1>2
  <2>2. CASE context.device \in {None, spec}
    <3>1. /\ UNCHANGED <<extra, resolved, context, lInstalled, parent>> /\ child = "configure" /\ child' = "done"
          /\ inside' = [inside EXCEPT !.device = IF context.device = None THEN None ELSE spec]
      BY <1>6, <2>2 DEF L!Configure, L!plan, L!world
    <3>2. /\ inside = [list |-> inside.list, device |-> inside.device]
          /\ AsResolved(inside.list) /\ Ready /\ parent # "resolve"
      BY <1>1, <3>1
    <3>3. /\ inside' = [list |-> inside'.list, device |-> inside'.device] /\ inside'.list = inside.list
          /\ inside'.device \in {None, context'.device}
      BY <2>2, <3>1, <3>2
    <3>4. Ready' /\ AsResolved(inside.list)'
      <4>1. \A l : AsResolved(l)' <=> AsResolved(l)
        BY <3>1, AsResolvedSame
      <4> QED BY <3>1, <3>2, <3>3, <4>1, ReadySame DEF AsResolved
    <3> QED BY <1>1, <3>1, <3>2, <3>3, <3>4 DEF LaunchInv
  <2> QED BY <2>1, <2>2
<1>7. CASE L!RunDirect
  <2>1. CASE context.device \notin {None, spec}
    <3>1. Goes
      BY <1>1, <1>7, <2>1 DEF L!RunDirect, L!plan, L!world
    <3> QED BY <3>1, <1>2
  <2>2. CASE context.device \in {None, spec}
    <3>1. /\ UNCHANGED <<extra, resolved, context, lInstalled, child>> /\ parent = "run" /\ parent' = "done"
          /\ inside' = [list |-> resolved, device |-> context.device]
      BY <1>7, <2>2 DEF L!RunDirect, L!plan, L!world
    <3>2. Ready /\ AsResolved(resolved)
      BY <3>1, <1>1, OnceResolved DEF Ready
    <3>3. /\ inside'.list = resolved /\ inside'.device = context'.device
          /\ inside' = [list |-> inside'.list, device |-> inside'.device]
      BY <3>1
    <3>4. Ready' /\ AsResolved(inside.list)'
      <4>1. AsResolved(resolved)' <=> AsResolved(resolved)
        BY <3>1 DEF AsResolved, Clearly, Plainly, L!Pairs
      <4> QED BY <3>1, <3>2, <3>3, <4>1, ReadySame DEF AsResolved
    <3>5. child' = "none"
      BY <3>1 DEF HandsOver
    <3> QED BY <1>1, <3>1, <3>3, <3>4, <3>5 DEF LaunchInv
  <2> QED BY <2>1, <2>2
<1>8. CASE L!Change
  <2>1. Goes
    BY <1>1, <1>8 DEF L!Change, L!plan
  <2> QED BY <2>1, <1>2
<1>9. CASE UNCHANGED lVars
  <2>1. Goes
    BY <1>1, <1>9 DEF lVars
  <2> QED BY <2>1, <1>2
<1> QED BY <1>3, <1>4, <1>5, <1>6, <1>7, <1>8, <1>9 DEF L!Next, L!Steps, L!vars, lVars

\* A container has the extensions and the device that the command resolved for
\* it, with the variables their packages allow.
THEOREM SameInsideHolds == ContainersSpec => []SameInside
<1>1. ContainersInit => HandsOver /\ LaunchInv
  BY HandsOverInit, LaunchInit
<1>2. HandsOver /\ LaunchInv /\ [ContainersNext]_containerVars => (HandsOver /\ LaunchInv)'
  BY LaunchRuns, HandsOverNext, LaunchNext
<1>3. LaunchInv => SameInside
  <2> SUFFICES ASSUME LaunchInv, inside # None
               PROVE  /\ L!Pairs(inside.list) = L!Pairs(resolved)
                      /\ inside.device \in {None, context.device}
                      /\ \A j \in DOMAIN inside.list, k \in DOMAIN resolved :
                             /\ inside.list[j].for = resolved[k].for
                             /\ inside.list[j].ref = resolved[k].ref
                             /\ L!Clear(inside.list[j].for, inside.list[j].ref)
                             => inside.list[j].allow = resolved[k].allow
    BY DEF SameInside, L!SameInside
  <2> QED BY ClearIs DEF LaunchInv, AsResolved
<1> QED BY <1>1, <1>2, <1>3, PTL DEF ContainersSpec

----------------------------------------------------------------------------
(* What patches make of a configuration.                                   *)

PatchNames == {f.name : f \in Patches}

\* Documents with all that is in them, and no marks in them but those in X.
Closed(T, X) ==
    \A d \in T : O!IsMadeOf(d, T) /\ (O!IsLeaf(d) /\ d.leaf \in PatchNames => d.leaf \in X)
Clean(d, X) == \E T : Closed(T, X) /\ d \in T

LEMMA Kinds ==
  ASSUME NEW T, NEW d, O!IsMadeOf(d, T)
  PROVE  /\ d # O!Bad
         /\ O!IsObject(d) => /\ ~ O!IsArray(d) /\ ~ O!IsLeaf(d)
                             /\ \A k \in DOMAIN d.obj : d.obj[k] \in T
         /\ O!IsArray(d) => ~ O!IsLeaf(d) /\ d.arr \in Seq(T)
         /\ O!IsObject(d) \/ O!IsArray(d) \/ O!IsLeaf(d)
<1> USE DEF O!IsMadeOf, O!IsObject, O!IsArray, O!IsLeaf, O!Object, O!Array, O!Leaf, O!Bad
<1>1. CASE DOMAIN d = {"obj"}
  BY <1>1
<1>2. CASE DOMAIN d = {"arr"}
  BY <1>2
<1>3. CASE DOMAIN d = {"leaf"}
  BY <1>3
<1>4. DOMAIN d = {"obj"} \/ DOMAIN d = {"arr"} \/ DOMAIN d = {"leaf"}
  OBVIOUS
<1> QED BY <1>1, <1>2, <1>3, <1>4

LEMMA MadeOfMore ==
  ASSUME NEW S, NEW T, S \subseteq T, NEW d, O!IsMadeOf(d, S) PROVE O!IsMadeOf(d, T)
BY DEF O!IsMadeOf

LEMMA ClosedBoth ==
  ASSUME NEW S, NEW T, NEW X, Closed(S, X), Closed(T, X) PROVE Closed(S \union T, X)
<1> SUFFICES ASSUME NEW d \in S \union T
             PROVE  O!IsMadeOf(d, S \union T) /\ (O!IsLeaf(d) /\ d.leaf \in PatchNames => d.leaf \in X)
  BY DEF Closed
<1>1. CASE d \in S
  BY <1>1, MadeOfMore DEF Closed
<1>2. CASE d \in T
  BY <1>2, MadeOfMore DEF Closed
<1> QED BY <1>1, <1>2

LEMMA CleanKeeps == ASSUME NEW X, NEW Y, X \subseteq Y, NEW d, Clean(d, X) PROVE Clean(d, Y)
<1>1. PICK T : Closed(T, X) /\ d \in T
  BY DEF Clean
<1>2. Closed(T, Y)
  BY <1>1 DEF Closed
<1> QED BY <1>1, <1>2 DEF Clean

\* What is made of clean documents is clean.
LEMMA MadeClean ==
  ASSUME NEW X, NEW T, Closed(T, X), NEW d, O!IsMadeOf(d, T), ~ O!IsLeaf(d) PROVE Clean(d, X)
<1>1. Closed(T \union {d}, X)
  <2> SUFFICES ASSUME NEW e \in T \union {d}
               PROVE  /\ O!IsMadeOf(e, T \union {d})
                      /\ O!IsLeaf(e) /\ e.leaf \in PatchNames => e.leaf \in X
    BY DEF Closed
  <2>1. O!IsMadeOf(e, T)
    BY DEF Closed
  <2> QED BY <2>1, MadeOfMore DEF Closed
<1> QED BY <1>1 DEF Clean

LEMMA ObjectClean ==
  ASSUME NEW X, NEW T, Closed(T, X), NEW f, f = [k \in DOMAIN f |-> f[k]],
         \A k \in DOMAIN f : f[k] \in T
  PROVE  Clean(O!Object(f), X)
<1> DEFINE d == O!Object(f)
<1>1. d.obj = f /\ DOMAIN d = {"obj"}
  BY DEF O!Object
<1>2. O!IsMadeOf(d, T) /\ ~ O!IsLeaf(d)
  BY <1>1 DEF O!IsMadeOf, O!IsObject, O!IsLeaf, O!Object
<1> QED BY <1>2, MadeClean

LEMMA ArrayClean ==
  ASSUME NEW X, NEW T, Closed(T, X), NEW s \in Seq(T) PROVE Clean(O!Array(s), X)
<1> DEFINE d == O!Array(s)
<1>1. d.arr = s /\ DOMAIN d = {"arr"}
  BY DEF O!Array
<1>2. O!IsMadeOf(d, T) /\ ~ O!IsLeaf(d)
  BY <1>1 DEF O!IsMadeOf, O!IsArray, O!IsLeaf, O!Array
<1> QED BY <1>2, MadeClean

LEMMA LeafClean ==
  ASSUME NEW X, NEW x, x \in PatchNames => x \in X PROVE Clean(O!Leaf(x), X)
<1>1. Closed({O!Leaf(x)}, X)
  BY DEF Closed, O!IsMadeOf, O!IsLeaf, O!Leaf
<1> QED BY <1>1 DEF Clean

LEMMA CleanIs ==
  ASSUME NEW X, NEW d, Clean(d, X)
  PROVE  \E T : Closed(T, X) /\ d \in T /\ O!IsMadeOf(d, T)
BY DEF Clean, Closed

LEMMA CleanBoth ==
  ASSUME NEW X, NEW d, Clean(d, X), NEW v, Clean(v, X)
  PROVE  \E T : Closed(T, X) /\ d \in T /\ v \in T /\ O!IsMadeOf(d, T)
<1>1. PICK S : Closed(S, X) /\ d \in S
  BY DEF Clean
<1>2. PICK T : Closed(T, X) /\ v \in T
  BY DEF Clean
<1>3. Closed(S \union T, X)
  BY <1>1, <1>2, ClosedBoth
<1> QED BY <1>1, <1>2, <1>3 DEF Closed

LEMMA CleanThere == ASSUME NEW X, NEW d, Clean(d, X) PROVE d # O!Bad
  BY CleanIs, Kinds

----------------------------------------------------------------------------
(* One operation on one document.                                          *)

\* The places of a token in an array.
LEMMA PlaceIs ==
  ASSUME NEW token, NEW n \in Nat, O!InArray(token, n)
  PROVE  O!IndexOf(token) \in 1..n
<1>1. \E k \in DOMAIN O!Digits : O!Digits[k] = token
  BY DEF O!InArray, O!Range
<1>2. O!IndexOf(token) \in DOMAIN O!Digits
  BY <1>1 DEF O!IndexOf
<1>3. DOMAIN O!Digits = 1..3
  BY DEF O!Digits
<1> QED BY <1>2, <1>3 DEF O!InArray

LEMMA MemberClean ==
  ASSUME NEW X, NEW d, Clean(d, X), NEW token, O!Member(d, token) # O!Bad
  PROVE  Clean(O!Member(d, token), X) /\ (O!IsObject(d) \/ O!IsArray(d))
<1>1. PICK T : Closed(T, X) /\ d \in T /\ O!IsMadeOf(d, T)
  BY CleanIs
<1>2. CASE O!IsObject(d) /\ token \in DOMAIN d.obj
  <2>1. O!Member(d, token) = d.obj[token]
    BY <1>1, <1>2, Kinds DEF O!Member
  <2>2. d.obj[token] \in T
    BY <1>1, <1>2, Kinds
  <2> QED BY <1>1, <1>2, <2>1, <2>2 DEF Clean
<1>3. CASE ~ (O!IsObject(d) /\ token \in DOMAIN d.obj) /\ O!IsArray(d) /\ O!InArray(token, Len(d.arr))
  <2>1. O!Member(d, token) = d.arr[O!IndexOf(token)]
    BY <1>3 DEF O!Member
  <2>2. d.arr \in Seq(T)
    BY <1>1, <1>3, Kinds
  <2>3. O!IndexOf(token) \in 1..Len(d.arr)
    BY <1>3, <2>2, PlaceIs
  <2>4. d.arr[O!IndexOf(token)] \in T
    BY <2>2, <2>3
  <2> QED BY <1>1, <1>3, <2>1, <2>4 DEF Clean
<1> QED BY <1>2, <1>3 DEF O!Member

LEMMA NoMemberOfBad == ASSUME NEW token PROVE O!Member(O!Bad, token) = O!Bad
  BY DEF O!Member, O!Bad, O!IsObject, O!IsArray

LEMMA SetMemberClean ==
  ASSUME NEW X, NEW d, Clean(d, X), NEW v, Clean(v, X), NEW token, O!IsObject(d) \/ O!IsArray(d)
  PROVE  Clean(O!SetMember(d, token, v), X)
<1>1. PICK T : Closed(T, X) /\ d \in T /\ v \in T /\ O!IsMadeOf(d, T)
  BY CleanBoth
<1>2. CASE O!IsObject(d)
  <2> DEFINE f == O!With(d.obj, token, v)
  <2>1. \A k \in DOMAIN d.obj : d.obj[k] \in T
    BY <1>1, <1>2, Kinds
  <2>2. f = [k \in DOMAIN f |-> f[k]] /\ \A k \in DOMAIN f : f[k] \in T
    BY <1>1, <2>1 DEF O!With
  <2>3. O!SetMember(d, token, v) = O!Object(f)
    BY <1>2 DEF O!SetMember
  <2> HIDE DEF f
  <2> QED BY <1>1, <2>2, <2>3, ObjectClean
<1>3. CASE ~ O!IsObject(d) /\ O!IsArray(d)
  <2> DEFINE s == [d.arr EXCEPT ![O!IndexOf(token)] = v]
  <2>1. d.arr \in Seq(T)
    BY <1>1, <1>3, Kinds
  <2>2. s \in Seq(T)
    <3> DEFINE i == O!IndexOf(token)
    <3>1. s = [k \in 1..Len(d.arr) |-> IF k = i THEN v ELSE d.arr[k]] /\ Len(d.arr) \in Nat
      BY <2>1
    <3>2. \A k \in 1..Len(d.arr) : d.arr[k] \in T
      BY <2>1
    <3> HIDE DEF i, s
    <3> QED BY <1>1, <3>1, <3>2
  <2>3. O!SetMember(d, token, v) = O!Array(s)
    BY <1>3 DEF O!SetMember
  <2> HIDE DEF s
  <2> QED BY <1>1, <2>2, <2>3, ArrayClean
<1> QED BY <1>2, <1>3

LEMMA AddToClean ==
  ASSUME NEW X, NEW d, Clean(d, X), NEW v, Clean(v, X), NEW token, O!AddTo(d, token, v) # O!Bad
  PROVE  Clean(O!AddTo(d, token, v), X)
<1>1. PICK T : Closed(T, X) /\ d \in T /\ v \in T /\ O!IsMadeOf(d, T)
  BY CleanBoth
<1>2. CASE O!IsObject(d)
  <2>1. ~ O!IsArray(d)
    BY <1>1, <1>2, Kinds
  <2>2. O!AddTo(d, token, v) = O!SetMember(d, token, v)
    BY <1>2, <2>1 DEF O!AddTo
  <2> QED BY <1>2, <2>2, SetMemberClean
<1>3. CASE ~ O!IsObject(d) /\ O!IsArray(d) /\ token = "-"
  <2>1. Append(d.arr, v) \in Seq(T)
    BY <1>1, <1>3, Kinds
  <2>2. ~ O!InArray("-", Len(d.arr) + 1)
    BY DEF O!InArray, O!Range, O!Digits
  <2>3. O!AddTo(d, token, v) = O!Array(Append(d.arr, v))
    BY <1>3, <2>2 DEF O!AddTo
  <2> QED BY <1>1, <2>1, <2>3, ArrayClean
<1>4. CASE /\ ~ O!IsObject(d) /\ O!IsArray(d) /\ token # "-"
           /\ O!InArray(token, Len(d.arr) + 1)
  <2> DEFINE s == d.arr
             i == O!IndexOf(token)
  <2>1. s \in Seq(T) /\ Len(s) \in Nat
    BY <1>1, <1>4, Kinds
  <2>2. i \in 1..(Len(s) + 1)
    BY <1>4, <2>1, PlaceIs
  <2>3. O!AddTo(d, token, v) = O!Array(O!InsertAt(s, i, v))
    BY <1>4 DEF O!AddTo
  <2> HIDE DEF s, i
  <2>4. SubSeq(s, 1, i - 1) \in Seq(T) /\ SubSeq(s, i, Len(s)) \in Seq(T) /\ <<v>> \in Seq(T)
    BY <1>1, <2>1, <2>2
  <2>5. O!InsertAt(s, i, v) \in Seq(T)
    BY <2>4 DEF O!InsertAt
  <2> QED BY <1>1, <2>3, <2>5, ArrayClean
<1> QED BY <1>2, <1>3, <1>4 DEF O!AddTo

LEMMA RemoveFromClean ==
  ASSUME NEW X, NEW d, Clean(d, X), NEW token, O!RemoveFrom(d, token) # O!Bad
  PROVE  Clean(O!RemoveFrom(d, token), X)
<1>1. PICK T : Closed(T, X) /\ d \in T /\ O!IsMadeOf(d, T)
  BY CleanIs
<1>2. O!Member(d, token) # O!Bad
  BY DEF O!RemoveFrom
<1>3. CASE O!IsObject(d)
  <2> DEFINE f == [k \in DOMAIN d.obj \ {token} |-> d.obj[k]]
  <2>1. \A k \in DOMAIN d.obj : d.obj[k] \in T
    BY <1>1, <1>3, Kinds
  <2>2. f = [k \in DOMAIN f |-> f[k]] /\ \A k \in DOMAIN f : f[k] \in T
    BY <2>1
  <2>3. O!RemoveFrom(d, token) = O!Object(f)
    BY <1>2, <1>3 DEF O!RemoveFrom
  <2> HIDE DEF f
  <2> QED BY <1>1, <2>2, <2>3, ObjectClean
<1>4. CASE ~ O!IsObject(d)
  <2> DEFINE s == d.arr
             i == O!IndexOf(token)
  <2>1. O!IsArray(d) /\ O!InArray(token, Len(s))
    BY <1>2, <1>4 DEF O!Member
  <2>2. s \in Seq(T) /\ Len(s) \in Nat
    BY <1>1, <2>1, Kinds
  <2>3. i \in 1..Len(s)
    BY <2>1, <2>2, PlaceIs
  <2>4. O!RemoveFrom(d, token) = O!Array(O!RemoveAt(s, i))
    BY <1>2, <1>4 DEF O!RemoveFrom
  <2> HIDE DEF s, i
  <2>5. SubSeq(s, 1, i - 1) \in Seq(T) /\ SubSeq(s, i + 1, Len(s)) \in Seq(T)
    BY <2>2, <2>3
  <2>6. O!RemoveAt(s, i) \in Seq(T)
    BY <2>5 DEF O!RemoveAt
  <2> QED BY <1>1, <2>4, <2>6, ArrayClean
<1> QED BY <1>3, <1>4

LEMMA ReplaceClean ==
  ASSUME NEW X, NEW d, Clean(d, X), NEW v, Clean(v, X), NEW token, O!Replace(d, token, v) # O!Bad
  PROVE  Clean(O!Replace(d, token, v), X)
<1>1. O!Member(d, token) # O!Bad
  BY DEF O!Replace
<1> QED BY <1>1, MemberClean, SetMemberClean DEF O!Replace

----------------------------------------------------------------------------
(* One path, and one list of operations.                                   *)

\* What the folds of OciPatches do with what they have so far: they go one token
\* down, put it into what contains it, or apply an operation to it.
Stepped(x, w) ==
    CASE x.does = "down" -> O!Member(w, x.token)
      [] x.does = "up" -> O!SetMember(x.container, x.token, w)
      [] x.does = "apply" -> IF w = O!Bad THEN O!Bad ELSE O!ApplyOperation(w, x.operation)
StepFolds(g, S, b, xs, pick) ==
    g = [s \in SUBSET S |-> IF s = {} THEN b ELSE Stepped(xs[pick[s]], g[s \ {pick[s]}])]

LEMMA StepsOnce ==
  ASSUME NEW S, IsFiniteSet(S), NEW b, NEW xs, NEW pick,
         \A s \in SUBSET S : s # {} => pick[s] \in s,
         NEW T \in SUBSET S, NEW U \in SUBSET S,
         NEW g, StepFolds(g, T, b, xs, pick), NEW h, StepFolds(h, U, b, xs, pick)
  PROVE  \A s \in SUBSET (T \intersect U) : g[s] = h[s]
<1> DEFINE C == {s \in SUBSET (T \intersect U) : g[s] # h[s]}
<1>0. /\ \A s \in SUBSET T : g[s] = IF s = {} THEN b ELSE Stepped(xs[pick[s]], g[s \ {pick[s]}])
      /\ \A s \in SUBSET U : h[s] = IF s = {} THEN b ELSE Stepped(xs[pick[s]], h[s \ {pick[s]}])
  BY DEF StepFolds
<1> SUFFICES ASSUME C # {} PROVE FALSE
  OBVIOUS
<1>1. PICK s \in C : \A u \in C : u \subseteq s => u = s
  <2>1. C \subseteq SUBSET S
    OBVIOUS
  <2> HIDE DEF C
  <2> QED BY <2>1, MinimalSet
<1>2. s \in SUBSET T /\ s \in SUBSET U /\ s \in SUBSET S
  OBVIOUS
<1>3. s # {}
  BY <1>0, <1>2
<1>4. pick[s] \in s
  BY <1>2, <1>3
<1>5. s \ {pick[s]} \notin C
  BY <1>1, <1>4
<1>6. g[s \ {pick[s]}] = h[s \ {pick[s]}]
  BY <1>5, <1>2
<1>7. /\ g[s] = Stepped(xs[pick[s]], g[s \ {pick[s]}])
      /\ h[s] = Stepped(xs[pick[s]], h[s \ {pick[s]}])
  BY <1>0, <1>2, <1>3
<1> QED BY <1>6, <1>7

LEMMA StepsThere ==
  ASSUME NEW S, IsFiniteSet(S), NEW b, NEW xs, NEW pick,
         \A s \in SUBSET S : s # {} => pick[s] \in s
  PROVE  \E g : StepFolds(g, S, b, xs, pick)
<1> DEFINE Can(T) == \E g : StepFolds(g, T, b, xs, pick)
           C == {T \in SUBSET S : ~ Can(T)}
<1> SUFFICES ASSUME C # {} PROVE FALSE
  OBVIOUS
<1>1. PICK T \in C : \A U \in C : U \subseteq T => U = T
  <2>1. C \subseteq SUBSET S
    OBVIOUS
  <2> HIDE DEF C
  <2> QED BY <2>1, MinimalSet
<1>2. \A U \in SUBSET T : U # T => Can(U)
  BY <1>1
<1> DEFINE Of(U) == CHOOSE g : StepFolds(g, U, b, xs, pick)
<1>3. \A U \in SUBSET T : U # T => StepFolds(Of(U), U, b, xs, pick)
  BY <1>2
<1> HIDE DEF Of
<1> DEFINE rest == Of(T \ {pick[T]})
           f == [s \in SUBSET T |-> IF s # T THEN Of(s)[s]
                                    ELSE IF T = {} THEN b ELSE Stepped(xs[pick[T]], rest[T \ {pick[T]}])]
<1>4. \A s \in SUBSET T : s # {} => f[s \ {pick[s]}] = Of(s \ {pick[s]})[s \ {pick[s]}]
  <2> SUFFICES ASSUME NEW s \in SUBSET T, s # {}
               PROVE f[s \ {pick[s]}] = Of(s \ {pick[s]})[s \ {pick[s]}]
    OBVIOUS
  <2>1. pick[s] \in s /\ s \ {pick[s]} # T
    OBVIOUS
  <2> QED BY <2>1
<1>5. ASSUME NEW s \in SUBSET T
      PROVE f[s] = IF s = {} THEN b ELSE Stepped(xs[pick[s]], f[s \ {pick[s]}])
  <2>1. CASE s = T
    BY <2>1, <1>4
  <2>2. CASE s # T
    <3>1. f[s] = Of(s)[s] /\ StepFolds(Of(s), s, b, xs, pick)
      BY <2>2, <1>3
    <3>2. Of(s)[s] = IF s = {} THEN b ELSE Stepped(xs[pick[s]], Of(s)[s \ {pick[s]}])
      <4>1. \A u \in SUBSET s : Of(s)[u] = IF u = {} THEN b ELSE Stepped(xs[pick[u]], Of(s)[u \ {pick[u]}])
        BY <3>1 DEF StepFolds
      <4> QED BY <4>1
    <3>3. ASSUME s # {} PROVE Of(s)[s \ {pick[s]}] = f[s \ {pick[s]}]
      <4>1. pick[s] \in s
        BY <3>3
      <4> DEFINE r == s \ {pick[s]}
      <4>2. r \in SUBSET T /\ r # T /\ r \in SUBSET S /\ s \in SUBSET S
        BY <4>1
      <4>3. StepFolds(Of(r), r, b, xs, pick)
        BY <4>2, <1>3
      <4>4. \A u \in SUBSET (s \intersect r) : Of(s)[u] = Of(r)[u]
        <5> HIDE DEF r
        <5> QED BY <4>2, <4>3, <3>1, StepsOnce
      <4>5. Of(s)[r] = Of(r)[r]
        BY <4>4
      <4> QED BY <4>5, <1>4, <3>3
    <3> QED BY <3>1, <3>2, <3>3
  <2> QED BY <2>1, <2>2
<1>6. StepFolds(f, T, b, xs, pick)
  <2>1. f = [s \in SUBSET T |-> f[s]]
    OBVIOUS
  <2> HIDE DEF f
  <2> QED BY <2>1, <1>5 DEF StepFolds
<1> HIDE DEF f
<1> QED BY <1>6

\* The last, and the first, of some positions.
LEMMA MaxIn ==
  ASSUME NEW n \in Nat, NEW s \in SUBSET (1..n), s # {} PROVE O!Max(s) \in s /\ \A k \in s : k <= O!Max(s)
<1>1. \E x \in s : \A y \in s : x >= y
  BY LastPlace
<1> QED BY <1>1 DEF O!Max

LEMMA MinIn ==
  ASSUME NEW n \in Nat, NEW s \in SUBSET (1..n), s # {} PROVE O!Min(s) \in s
<1> DEFINE flip == {n + 1 - k : k \in s}
<1>1. flip \in SUBSET (1..n) /\ flip # {}
  <2>1. \A k \in s : n + 1 - k \in 1..n
    OBVIOUS
  <2> QED BY <2>1
<1>2. PICK x \in flip : \A y \in flip : x >= y
  <2> HIDE DEF flip
  <2> QED BY <1>1, LastPlace
<1>3. PICK k \in s : x = n + 1 - k
  OBVIOUS
<1>4. \A j \in s : k <= j
  BY <1>2, <1>3
<1> QED BY <1>4 DEF O!Min

\* A path leads where its last token leads from where the rest of it leads.
LEMMA ValueAtIs ==
  ASSUME NEW doc, NEW Tokens, NEW path \in Seq(Tokens), NEW token \in Tokens
  PROVE  /\ O!ValueAt(doc, <<>>) = doc
         /\ O!ValueAt(doc, Append(path, token)) = O!Member(O!ValueAt(doc, path), token)
<1> DEFINE Down(p) == [k \in DOMAIN p |-> [does |-> "down", token |-> p[k]]]
           Last(S) == [s \in SUBSET S |-> O!Max(s)]
           Q(g, p) == g = [s \in SUBSET (DOMAIN p) |->
                             IF s = {} THEN doc
                             ELSE O!Member(g[s \ {O!Max(s)}], p[O!Max(s)])]
           H(p) == CHOOSE g : Q(g, p)
<1>1. ASSUME NEW p \in Seq(Tokens)
      PROVE  /\ O!ValueAt(doc, p) = H(p)[DOMAIN p] /\ Q(H(p), p)
             /\ StepFolds(H(p), DOMAIN p, doc, Down(p), Last(DOMAIN p))
  <2> DEFINE S == DOMAIN p
  <2>1. S = 1..Len(p) /\ Len(p) \in Nat /\ IsFiniteSet(S)
    BY FS_Interval
  <2>2. \A s \in SUBSET S : s # {} => Last(S)[s] \in s
    BY <2>1, MaxIn
  <2>3. ASSUME NEW g PROVE StepFolds(g, S, doc, Down(p), Last(S)) <=> Q(g, p)
    <3> DEFINE Left(s) == IF s = {} THEN doc ELSE Stepped(Down(p)[Last(S)[s]], g[s \ {Last(S)[s]}])
               Right(s) == IF s = {} THEN doc ELSE O!Member(g[s \ {O!Max(s)}], p[O!Max(s)])
    <3>1. ASSUME NEW s \in SUBSET S PROVE Left(s) = Right(s)
      <4>1. CASE s # {}
        <5> DEFINE m == O!Max(s)
                   x == Down(p)[m]
        <5>1. m \in S /\ Last(S)[s] = m
          BY <2>2, <4>1
        <5>2. x.does = "down" /\ x.token = p[m]
          BY <5>1
        <5> HIDE DEF m, x
        <5>3. \A w : Stepped(x, w) = O!Member(w, p[m])
          BY <5>2 DEF Stepped
        <5> QED BY <5>1, <5>3, <4>1 DEF m, x
      <4> QED BY <4>1
    <3>2. [s \in SUBSET S |-> Left(s)] = [s \in SUBSET S |-> Right(s)]
      <4> HIDE DEF Left, Right
      <4> QED BY <3>1
    <3> QED BY <3>2 DEF StepFolds
  <2>4. \E g : StepFolds(g, S, doc, Down(p), Last(S))
    <3> HIDE DEF Down, Last, S
    <3> QED BY <2>1, <2>2, StepsThere
  <2>5. Q(H(p), p)
    <3> HIDE DEF Q, Down, Last
    <3> QED BY <2>3, <2>4
  <2>6. O!ValueAt(doc, p) = H(p)[DOMAIN p]
    BY DEF O!ValueAt, O!FoldLeft, O!MapThenFoldSet
  <2>7. StepFolds(H(p), S, doc, Down(p), Last(S))
    <3> HIDE DEF H, Q, Down, Last, S
    <3> QED BY <2>3, <2>5
  <2> QED BY <2>5, <2>6, <2>7
<1> HIDE DEF H
<1>2. O!ValueAt(doc, <<>>) = doc
  <2>1. <<>> \in Seq(Tokens) /\ DOMAIN <<>> = {} /\ {} \in SUBSET {}
    OBVIOUS
  <2>2. Q(H(<<>>), <<>>) /\ O!ValueAt(doc, <<>>) = H(<<>>)[{}]
    <3> HIDE DEF Q
    <3> QED BY <2>1, <1>1
  <2> QED BY <2>1, <2>2
<1>3. O!ValueAt(doc, Append(path, token)) = O!Member(O!ValueAt(doc, path), token)
  <2> DEFINE n == Len(path)
             longer == Append(path, token)
             S == 1..n
             U == 1..(n + 1)
  <2>1. /\ n \in Nat /\ longer \in Seq(Tokens) /\ DOMAIN path = S /\ DOMAIN longer = U
        /\ longer[n + 1] = token /\ \A k \in S : longer[k] = path[k]
    OBVIOUS
  <2>2. O!Max(U) = n + 1 /\ U \ {n + 1} = S /\ U # {} /\ S \in SUBSET U
    <3>1. U # {} /\ U \in SUBSET (1..(n + 1)) /\ n + 1 \in Nat /\ n + 1 \in U
      BY <2>1
    <3>2. O!Max(U) \in U /\ n + 1 <= O!Max(U)
      BY <3>1, MaxIn
    <3> QED BY <2>1, <3>1, <3>2
  <2> HIDE DEF n, longer
  <2>3. /\ Q(H(longer), longer) /\ O!ValueAt(doc, longer) = H(longer)[U]
        /\ StepFolds(H(longer), U, doc, Down(longer), Last(U))
    BY <1>1, <2>1
  <2>4. H(longer)[U] = O!Member(H(longer)[S], token)
    BY <2>1, <2>2, <2>3
  <2>5. O!ValueAt(doc, path) = H(path)[S] /\ StepFolds(H(path), S, doc, Down(path), Last(S))
    BY <1>1, <2>1
  <2>6. StepFolds(H(path), S, doc, Down(longer), Last(U))
    <3> DEFINE Left(s) == IF s = {} THEN doc ELSE Stepped(Down(path)[Last(S)[s]], H(path)[s \ {Last(S)[s]}])
               Right(s) == IF s = {} THEN doc ELSE Stepped(Down(longer)[Last(U)[s]], H(path)[s \ {Last(U)[s]}])
    <3>1. ASSUME NEW s \in SUBSET S PROVE Left(s) = Right(s)
      <4>1. CASE s # {}
        <5>1. s \in SUBSET U /\ O!Max(s) \in S
          BY <4>1, <2>1, <2>2, MaxIn
        <5>2. Last(S)[s] = O!Max(s) /\ Last(U)[s] = O!Max(s)
          BY <5>1
        <5>3. Down(path)[O!Max(s)] = Down(longer)[O!Max(s)]
          BY <5>1, <2>1, <2>2
        <5> HIDE DEF Down, Last
        <5> QED BY <5>2, <5>3
      <4> QED BY <4>1
    <3>2. [s \in SUBSET S |-> Left(s)] = [s \in SUBSET S |-> Right(s)]
      <4> HIDE DEF Left, Right
      <4> QED BY <3>1
    <3>3. H(path) = [s \in SUBSET S |-> Left(s)]
      BY <2>5 DEF StepFolds
    <3>4. H(path) = [s \in SUBSET S |-> Right(s)]
      <4> HIDE DEF Left, Right
      <4> QED BY <3>2, <3>3
    <3> QED BY <3>4 DEF StepFolds
  <2>7. IsFiniteSet(U) /\ \A s \in SUBSET U : s # {} => Last(U)[s] \in s
    <3>1. n + 1 \in Nat /\ 1 \in Int /\ n + 1 \in Int
      BY <2>1
    <3>2. IsFiniteSet(U)
      BY <3>1, FS_Interval
    <3>3. \A s \in SUBSET U : s # {} => O!Max(s) \in s
      BY <3>1, MaxIn
    <3> QED BY <3>2, <3>3
  <2>8. H(longer)[S] = H(path)[S]
    <3>1. U \in SUBSET U /\ S \in SUBSET U /\ S \in SUBSET (U \intersect S)
      BY <2>2
    <3>2. \A s \in SUBSET (U \intersect S) : H(longer)[s] = H(path)[s]
      <4> HIDE DEF Down, Last, S, U, Q
      <4> QED BY <2>3, <2>6, <2>7, <3>1, StepsOnce
    <3> QED BY <3>1, <3>2
  <2> QED BY <2>3, <2>4, <2>5, <2>8 DEF longer
<1> QED BY <1>2, <1>3

LEMMA LongerPath ==
  ASSUME NEW Tokens, NEW path \in Seq(Tokens), NEW k \in 1..Len(path), NEW doc
  PROVE  O!ValueAt(doc, SubSeq(path, 1, k)) = O!Member(O!ValueAt(doc, SubSeq(path, 1, k - 1)), path[k])
<1>1. /\ SubSeq(path, 1, k - 1) \in Seq(Tokens) /\ path[k] \in Tokens
      /\ SubSeq(path, 1, k) = Append(SubSeq(path, 1, k - 1), path[k])
  OBVIOUS
<1> DEFINE p == SubSeq(path, 1, k - 1)
           t == path[k]
<1>2. /\ p \in Seq(Tokens) /\ t \in Tokens
      /\ SubSeq(path, 1, k) = Append(p, t)
  BY <1>1
<1> HIDE DEF p, t
<1>3. O!ValueAt(doc, Append(p, t)) = O!Member(O!ValueAt(doc, p), t)
  BY <1>2, ValueAtIs
<1>4. O!ValueAt(doc, SubSeq(path, 1, k)) = O!Member(O!ValueAt(doc, p), t)
  BY <1>2, <1>3
<1> QED BY <1>4 DEF p, t

LEMMA ValueClean ==
  ASSUME NEW X, NEW doc, Clean(doc, X), NEW Tokens, NEW path \in Seq(Tokens), NEW k \in 0..Len(path),
         O!ValueAt(doc, SubSeq(path, 1, k)) # O!Bad
  PROVE  Clean(O!ValueAt(doc, SubSeq(path, 1, k)), X)
<1> DEFINE P(i) == O!ValueAt(doc, SubSeq(path, 1, i))
           N == {i \in Nat : i <= Len(path) => P(i) = O!Bad \/ Clean(P(i), X)}
<1>1. 0 \in N
  <2>1. SubSeq(path, 1, 0) = <<>>
    OBVIOUS
  <2>2. PICK token : TRUE
    OBVIOUS
  <2>3. <<>> \in Seq({token})
    OBVIOUS
  <2>4. O!ValueAt(doc, <<>>) = doc
    BY <2>3, ValueAtIs
  <2> QED BY <2>1, <2>4
<1>2. ASSUME NEW i \in N PROVE i + 1 \in N
  <2> SUFFICES ASSUME i + 1 <= Len(path) PROVE P(i + 1) = O!Bad \/ Clean(P(i + 1), X)
    OBVIOUS
  <2>1. i + 1 \in 1..Len(path) /\ (i + 1) - 1 = i /\ i <= Len(path)
    OBVIOUS
  <2>2. P(i + 1) = O!Member(P(i), path[i + 1])
    BY <2>1, LongerPath
  <2>3. P(i) = O!Bad \/ Clean(P(i), X)
    BY <2>1
  <2> HIDE DEF P
  <2> QED BY <2>2, <2>3, MemberClean, NoMemberOfBad
<1>3. N \in SUBSET Nat
  OBVIOUS
<1>4. k \in N
  <2>1. k \in Nat
    OBVIOUS
  <2> HIDE DEF N
  <2> QED BY <1>1, <1>2, <1>3, <2>1, EveryNumber
<1> QED BY <1>4

LEMMA WholePath ==
  ASSUME NEW X, NEW doc, Clean(doc, X), NEW Tokens, NEW path \in Seq(Tokens), O!ValueAt(doc, path) # O!Bad
  PROVE  Clean(O!ValueAt(doc, path), X)
<1>1. SubSeq(path, 1, Len(path)) = path /\ Len(path) \in 0..Len(path)
  OBVIOUS
<1> QED BY <1>1, ValueClean

\* Whatever is on the way to a document is an object or an array.
LEMMA WayThere ==
  ASSUME NEW X, NEW doc, Clean(doc, X), NEW Tokens, NEW path \in Seq(Tokens), path # <<>>,
         O!Parent(doc, path) # O!Bad, NEW k \in 1..(Len(path) - 1)
  PROVE  LET c == O!ValueAt(doc, SubSeq(path, 1, k - 1)) IN
         Clean(c, X) /\ (O!IsObject(c) \/ O!IsArray(c))
<1> DEFINE P(i) == O!ValueAt(doc, SubSeq(path, 1, i))
           n == Len(path) - 1
           N == {m \in Nat : m <= n => P(n - m) # O!Bad}
<1>1. n \in Nat /\ n + 1 = Len(path)
  OBVIOUS
<1>2. 0 \in N
  <2>1. O!Front(path) = SubSeq(path, 1, n) /\ n - 0 = n
    BY <1>1 DEF O!Front
  <2> QED BY <2>1 DEF O!Parent
<1>3. ASSUME NEW m \in N PROVE m + 1 \in N
  <2> SUFFICES ASSUME m + 1 <= n PROVE P(n - (m + 1)) # O!Bad
    OBVIOUS
  <2>1. n - m \in 1..Len(path) /\ (n - m) - 1 = n - (m + 1) /\ m <= n
    BY <1>1
  <2>2. P(n - m) = O!Member(P(n - (m + 1)), path[n - m])
    BY <2>1, LongerPath
  <2>3. P(n - m) # O!Bad
    BY <2>1
  <2> HIDE DEF P
  <2> QED BY <2>2, <2>3, NoMemberOfBad
<1>4. N \in SUBSET Nat
  OBVIOUS
<1>5. N = Nat
  <2> HIDE DEF N
  <2> QED BY <1>2, <1>3, <1>4, EveryNumber
<1>6. ASSUME NEW i \in 0..n PROVE P(i) # O!Bad
  <2>1. n - i \in Nat /\ n - i <= n /\ n - (n - i) = i
    BY <1>1
  <2>2. n - i \in N
    BY <2>1, <1>5
  <2>3. P(n - (n - i)) # O!Bad
    BY <2>1, <2>2
  <2> QED BY <2>1, <2>3
<1>7. k - 1 \in 0..n /\ k \in 0..n /\ k \in 1..Len(path) /\ k - 1 \in 0..Len(path)
  BY <1>1
<1>8. P(k) # O!Bad /\ P(k - 1) # O!Bad /\ P(k) = O!Member(P(k - 1), path[k])
  BY <1>6, <1>7, LongerPath
<1>9. Clean(P(k - 1), X)
  BY <1>7, <1>8, ValueClean
<1> HIDE DEF P
<1>10. O!IsObject(P(k - 1)) \/ O!IsArray(P(k - 1))
  BY <1>8, <1>9, MemberClean
<1> QED BY <1>9, <1>10 DEF P

LEMMA WithinClean ==
  ASSUME NEW X, NEW doc, Clean(doc, X), NEW Tokens, NEW path \in Seq(Tokens), path # <<>>,
         NEW edited, edited # O!Bad => Clean(edited, X), O!Within(doc, path, edited) # O!Bad
  PROVE  Clean(O!Within(doc, path, edited), X)
<1> DEFINE container(k) == O!ValueAt(doc, SubSeq(path, 1, k - 1))
           way == [k \in 1..(Len(path) - 1) |-> k]
           Q(g) == g = [s \in SUBSET (DOMAIN way) |->
                          IF s = {} THEN edited
                          ELSE O!SetMember(container(way[O!Min(s)]), path[way[O!Min(s)]],
                                           g[s \ {O!Min(s)}])]
           H == CHOOSE g : Q(g)
<1>1. /\ O!Parent(doc, path) # O!Bad /\ edited # O!Bad
      /\ O!Within(doc, path, edited) = H[DOMAIN way]
  BY DEF O!Within, O!FoldRight, O!MapThenFoldSet
<1> DEFINE S == DOMAIN way
           n == Len(path) - 1
           up == [k \in S |-> [does |-> "up", container |-> container(k), token |-> path[k]]]
           first == [s \in SUBSET S |-> O!Min(s)]
<1>2. n \in Nat /\ S = 1..n /\ \A k \in S : way[k] = k
  OBVIOUS
<1>3. IsFiniteSet(S)
  BY <1>2, FS_Interval
<1>4. \A s \in SUBSET S : s # {} => O!Min(s) \in s
  BY <1>2, MinIn
<1> HIDE DEF S, n, container
<1>5. \E g : Q(g)
  <2>1. PICK g : StepFolds(g, S, edited, up, first)
    <3>1. \A s \in SUBSET S : s # {} => first[s] \in s
      BY <1>4
    <3> HIDE DEF up, first
    <3> QED BY <1>3, <3>1, StepsThere
  <2> DEFINE Left(s) == IF s = {} THEN edited ELSE Stepped(up[first[s]], g[s \ {first[s]}])
             Right(s) == IF s = {} THEN edited
                         ELSE O!SetMember(container(way[O!Min(s)]), path[way[O!Min(s)]], g[s \ {O!Min(s)}])
  <2>2. ASSUME NEW s \in SUBSET S PROVE Left(s) = Right(s)
    <3>1. CASE s # {}
      <4> DEFINE m == O!Min(s)
                 x == up[m]
      <4>1. m \in S /\ first[s] = m /\ way[m] = m
        BY <1>2, <1>4, <3>1
      <4>2. x.does = "up" /\ x.container = container(m) /\ x.token = path[m]
        BY <4>1
      <4> HIDE DEF m, x, way
      <4>3. \A w : Stepped(x, w) = O!SetMember(container(m), path[m], w)
        BY <4>2 DEF Stepped
      <4> QED BY <4>1, <4>3, <3>1 DEF m, x
    <3> QED BY <3>1
  <2>3. [s \in SUBSET S |-> Left(s)] = [s \in SUBSET S |-> Right(s)]
    <3> HIDE DEF Left, Right
    <3> QED BY <2>2
  <2>4. Q(g)
    <3>1. g = [s \in SUBSET S |-> Left(s)]
      BY <2>1 DEF StepFolds
    <3>2. g = [s \in SUBSET S |-> Right(s)]
      <4> HIDE DEF Left, Right
      <4> QED BY <2>3, <3>1
    <3> QED BY <3>2 DEF S
  <2> HIDE DEF Q
  <2> QED BY <2>4
<1>6. Q(H)
  <2> HIDE DEF Q
  <2> QED BY <1>5
<1>7. H[{}] = edited /\ \A s \in SUBSET S : s # {} =>
         H[s] = O!SetMember(container(O!Min(s)), path[O!Min(s)], H[s \ {O!Min(s)}])
  <2>1. \A s \in SUBSET S : H[s] =
          IF s = {} THEN edited
          ELSE O!SetMember(container(way[O!Min(s)]), path[way[O!Min(s)]], H[s \ {O!Min(s)}])
    BY <1>6 DEF S
  <2>2. \A s \in SUBSET S : s # {} => way[O!Min(s)] = O!Min(s)
    BY <1>2, <1>4
  <2> HIDE DEF H, way
  <2> QED BY <2>1, <2>2
<1> HIDE DEF H, Q, way
<1>8. \A s \in SUBSET S : Clean(H[s], X)
  <2> DEFINE C == {s \in SUBSET S : ~ Clean(H[s], X)}
  <2> SUFFICES ASSUME C # {} PROVE FALSE
    OBVIOUS
  <2>1. PICK s \in C : \A u \in C : u \subseteq s => u = s
    <3>1. C \subseteq SUBSET S
      OBVIOUS
    <3> HIDE DEF C
    <3> QED BY <3>1, <1>3, MinimalSet
  <2>2. s \in SUBSET S /\ ~ Clean(H[s], X)
    OBVIOUS
  <2>3. s # {}
    BY <1>1, <1>7, <2>2
  <2> DEFINE m == O!Min(s)
             rest == s \ {m}
  <2>4. m \in s /\ m \in S
    BY <1>4, <2>2, <2>3
  <2> HIDE DEF m
  <2>5. Clean(H[rest], X)
    <3>1. rest \in SUBSET S /\ rest \subseteq s /\ rest # s
      BY <2>2, <2>4
    <3>2. rest \notin C
      <4> HIDE DEF C, rest
      <4> QED BY <2>1, <3>1
    <3> HIDE DEF rest
    <3> QED BY <3>1, <3>2
  <2>6. H[s] = O!SetMember(container(m), path[m], H[rest])
    BY <1>7, <2>2, <2>3 DEF m
  <2>7. Clean(container(m), X) /\ (O!IsObject(container(m)) \/ O!IsArray(container(m)))
    <3>1. m \in 1..(Len(path) - 1)
      BY <2>4, <1>2 DEF n
    <3> QED BY <3>1, <1>1, WayThere DEF container
  <2> HIDE DEF rest
  <2> QED BY <2>2, <2>5, <2>6, <2>7, SetMemberClean
<1> QED BY <1>1, <1>8 DEF S

LEMMA ParentClean ==
  ASSUME NEW X, NEW doc, Clean(doc, X), NEW Tokens, NEW path \in Seq(Tokens), path # <<>>,
         O!Parent(doc, path) # O!Bad
  PROVE  Clean(O!Parent(doc, path), X)
<1>1. O!Front(path) \in Seq(Tokens)
  BY DEF O!Front
<1> QED BY <1>1, WholePath DEF O!Parent

LEMMA AddAtClean ==
  ASSUME NEW X, NEW doc, Clean(doc, X), NEW Tokens, NEW path \in Seq(Tokens),
         NEW v, Clean(v, X), O!AddAt(doc, path, v) # O!Bad
  PROVE  Clean(O!AddAt(doc, path, v), X)
<1>1. CASE path = <<>>
  BY <1>1 DEF O!AddAt
<1>2. CASE path # <<>>
  <2> DEFINE edited == O!AddTo(O!Parent(doc, path), O!Last(path), v)
  <2>1. O!AddAt(doc, path, v) = O!Within(doc, path, edited)
    BY <1>2 DEF O!AddAt
  <2>2. O!Parent(doc, path) # O!Bad
    BY <2>1 DEF O!Within
  <2>3. edited # O!Bad => Clean(edited, X)
    BY <1>2, <2>2, ParentClean, AddToClean
  <2> HIDE DEF edited
  <2> QED BY <1>2, <2>1, <2>3, WithinClean
<1> QED BY <1>1, <1>2

LEMMA NullClean == ASSUME NEW X PROVE Clean(O!Null, X)
<1>1. "null" \notin PatchNames
  BY PatchAssumption DEF PatchNames
<1> QED BY <1>1, LeafClean DEF O!Null

LEMMA TakeFromClean ==
  ASSUME NEW X, NEW doc, Clean(doc, X), NEW Tokens, NEW path \in Seq(Tokens),
         O!TakeFrom(doc, path) # O!Bad
  PROVE  Clean(O!TakeFrom(doc, path), X)
<1>1. CASE path = <<>>
  BY <1>1, NullClean DEF O!TakeFrom
<1>2. CASE path # <<>>
  <2> DEFINE edited == O!RemoveFrom(O!Parent(doc, path), O!Last(path))
  <2>1. O!TakeFrom(doc, path) = O!Within(doc, path, edited)
    BY <1>2 DEF O!TakeFrom
  <2>2. O!Parent(doc, path) # O!Bad
    BY <2>1 DEF O!Within
  <2>3. edited # O!Bad => Clean(edited, X)
    BY <1>2, <2>2, ParentClean, RemoveFromClean
  <2> HIDE DEF edited
  <2> QED BY <1>2, <2>1, <2>3, WithinClean
<1> QED BY <1>1, <1>2

LEMMA ReplaceInClean ==
  ASSUME NEW X, NEW doc, Clean(doc, X), NEW Tokens, NEW path \in Seq(Tokens),
         NEW v, Clean(v, X), O!ReplaceIn(doc, path, v) # O!Bad
  PROVE  Clean(O!ReplaceIn(doc, path, v), X)
<1>1. CASE path = <<>>
  BY <1>1 DEF O!ReplaceIn
<1>2. CASE path # <<>>
  <2> DEFINE edited == O!Replace(O!Parent(doc, path), O!Last(path), v)
  <2>1. O!ReplaceIn(doc, path, v) = O!Within(doc, path, edited)
    BY <1>2 DEF O!ReplaceIn
  <2>2. O!Parent(doc, path) # O!Bad
    BY <2>1 DEF O!Within
  <2>3. edited # O!Bad => Clean(edited, X)
    BY <1>2, <2>2, ParentClean, ReplaceClean
  <2> HIDE DEF edited
  <2> QED BY <1>2, <2>1, <2>3, WithinClean
<1> QED BY <1>1, <1>2

LEMMA OperationClean ==
  ASSUME NEW X, NEW doc, Clean(doc, X), NEW o, NEW A1, o.path \in Seq(A1), NEW A2, o.from \in Seq(A2),
         Clean(o.value, X), O!ApplyOperation(doc, o) # O!Bad
  PROVE  Clean(O!ApplyOperation(doc, o), X)
<1>1. CASE o.op = "add"
  <2>1. O!ApplyOperation(doc, o) = O!AddAt(doc, o.path, o.value)
    BY <1>1 DEF O!ApplyOperation
  <2> QED BY <2>1, AddAtClean
<1>2. CASE o.op = "remove"
  <2>1. O!ApplyOperation(doc, o) = O!TakeFrom(doc, o.path)
    BY <1>2 DEF O!ApplyOperation
  <2> QED BY <2>1, TakeFromClean
<1>3. CASE o.op = "replace"
  <2>1. O!ApplyOperation(doc, o) = O!ReplaceIn(doc, o.path, o.value)
    BY <1>3 DEF O!ApplyOperation
  <2> QED BY <2>1, ReplaceInClean
<1>4. CASE o.op = "move"
  <2>1. O!ApplyOperation(doc, o) = O!Move(doc, o)
    BY <1>4 DEF O!ApplyOperation
  <2> DEFINE taken == O!ValueAt(doc, o.from)
             rest == O!TakeFrom(doc, o.from)
  <2>2. taken # O!Bad /\ rest # O!Bad /\ O!Move(doc, o) = O!AddAt(rest, o.path, taken)
    BY <2>1 DEF O!Move
  <2>3. Clean(taken, X) /\ Clean(rest, X)
    BY <2>2, WholePath, TakeFromClean
  <2> HIDE DEF taken, rest
  <2> QED BY <2>1, <2>2, <2>3, AddAtClean
<1>5. CASE o.op = "copy"
  <2>1. O!ApplyOperation(doc, o) = O!Copy(doc, o)
    BY <1>5 DEF O!ApplyOperation
  <2> DEFINE copied == O!ValueAt(doc, o.from)
  <2>2. copied # O!Bad /\ O!Copy(doc, o) = O!AddAt(doc, o.path, copied)
    BY <2>1 DEF O!Copy
  <2>3. Clean(copied, X)
    BY <2>2, WholePath
  <2> HIDE DEF copied
  <2> QED BY <2>1, <2>2, <2>3, AddAtClean
<1>6. CASE o.op = "test"
  <2>1. O!ApplyOperation(doc, o) = IF O!ValueAt(doc, o.path) = o.value THEN doc ELSE O!Bad
    BY <1>6 DEF O!ApplyOperation
  <2> QED BY <2>1
<1>7. CASE o.op \notin {"add", "remove", "replace", "move", "copy", "test"}
  <2>1. O!ApplyOperation(doc, o) = O!Bad
    BY <1>7 DEF O!ApplyOperation
  <2> QED BY <2>1
<1> QED BY <1>1, <1>2, <1>3, <1>4, <1>5, <1>6, <1>7

\* A list of operations fails, or leaves a document that has no marks but those
\* it had and those the operations bring.
LEMMA PatchClean ==
  ASSUME NEW X, NEW doc, Clean(doc, X), NEW Ops, NEW operations \in Seq(Ops),
         \A o \in Ops : /\ \E A : o.path \in Seq(A)
                        /\ \E A : o.from \in Seq(A)
                        /\ Clean(o.value, X),
         O!ApplyJsonPatch(doc, operations) # O!Bad
  PROVE  Clean(O!ApplyJsonPatch(doc, operations), X)
<1> DEFINE S == DOMAIN operations
           apply == [k \in S |-> [does |-> "apply", operation |-> operations[k]]]
           final == [s \in SUBSET S |-> O!Max(s)]
           Did(w, o) == IF w = O!Bad THEN O!Bad ELSE O!ApplyOperation(w, o)
           Q(g) == g = [s \in SUBSET S |->
                          IF s = {} THEN doc ELSE Did(g[s \ {O!Max(s)}], operations[O!Max(s)])]
           H == CHOOSE g : Q(g)
<1>1. O!ApplyJsonPatch(doc, operations) = H[S]
  BY DEF O!ApplyJsonPatch, O!FoldLeft, O!MapThenFoldSet
<1>2. Len(operations) \in Nat /\ S = 1..Len(operations) /\ \A k \in S : operations[k] \in Ops
  OBVIOUS
<1>3. IsFiniteSet(S)
  BY <1>2, FS_Interval
<1>4. \A s \in SUBSET S : s # {} => O!Max(s) \in s
  BY <1>2, MaxIn
<1> HIDE DEF S
<1>5. \E g : Q(g)
  <2>1. PICK g : StepFolds(g, S, doc, apply, final)
    <3>1. \A s \in SUBSET S : s # {} => final[s] \in s
      BY <1>4
    <3> HIDE DEF apply, final
    <3> QED BY <1>3, <3>1, StepsThere
  <2> DEFINE Left(s) == IF s = {} THEN doc ELSE Stepped(apply[final[s]], g[s \ {final[s]}])
             Right(s) == IF s = {} THEN doc ELSE Did(g[s \ {O!Max(s)}], operations[O!Max(s)])
  <2>2. ASSUME NEW s \in SUBSET S PROVE Left(s) = Right(s)
    <3>1. CASE s # {}
      <4> DEFINE m == O!Max(s)
                 x == apply[m]
      <4>1. m \in S /\ final[s] = m
        BY <1>4, <3>1
      <4>2. x.does = "apply" /\ x.operation = operations[m]
        BY <4>1
      <4> HIDE DEF m, x
      <4>3. \A w : Stepped(x, w) = Did(w, operations[m])
        BY <4>2 DEF Stepped
      <4> HIDE DEF Did
      <4> QED BY <4>1, <4>3, <3>1 DEF m, x
    <3> QED BY <3>1
  <2>3. [s \in SUBSET S |-> Left(s)] = [s \in SUBSET S |-> Right(s)]
    <3> HIDE DEF Left, Right
    <3> QED BY <2>2
  <2>4. Q(g)
    <3>1. g = [s \in SUBSET S |-> Left(s)]
      BY <2>1 DEF StepFolds
    <3>2. g = [s \in SUBSET S |-> Right(s)]
      <4> HIDE DEF Left, Right
      <4> QED BY <2>3, <3>1
    <3> QED BY <3>2
  <2> HIDE DEF Q
  <2> QED BY <2>4
<1>6. Q(H)
  <2> HIDE DEF Q
  <2> QED BY <1>5
<1>7. H[{}] = doc /\ \A s \in SUBSET S : s # {} =>
         H[s] = Did(H[s \ {O!Max(s)}], operations[O!Max(s)])
  <2> HIDE DEF Did
  <2> QED BY <1>6
<1> HIDE DEF H, Q
<1>8. \A s \in SUBSET S : H[s] = O!Bad \/ Clean(H[s], X)
  <2> DEFINE C == {s \in SUBSET S : ~ (H[s] = O!Bad \/ Clean(H[s], X))}
  <2> SUFFICES ASSUME C # {} PROVE FALSE
    OBVIOUS
  <2>1. PICK s \in C : \A u \in C : u \subseteq s => u = s
    <3>1. C \subseteq SUBSET S
      OBVIOUS
    <3> HIDE DEF C
    <3> QED BY <3>1, <1>3, MinimalSet
  <2>2. s \in SUBSET S /\ H[s] # O!Bad /\ ~ Clean(H[s], X)
    OBVIOUS
  <2>3. s # {}
    BY <1>7, <2>2
  <2> DEFINE m == O!Max(s)
             rest == s \ {m}
             o == operations[m]
  <2>4. m \in s /\ m \in S
    BY <1>4, <2>2, <2>3
  <2>5. H[s] = Did(H[rest], o)
    <3> HIDE DEF Did
    <3> QED BY <1>7, <2>2, <2>3
  <2> HIDE DEF m
  <2>6. H[rest] = O!Bad \/ Clean(H[rest], X)
    <3>1. rest \in SUBSET S /\ rest \subseteq s /\ rest # s
      BY <2>2, <2>4
    <3>2. rest \notin C
      <4> HIDE DEF C, rest
      <4> QED BY <2>1, <3>1
    <3> HIDE DEF rest
    <3> QED BY <3>1, <3>2
  <2>7. o \in Ops
    BY <2>4, <1>2
  <2> HIDE DEF rest, o
  <2>8. H[rest] # O!Bad /\ H[s] = O!ApplyOperation(H[rest], o)
    BY <2>2, <2>5
  <2>9. /\ \E A : o.path \in Seq(A)
        /\ \E A : o.from \in Seq(A)
        /\ Clean(o.value, X)
    BY <2>7
  <2>10. PICK A1 : o.path \in Seq(A1)
    BY <2>9
  <2>11. PICK A2 : o.from \in Seq(A2)
    BY <2>9
  <2>12. O!ApplyOperation(H[rest], o) # O!Bad => Clean(O!ApplyOperation(H[rest], o), X)
    BY <2>6, <2>8, <2>9, <2>10, <2>11, OperationClean
  <2> QED BY <2>2, <2>8, <2>12
<1> QED BY <1>1, <1>8

----------------------------------------------------------------------------
(* Patches in their order.                                                 *)

Ascending(s) == \A j, k \in DOMAIN s : j < k => s[j].rank < s[k].rank
Lined(s) == /\ s \in Seq(Patches)
            /\ \A j, k \in DOMAIN s : j < k => s[j] # s[k] /\ (s[j].app => s[k].app)

LEMMA PatchFacts ==
  /\ IsFiniteSet(Patches)
  /\ \A f \in Patches : f.rank \in Int /\ f.app \in BOOLEAN /\ f.name \in PatchNames
  /\ \A f, g \in Patches : f.name = g.name => f = g
  /\ \A f, g \in Patches : f.app = g.app /\ f.rank = g.rank => f = g
  /\ \A n \in {"1.0.1", "/", "bash", "built", "entrypoint", "init"} : n \notin PatchNames
BY PatchAssumption DEF PatchNames

LEMMA Highest ==
  ASSUME NEW S \in SUBSET Patches, S # {} PROVE \E f \in S : \A g \in S : g.rank <= f.rank
<1> DEFINE C == {T \in SUBSET S : T # {} /\ ~ \E f \in T : \A g \in T : g.rank <= f.rank}
<1> SUFFICES ASSUME C # {} PROVE FALSE
  OBVIOUS
<1>1. PICK T \in C : \A U \in C : U \subseteq T => U = T
  <2>1. IsFiniteSet(S) /\ C \subseteq SUBSET S
    BY PatchFacts, FS_Subset
  <2> HIDE DEF C
  <2> QED BY <2>1, MinimalSet
<1>2. T \in SUBSET S /\ T # {} /\ ~ \E f \in T : \A g \in T : g.rank <= f.rank
  OBVIOUS
<1>3. \A f \in T : f.rank \in Int
  BY <1>2, PatchFacts
<1>4. PICK x \in T : TRUE
  BY <1>2
<1> DEFINE U == T \ {x}
<1>5. CASE U = {}
  <2>1. \A g \in T : g.rank <= x.rank
    BY <1>3, <1>5
  <2> QED BY <1>2, <2>1
<1>6. CASE U # {}
  <2>1. U \in SUBSET S /\ U \subseteq T /\ U # T
    BY <1>2
  <2>2. PICK f \in U : \A g \in U : g.rank <= f.rank
    BY <1>1, <1>6, <2>1
  <2>3. CASE f.rank <= x.rank
    <3>1. \A g \in T : g.rank <= x.rank
      BY <1>3, <2>2, <2>3
    <3> QED BY <1>2, <3>1
  <2>4. CASE x.rank <= f.rank
    <3>1. \A g \in T : g.rank <= f.rank
      BY <2>2, <2>4
    <3> QED BY <1>2, <3>1
  <2> QED BY <1>3, <2>2, <2>3, <2>4
<1> QED BY <1>5, <1>6

\* Files of one kind can be put into the order of their ranks.
LEMMA SortedThere ==
  ASSUME NEW S \in SUBSET Patches, \A f, g \in S : f.app = g.app
  PROVE  \E s \in [1..Cardinality(S) -> S] : Ascending(s)
<1> DEFINE C == {T \in SUBSET S : ~ \E s \in [1..Cardinality(T) -> T] : Ascending(s)}
<1> SUFFICES ASSUME C # {} PROVE FALSE
  OBVIOUS
<1>0. IsFiniteSet(S)
  BY PatchFacts, FS_Subset
<1>1. PICK T \in C : \A U \in C : U \subseteq T => U = T
  <2>1. C \subseteq SUBSET S
    OBVIOUS
  <2> HIDE DEF C
  <2> QED BY <1>0, <2>1, MinimalSet
<1>2. T \in SUBSET S /\ IsFiniteSet(T) /\ ~ \E s \in [1..Cardinality(T) -> T] : Ascending(s)
  BY <1>0, FS_Subset
<1>3. T # {}
  <2> SUFFICES ASSUME T = {} PROVE FALSE
    OBVIOUS
  <2> DEFINE s == [k \in 1..0 |-> k]
  <2>1. Cardinality(T) = 0
    BY FS_EmptySet
  <2>2. s \in [1..0 -> T] /\ Ascending(s)
    BY DEF Ascending
  <2> QED BY <1>2, <2>1, <2>2
<1>4. PICK x \in T : \A g \in T : g.rank <= x.rank
  BY <1>2, <1>3, Highest
<1> DEFINE U == T \ {x}
           n == Cardinality(U)
<1>5. Cardinality(T) = n + 1 /\ n \in Nat
  <2>1. IsFiniteSet(U) /\ n = Cardinality(T) - 1
    BY <1>2, FS_RemoveElement
  <2>2. n \in Nat /\ Cardinality(T) \in Nat
    BY <1>2, <2>1, FS_CardinalityType
  <2> QED BY <2>1, <2>2
<1> HIDE DEF n
<1>6. PICK s \in [1..n -> U] : Ascending(s)
  <2>1. U \in SUBSET S /\ U \subseteq T /\ U # T
    BY <1>2
  <2>2. U \notin C
    <3> HIDE DEF C, U
    <3> QED BY <1>1, <2>1
  <2> QED BY <2>1, <2>2 DEF n
<1> DEFINE r == [k \in 1..(n + 1) |-> IF k \in 1..n THEN s[k] ELSE x]
<1>7. r \in [1..(n + 1) -> T]
  BY <1>5
<1>8. Ascending(r)
  <2> SUFFICES ASSUME NEW j \in 1..(n + 1), NEW k \in 1..(n + 1), j < k PROVE r[j].rank < r[k].rank
    BY DEF Ascending
  <2>1. j \in 1..n
    BY <1>5
  <2>2. CASE k \in 1..n
    BY <1>6, <2>1, <2>2 DEF Ascending
  <2>3. CASE k \notin 1..n
    <3>1. r[k] = x /\ r[j] = s[j] /\ s[j] \in U
      BY <2>1, <2>3
    <3>2. s[j].rank <= x.rank /\ s[j] # x /\ s[j].app = x.app /\ s[j] \in Patches /\ x \in Patches
      BY <1>2, <1>4, <3>1
    <3>3. s[j].rank # x.rank /\ s[j].rank \in Int /\ x.rank \in Int
      BY <3>2, PatchFacts
    <3> HIDE DEF r
    <3> QED BY <3>1, <3>2, <3>3
  <2> QED BY <2>2, <2>3
<1> HIDE DEF r
<1> QED BY <1>2, <1>5, <1>7, <1>8

LEMMA SortedIs ==
  ASSUME NEW S \in SUBSET Patches, \A f, g \in S : f.app = g.app
  PROVE  O!Sorted(S) \in Seq(S) /\ Ascending(O!Sorted(S))
<1> DEFINE Up(s) == \A j, k \in DOMAIN s : j < k => s[j].rank < s[k].rank
           F == [1..Cardinality(S) -> S]
<1>1. \E s \in F : Up(s)
  BY SortedThere DEF Ascending
<1>2. O!Sorted(S) = CHOOSE s \in F : Up(s)
  <2>1. O!Cardinality(S) = Cardinality(S)
    BY DEF O!Cardinality, Cardinality
  <2>2. O!Sorted(S) = CHOOSE s \in [1..O!Cardinality(S) -> S] : Up(s)
    BY DEF O!Sorted
  <2> QED BY <2>1, <2>2
<1>3. O!Sorted(S) \in F /\ Up(O!Sorted(S))
  <2> HIDE DEF F, Up
  <2> QED BY <1>1, <1>2
<1>4. Cardinality(S) \in Nat
  BY PatchFacts, FS_Subset, FS_CardinalityType
<1> QED BY <1>3, <1>4 DEF Ascending

LEMMA InOrderIs == ASSUME NEW S \in SUBSET Patches PROVE Lined(O!InOrder(S))
<1> DEFINE G == {f \in S : ~ f.app}
           A == {f \in S : f.app}
           p == O!Sorted(G)
           q == O!Sorted(A)
<1>1. p \in Seq(G) /\ Ascending(p) /\ q \in Seq(A) /\ Ascending(q)
  <2>1. G \in SUBSET Patches /\ \A f, g \in G : f.app = g.app
    BY PatchFacts
  <2>2. A \in SUBSET Patches /\ \A f, g \in A : f.app = g.app
    BY PatchFacts
  <2> HIDE DEF G, A
  <2> QED BY <2>1, <2>2, SortedIs
<1>2. O!InOrder(S) = p \o q
  BY DEF O!InOrder
<1> HIDE DEF p, q
<1> DEFINE s == p \o q
           m == Len(p)
           n == Len(q)
<1>3. /\ m \in Nat /\ n \in Nat /\ DOMAIN p = 1..m /\ DOMAIN q = 1..n
      /\ \A k \in 1..m : p[k] \in G
      /\ \A k \in 1..n : q[k] \in A
  BY <1>1
<1>4. /\ s \in Seq(Patches) /\ DOMAIN s = 1..(m + n)
      /\ \A k \in 1..m : s[k] = p[k]
      /\ \A k \in (m + 1)..(m + n) : s[k] = q[k - m] /\ k - m \in 1..n
  <2>1. p \in Seq(Patches) /\ q \in Seq(Patches)
    BY <1>1
  <2> QED BY <1>3, <2>1
<1>5. ASSUME NEW j \in 1..(m + n), NEW k \in 1..(m + n), j < k
      PROVE  s[j] # s[k] /\ (s[j].app => s[k].app)
  <2>1. CASE k <= m
    <3>1. j \in 1..m /\ k \in 1..m
      BY <1>3, <1>5, <2>1
    <3>2. p[j].rank < p[k].rank /\ p[j] \in G /\ p[j] \in Patches /\ p[j].rank \in Int
      BY <1>1, <1>3, <1>5, <3>1, PatchFacts DEF Ascending
    <3> QED BY <1>4, <3>1, <3>2
  <2>2. CASE j <= m /\ ~ k <= m
    <3>1. j \in 1..m /\ k \in (m + 1)..(m + n)
      BY <1>3, <2>2
    <3>2. s[j] \in G /\ s[k] \in A
      BY <1>3, <1>4, <3>1
    <3> QED BY <3>2
  <2>3. CASE ~ j <= m
    <3>1. j \in (m + 1)..(m + n) /\ k \in (m + 1)..(m + n) /\ j - m < k - m
      BY <1>3, <1>5, <2>3
    <3>2. s[j] = q[j - m] /\ s[k] = q[k - m] /\ j - m \in 1..n /\ k - m \in 1..n
      BY <1>4, <3>1
    <3>3. q[j - m].rank < q[k - m].rank /\ q[j - m] \in A /\ q[k - m] \in A
      BY <1>1, <1>3, <3>1, <3>2 DEF Ascending
    <3>4. q[j - m].rank \in Int
      BY <3>3, PatchFacts
    <3> HIDE DEF s
    <3> QED BY <3>2, <3>3, <3>4
  <2> QED BY <1>3, <2>1, <2>2, <2>3
<1> HIDE DEF s
<1>6. Lined(s)
  BY <1>4, <1>5 DEF Lined
<1> QED BY <1>2, <1>6 DEF s

----------------------------------------------------------------------------
(* The patches of a container.                                             *)

InEffect == O!Range(applied)

\* What waits is in its order and has neither taken effect nor been skipped;
\* what has taken effect has done so once, in the same order.
PatchesInOrder ==
    /\ Lined(oFiles) /\ applied \in Seq(PatchNames) /\ skipped \subseteq PatchNames
    /\ InEffect \intersect skipped = {}
    /\ \A k \in DOMAIN oFiles : oFiles[k].name \notin InEffect \union skipped
    /\ \A j, k \in DOMAIN applied : j < k => applied[j] # applied[k]
    /\ \A f \in Patches, j \in DOMAIN applied : f.app /\ applied[j] = f.name =>
           /\ \A k \in DOMAIN oFiles : oFiles[k].app
           /\ \A g \in Patches, k \in DOMAIN applied : j < k /\ applied[k] = g.name => g.app

\* The configuration has the marks of the patches that took effect only.
ConfigClean ==
    /\ oPc \in {"patch", "final"} => /\ Clean(oConfig, InEffect) /\ O!Valid(oConfig)
                                     /\ applied = <<>> => oConfig = O!Built
    /\ oPc = "failed" =>
           /\ Clean(oConfig, InEffect)
           /\ \/ workdir = "relative"
              \/ applied # <<>> /\ O!Valid(oConfig)
                 /\ (O!Missing(oConfig, "mounts") \/ O!Member(oConfig, "process") = O!Null)
    /\ oPc = "ready" =>
           LET process == O!Member(oConfig, "process") IN
           /\ O!Member(process, "args") = O!Leaf("init") /\ ~ O!Missing(process, "user")
           /\ {"entrypoint", "init"} \subseteq O!Marks
           /\ O!Marks \intersect PatchNames \subseteq InEffect

PatchesInv == PatchesInOrder /\ ConfigClean /\ oPc \in {"patch", "final", "failed", "ready"}

LEMMA BuiltIs ==
  /\ O!IsObject(O!Built) /\ O!Valid(O!Built)
  /\ O!IsObject(O!Member(O!Built, "process")) /\ O!IsArray(O!Member(O!Built, "mounts"))
  /\ ~ O!Missing(O!Built, "mounts") /\ O!Member(O!Built, "process") # O!Null
<1> DEFINE process == O!Object([cwd |-> O!Leaf("/"), args |-> O!Leaf("bash")])
           list == O!Array(<<O!Leaf("built")>>)
<1>1. O!IsObject(O!Built) /\ ~ O!IsArray(O!Built)
  BY DEF O!Built, O!IsObject, O!IsArray, O!Object
<1>2. /\ "ociVersion" \in DOMAIN O!Built.obj /\ O!Built.obj["ociVersion"] = O!Leaf("1.0.1")
      /\ "process" \in DOMAIN O!Built.obj /\ O!Built.obj["process"] = process
      /\ "mounts" \in DOMAIN O!Built.obj /\ O!Built.obj["mounts"] = list
  BY DEF O!Built, O!Object
<1>3. /\ O!Member(O!Built, "ociVersion") = O!Leaf("1.0.1")
      /\ O!Member(O!Built, "process") = process
      /\ O!Member(O!Built, "mounts") = list
  <2> HIDE DEF process, list
  <2> QED BY <1>1, <1>2 DEF O!Member
<1>4. O!IsObject(process) /\ ~ O!IsArray(process) /\ process # O!Null /\ process # O!Bad
      /\ "cwd" \in DOMAIN process.obj /\ process.obj["cwd"] = O!Leaf("/")
  BY DEF O!IsObject, O!IsArray, O!Object, O!Null, O!Leaf, O!Bad
<1>5. O!Member(process, "cwd") = O!Leaf("/")
  <2> HIDE DEF process
  <2> QED BY <1>4 DEF O!Member
<1>6. O!IsArray(list) /\ list # O!Null /\ list # O!Bad
  BY DEF O!IsArray, O!Array, O!Null, O!Leaf, O!Bad
<1>7. O!IsText(O!Leaf("1.0.1")) /\ O!IsText(O!Leaf("/"))
  BY DEF O!IsText, O!IsLeaf, O!Leaf, O!Null
<1> HIDE DEF process, list
<1> QED BY <1>1, <1>3, <1>4, <1>5, <1>6, <1>7 DEF O!Valid, O!Missing

LEMMA BuiltClean == ASSUME NEW X PROVE Clean(O!Built, X)
<1> DEFINE process == O!Object([cwd |-> O!Leaf("/"), args |-> O!Leaf("bash")])
           list == O!Array(<<O!Leaf("built")>>)
           T == {O!Built, process, list, O!Leaf("1.0.1"), O!Leaf("/"), O!Leaf("bash"), O!Leaf("built")}
<1>1. ASSUME NEW x, x \in {"1.0.1", "/", "bash", "built"}
      PROVE  O!IsMadeOf(O!Leaf(x), T) /\ O!IsLeaf(O!Leaf(x)) /\ O!Leaf(x).leaf \notin PatchNames
  <2>1. x \notin PatchNames
    BY <1>1, PatchFacts
  <2> QED BY <2>1 DEF O!IsMadeOf, O!IsLeaf, O!Leaf
<1>2. O!IsMadeOf(O!Built, T) /\ ~ O!IsLeaf(O!Built)
  <2> DEFINE f == [ociVersion |-> O!Leaf("1.0.1"), process |-> process, mounts |-> list]
  <2>1. O!Built = O!Object(f)
    BY DEF O!Built
  <2>2. f = [k \in DOMAIN f |-> f[k]] /\ \A k \in DOMAIN f : f[k] \in T
    <3> HIDE DEF process, list
    <3> QED OBVIOUS
  <2> HIDE DEF f, T
  <2> QED BY <2>1, <2>2 DEF O!IsMadeOf, O!IsObject, O!IsLeaf, O!Object
<1>3. O!IsMadeOf(process, T) /\ ~ O!IsLeaf(process)
  <2> DEFINE f == [cwd |-> O!Leaf("/"), args |-> O!Leaf("bash")]
  <2>1. process = O!Object(f)
    OBVIOUS
  <2>2. f = [k \in DOMAIN f |-> f[k]] /\ \A k \in DOMAIN f : f[k] \in T
    <3> HIDE DEF process, list
    <3> QED OBVIOUS
  <2> HIDE DEF f, T, process
  <2> QED BY <2>1, <2>2 DEF O!IsMadeOf, O!IsObject, O!IsLeaf, O!Object
<1>4. O!IsMadeOf(list, T) /\ ~ O!IsLeaf(list)
  <2> DEFINE s == <<O!Leaf("built")>>
  <2>1. list = O!Array(s) /\ s \in Seq(T)
    OBVIOUS
  <2> HIDE DEF s, T, list
  <2> QED BY <2>1 DEF O!IsMadeOf, O!IsArray, O!IsLeaf, O!Array
<1>5. Closed(T, X)
  <2> SUFFICES ASSUME NEW d \in T
               PROVE  O!IsMadeOf(d, T) /\ (O!IsLeaf(d) /\ d.leaf \in PatchNames => d.leaf \in X)
    BY DEF Closed
  <2>1. CASE d \in {O!Built, process, list}
    <3> HIDE DEF T, process, list
    <3> QED BY <2>1, <1>2, <1>3, <1>4
  <2>2. CASE d \in {O!Leaf("1.0.1"), O!Leaf("/"), O!Leaf("bash"), O!Leaf("built")}
    <3>1. PICK x \in {"1.0.1", "/", "bash", "built"} : d = O!Leaf(x)
      BY <2>2
    <3> HIDE DEF T
    <3> QED BY <3>1, <1>1
  <2> QED BY <2>1, <2>2
<1>6. O!Built \in T
  OBVIOUS
<1> HIDE DEF T
<1> QED BY <1>5, <1>6 DEF Clean

LEMMA PatchesInit == ContainersInit => PatchesInv
<1> SUFFICES ASSUME O!Init PROVE PatchesInv
  BY DEF ContainersInit
<1>1. Lined(oFiles)
  BY InOrderIs DEF O!Init
<1>2. applied = <<>> /\ skipped = {} /\ oPc = "patch" /\ oConfig = O!Built
  BY DEF O!Init
<1>3. InEffect = {} /\ applied \in Seq(PatchNames) /\ DOMAIN applied = {}
  BY <1>2 DEF InEffect, O!Range
<1>4. PatchesInOrder
  BY <1>1, <1>2, <1>3 DEF PatchesInOrder
<1>5. ConfigClean
  BY <1>2, BuiltIs, BuiltClean DEF ConfigClean
<1> QED BY <1>2, <1>4, <1>5 DEF PatchesInv

\* What comes of a file that waits has no marks but its own.
LEMMA ResultClean ==
  ASSUME PatchesInOrder, Clean(oConfig, InEffect), NEW f \in Patches,
         NEW result \in O!Result(f), result # O!Bad
  PROVE  Clean(result, InEffect \union {f.name})
<1> DEFINE X == InEffect \union {f.name}
<1>1. Clean(oConfig, X)
  BY CleanKeeps
<1>2. ASSUME NEW d \in Documents PROVE Clean(d, X)
  <2>1. Closed(Documents, X)
    BY PatchAssumption DEF Closed, PatchNames
  <2> QED BY <2>1 DEF Clean
<1>3. CASE f.kind = "program"
  <2>1. O!Result(f) = {O!Bad, oConfig} \union Printed
    BY <1>3 DEF O!Result
  <2>2. Printed \subseteq Documents
    BY PatchAssumption
  <2> QED BY <1>1, <1>2, <2>1, <2>2
<1>4. CASE f.kind = "patch"
  <2> DEFINE Ops == {f.operations[k] : k \in DOMAIN f.operations}
  <2>1. O!Result(f) = {IF O!Member(oConfig, "ociVersion") # O!Leaf(f.version) THEN O!Bad
                       ELSE O!ApplyJsonPatch(oConfig, f.operations)}
    BY <1>4 DEF O!Result
  <2>2. result = O!ApplyJsonPatch(oConfig, f.operations)
    BY <2>1
  <2>3. f.operations \in Seq(Ops) /\
        \A o \in Ops : /\ o.path \in Seq({o.path[k] : k \in DOMAIN o.path})
                       /\ o.from \in Seq({o.from[k] : k \in DOMAIN o.from})
                       /\ o.value \in Documents \union {O!Leaf(f.name)}
    BY <1>4, PatchAssumption
  <2>4. Clean(O!Leaf(f.name), X)
    BY LeafClean
  <2> HIDE DEF Ops, X
  <2>5. \A o \in Ops : /\ \E A : o.path \in Seq(A)
                       /\ \E A : o.from \in Seq(A)
                       /\ Clean(o.value, X)
    BY <1>2, <2>3, <2>4
  <2>6. Clean(O!ApplyJsonPatch(oConfig, f.operations), X)
    BY <1>1, <2>2, <2>3, <2>5, PatchClean
  <2> QED BY <2>2, <2>6 DEF X
<1>5. CASE f.kind \notin {"program", "patch"}
  BY <1>5 DEF O!Result
<1> QED BY <1>3, <1>4, <1>5

LEMMA Appended ==
  ASSUME NEW S, NEW s \in Seq(S), NEW x \in S
  PROVE  /\ Append(s, x) \in Seq(S)
         /\ O!Range(Append(s, x)) = O!Range(s) \union {x}
         /\ Append(s, x) # <<>>
         /\ DOMAIN Append(s, x) = DOMAIN s \union {Len(s) + 1}
         /\ Append(s, x)[Len(s) + 1] = x /\ \A k \in DOMAIN s : Append(s, x)[k] = s[k]
         /\ DOMAIN s = 1..Len(s) /\ Len(s) \in Nat
<1> DEFINE t == Append(s, x)
<1>1. /\ t \in Seq(S) /\ t # <<>> /\ Len(s) \in Nat /\ DOMAIN s = 1..Len(s)
      /\ DOMAIN t = 1..(Len(s) + 1) /\ t[Len(s) + 1] = x /\ \A k \in 1..Len(s) : t[k] = s[k]
  OBVIOUS
<1> HIDE DEF t
<1>2. DOMAIN t = DOMAIN s \union {Len(s) + 1}
  BY <1>1
<1>3. O!Range(t) = O!Range(s) \union {x}
  BY <1>1, <1>2 DEF O!Range
<1> QED BY <1>1, <1>2, <1>3 DEF t

LEMMA ApplyKeepsOrder ==
  ASSUME PatchesInOrder, NEW result, O!ApplyPatch(result) PROVE PatchesInOrder'
<1> DEFINE f == Head(oFiles)
           n == Len(oFiles)
<1>1. /\ oFiles # <<>> /\ oFiles' = Tail(oFiles) /\ Lined(oFiles)
      /\ \/ applied' = Append(applied, f.name) /\ skipped' = skipped
         \/ applied' = applied /\ skipped' = skipped \union {f.name}
  BY DEF O!ApplyPatch, PatchesInOrder
<1>2. /\ n \in Nat /\ n >= 1 /\ f \in Patches /\ f = oFiles[1]
      /\ DOMAIN oFiles = 1..n /\ DOMAIN oFiles' = 1..(n - 1)
      /\ oFiles \in Seq(Patches) /\ oFiles' \in Seq(Patches)
      /\ \A k \in 1..(n - 1) : oFiles'[k] = oFiles[k + 1]
  <2>1. oFiles \in Seq(Patches) /\ oFiles # <<>>
    BY <1>1 DEF Lined
  <2> QED BY <1>1, <2>1
<1> HIDE DEF f, n
<1>3. ASSUME NEW k \in DOMAIN oFiles'
      PROVE  /\ k + 1 \in DOMAIN oFiles /\ oFiles'[k] = oFiles[k + 1] /\ oFiles'[k] \in Patches
             /\ f # oFiles'[k] /\ f.name # oFiles'[k].name /\ (f.app => oFiles'[k].app)
  <2>1. k + 1 \in 1..n /\ 1 \in 1..n /\ 1 < k + 1 /\ k \in 1..(n - 1)
    BY <1>2
  <2>2. oFiles'[k] = oFiles[k + 1] /\ oFiles'[k] \in Patches
    BY <1>2, <2>1
  <2>3. f # oFiles'[k] /\ (f.app => oFiles'[k].app)
    BY <1>1, <1>2, <2>1, <2>2 DEF Lined
  <2> QED BY <1>2, <2>1, <2>2, <2>3, PatchFacts
<1>4. Lined(oFiles')
  <2>1. ASSUME NEW j \in DOMAIN oFiles', NEW k \in DOMAIN oFiles', j < k
        PROVE  oFiles'[j] # oFiles'[k] /\ (oFiles'[j].app => oFiles'[k].app)
    <3>1. j + 1 < k + 1
      BY <1>2, <2>1
    <3> QED BY <1>1, <1>3, <3>1 DEF Lined
  <2> QED BY <1>2, <2>1 DEF Lined
<1>5. f.name \in PatchNames /\ f.name \notin InEffect \union skipped
  BY <1>2, PatchFacts DEF PatchesInOrder
<1>6. \A k \in DOMAIN oFiles' : oFiles'[k].name \notin InEffect \union skipped \union {f.name}
  BY <1>3 DEF PatchesInOrder
<1>7. CASE applied' = applied /\ skipped' = skipped \union {f.name}
  <2>1. InEffect' = InEffect
    BY <1>7 DEF InEffect
  <2>2. \A g \in Patches, j \in DOMAIN applied : g.app /\ applied[j] = g.name =>
           \A k \in DOMAIN oFiles' : oFiles'[k].app
    BY <1>3 DEF PatchesInOrder
  <2> QED BY <1>4, <1>5, <1>6, <1>7, <2>1, <2>2 DEF PatchesInOrder
<1>8. CASE applied' = Append(applied, f.name) /\ skipped' = skipped
  <2> DEFINE m == Len(applied) + 1
  <2>1. applied \in Seq(PatchNames)
    BY DEF PatchesInOrder
  <2>2. /\ applied' \in Seq(PatchNames) /\ InEffect' = InEffect \union {f.name}
        /\ DOMAIN applied' = DOMAIN applied \union {m} /\ DOMAIN applied = 1..(m - 1) /\ m \in Nat
        /\ applied'[m] = f.name /\ \A k \in DOMAIN applied : applied'[k] = applied[k]
    BY <1>5, <1>8, <2>1, Appended DEF InEffect
  <2> HIDE DEF m
  <2>3. \A k \in DOMAIN applied : applied[k] \in InEffect /\ applied[k] # f.name /\ k < m
    BY <1>5, <2>2 DEF InEffect, O!Range
  <2>4. ASSUME NEW j \in DOMAIN applied', NEW k \in DOMAIN applied', j < k
        PROVE  applied'[j] # applied'[k] /\ j \in DOMAIN applied
    <3>1. j \in DOMAIN applied
      BY <2>2, <2>4
    <3>2. CASE k \in DOMAIN applied
      BY <2>2, <2>4, <3>1, <3>2 DEF PatchesInOrder
    <3>3. CASE k = m
      BY <2>2, <2>3, <3>1, <3>3
    <3> QED BY <2>2, <3>1, <3>2, <3>3
  <2>5. ASSUME NEW g \in Patches, NEW j \in DOMAIN applied', g.app, applied'[j] = g.name
        PROVE  /\ \A k \in DOMAIN oFiles' : oFiles'[k].app
               /\ \A h \in Patches, k \in DOMAIN applied' : j < k /\ applied'[k] = h.name => h.app
    <3>1. CASE j \in DOMAIN applied
      <4>1. applied[j] = g.name
        BY <2>2, <2>5, <3>1
      <4>2. \A k \in DOMAIN oFiles : oFiles[k].app
        BY <2>5, <3>1, <4>1 DEF PatchesInOrder
      <4>3. f.app
        BY <1>2, <4>2
      <4>4. ASSUME NEW h \in Patches, NEW k \in DOMAIN applied', j < k, applied'[k] = h.name
            PROVE  h.app
        <5>1. CASE k \in DOMAIN applied
          <6>1. applied[k] = h.name
            BY <2>2, <4>4, <5>1
          <6> QED BY <2>5, <3>1, <4>1, <4>4, <5>1, <6>1 DEF PatchesInOrder
        <5>2. CASE k = m
          <6>1. h.name = f.name
            BY <2>2, <4>4, <5>2
          <6> QED BY <1>2, <4>3, <6>1, PatchFacts
        <5> QED BY <2>2, <5>1, <5>2
      <4> QED BY <1>3, <4>2, <4>4
    <3>2. CASE j = m
      <4>1. g.name = f.name
        BY <2>2, <2>5, <3>2
      <4>2. f.app
        BY <1>2, <2>5, <4>1, PatchFacts
      <4>3. \A k \in DOMAIN applied' : ~ j < k
        BY <2>2, <3>2
      <4> QED BY <1>3, <4>2, <4>3
    <3> QED BY <2>2, <3>1, <3>2
  <2>6. InEffect' \intersect skipped' = {} /\ skipped' \subseteq PatchNames
    BY <1>5, <1>8, <2>2 DEF PatchesInOrder
  <2>7. \A k \in DOMAIN oFiles' : oFiles'[k].name \notin InEffect' \union skipped'
    BY <1>6, <1>8, <2>2
  <2> QED BY <1>4, <2>2, <2>4, <2>5, <2>6, <2>7 DEF PatchesInOrder
<1> QED BY <1>1, <1>7, <1>8

LEMMA ApplyKeepsClean ==
  ASSUME PatchesInv, NEW result \in IF oFiles = <<>> THEN {} ELSE O!Result(Head(oFiles)),
         O!ApplyPatch(result)
  PROVE  ConfigClean' /\ oPc' = "patch"
<1> DEFINE f == Head(oFiles)
<1>1. /\ oFiles # <<>> /\ oPc = "patch" /\ oPc' = "patch" /\ result \in O!Result(f)
      /\ \/ /\ result # O!Bad /\ O!Valid(result)
            /\ oConfig' = result /\ applied' = Append(applied, f.name)
         \/ oConfig' = oConfig /\ applied' = applied
  BY DEF O!ApplyPatch
<1>2. f \in Patches /\ f.name \in PatchNames /\ applied \in Seq(PatchNames)
  <2>1. oFiles \in Seq(Patches) /\ applied \in Seq(PatchNames)
    BY DEF PatchesInv, PatchesInOrder, Lined
  <2>2. f \in Patches
    BY <1>1, <2>1
  <2> QED BY <2>1, <2>2, PatchFacts
<1> HIDE DEF f
<1>3. PatchesInOrder /\ Clean(oConfig, InEffect) /\ O!Valid(oConfig) /\ (applied = <<>> => oConfig = O!Built)
  BY <1>1 DEF PatchesInv, ConfigClean
<1>4. CASE /\ result # O!Bad /\ O!Valid(result)
           /\ oConfig' = result /\ applied' = Append(applied, f.name)
  <2>1. Clean(result, InEffect \union {f.name})
    BY <1>1, <1>2, <1>3, <1>4, ResultClean
  <2>2. InEffect' = InEffect \union {f.name} /\ applied' # <<>>
    BY <1>2, <1>4, Appended DEF InEffect
  <2>3. Clean(oConfig', InEffect') /\ O!Valid(oConfig')
    BY <1>4, <2>1, <2>2
  <2> QED BY <1>1, <2>2, <2>3 DEF ConfigClean
<1>5. CASE oConfig' = oConfig /\ applied' = applied
  <2>1. InEffect' = InEffect
    BY <1>5 DEF InEffect
  <2> QED BY <1>1, <1>3, <1>5, <2>1 DEF ConfigClean
<1> QED BY <1>1, <1>4, <1>5

LEMMA ObjectIs ==
  ASSUME NEW f
  PROVE  /\ O!IsObject(O!Object(f)) /\ ~ O!IsArray(O!Object(f)) /\ O!Object(f).obj = f
         /\ O!Object(f) # O!Bad /\ O!Object(f) # O!Null
  BY DEF O!IsObject, O!IsArray, O!Object, O!Bad, O!Null, O!Leaf

\* A member that is set is there, and the others stay.
LEMMA MemberSet ==
  ASSUME NEW f, NEW token, NEW value, NEW other, other # token
  PROVE  LET d == O!Object(O!With(f, token, value)) IN
         /\ O!Member(d, token) = value
         /\ O!Member(d, other) = O!Member(O!Object(f), other)
<1> DEFINE g == O!With(f, token, value)
<1>1. /\ token \in DOMAIN g /\ g[token] = value
      /\ other \in DOMAIN g <=> other \in DOMAIN f
      /\ other \in DOMAIN f => g[other] = f[other]
  BY DEF O!With
<1> HIDE DEF g
<1>2. /\ O!IsObject(O!Object(g)) /\ ~ O!IsArray(O!Object(g)) /\ O!Object(g).obj = g
      /\ O!IsObject(O!Object(f)) /\ ~ O!IsArray(O!Object(f)) /\ O!Object(f).obj = f
  BY ObjectIs
<1>3. O!Member(O!Object(g), token) = value
  BY <1>1, <1>2 DEF O!Member
<1>4. O!Member(O!Object(g), other) = O!Member(O!Object(f), other)
  <2>1. CASE other \in DOMAIN f
    <3>1. O!Member(O!Object(g), other) = g[other]
      BY <1>1, <1>2, <2>1 DEF O!Member
    <3>2. O!Member(O!Object(f), other) = f[other]
      BY <1>2, <2>1 DEF O!Member
    <3> QED BY <1>1, <2>1, <3>1, <3>2
  <2>2. CASE other \notin DOMAIN f
    BY <1>1, <1>2, <2>2 DEF O!Member
  <2> QED BY <2>1, <2>2
<1> QED BY <1>3, <1>4 DEF g

\* The process that is put into the container runs what it should, as someone.
LEMMA ProcessIs ==
  ASSUME NEW process
  PROVE  LET p == O!Process(process) IN
         /\ O!Member(p, "args") = O!Leaf("init") /\ ~ O!Missing(p, "user")
         /\ O!IsObject(p)
<1> PICK directory : O!Process(process) =
       O!Object(O!With(O!With(O!With(process.obj, "cwd", directory), "user",
           IF O!Missing(process, "user") THEN O!Leaf("caller") ELSE O!Member(process, "user")),
           "args", O!Leaf("init")))
  BY DEF O!Process
<1> DEFINE user == IF O!Missing(process, "user") THEN O!Leaf("caller") ELSE O!Member(process, "user")
           f == O!With(process.obj, "cwd", directory)
           g == O!With(f, "user", user)
           p == O!Object(O!With(g, "args", O!Leaf("init")))
<1>1. O!Process(process) = p
  OBVIOUS
<1>2. user \notin {O!Bad, O!Null}
  BY DEF O!Missing, O!Bad, O!Null, O!Leaf
<1> HIDE DEF user, f
<1>3. O!Member(O!Object(g), "user") = user
  <2>1. "user" # "args"
    OBVIOUS
  <2> QED BY <2>1, MemberSet
<1> HIDE DEF g
<1>4. O!Member(p, "args") = O!Leaf("init") /\ O!Member(p, "user") = O!Member(O!Object(g), "user")
  <2>1. "user" # "args"
    OBVIOUS
  <2> QED BY <2>1, MemberSet
<1>5. O!IsObject(p)
  BY ObjectIs
<1> HIDE DEF p
<1> QED BY <1>1, <1>2, <1>3, <1>4, <1>5 DEF O!Missing

LEMMA FinalizeKeepsClean ==
  ASSUME PatchesInv, O!Finalize PROVE ConfigClean' /\ oPc' \in {"ready", "failed"}
<1> DEFINE process == IF O!Member(oConfig, "process") = O!Bad THEN O!Object(<<>>)
                      ELSE O!Member(oConfig, "process")
           there == O!Member(oConfig, "mounts")
           all == there.arr \o <<O!Leaf("entrypoint"), O!Leaf("init")>>
           able == O!IsObject(process) /\ workdir # "relative" /\ O!IsArray(there)
<1>1. /\ oPc = "final" /\ applied' = applied /\ workdir' = workdir
      /\ IF able
         THEN /\ oConfig' = O!SetMember(O!SetMember(oConfig, "process", O!Process(process)),
                                        "mounts", O!Array(all))
              /\ oPc' = "ready"
         ELSE oPc' = "failed" /\ oConfig' = oConfig
  BY DEF O!Finalize
<1>2. Clean(oConfig, InEffect) /\ O!Valid(oConfig) /\ (applied = <<>> => oConfig = O!Built)
  BY <1>1 DEF PatchesInv, ConfigClean
<1>3. InEffect' = InEffect
  BY <1>1 DEF InEffect
<1>4. CASE ~ able
  <2>1. ASSUME workdir # "relative"
        PROVE  O!Missing(oConfig, "mounts") \/ O!Member(oConfig, "process") = O!Null
    <3>1. CASE ~ O!IsObject(process)
      <4>1. O!Member(oConfig, "process") # O!Bad
        BY <3>1, ObjectIs
      <4>2. ~ O!IsObject(O!Member(oConfig, "process"))
        BY <3>1, <4>1
      <4> QED BY <1>2, <4>1, <4>2 DEF O!Valid, O!Missing
    <3>2. CASE ~ O!IsArray(there)
      BY <1>2, <3>2 DEF O!Valid
    <3> QED BY <1>4, <2>1, <3>1, <3>2
  <2>2. workdir # "relative" => applied # <<>>
    BY <1>2, <2>1, BuiltIs
  <2>3. oPc' = "failed" /\ oConfig' = oConfig
    BY <1>1, <1>4
  <2> QED BY <1>1, <1>2, <1>3, <2>1, <2>2, <2>3 DEF ConfigClean
<1>5. CASE able
  <2> DEFINE p == O!Process(process)
             f == O!With(oConfig.obj, "process", p)
             g == O!With(f, "mounts", O!Array(all))
  <2>1. O!IsObject(oConfig)
    BY <1>2 DEF O!Valid
  <2>2. O!SetMember(oConfig, "process", p) = O!Object(f)
    BY <2>1 DEF O!SetMember
  <2>3. oConfig' = O!Object(g) /\ oPc' = "ready"
    <3>1. oConfig' = O!SetMember(O!Object(f), "mounts", O!Array(all)) /\ oPc' = "ready"
      <4> HIDE DEF able, p, all, f
      <4> QED BY <1>1, <1>5, <2>2 DEF p
    <3>2. O!IsObject(O!Object(f)) /\ O!Object(f).obj = f
      BY ObjectIs
    <3> HIDE DEF all, f
    <3> QED BY <3>1, <3>2 DEF O!SetMember
  <2>4. O!Member(oConfig', "process") = p /\ O!Member(oConfig', "mounts") = O!Array(all)
    <3> HIDE DEF all, p
    <3>1. O!Member(O!Object(g), "mounts") = O!Array(all)
          /\ O!Member(O!Object(g), "process") = O!Member(O!Object(f), "process")
      <4> HIDE DEF f
      <4>1. "process" # "mounts"
        OBVIOUS
      <4> QED BY <4>1, MemberSet
    <3>2. O!Member(O!Object(f), "process") = p
      <4>1. "process" # "mounts"
        OBVIOUS
      <4> QED BY <4>1, MemberSet
    <3> QED BY <2>3, <3>1, <3>2
  <2>5. O!Member(p, "args") = O!Leaf("init") /\ ~ O!Missing(p, "user")
    <3> HIDE DEF process
    <3> QED BY ProcessIs
  <2>6. PICK T : Closed(T, InEffect) /\ there \in T /\ O!IsMadeOf(there, T)
    <3>1. there # O!Bad
      BY <1>5 DEF O!IsArray, O!Bad
    <3>2. Clean(there, InEffect)
      BY <1>2, <3>1, MemberClean
    <3> HIDE DEF there
    <3> QED BY <3>2, CleanIs
  <2>7. there.arr \in Seq(T)
    BY <1>5, <2>6, Kinds
  <2>8. /\ O!Range(all) = O!Range(there.arr) \union {O!Leaf("entrypoint"), O!Leaf("init")}
        /\ O!Range(there.arr) \subseteq T
    <3> DEFINE s == there.arr
               e == O!Leaf("entrypoint")
               i == O!Leaf("init")
    <3>1. s \in Seq(T)
      BY <2>7
    <3> HIDE DEF s, e, i
    <3> DEFINE n == Len(s)
               t == s \o <<e, i>>
    <3>2. /\ n \in Nat /\ DOMAIN s = 1..n /\ DOMAIN t = 1..(n + 2)
          /\ \A k \in 1..n : t[k] = s[k] /\ s[k] \in T
          /\ t[n + 1] = e /\ t[n + 2] = i
      BY <3>1
    <3> HIDE DEF n, t
    <3>3. 1..(n + 2) = (1..n) \union {n + 1, n + 2}
      BY <3>2
    <3>4. O!Range(t) = O!Range(s) \union {e, i} /\ O!Range(s) \subseteq T
      BY <3>2, <3>3 DEF O!Range
    <3> QED BY <3>4 DEF s, t, e, i
  <2>9. O!Marks' = {m.leaf : m \in {m \in O!Range(all) : O!IsLeaf(m)}}
    <3> DEFINE a == O!Array(all)
    <3>1. O!IsArray(a) /\ a.arr = all
      BY DEF O!IsArray, O!Array
    <3>2. O!Member(oConfig', "mounts") = a
      BY <2>4
    <3> HIDE DEF a, all
    <3> QED BY <3>1, <3>2 DEF O!Marks
  <2>10. /\ {"entrypoint", "init"} \subseteq O!Marks'
         /\ O!Marks' \intersect PatchNames \subseteq InEffect
    <3>1. \A x : O!IsLeaf(O!Leaf(x)) /\ O!Leaf(x).leaf = x
      BY DEF O!IsLeaf, O!Leaf
    <3>2. {"entrypoint", "init"} \subseteq O!Marks'
      <4> HIDE DEF all, there
      <4>1. O!Leaf("entrypoint") \in O!Range(all) /\ O!Leaf("init") \in O!Range(all)
        BY <2>8
      <4> QED BY <2>9, <3>1, <4>1
    <3>3. ASSUME NEW x \in O!Marks', x \in PatchNames PROVE x \in InEffect
      <4> HIDE DEF all, there
      <4>1. PICK m \in O!Range(all) : O!IsLeaf(m) /\ m.leaf = x
        BY <2>9
      <4>2. m # O!Leaf("entrypoint") /\ m # O!Leaf("init")
        <5>1. "entrypoint" \notin PatchNames /\ "init" \notin PatchNames
          BY PatchFacts
        <5> QED BY <3>1, <3>3, <4>1, <5>1
      <4>3. m \in T
        BY <2>8, <4>1, <4>2
      <4> QED BY <2>6, <3>3, <4>1, <4>3 DEF Closed
    <3> QED BY <3>2, <3>3
  <2> HIDE DEF p, all
  <2> QED BY <1>3, <2>3, <2>4, <2>5, <2>10 DEF ConfigClean
<1> QED BY <1>1, <1>4, <1>5

LEMMA PatchesNext == PatchesInv /\ [O!Next]_oVars => PatchesInv'
<1> SUFFICES ASSUME PatchesInv, [O!Next]_oVars PROVE PatchesInv'
  OBVIOUS
<1>1. ASSUME NEW result \in IF oFiles = <<>> THEN {} ELSE O!Result(Head(oFiles)), O!ApplyPatch(result)
      PROVE  PatchesInv'
  BY <1>1, ApplyKeepsOrder, ApplyKeepsClean DEF PatchesInv
<1>2. CASE O!Patched
  <2>1. /\ oPc = "patch" /\ oPc' = "final"
        /\ UNCHANGED <<oFiles, oConfig, applied, skipped, workdir>>
    BY <1>2 DEF O!Patched
  <2>2. PatchesInOrder'
    BY <2>1 DEF PatchesInv, PatchesInOrder, InEffect
  <2>3. ConfigClean'
    BY <2>1 DEF PatchesInv, ConfigClean, InEffect
  <2> QED BY <2>1, <2>2, <2>3 DEF PatchesInv
<1>3. CASE O!Finalize
  <2>1. UNCHANGED <<oFiles, applied, skipped>>
    BY <1>3 DEF O!Finalize
  <2>2. PatchesInOrder'
    BY <2>1 DEF PatchesInv, PatchesInOrder, InEffect
  <2> QED BY <1>3, <2>2, FinalizeKeepsClean DEF PatchesInv
<1>4. CASE UNCHANGED oVars
  <2>1. UNCHANGED <<oFiles, oConfig, applied, skipped, workdir, oPc>>
    BY <1>4 DEF oVars
  <2>2. PatchesInOrder'
    BY <2>1 DEF PatchesInv, PatchesInOrder, InEffect
  <2>3. ConfigClean'
    BY <2>1 DEF PatchesInv, ConfigClean, InEffect, O!Marks
  <2> QED BY <2>1, <2>2, <2>3 DEF PatchesInv
<1> QED BY <1>1, <1>2, <1>3, <1>4 DEF O!Next

LEMMA MarksInEffect ==
  ASSUME Clean(oConfig, InEffect) PROVE O!Marks \intersect PatchNames \subseteq InEffect
<1> DEFINE there == O!Member(oConfig, "mounts")
<1> SUFFICES ASSUME NEW x \in O!Marks, x \in PatchNames PROVE x \in InEffect
  OBVIOUS
<1>1. O!IsArray(there) /\ \E m \in O!Range(there.arr) : O!IsLeaf(m) /\ m.leaf = x
  BY DEF O!Marks
<1>2. PICK m \in O!Range(there.arr) : O!IsLeaf(m) /\ m.leaf = x
  BY <1>1
<1>3. there # O!Bad
  BY <1>1 DEF O!IsArray, O!Bad
<1>4. Clean(there, InEffect)
  BY <1>3, MemberClean
<1>5. PICK T : Closed(T, InEffect) /\ O!IsMadeOf(there, T)
  <2> HIDE DEF there
  <2> QED BY <1>4, CleanIs
<1>6. there.arr \in Seq(T)
  BY <1>1, <1>5, Kinds
<1>7. m \in T
  BY <1>2, <1>6 DEF O!Range
<1> QED BY <1>2, <1>5, <1>7 DEF Closed

\* A patch that fails, or leaves no configuration behind, leaves no trace, does
\* not keep what was before it from taking effect, and keeps no container from
\* starting, whatever the patches do and in whatever order they are found.
THEOREM BadPatchIgnoredHolds == ContainersSpec => []BadPatchIgnored
<1>1. PatchesInv => O!Marks \intersect skipped = {}
  <2> SUFFICES ASSUME PatchesInv PROVE O!Marks \intersect skipped = {}
    OBVIOUS
  <2>1. O!Marks \intersect PatchNames \subseteq InEffect
    BY MarksInEffect DEF PatchesInv, ConfigClean
  <2> QED BY <2>1 DEF PatchesInv, PatchesInOrder
<1>2. PatchesInv => \A f, g \in Patches :
        f.app /\ ~ g.app /\ {f.name, g.name} \subseteq O!Range(applied) =>
            O!Position(g.name) < O!Position(f.name)
  <2> SUFFICES ASSUME PatchesInv, NEW f \in Patches, NEW g \in Patches, f.app, ~ g.app,
                      f.name \in O!Range(applied), g.name \in O!Range(applied)
               PROVE  O!Position(g.name) < O!Position(f.name)
    OBVIOUS
  <2> DEFINE j == O!Position(f.name)
             k == O!Position(g.name)
  <2>1. /\ j \in DOMAIN applied /\ applied[j] = f.name
        /\ k \in DOMAIN applied /\ applied[k] = g.name
    BY DEF O!Position, O!Range
  <2> HIDE DEF j, k
  <2>2. ~ j < k /\ j # k
    <3>1. ~ j < k
      BY <2>1 DEF PatchesInv, PatchesInOrder
    <3>2. f.name # g.name
      BY PatchFacts
    <3> QED BY <2>1, <3>1, <3>2
  <2>3. j \in Nat /\ k \in Nat
    BY <2>1 DEF PatchesInv, PatchesInOrder
  <2> QED BY <2>2, <2>3 DEF j, k
<1>3. PatchesInv => BadPatchIgnored
  BY <1>1, <1>2 DEF PatchesInv, ConfigClean, BadPatchIgnored, O!BadPatchIgnored
<1> QED BY <1>3, PatchesInit, PatchesNext, PatchesRun, PTL DEF ContainersSpec

----------------------------------------------------------------------------
(* The files of running containers.                                        *)

Pids == 1..MaxPid
Places == {"new", "mount", "spawn", "wait", "record", "write", "child", "forget", "clean",
           "drop", "gone"}
Runtimes == {"off", "starting", "up", "ending", "zombie", "over"}
Id(n) == bCli[n].id
Live(n) == runtime[n].at \in {"starting", "up", "ending", "zombie"}
Created(n) == runtime[n].at \in {"up", "ending"}

BoxTypes ==
    /\ bCli \in [Runs -> [at : Places, id : Ids \union {None}, file : Pids \union {None}]]
    /\ runtime \in [Runs -> [at : Runtimes, pid : Pids \union {None}]]
    /\ box \in [Ids -> Pids \union {None}]
    /\ alive \subseteq Pids
    /\ bFiles \in [Pids -> Ids \union {"cut", None}]
    /\ rootfs \in [Ids -> {None, "made", "kernel", "fuse"}]
    /\ lost \subseteq Runs /\ reused \in BOOLEAN

\* Where a run is, and its runtime with it.
Placed(n) ==
    /\ IF bCli[n].at = "new" THEN Id(n) = None ELSE Id(n) \in Ids
    /\ bCli[n].at \in {"new", "mount", "spawn"} => runtime[n].at = "off"
    /\ bCli[n].at \in {"wait", "record", "write", "child"} => Live(n)
    /\ bCli[n].at = "forget" => runtime[n].at = "over"
    /\ bCli[n].at = "clean" => runtime[n].at \in {"off", "over"}
    /\ bCli[n].at = "gone" /\ ~ B!Lost(Id(n)) => runtime[n].at \in {"off", "over"}
    /\ bCli[n].at \in {"record", "write", "child", "forget"} => bCli[n].file \in Pids
    /\ bCli[n].at \in {"mount", "spawn"} => B!Mode \in {"kernel", "fuse"}
    /\ n \in lost => bCli[n].at \in {"drop", "gone"}
    /\ bCli[n].at = "drop" => n \in lost
    /\ Live(n) => runtime[n].pid \in Pids

\* A container has one run at a time, but what others have left of it.
Single == \A n, m \in Runs :
    n # m /\ Id(n) = Id(m) /\ Id(n) \in Ids => bCli[n].at = "gone" \/ bCli[m].at = "gone"

\* Its root is there while a run needs it.
Rooted == \A i \in Ids : ~ B!Lost(i) =>
    /\ (\A n \in Runs : Id(n) = i => bCli[n].at = "gone") => rootfs[i] = None
    /\ \A n \in Runs : Id(n) = i /\ bCli[n].at \in {"spawn", "wait", "record", "write", "child",
                                                  "forget"} => rootfs[i] \in {"kernel", "fuse"}

BoxBase == BoxTypes /\ (\A n \in Runs : Placed(n)) /\ Single /\ Rooted

\* Every process is a runtime or the first one of a container, and no two are
\* the same.
Owned ==
    /\ \A n \in Runs : Live(n) => runtime[n].pid \in alive
    /\ \A n \in Runs : runtime[n].at = "up" => box[Id(n)] \in alive
    /\ \A n \in Runs : Created(n) => box[Id(n)] # None
    /\ \A i \in Ids : box[i] # None => \E n \in Runs : Id(n) = i /\ Created(n)
    /\ \A n, m \in Runs : n # m /\ Live(n) /\ Live(m) => runtime[n].pid # runtime[m].pid
    /\ \A n, m \in Runs : n # m /\ Created(n) /\ Created(m) => Id(n) # Id(m)
    /\ \A n, m \in Runs : runtime[n].at = "up" /\ Live(m) => box[Id(n)] # runtime[m].pid
    /\ \A n, m \in Runs : n # m /\ runtime[n].at = "up" /\ runtime[m].at = "up" =>
           box[Id(n)] # box[Id(m)]
    /\ \A p \in alive : \E n \in Runs : \/ Live(n) /\ runtime[n].pid = p
                                        \/ runtime[n].at = "up" /\ box[Id(n)] = p

\* What a pid stands for, as long as none comes back too early.
Tie(p, i) ==
    \/ bFiles[p] = i \/ box[i] = p
    \/ \E n \in Runs : /\ Id(n) = i
                       /\ \/ bCli[n].file = p /\ bCli[n].at # "gone"
                          \/ Live(n) /\ runtime[n].pid = p
Tied == ~ reused => \A p \in Pids, i, j \in Ids : Tie(p, i) /\ Tie(p, j) => i = j

\* The file of a run is there from its record to its end, and no other of its
\* container; what it is named by is a process of the run.
Filed ==
    /\ ~ reused => \A n \in Runs :
           bCli[n].at \in {"child", "forget"} => bFiles[bCli[n].file] = Id(n)
    /\ \A i \in Ids, p \in Pids : ~ B!Lost(i) /\ bFiles[p] = i =>
           \E n \in Runs : Id(n) = i /\ bCli[n].at \in {"child", "forget"} /\ bCli[n].file = p
    /\ \A n \in Runs : ~ B!Lost(Id(n)) /\ bCli[n].at \in {"record", "write", "child"} =>
           \/ bCli[n].file = runtime[n].pid
           \/ runtime[n].at = "up" /\ bCli[n].file = box[Id(n)]
           \/ runtime[n].at \in {"ending", "zombie"}

BoxInv == BoxBase /\ Owned /\ Tied /\ Filed
LEMMA BoxInit == ContainersInit => BoxInv
<1> SUFFICES ASSUME ContainersInit PROVE BoxInv
  OBVIOUS
<1> USE BoxAssumption
<1>0. B!Init
  BY DEF ContainersInit
<1>1. BoxTypes
  BY <1>0 DEF B!Init, BoxTypes, Places, Runtimes, Pids, B!Pids
<1>2. ASSUME NEW n \in Runs PROVE Placed(n)
  BY <1>0, <1>2 DEF B!Init, Placed, Id, Live
<1>3. Single /\ Rooted
  BY <1>0 DEF B!Init, Single, Rooted, Id
<1>4. Owned
  BY <1>0 DEF B!Init, Owned, Live, Created
<1>5. Tied
  BY <1>0 DEF B!Init, Tied, Tie, Id, Live, Pids, B!Pids
<1>6. Filed
  BY <1>0 DEF B!Init, Filed, Pids, B!Pids
<1> QED BY <1>1, <1>2, <1>3, <1>4, <1>5, <1>6 DEF BoxInv, BoxBase

LEMMA BoxRooted == BoxBase => RootKept
<1> SUFFICES ASSUME BoxBase, NEW i \in Ids, ~ B!Lost(i)
             PROVE  /\ (\A n \in Runs : Id(n) = i => bCli[n].at = "gone") => rootfs[i] = None
                    /\ \A n \in Runs : Id(n) = i /\ runtime[n].at \notin {"off", "over"} =>
                           rootfs[i] \in {"kernel", "fuse"}
  BY DEF RootKept, B!RootKept, B!Living, B!Id, B!At, Id
<1>1. ASSUME NEW n \in Runs, Id(n) = i, runtime[n].at \notin {"off", "over"}
      PROVE  bCli[n].at \in {"wait", "record", "write", "child"}
  <2>1. n \notin lost
    BY <1>1 DEF B!Lost, B!Id, Id
  <2>2. Placed(n) /\ bCli[n].at \in Places
    BY DEF BoxBase, BoxTypes
  <2> QED BY <1>1, <2>1, <2>2 DEF Placed, Places
<1> QED BY <1>1 DEF BoxBase, Rooted

LEMMA SameBoxCount == \A S : B!Cardinality(S) = Cardinality(S)
  BY DEF B!Cardinality, Cardinality, B!IsFiniteSet, IsFiniteSet

LEMMA BoxSeen == BoxInv => SeenAsIs
<1> SUFFICES ASSUME BoxInv, ~ reused, NEW i \in Ids
             PROVE  /\ B!Rows(i) # {} => B!Living(i)
                    /\ B!Known(i) /\ ~ B!Lost(i) => Cardinality(B!Rows(i)) = 1
  BY SameBoxCount DEF SeenAsIs, B!SeenAsIs
<1>0. BoxTypes /\ (\A n \in Runs : Placed(n)) /\ Single /\ Owned /\ Tied /\ Filed
  BY DEF BoxInv, BoxBase
<1>1. ASSUME B!Rows(i) # {} PROVE B!Living(i)
  <2>1. PICK p \in alive : bFiles[p] = i
    BY <1>1 DEF B!Rows
  <2>2. PICK n \in Runs : \/ Live(n) /\ runtime[n].pid = p
                          \/ runtime[n].at = "up" /\ box[Id(n)] = p
    BY <1>0 DEF Owned
  <2>3. Live(n)
    BY <2>2 DEF Live
  <2>4. Id(n) \in Ids
    BY <1>0, <2>3 DEF Placed, Live
  <2>5. p \in Pids /\ Tie(p, i) /\ Tie(p, Id(n))
    BY <1>0, <2>1, <2>2 DEF Tie, BoxTypes
  <2>6. Id(n) = i
    BY <1>0, <2>4, <2>5 DEF Tied
  <2> QED BY <2>3, <2>6 DEF B!Living, B!Id, Id, Live
<1>2. ASSUME B!Known(i), ~ B!Lost(i) PROVE Cardinality(B!Rows(i)) = 1
  <2>1. PICK n \in Runs : Id(n) = i /\ bCli[n].at = "child" /\ runtime[n].at = "up"
    BY <1>2 DEF B!Known, B!Id, B!At, Id
  <2>2. bFiles[bCli[n].file] = i
    BY <1>0, <2>1 DEF Filed
  <2>3. bCli[n].file \in alive
    <3>1. bCli[n].file = runtime[n].pid \/ bCli[n].file = box[Id(n)]
      BY <1>0, <1>2, <2>1 DEF Filed
    <3> QED BY <1>0, <2>1, <3>1 DEF Owned, Live
  <2>4. ASSUME NEW p \in alive, bFiles[p] = i PROVE p = bCli[n].file
    <3>1. PICK m \in Runs : Id(m) = i /\ bCli[m].at \in {"child", "forget"} /\ bCli[m].file = p
      BY <1>0, <1>2, <2>4 DEF Filed, BoxTypes
    <3>2. m = n
      BY <1>0, <2>1, <3>1 DEF Single
    <3> QED BY <3>1, <3>2
  <2>5. B!Rows(i) = {bCli[n].file}
    BY <2>2, <2>3, <2>4 DEF B!Rows
  <2> QED BY <2>5, FS_Singleton
<1> QED BY <1>1, <1>2

LEMMA CliGoes ==
  ASSUME BoxTypes, NEW n \in Runs, NEW to \in Places, B!Go(n, to)
  PROVE  /\ bCli' \in [Runs -> [at : Places, id : Ids \union {None}, file : Pids \union {None}]]
         /\ bCli'[n].at = to /\ bCli'[n].id = bCli[n].id /\ bCli'[n].file = bCli[n].file
         /\ \A m \in Runs \ {n} : bCli'[m] = bCli[m]
  BY DEF BoxTypes, B!Go

\* The runtime of a run goes on.
Turns(n, to) ==
    /\ runtime' \in [Runs -> [at : Runtimes, pid : Pids \union {None}]]
    /\ runtime'[n].at = to /\ runtime'[n].pid = runtime[n].pid
    /\ \A m \in Runs \ {n} : runtime'[m] = runtime[m]

LEMMA RuntimeTurns ==
  ASSUME BoxTypes, NEW n \in Runs, NEW to \in Runtimes, runtime' = [runtime EXCEPT ![n].at = to]
  PROVE  Turns(n, to)
  BY DEF BoxTypes, Turns

LEMMA ModeSame == UNCHANGED bHost => B!Mode' = B!Mode
  BY DEF B!Mode

LEMMA LostSame ==
  ASSUME UNCHANGED lost, \A m \in lost : Id(m)' = Id(m), NEW i
  PROVE  B!Lost(i)' = B!Lost(i)
  BY DEF B!Lost, B!Id, Id

\* What a run does to the others: nothing, but to the pids.
LEMMA BaseStart ==
  ASSUME BoxBase, NEW n \in Runs, NEW i \in Ids, B!Start(n, i)
  PROVE  BoxBase'
<1> USE BoxAssumption
<1>0. BoxTypes /\ (\A m \in Runs : Placed(m)) /\ Single /\ Rooted
  BY DEF BoxBase
<1>1. bCli[n].at = "new" /\ Id(n) = None /\ n \notin lost /\ runtime[n].at = "off"
  BY <1>0 DEF B!Start, B!At, Placed
<1>2. PICK to \in {"gone", "mount"} :
        /\ bCli' = [bCli EXCEPT ![n] = [at |-> to, id |-> i, file |-> None]]
        /\ to = (IF B!Mode = None \/ rootfs[i] \in {"kernel", "fuse"} THEN "gone" ELSE "mount")
  BY DEF B!Start
<1>3. bCli' \in [Runs -> [at : Places, id : Ids \union {None}, file : Pids \union {None}]]
      /\ bCli'[n] = [at |-> to, id |-> i, file |-> None]
      /\ \A m \in Runs \ {n} : bCli'[m] = bCli[m]
  BY <1>0, <1>2 DEF BoxTypes, Places
<1>4. UNCHANGED <<runtime, box, bFiles, lost, alive, reused, last, bHost>>
  BY DEF B!Start, B!pids
<1>5. rootfs' \in [Ids -> {None, "made", "kernel", "fuse"}]
      /\ (\A j \in Ids \ {i} : rootfs'[j] = rootfs[j])
      /\ (rootfs[i] = None => rootfs'[i] = None)
  BY <1>0 DEF B!Start, BoxTypes
<1>6. \A m \in Runs : Id(m) = i => bCli[m].at = "gone"
  BY DEF B!Start, B!At, B!Id, Id
<1>7. B!Mode' = B!Mode
  BY <1>4, ModeSame
<1>8. ASSUME NEW j PROVE B!Lost(j)' = B!Lost(j)
  <2>1. \A m \in lost : Id(m)' = Id(m)
    BY <1>0, <1>1, <1>3 DEF Id, BoxTypes
  <2> QED BY <2>1, <1>4, LostSame
<1>9. BoxTypes'
  BY <1>0, <1>3, <1>4, <1>5 DEF BoxTypes
<1>10. ASSUME NEW m \in Runs PROVE Placed(m)'
  <2>1. CASE m = n
    <3>1. to = "mount" => B!Mode \in {"kernel", "fuse"}
      BY <1>2 DEF B!Mode
    <3> QED BY <2>1, <3>1, <1>1, <1>3, <1>4, <1>7 DEF Placed, Id, Live
  <2>2. CASE m # n
    <3>1. Id(m)' = Id(m) /\ bCli'[m] = bCli[m]
      BY <1>3, <2>2 DEF Id
    <3>2. B!Lost(Id(m))' = B!Lost(Id(m))
      BY <1>3, <2>2, <1>8, <1>4 DEF Id, B!Lost, B!Id
    <3> QED BY <1>0, <3>1, <3>2, <1>4, <1>7 DEF Placed, Live
  <2> QED BY <2>1, <2>2
<1>11. Single'
  BY <1>0, <1>3, <1>6 DEF Single, Id
<1>12. Rooted'
  <2> SUFFICES ASSUME NEW j \in Ids, ~ B!Lost(j)
               PROVE  /\ (\A m \in Runs : Id(m)' = j => bCli'[m].at = "gone") => rootfs'[j] = None
                      /\ \A m \in Runs : Id(m)' = j /\ bCli'[m].at \in {"spawn", "wait", "record", "write", "child",
                                                  "forget"} => rootfs'[j] \in {"kernel", "fuse"}
    BY <1>8 DEF Rooted
  <2>1. CASE j = i
    <3>1. rootfs[i] = None /\ rootfs'[i] = None
      BY <1>0, <1>6, <2>1, <1>5 DEF Rooted
    <3>2. ASSUME NEW m \in Runs, Id(m)' = i PROVE bCli'[m].at \in {"gone", "mount"}
      BY <1>3, <1>6, <3>2 DEF Id
    <3> QED BY <2>1, <3>1, <3>2
  <2>2. CASE j # i
    <3>1. \A m \in Runs \ {n} : Id(m)' = Id(m) /\ bCli'[m] = bCli[m]
      BY <1>3 DEF Id
    <3>2. Id(n)' = i
      BY <1>3 DEF Id
    <3>3. rootfs'[j] = rootfs[j]
      BY <1>5, <2>2
    <3> QED BY <1>0, <1>1, <2>2, <3>1, <3>2, <3>3 DEF Rooted
  <2> QED BY <2>1, <2>2
<1> QED BY <1>9, <1>10, <1>11, <1>12 DEF BoxBase
Needs == {"spawn", "wait", "record", "write", "child", "forget"}

LEMMA BaseGoes ==
  ASSUME BoxBase, BoxTypes', NEW n \in Runs, Placed(n)',
         bCli[n].at # "new", bCli'[n].at # "new", bCli'[n].id = bCli[n].id,
         \A m \in Runs \ {n} : bCli'[m] = bCli[m] /\ runtime'[m] = runtime[m],
         lost' = lost \/ lost' = lost \union {n}, UNCHANGED bHost,
         \/ /\ rootfs' = rootfs /\ (bCli[n].at = "gone" <=> bCli'[n].at = "gone")
            /\ bCli'[n].at \in Needs => bCli[n].at \in Needs
         \/ /\ bCli[n].at # "gone" /\ \A j \in Ids \ {Id(n)} : rootfs'[j] = rootfs[j]
            /\ bCli'[n].at = "gone" => n \in lost' \/ rootfs'[Id(n)] = None
            /\ bCli'[n].at \in Needs => rootfs'[Id(n)] \in {"kernel", "fuse"}
  PROVE  BoxBase'
<1>0. BoxTypes /\ (\A m \in Runs : Placed(m)) /\ Single /\ Rooted
  BY DEF BoxBase
<1>1. \A m \in Runs : Id(m)' = Id(m)
  BY DEF Id
<1>2. Id(n) \in Ids
  BY <1>0 DEF Placed
<1>3. ASSUME NEW j, ~ B!Lost(j)' PROVE ~ B!Lost(j)
  <2>1. lost \subseteq Runs
    BY <1>0 DEF BoxTypes
  <2> QED BY <1>1, <1>3, <2>1 DEF B!Lost, B!Id, Id
<1>4. B!Mode' = B!Mode
  BY ModeSame
<1>5. ASSUME NEW m \in Runs, m # n PROVE Placed(m)'
  <2>1. Placed(m) /\ bCli'[m] = bCli[m] /\ runtime'[m] = runtime[m] /\ Id(m)' = Id(m)
    BY <1>0, <1>1, <1>5
  <2>2. m \in lost' => m \in lost
    BY <1>5
  <2>3. m \in lost => m \in lost'
    OBVIOUS
  <2>4. ~ B!Lost(Id(m))' => ~ B!Lost(Id(m))
    <3>1. ASSUME B!Lost(Id(m)) PROVE B!Lost(Id(m))'
      <4>1. PICK k \in lost : Id(k) = Id(m)
        BY <3>1 DEF B!Lost, B!Id, Id
      <4>2. k \in lost' /\ Id(k)' = Id(m)'
        BY <4>1, <1>0, <1>1, <2>1 DEF BoxTypes
      <4> QED BY <4>2 DEF B!Lost, B!Id, Id
    <3> QED BY <3>1
  <2> QED BY <2>1, <2>2, <2>3, <2>4, <1>4 DEF Placed, Live
<1>6. Single'
  <2>1. \A m \in Runs : bCli[m].at = "gone" => bCli'[m].at = "gone" \/ m = n
    OBVIOUS
  <2>2. CASE bCli[n].at = "gone" => bCli'[n].at = "gone"
    BY <1>0, <1>1, <2>1, <2>2 DEF Single
  <2>3. CASE bCli[n].at # "gone"
    BY <1>0, <1>1, <2>1, <2>3 DEF Single
  <2> QED BY <2>2, <2>3
<1>7. Rooted'
  <2> SUFFICES ASSUME NEW j \in Ids, ~ B!Lost(j)'
               PROVE  /\ (\A m \in Runs : Id(m) = j => bCli'[m].at = "gone") => rootfs'[j] = None
                      /\ \A m \in Runs : Id(m) = j /\ bCli'[m].at \in Needs =>
                             rootfs'[j] \in {"kernel", "fuse"}
    BY <1>1 DEF Rooted, Needs
  <2>1. /\ (\A m \in Runs : Id(m) = j => bCli[m].at = "gone") => rootfs[j] = None
        /\ \A m \in Runs : Id(m) = j /\ bCli[m].at \in Needs => rootfs[j] \in {"kernel", "fuse"}
    BY <1>0, <1>3 DEF Rooted, Needs
  <2>2. CASE /\ rootfs' = rootfs /\ (bCli[n].at = "gone" <=> bCli'[n].at = "gone")
             /\ bCli'[n].at \in Needs => bCli[n].at \in Needs
    <3>1. \A m \in Runs : bCli'[m].at \in Needs => bCli[m].at \in Needs
      BY <2>2
    <3>2. \A m \in Runs : bCli'[m].at = "gone" => bCli[m].at = "gone"
      BY <2>2
    <3> QED BY <2>1, <2>2, <3>1, <3>2
  <2>3. CASE /\ bCli[n].at # "gone" /\ \A k \in Ids \ {Id(n)} : rootfs'[k] = rootfs[k]
             /\ bCli'[n].at = "gone" => n \in lost' \/ rootfs'[Id(n)] = None
             /\ bCli'[n].at \in Needs => rootfs'[Id(n)] \in {"kernel", "fuse"}
    <3>1. CASE j # Id(n)
      BY <2>1, <2>3, <3>1
    <3>2. CASE j = Id(n)
      <4>1. n \notin lost'
        BY <3>2, <1>1 DEF B!Lost, B!Id, Id
      <4>2. \A m \in Runs \ {n} : Id(m) = j => bCli'[m].at = "gone"
        BY <1>0, <1>2, <2>3, <3>2 DEF Single
      <4> QED BY <2>3, <3>2, <4>1, <4>2 DEF Needs
    <3> QED BY <3>1, <3>2
  <2> QED BY <2>2, <2>3
<1> QED BY <1>5, <1>6, <1>7 DEF BoxBase
BoxStep(n) ==
    \/ \E ok \in BOOLEAN : B!Mount(n, ok)
    \/ \E p \in Pids : B!Spawn(n, p) \/ B!Named(n, p) \/ B!Up(n, p)
    \/ B!Record(n) \/ B!Recorded(n) \/ B!Waited(n) \/ B!Forget(n) \/ B!Fails(n) \/ B!Clean(n)
    \/ B!Killed(n) \/ B!Refused(n) \/ B!Exits(n) \/ B!Over(n)

LEMMA BoxSteps == B!Next => \E n \in Runs : BoxStep(n) \/ \E i \in Ids : B!Start(n, i)
  BY DEF B!Next, BoxStep, B!KillOne, Pids, B!Pids

LEMMA FileTyped == ASSUME BoxTypes, NEW p \in Pids, NEW v \in Ids \union {"cut", None},
                          bFiles' = [bFiles EXCEPT ![p] = v]
                   PROVE  bFiles' \in [Pids -> Ids \union {"cut", None}]
  BY DEF BoxTypes

LEMMA BaseMount == ASSUME BoxBase, NEW n \in Runs, NEW ok \in BOOLEAN, B!Mount(n, ok) PROVE BoxBase'
<1>0. BoxTypes /\ Placed(n)
  BY DEF BoxBase
<1>1. bCli[n].at = "mount" /\ Id(n) \in Ids
  BY <1>0 DEF B!Mount, B!At, Placed
<1>2. PICK to \in {"spawn", "clean"} : to = (IF ok THEN "spawn" ELSE "clean")
  OBVIOUS
<1>3. B!Go(n, to)
  BY <1>2 DEF B!Mount
<1>4. /\ bCli' \in [Runs -> [at : Places, id : Ids \union {None}, file : Pids \union {None}]]
      /\ bCli'[n].at = to /\ bCli'[n].id = bCli[n].id /\ bCli'[n].file = bCli[n].file
      /\ \A m \in Runs \ {n} : bCli'[m] = bCli[m]
  BY <1>0, <1>3, CliGoes DEF Places
<1>5. UNCHANGED <<runtime, box, bFiles, lost, alive, reused, last, bHost>>
  BY DEF B!Mount, B!pids
<1>6. B!Mode \in {"kernel", "fuse"} /\ B!Mode' = B!Mode
  BY <1>0, <1>1, <1>5, ModeSame DEF Placed
<1> HIDE DEF B!Mode
<1>7. /\ rootfs' \in [Ids -> {None, "made", "kernel", "fuse"}]
      /\ \A j \in Ids \ {Id(n)} : rootfs'[j] = rootfs[j]
      /\ to = "spawn" => rootfs'[Id(n)] \in {"kernel", "fuse"}
  <2>1. rootfs' = [rootfs EXCEPT ![Id(n)] = IF ok THEN B!Mode ELSE "made"]
    BY DEF B!Mount, B!Id, Id
  <2> QED BY <2>1, <1>0, <1>1, <1>2, <1>6 DEF BoxTypes
<1>8. BoxTypes'
  BY <1>0, <1>4, <1>5, <1>7 DEF BoxTypes
<1>9. Placed(n)'
  BY <1>0, <1>1, <1>4, <1>5, <1>6 DEF Placed, Id, Live
<1> QED BY <1>1, <1>4, <1>5, <1>7, <1>8, <1>9, BaseGoes DEF Needs

LEMMA BaseSpawn == ASSUME BoxBase, NEW n \in Runs, NEW p \in Pids, B!Spawn(n, p) PROVE BoxBase'
<1>0. BoxTypes /\ Placed(n)
  BY DEF BoxBase
<1>1. bCli[n].at = "spawn" /\ Id(n) \in Ids
  BY <1>0 DEF B!Spawn, B!At, Placed
<1>2. /\ bCli' \in [Runs -> [at : Places, id : Ids \union {None}, file : Pids \union {None}]]
      /\ bCli'[n].at = "wait" /\ bCli'[n].id = bCli[n].id /\ bCli'[n].file = bCli[n].file
      /\ \A m \in Runs \ {n} : bCli'[m] = bCli[m]
  BY <1>0, CliGoes DEF Places, B!Spawn
<1>3. /\ runtime' \in [Runs -> [at : Runtimes, pid : Pids \union {None}]]
      /\ runtime'[n].at = "starting" /\ runtime'[n].pid = p
      /\ \A m \in Runs \ {n} : runtime'[m] = runtime[m]
  BY <1>0 DEF BoxTypes, B!Spawn, Runtimes
<1>4. UNCHANGED <<box, bFiles, rootfs, lost, bHost>> /\ alive' \subseteq Pids /\ reused' \in BOOLEAN
  BY <1>0 DEF B!Spawn, B!Give, BoxTypes
<1>8. BoxTypes'
  BY <1>0, <1>2, <1>3, <1>4 DEF BoxTypes
<1>9. Placed(n)'
  BY <1>0, <1>1, <1>2, <1>3, <1>4 DEF Placed, Id, Live
<1> QED BY <1>1, <1>2, <1>3, <1>4, <1>8, <1>9, BaseGoes DEF Needs

LEMMA BaseNamed == ASSUME BoxBase, NEW n \in Runs, NEW p \in Pids, B!Named(n, p) PROVE BoxBase'
<1>0. BoxTypes /\ Placed(n)
  BY DEF BoxBase
<1>1. bCli[n].at = "wait" /\ Id(n) \in Ids
  BY <1>0 DEF B!Named, B!At, Placed
<1>2. /\ bCli' \in [Runs -> [at : Places, id : Ids \union {None}, file : Pids \union {None}]]
      /\ bCli'[n].at = "record" /\ bCli'[n].id = bCli[n].id /\ bCli'[n].file = p
      /\ \A m \in Runs \ {n} : bCli'[m] = bCli[m]
  <2>1. bCli[n] \in [at : Places, id : Ids \union {None}, file : Pids \union {None}]
    BY <1>0 DEF BoxTypes
  <2>2. [bCli[n] EXCEPT !.at = "record", !.file = p]
            \in [at : Places, id : Ids \union {None}, file : Pids \union {None}]
    BY <2>1 DEF Places
  <2>3. bCli' = [bCli EXCEPT ![n] = [bCli[n] EXCEPT !.at = "record", !.file = p]]
    <3>1. bCli' = [bCli EXCEPT ![n].at = "record", ![n].file = p]
      BY DEF B!Named
    <3> QED BY <3>1, <1>0 DEF BoxTypes
  <2> QED BY <1>0, <2>1, <2>2, <2>3 DEF BoxTypes
<1>3. UNCHANGED <<runtime, box, bFiles, rootfs, lost, alive, reused, last, bHost>>
  BY DEF B!Named, B!pids
<1>8. BoxTypes'
  BY <1>0, <1>2, <1>3 DEF BoxTypes
<1>9. Placed(n)'
  BY <1>0, <1>1, <1>2, <1>3 DEF Placed, Id, Live
<1> QED BY <1>1, <1>2, <1>3, <1>8, <1>9, BaseGoes DEF Needs

\* The file of a run is written and removed.
LEMMA BaseFile ==
  ASSUME BoxBase, NEW n \in Runs, B!Record(n) \/ B!Recorded(n) \/ B!Forget(n)
  PROVE  BoxBase'
<1>0. BoxTypes /\ Placed(n)
  BY DEF BoxBase
<1>1. PICK from \in {"record", "write", "forget"}, to \in {"write", "child", "clean"},
           v \in Ids \union {"cut", None} :
        /\ bCli[n].at = from /\ B!Go(n, to) /\ bFiles' = [bFiles EXCEPT ![bCli[n].file] = v]
        /\ from = "record" => to = "write"
        /\ from = "write" => to = "child"
        /\ from = "forget" => to = "clean"
  <2>1. CASE B!Record(n)
    <3>1. bCli[n].at = "record" /\ B!Go(n, "write") /\ bFiles' = [bFiles EXCEPT ![bCli[n].file] = "cut"]
      BY <2>1 DEF B!Record, B!At
    <3> QED BY <3>1
  <2>2. CASE B!Recorded(n)
    <3>1. bCli[n].at = "write" /\ B!Go(n, "child") /\ bFiles' = [bFiles EXCEPT ![bCli[n].file] = Id(n)]
      BY <2>2 DEF B!Recorded, B!At, B!Id, Id
    <3>2. Id(n) \in Ids
      BY <1>0, <3>1 DEF Placed
    <3> QED BY <3>1, <3>2
  <2>3. CASE B!Forget(n)
    <3>1. bCli[n].at = "forget" /\ B!Go(n, "clean") /\ bFiles' = [bFiles EXCEPT ![bCli[n].file] = None]
      BY <2>3 DEF B!Forget, B!At
    <3> QED BY <3>1
  <2> QED BY <2>1, <2>2, <2>3
<1>2. /\ bCli' \in [Runs -> [at : Places, id : Ids \union {None}, file : Pids \union {None}]]
      /\ bCli'[n].at = to /\ bCli'[n].id = bCli[n].id /\ bCli'[n].file = bCli[n].file
      /\ \A m \in Runs \ {n} : bCli'[m] = bCli[m]
  BY <1>0, <1>1, CliGoes DEF Places
<1>3. UNCHANGED <<runtime, box, rootfs, lost, alive, reused, last, bHost>>
  BY DEF B!Record, B!Recorded, B!Forget, B!pids
<1>4. bCli[n].file \in Pids /\ Id(n) \in Ids
  BY <1>0, <1>1 DEF Placed
<1>5. bFiles' \in [Pids -> Ids \union {"cut", None}]
  BY <1>0, <1>1, <1>4, FileTyped
<1>8. BoxTypes'
  BY <1>0, <1>2, <1>3, <1>5 DEF BoxTypes
<1>9. Placed(n)'
  BY <1>0, <1>1, <1>2, <1>3, <1>4 DEF Placed, Id, Live
<1> QED BY <1>1, <1>2, <1>3, <1>8, <1>9, BaseGoes DEF Needs

LEMMA BaseWaited == ASSUME BoxBase, NEW n \in Runs, B!Waited(n) PROVE BoxBase'
<1>0. BoxTypes /\ Placed(n)
  BY DEF BoxBase
<1>1. bCli[n].at = "child" /\ Id(n) \in Ids
  BY <1>0 DEF B!Waited, B!At, Placed
<1>2. /\ bCli' \in [Runs -> [at : Places, id : Ids \union {None}, file : Pids \union {None}]]
      /\ bCli'[n].at = "forget" /\ bCli'[n].id = bCli[n].id /\ bCli'[n].file = bCli[n].file
      /\ \A m \in Runs \ {n} : bCli'[m] = bCli[m]
  BY <1>0, CliGoes DEF Places, B!Waited
<1>3. Turns(n, "over")
  BY <1>0, RuntimeTurns DEF Runtimes, B!Waited
<1>4. UNCHANGED <<box, bFiles, rootfs, lost, reused, bHost>> /\ alive' \subseteq Pids
  BY <1>0 DEF B!Waited, BoxTypes
<1>8. BoxTypes'
  BY <1>0, <1>2, <1>3, <1>4 DEF BoxTypes, Turns
<1>9. Placed(n)'
  BY <1>0, <1>1, <1>2, <1>3, <1>4 DEF Placed, Id, Live, Turns
<1> QED BY <1>1, <1>2, <1>3, <1>4, <1>8, <1>9, BaseGoes DEF Needs, Turns

LEMMA BaseFails == ASSUME BoxBase, NEW n \in Runs, B!Fails(n) PROVE BoxBase'
<1>0. BoxTypes /\ Placed(n)
  BY DEF BoxBase
<1>1. bCli[n].at \in {"spawn", "record", "write"} /\ Id(n) \in Ids
  BY <1>0 DEF B!Fails, Placed
<1>2. /\ bCli' \in [Runs -> [at : Places, id : Ids \union {None}, file : Pids \union {None}]]
      /\ bCli'[n].at = "drop" /\ bCli'[n].id = bCli[n].id /\ bCli'[n].file = bCli[n].file
      /\ \A m \in Runs \ {n} : bCli'[m] = bCli[m]
  BY <1>0, CliGoes DEF Places, B!Fails
<1>3. UNCHANGED <<runtime, box, bFiles, rootfs, alive, reused, last, bHost>> /\ lost' = lost \union {n}
  BY DEF B!Fails, B!pids, B!Lose
<1>8. BoxTypes'
  BY <1>0, <1>2, <1>3 DEF BoxTypes
<1>9. Placed(n)'
  BY <1>0, <1>1, <1>2, <1>3 DEF Placed, Id, Live
<1> QED BY <1>1, <1>2, <1>3, <1>8, <1>9, BaseGoes DEF Needs

LEMMA BaseClean == ASSUME BoxBase, NEW n \in Runs, B!Clean(n) PROVE BoxBase'
<1>0. BoxTypes /\ Placed(n)
  BY DEF BoxBase
<1>1. bCli[n].at \in {"clean", "drop"} /\ Id(n) \in Ids
  BY <1>0 DEF B!Clean, Placed
<1>2. /\ bCli' \in [Runs -> [at : Places, id : Ids \union {None}, file : Pids \union {None}]]
      /\ bCli'[n].at = "gone" /\ bCli'[n].id = bCli[n].id /\ bCli'[n].file = bCli[n].file
      /\ \A m \in Runs \ {n} : bCli'[m] = bCli[m]
  BY <1>0, CliGoes DEF Places, B!Clean
<1>3. UNCHANGED <<runtime, box, bFiles, lost, alive, reused, last, bHost>>
  BY DEF B!Clean, B!pids
<1>4. /\ rootfs' \in [Ids -> {None, "made", "kernel", "fuse"}]
      /\ rootfs'[Id(n)] = None /\ \A j \in Ids \ {Id(n)} : rootfs'[j] = rootfs[j]
  <2>1. rootfs' = [rootfs EXCEPT ![Id(n)] = None]
    BY DEF B!Clean, B!Id, Id
  <2> QED BY <2>1, <1>0, <1>1 DEF BoxTypes
<1>8. BoxTypes'
  BY <1>0, <1>2, <1>3, <1>4 DEF BoxTypes
<1>9. Placed(n)'
  <2>1. CASE bCli[n].at = "clean"
    BY <2>1, <1>0, <1>1, <1>2, <1>3 DEF Placed, Id, Live
  <2>2. CASE bCli[n].at = "drop"
    <3>1. n \in lost
      BY <1>0, <2>2 DEF Placed
    <3>2. B!Lost(Id(n))'
      BY <3>1, <1>2, <1>3 DEF B!Lost, B!Id, Id
    <3> QED BY <2>2, <3>1, <3>2, <1>0, <1>1, <1>2, <1>3 DEF Placed, Id, Live
  <2> QED BY <1>1, <2>1, <2>2
<1> QED BY <1>1, <1>2, <1>3, <1>4, <1>8, <1>9, BaseGoes DEF Needs

LEMMA BaseKilled == ASSUME BoxBase, NEW n \in Runs, B!Killed(n) PROVE BoxBase'
<1>0. BoxTypes /\ Placed(n)
  BY DEF BoxBase
<1>1. bCli[n].at \notin {"new", "gone"} /\ Id(n) \in Ids
  BY <1>0 DEF B!Killed, Placed
<1>2. /\ bCli' \in [Runs -> [at : Places, id : Ids \union {None}, file : Pids \union {None}]]
      /\ bCli'[n].at = "gone" /\ bCli'[n].id = bCli[n].id /\ bCli'[n].file = bCli[n].file
      /\ \A m \in Runs \ {n} : bCli'[m] = bCli[m]
  BY <1>0, CliGoes DEF Places, B!Killed
<1>3. PICK to \in Runtimes : Turns(n, to) /\ to = (IF runtime[n].at = "zombie" THEN "over" ELSE runtime[n].at)
  <2>1. runtime[n].at \in Runtimes
    BY <1>0 DEF BoxTypes
  <2> DEFINE to == IF runtime[n].at = "zombie" THEN "over" ELSE runtime[n].at
  <2>2. to \in Runtimes /\ runtime' = [runtime EXCEPT ![n].at = to]
    BY <2>1 DEF Runtimes, B!Killed
  <2> QED BY <1>0, <2>2, RuntimeTurns
<1>4. UNCHANGED <<box, bFiles, rootfs, reused, last, bHost>> /\ lost' = lost \union {n}
      /\ alive' \subseteq Pids
  BY <1>0 DEF B!Killed, B!Lose, BoxTypes
<1>8. BoxTypes'
  BY <1>0, <1>2, <1>3, <1>4 DEF BoxTypes, Turns
<1>9. Placed(n)'
  <2>1. B!Lost(Id(n))'
    BY <1>2, <1>4 DEF B!Lost, B!Id, Id
  <2>2. Live(n)' => Live(n)
    BY <1>3 DEF Live, Turns
  <2> QED BY <2>1, <2>2, <1>0, <1>1, <1>2, <1>3, <1>4 DEF Placed, Id, Live, Turns
<1> QED BY <1>1, <1>2, <1>3, <1>4, <1>8, <1>9, BaseGoes DEF Needs, Turns

\* The runtime goes on by itself.
LEMMA BaseRuntime ==
  ASSUME BoxBase, NEW n \in Runs,
         (\E p \in Pids : B!Up(n, p)) \/ B!Refused(n) \/ B!Exits(n) \/ B!Over(n)
  PROVE  BoxBase'
<1>0. BoxTypes /\ Placed(n)
  BY DEF BoxBase
<1>1. Live(n) /\ Id(n) \in Ids /\ bCli[n].at \in Places
  BY <1>0 DEF B!Up, B!Refused, B!Exits, B!Over, Live, Placed, BoxTypes
<1>2. UNCHANGED <<bCli, bFiles, rootfs, lost, bHost>> /\ alive' \subseteq Pids /\ reused' \in BOOLEAN
  BY <1>0 DEF B!Up, B!Refused, B!Exits, B!Over, B!Ends, B!Give, BoxTypes
<1>3. box' \in [Ids -> Pids \union {None}]
  <2>1. \/ box' = box
        \/ \E v \in Pids \union {None} : box' = [box EXCEPT ![Id(n)] = v]
    BY DEF B!Up, B!Refused, B!Exits, B!Over, B!Id, Id
  <2> QED BY <2>1, <1>0 DEF BoxTypes
<1>4. PICK to \in {"up", "ending", "zombie", "over"} :
        Turns(n, to) /\ (to = "over" => bCli[n].at = "gone")
  <2>1. PICK to \in {"up", "ending", "zombie", "over"} :
          /\ runtime' = [runtime EXCEPT ![n].at = to]
          /\ to = "over" => bCli[n].at = "gone"
    <3>1. CASE \E p \in Pids : B!Up(n, p)
      BY <3>1 DEF B!Up
    <3>2. CASE B!Exits(n)
      BY <3>2 DEF B!Exits
    <3>3. CASE B!Refused(n) \/ B!Over(n)
      <4>1. runtime' = [runtime EXCEPT ![n].at = IF bCli[n].at = "gone" THEN "over" ELSE "zombie"]
        BY <3>3 DEF B!Refused, B!Over, B!Ends, B!At
      <4>2. CASE bCli[n].at = "gone"
        BY <4>1, <4>2
      <4>3. CASE bCli[n].at # "gone"
        BY <4>1, <4>3
      <4> QED BY <4>2, <4>3
    <3> QED BY <3>1, <3>2, <3>3
  <2>2. to \in Runtimes
    BY DEF Runtimes
  <2> QED BY <1>0, <2>1, <2>2, RuntimeTurns
<1>8. BoxTypes'
  BY <1>0, <1>2, <1>3, <1>4 DEF BoxTypes, Turns
<1>9. Placed(n)'
  <2>1. bCli[n].at = "gone" => B!Lost(Id(n))
    BY <1>0, <1>1 DEF Placed, Live
  <2>2. B!Lost(Id(n))' = B!Lost(Id(n))
    BY <1>2 DEF B!Lost, B!Id, Id
  <2>3. bCli[n].at \in {"wait", "record", "write", "child", "drop", "gone"}
    BY <1>0, <1>1 DEF Placed, Live, Places
  <2>4. B!Mode' = B!Mode
    BY <1>2, ModeSame
  <2>5. runtime'[n].at = to /\ runtime'[n].pid = runtime[n].pid /\ runtime[n].pid \in Pids
    BY <1>0, <1>1, <1>4 DEF Placed, Turns
  <2> HIDE DEF B!Mode
  <2> QED BY <2>1, <2>2, <2>3, <2>4, <2>5, <1>0, <1>1, <1>2, <1>4 DEF Placed, Id, Live
<1>10. bCli[n].at # "new"
  BY <1>0, <1>1 DEF Placed, Live
<1> QED BY <1>2, <1>4, <1>8, <1>9, <1>10, BaseGoes DEF Turns

LEMMA BaseNext ==
  ASSUME BoxBase, NEW n \in Runs, BoxStep(n) \/ \E i \in Ids : B!Start(n, i)
  PROVE  BoxBase'
  BY BaseStart, BaseMount, BaseSpawn, BaseNamed, BaseFile, BaseWaited, BaseFails, BaseClean,
     BaseKilled, BaseRuntime DEF BoxStep
LEMMA OwnedKeeps ==
  ASSUME Owned, UNCHANGED <<runtime, box, alive>>, \A m \in Runs : Live(m) => Id(m)' = Id(m),
         \A i \in Ids, m \in Runs : Id(m) = i => Id(m)' = i
  PROVE  Owned'
<1>1. \A m \in Runs : (Live(m)' <=> Live(m)) /\ (Created(m)' <=> Created(m)) /\ (Created(m) => Live(m))
      /\ runtime'[m] = runtime[m] /\ (runtime[m].at = "up" => Live(m))
  BY DEF Live, Created
<1> QED BY <1>1 DEF Owned

\* A runtime starts, as a process there was not.
LEMMA OwnedSpawn ==
  ASSUME Owned, alive \subseteq Pids, NEW n \in Runs, NEW p \in Pids, p \notin alive, ~ Live(n), runtime'[n].at = "starting",
         runtime'[n].pid = p, \A m \in Runs \ {n} : runtime'[m] = runtime[m],
         alive' = alive \union {p}, box' = box, \A m \in Runs : Id(m)' = Id(m)
  PROVE  Owned'
<1>1. \A m \in Runs \ {n} : (Live(m)' <=> Live(m)) /\ (Created(m)' <=> Created(m))
      /\ runtime'[m] = runtime[m]
  BY DEF Live, Created
<1>2. Live(n)' /\ ~ Created(n)' /\ ~ Created(n) /\ runtime'[n].at # "up" /\ runtime[n].at # "up"
  BY DEF Live, Created
<1>3. \A m \in Runs : runtime[m].at = "up" => Created(m) /\ Live(m)
  BY DEF Live, Created
<1> QED BY <1>1, <1>2, <1>3 DEF Owned

\* A container comes up, with a first process there was not.
LEMMA OwnedUp ==
  ASSUME Owned, BoxTypes, NEW n \in Runs, NEW p \in Pids, p \notin alive, runtime[n].at = "starting",
         runtime'[n].at = "up", runtime'[n].pid = runtime[n].pid, Id(n) \in Ids,
         \A m \in Runs : Live(m) => Id(m) \in Ids,
         \A m \in Runs \ {n} : runtime'[m] = runtime[m], box[Id(n)] = None,
         alive' = alive \union {p}, box' = [box EXCEPT ![Id(n)] = p], \A m \in Runs : Id(m)' = Id(m)
  PROVE  Owned'
<1> USE BoxAssumption
<1>1. \A m \in Runs \ {n} : (Live(m)' <=> Live(m)) /\ (Created(m)' <=> Created(m))
      /\ runtime'[m] = runtime[m]
  BY DEF Live, Created
<1>2. Live(n)' /\ Live(n) /\ Created(n)' /\ ~ Created(n) /\ runtime[n].at # "up"
  BY DEF Live, Created
<1>3. \A m \in Runs : runtime[m].at = "up" => Created(m) /\ Live(m)
  BY DEF Live, Created
<1>4. \A m \in Runs : Created(m) => Id(m) # Id(n) /\ Live(m)
  BY DEF Owned, Created, Live
<1>5. box'[Id(n)] = p /\ p # None /\ \A j \in Ids \ {Id(n)} : box'[j] = box[j]
  BY DEF BoxTypes, Pids
<1>6. \A m \in Runs : Created(m) => box'[Id(m)] = box[Id(m)]
  BY <1>4, <1>5
<1>7. (\A m \in Runs : Live(m)' => runtime'[m].pid \in alive')
      /\ (\A m \in Runs : runtime'[m].at = "up" => box'[Id(m)] \in alive')
  BY <1>1, <1>2, <1>3, <1>5, <1>6 DEF Owned
<1>8. (\A m \in Runs : Created(m)' => box'[Id(m)] # None)
      /\ (\A i \in Ids : box'[i] # None => \E m \in Runs : Id(m) = i /\ Created(m)')
  BY <1>1, <1>2, <1>5, <1>6 DEF Owned
<1>9. \A m, k \in Runs : m # k /\ Live(m)' /\ Live(k)' => runtime'[m].pid # runtime'[k].pid
  BY <1>1, <1>2 DEF Owned
<1>10. \A m, k \in Runs : m # k /\ Created(m)' /\ Created(k)' => Id(m) # Id(k)
  BY <1>1, <1>2, <1>4 DEF Owned
<1>11. \A m, k \in Runs : runtime'[m].at = "up" /\ Live(k)' => box'[Id(m)] # runtime'[k].pid
  <2>1. \A k \in Runs : Live(k)' => runtime'[k].pid \in alive /\ runtime'[k].pid = runtime[k].pid /\ Live(k)
    BY <1>1, <1>2 DEF Owned
  <2> QED BY <2>1, <1>1, <1>2, <1>3, <1>5, <1>6 DEF Owned
<1>12. \A m, k \in Runs : m # k /\ runtime'[m].at = "up" /\ runtime'[k].at = "up" =>
           box'[Id(m)] # box'[Id(k)]
  <2>1. \A k \in Runs \ {n} : runtime'[k].at = "up" => box'[Id(k)] = box[Id(k)] /\ box[Id(k)] \in alive
    BY <1>1, <1>3, <1>6 DEF Owned
  <2> QED BY <2>1, <1>1, <1>3, <1>5 DEF Owned
<1>13. \A q \in alive' : \E m \in Runs : \/ Live(m)' /\ runtime'[m].pid = q
                                         \/ runtime'[m].at = "up" /\ box'[Id(m)] = q
  <2> SUFFICES ASSUME NEW q \in alive'
               PROVE  \E m \in Runs : \/ Live(m)' /\ runtime'[m].pid = q
                                      \/ runtime'[m].at = "up" /\ box'[Id(m)] = q
    OBVIOUS
  <2>1. CASE q = p
    BY <2>1, <1>5
  <2>2. CASE q \in alive
    <3>1. PICK m \in Runs : \/ Live(m) /\ runtime[m].pid = q
                            \/ runtime[m].at = "up" /\ box[Id(m)] = q
      BY <2>2 DEF Owned
    <3>2. CASE Live(m) /\ runtime[m].pid = q
      BY <3>2, <1>1, <1>2
    <3>3. CASE runtime[m].at = "up" /\ box[Id(m)] = q
      BY <3>3, <1>1, <1>2, <1>3, <1>6
    <3> QED BY <3>1, <3>2, <3>3
  <2> QED BY <2>1, <2>2
<1> QED BY <1>7, <1>8, <1>9, <1>10, <1>11, <1>12, <1>13 DEF Owned

\* The first process of a container ends.
LEMMA OwnedExits ==
  ASSUME Owned, NEW n \in Runs, runtime[n].at = "up", runtime'[n].at = "ending",
         runtime'[n].pid = runtime[n].pid, \A m \in Runs \ {n} : runtime'[m] = runtime[m],
         alive' = alive \ {box[Id(n)]}, box' = box, \A m \in Runs : Id(m)' = Id(m)
  PROVE  Owned'
<1>1. \A m \in Runs : (Live(m)' <=> Live(m)) /\ (Created(m)' <=> Created(m))
      /\ runtime'[m].pid = runtime[m].pid
  BY DEF Live, Created
<1>2. \A m \in Runs : runtime'[m].at = "up" => runtime[m].at = "up" /\ m # n
  OBVIOUS
<1>3. \A m \in Runs : runtime[m].at = "up" => Created(m) /\ Live(m)
  BY DEF Live, Created
<1>4. \A m \in Runs : m # n /\ runtime[m].at = "up" => runtime'[m].at = "up"
  OBVIOUS
<1> QED BY <1>1, <1>2, <1>3, <1>4 DEF Owned

\* A runtime ends: a process for as long as nobody has waited for it.
LEMMA OwnedStops ==
  ASSUME Owned, NEW n \in Runs, Live(n), runtime[n].at # "up", NEW to \in {"zombie", "over"},
         runtime'[n].at = to, runtime'[n].pid = runtime[n].pid,
         \A m \in Runs \ {n} : runtime'[m] = runtime[m],
         \A m \in Runs : Live(m) => Id(m) \in Ids,
         alive' = alive \ (IF to = "over" THEN {runtime[n].pid} ELSE {}),
         BoxTypes, IF runtime[n].at = "ending" THEN box' = [box EXCEPT ![Id(n)] = None] ELSE box' = box,
         \A m \in Runs : Id(m)' = Id(m)
  PROVE  Owned'
<1>1. \A m \in Runs \ {n} : (Live(m)' <=> Live(m)) /\ (Created(m)' <=> Created(m))
      /\ runtime'[m] = runtime[m]
  BY DEF Live, Created
<1>2. (Live(n)' <=> to = "zombie") /\ ~ Created(n)' /\ runtime'[n].at # "up"
      /\ (Created(n) <=> runtime[n].at = "ending")
  BY DEF Live, Created
<1>3. \A m \in Runs : runtime[m].at = "up" => Created(m) /\ Live(m)
  BY DEF Live, Created
<1>4. \A m \in Runs \ {n} : Created(m) => box'[Id(m)] = box[Id(m)]
  <2> SUFFICES ASSUME NEW m \in Runs \ {n}, Created(m), runtime[n].at = "ending"
               PROVE  box'[Id(m)] = box[Id(m)]
    OBVIOUS
  <2>1. Id(m) # Id(n) /\ Id(m) \in Ids
    BY <1>2 DEF Owned, Created, Live
  <2> QED BY <2>1 DEF BoxTypes
<1>5. \A j \in Ids : box'[j] # None => box'[j] = box[j] /\ (j = Id(n) => ~ Created(n))
  <2>1. CASE runtime[n].at = "ending"
    <3>1. \A j \in Ids : box'[j] = IF j = Id(n) THEN None ELSE box[j]
      BY <2>1 DEF BoxTypes
    <3> QED BY <3>1
  <2>2. CASE runtime[n].at # "ending"
    BY <2>2, <1>2
  <2> QED BY <2>1, <2>2
<1>7. (\A m \in Runs : Live(m)' => runtime'[m].pid \in alive')
      /\ (\A m \in Runs : runtime'[m].at = "up" => box'[Id(m)] \in alive')
  <2>1. \A m \in Runs : Live(m)' => Live(m) /\ runtime'[m].pid = runtime[m].pid
    BY <1>1, <1>2
  <2>2. ASSUME NEW m \in Runs, Live(m)' PROVE runtime'[m].pid \in alive'
    <3>1. CASE to = "zombie"
      BY <2>1, <2>2, <3>1 DEF Owned
    <3>2. CASE to = "over" /\ m # n
      BY <2>1, <2>2, <3>2 DEF Owned
    <3> QED BY <3>1, <3>2, <1>2, <2>2
  <2>3. ASSUME NEW m \in Runs, runtime'[m].at = "up" PROVE box'[Id(m)] \in alive'
    <3>1. m # n /\ runtime[m].at = "up" /\ Created(m) /\ box'[Id(m)] = box[Id(m)]
      BY <2>3, <1>1, <1>2, <1>3, <1>4
    <3>2. box[Id(m)] \in alive /\ box[Id(m)] # runtime[n].pid
      BY <3>1 DEF Owned
    <3> QED BY <3>1, <3>2
  <2> QED BY <2>2, <2>3
<1>8. (\A m \in Runs : Created(m)' => box'[Id(m)] # None)
      /\ (\A i \in Ids : box'[i] # None => \E m \in Runs : Id(m) = i /\ Created(m)')
  <2>1. ASSUME NEW i \in Ids, box'[i] # None PROVE \E m \in Runs : Id(m) = i /\ Created(m)'
    <3>1. PICK m \in Runs : Id(m) = i /\ Created(m)
      BY <2>1, <1>5 DEF Owned
    <3>2. m # n
      BY <2>1, <3>1, <1>5
    <3> QED BY <3>1, <3>2, <1>1
  <2> QED BY <2>1, <1>1, <1>2, <1>4 DEF Owned
<1>9. \A m, k \in Runs : m # k /\ Live(m)' /\ Live(k)' => runtime'[m].pid # runtime'[k].pid
  <2>1. \A m \in Runs : Live(m)' => Live(m) /\ runtime'[m].pid = runtime[m].pid
    BY <1>1, <1>2
  <2> QED BY <2>1 DEF Owned
<1>10. \A m, k \in Runs : m # k /\ Created(m)' /\ Created(k)' => Id(m) # Id(k)
  BY <1>1, <1>2 DEF Owned
<1>11. \A m, k \in Runs : runtime'[m].at = "up" /\ Live(k)' => box'[Id(m)] # runtime'[k].pid
  <2>1. \A m \in Runs : Live(m)' => Live(m) /\ runtime'[m].pid = runtime[m].pid
    BY <1>1, <1>2
  <2> QED BY <2>1, <1>1, <1>2, <1>3, <1>4 DEF Owned
<1>12. \A m, k \in Runs : m # k /\ runtime'[m].at = "up" /\ runtime'[k].at = "up" =>
           box'[Id(m)] # box'[Id(k)]
  <2>1. \A m \in Runs : runtime'[m].at = "up" => m # n /\ runtime[m].at = "up" /\ box'[Id(m)] = box[Id(m)]
    BY <1>1, <1>2, <1>3, <1>4
  <2> QED BY <2>1 DEF Owned
<1>13. \A q \in alive' : \E m \in Runs : \/ Live(m)' /\ runtime'[m].pid = q
                                         \/ runtime'[m].at = "up" /\ box'[Id(m)] = q
  <2> SUFFICES ASSUME NEW q \in alive'
               PROVE  \E m \in Runs : \/ Live(m)' /\ runtime'[m].pid = q
                                      \/ runtime'[m].at = "up" /\ box'[Id(m)] = q
    OBVIOUS
  <2>1. PICK m \in Runs : \/ Live(m) /\ runtime[m].pid = q
                          \/ runtime[m].at = "up" /\ box[Id(m)] = q
    BY DEF Owned
  <2>2. CASE Live(m) /\ runtime[m].pid = q
    <3>1. m = n => to = "zombie"
      BY <2>2
    <3> QED BY <3>1, <2>2, <1>1, <1>2
  <2>3. CASE runtime[m].at = "up" /\ box[Id(m)] = q
    BY <2>3, <1>1, <1>3, <1>4
  <2> QED BY <2>1, <2>2, <2>3
<1> QED BY <1>7, <1>8, <1>9, <1>10, <1>11, <1>12, <1>13 DEF Owned
\* A step of a run leaves the containers of all as they are.
LEMMA StepIds ==
  ASSUME BoxBase, NEW n \in Runs, BoxStep(n)
  PROVE  \A m \in Runs : Id(m)' = Id(m)
<1> USE DEF BoxTypes, Id
<1>0. BoxTypes
  BY DEF BoxBase
<1>1. CASE UNCHANGED bCli
  BY <1>1
<1>2. CASE \E to \in Places : B!Go(n, to)
  BY <1>0, <1>2 DEF B!Go
<1>3. CASE \E p \in Pids : B!Named(n, p)
  BY <1>0, <1>3 DEF B!Named
<1>4. ASSUME NEW ok \in BOOLEAN, B!Mount(n, ok) PROVE \E to \in Places : B!Go(n, to)
  <2>1. B!Go(n, IF ok THEN "spawn" ELSE "clean")
    BY <1>4 DEF B!Mount
  <2> HIDE DEF BoxTypes
  <2>2. (IF ok THEN "spawn" ELSE "clean") \in Places
    BY DEF Places
  <2> QED BY <2>1, <2>2
<1>5. ASSUME B!Record(n) \/ B!Recorded(n) \/ B!Forget(n) \/ B!Waited(n) \/ B!Fails(n) \/ B!Clean(n)
             \/ B!Killed(n) \/ \E p \in Pids : B!Spawn(n, p)
      PROVE  \E to \in Places : B!Go(n, to)
  BY <1>5 DEF B!Record, B!Recorded, B!Forget, B!Waited, B!Fails, B!Clean, B!Killed, B!Spawn, Places
<1>6. ASSUME B!Refused(n) \/ B!Exits(n) \/ B!Over(n) \/ \E p \in Pids : B!Up(n, p)
      PROVE  UNCHANGED bCli
  BY <1>6 DEF B!Refused, B!Exits, B!Over, B!Up
<1> QED BY <1>1, <1>2, <1>3, <1>4, <1>5, <1>6 DEF BoxStep

LEMMA OwnedNext ==
  ASSUME BoxBase, Owned, NEW n \in Runs, BoxStep(n) \/ \E i \in Ids : B!Start(n, i)
  PROVE  Owned'
<1> USE BoxAssumption
<1>0. BoxTypes /\ Placed(n) /\ \A m \in Runs : Placed(m)
  BY DEF BoxBase
<1>1. \A m \in Runs : Live(m) => Id(m) \in Ids /\ runtime[m].pid \in Pids
  BY <1>0 DEF Placed, Live
<1>2. BoxStep(n) => \A m \in Runs : Id(m)' = Id(m)
  BY StepIds
<1>3. CASE \E i \in Ids : B!Start(n, i)
  <2>1. PICK i \in Ids : B!Start(n, i)
    BY <1>3
  <2>2. bCli[n].at = "new" /\ ~ Live(n) /\ Id(n) = None
    BY <1>0, <2>1 DEF B!Start, B!At, Placed, Live
  <2>3. UNCHANGED <<runtime, box, alive>> /\ \A m \in Runs \ {n} : bCli'[m] = bCli[m]
    BY <1>0, <2>1 DEF B!Start, B!pids, BoxTypes
  <2>4. \A m \in Runs \ {n} : Id(m)' = Id(m)
    BY <2>3 DEF Id
  <2> QED BY <2>2, <2>3, <2>4, OwnedKeeps
<1>4. CASE UNCHANGED <<runtime, box, alive>> /\ BoxStep(n)
  BY <1>2, <1>4, OwnedKeeps
<1>5. CASE BoxStep(n) /\ \E p \in Pids : B!Spawn(n, p)
  <2>1. PICK p \in Pids : B!Spawn(n, p)
    BY <1>5
  <2>2. p \notin alive /\ alive' = alive \union {p} /\ box' = box
    BY <2>1 DEF B!Spawn, B!Give, B!NextPid
  <2>3. ~ Live(n)
    BY <1>0, <2>1 DEF B!Spawn, B!At, Placed, Live
  <2>4. runtime'[n].at = "starting" /\ runtime'[n].pid = p
        /\ \A m \in Runs \ {n} : runtime'[m] = runtime[m]
    BY <1>0, <2>1 DEF B!Spawn, BoxTypes
  <2> QED BY <1>0, <1>2, <1>5, <2>2, <2>3, <2>4, OwnedSpawn DEF BoxTypes
<1>6. CASE BoxStep(n) /\ \E p \in Pids : B!Up(n, p)
  <2>1. PICK p \in Pids : B!Up(n, p)
    BY <1>6
  <2>2. p \notin alive /\ alive' = alive \union {p} /\ runtime[n].at = "starting"
        /\ box[Id(n)] = None /\ box' = [box EXCEPT ![Id(n)] = p]
    BY <2>1 DEF B!Up, B!Give, B!NextPid, B!Id, Id
  <2>3. Turns(n, "up")
    BY <1>0, <2>1, RuntimeTurns DEF B!Up, Runtimes
  <2>4. Id(n) \in Ids
    BY <1>1, <2>2 DEF Live
  <2> QED BY <1>0, <1>1, <1>2, <1>6, <2>2, <2>3, <2>4, OwnedUp DEF Turns
<1>7. CASE BoxStep(n) /\ B!Exits(n)
  <2>1. runtime[n].at = "up" /\ alive' = alive \ {box[Id(n)]} /\ box' = box
    BY <1>7 DEF B!Exits, B!Id, Id
  <2>2. Turns(n, "ending")
    BY <1>0, <1>7, RuntimeTurns DEF B!Exits, Runtimes
  <2> QED BY <1>2, <1>7, <2>1, <2>2, OwnedExits DEF Turns
<1>8. ASSUME BoxStep(n), NEW to \in {"zombie", "over"}, runtime' = [runtime EXCEPT ![n].at = to],
             alive' = alive \ (IF to = "over" THEN {runtime[n].pid} ELSE {}),
             runtime[n].at \in {"starting", "ending", "zombie"},
             IF runtime[n].at = "ending" THEN box' = [box EXCEPT ![Id(n)] = None] ELSE box' = box
      PROVE  Owned'
  <2>1. Turns(n, to)
    BY <1>0, <1>8, RuntimeTurns DEF Runtimes
  <2>2. Live(n) /\ runtime[n].at # "up"
    BY <1>8 DEF Live
  <2>3. \A m \in Runs : Id(m)' = Id(m)
    BY <1>2, <1>8
  <2>4. runtime'[n].at = to /\ runtime'[n].pid = runtime[n].pid
        /\ \A m \in Runs \ {n} : runtime'[m] = runtime[m]
    BY <2>1 DEF Turns
  <2> QED BY <1>0, <1>1, <1>8, <2>2, <2>3, <2>4, OwnedStops
<1>9. CASE BoxStep(n) /\ (B!Refused(n) \/ B!Over(n))
  <2>1. CASE bCli[n].at = "gone"
    BY <1>8, <1>9, <2>1 DEF B!Refused, B!Over, B!Ends, B!At, B!Id, Id
  <2>2. CASE bCli[n].at # "gone"
    BY <1>8, <1>9, <2>2 DEF B!Refused, B!Over, B!Ends, B!At, B!Id, Id
  <2> QED BY <2>1, <2>2
<1>10. CASE BoxStep(n) /\ B!Waited(n)
  BY <1>8, <1>10 DEF B!Waited
<1>11. CASE BoxStep(n) /\ B!Killed(n)
  <2>1. CASE runtime[n].at = "zombie"
    BY <1>8, <1>11, <2>1 DEF B!Killed
  <2>2. CASE runtime[n].at # "zombie"
    <3>1. runtime' = [runtime EXCEPT ![n].at = runtime[n].at] /\ alive' = alive \ {} /\ box' = box
      BY <1>11, <2>2 DEF B!Killed
    <3>2. UNCHANGED <<runtime, box, alive>>
      BY <1>0, <3>1 DEF BoxTypes
    <3> QED BY <1>4, <1>11, <3>2
  <2> QED BY <2>1, <2>2
<1>12. ASSUME BoxStep(n), \/ \E ok \in BOOLEAN : B!Mount(n, ok)
                          \/ \E p \in Pids : B!Named(n, p)
                          \/ B!Record(n) \/ B!Recorded(n) \/ B!Forget(n) \/ B!Fails(n) \/ B!Clean(n)
       PROVE  UNCHANGED <<runtime, box, alive>>
  BY <1>12 DEF B!Mount, B!Named, B!Record, B!Recorded, B!Forget, B!Fails, B!Clean, B!pids
<1> QED BY <1>3, <1>4, <1>5, <1>6, <1>7, <1>9, <1>10, <1>11, <1>12 DEF BoxStep
LEMMA TiedKeeps ==
  ASSUME Tied, reused' = reused, \A p \in Pids, i \in Ids : Tie(p, i)' => Tie(p, i)
  PROVE  Tied'
  BY DEF Tied

\* A pid that comes back when nothing is left of its owner stands for one container.
LEMMA TiedGives ==
  ASSUME Tied, NEW p \in Pids, NEW k \in Ids, reused => reused',
         ~ reused' => \A i \in Ids : ~ Tie(p, i),
         \A q \in Pids, i \in Ids : Tie(q, i)' => Tie(q, i) \/ (q = p /\ i = k)
  PROVE  Tied'
<1> SUFFICES ASSUME ~ reused', NEW q \in Pids, NEW i \in Ids, NEW j \in Ids, Tie(q, i)', Tie(q, j)'
             PROVE  i = j
  BY DEF Tied
<1> QED BY DEF Tied

LEMMA GivesUntied ==
  ASSUME BoxBase, Owned, NEW p \in Pids, B!Give(p), ~ reused'
  PROVE  ~ reused /\ \A i \in Ids : ~ Tie(p, i)
<1> USE BoxAssumption
<1>1. p \notin alive /\ ~ reused /\ ~ B!LeftOf(p)
  BY DEF B!Give, B!NextPid
<1>2. bFiles[p] = None /\ (\A i \in Ids : box[i] # p)
      /\ \A n \in Runs : bCli[n].file = p => bCli[n].at = "gone"
  BY <1>1 DEF B!LeftOf, B!At
<1>3. \A n \in Runs : Live(n) => runtime[n].pid # p
  BY <1>1 DEF Owned
<1> QED BY <1>1, <1>2, <1>3 DEF Tie

LEMMA TiedNext ==
  ASSUME BoxBase, Owned, Tied, NEW n \in Runs, BoxStep(n) \/ \E i \in Ids : B!Start(n, i)
  PROVE  Tied'
<1> USE BoxAssumption
<1>0. BoxTypes /\ Placed(n) /\ \A m \in Runs : Placed(m)
  BY DEF BoxBase
<1>1. \A m \in Runs : Live(m) => Id(m) \in Ids /\ runtime[m].pid \in Pids
  BY <1>0 DEF Placed, Live
<1>2. BoxStep(n) => \A m \in Runs : Id(m)' = Id(m)
  BY StepIds
<1>3. CASE \E i \in Ids : B!Start(n, i)
  <2>1. PICK i \in Ids : B!Start(n, i)
    BY <1>3
  <2>2. bCli[n].at = "new" /\ ~ Live(n)
    BY <1>0, <2>1 DEF B!Start, B!At, Placed, Live
  <2>3. UNCHANGED <<runtime, box, bFiles, reused>> /\ (\A m \in Runs \ {n} : bCli'[m] = bCli[m])
        /\ bCli'[n].file = None
    BY <1>0, <2>1 DEF B!Start, B!pids, BoxTypes
  <2>4. ASSUME NEW q \in Pids, NEW j \in Ids, Tie(q, j)' PROVE Tie(q, j)
    <3>1. CASE bFiles'[q] = j \/ box'[j] = q
      BY <3>1, <2>3 DEF Tie
    <3>2. ASSUME NEW m \in Runs, Id(m)' = j,
                 \/ bCli'[m].file = q /\ bCli'[m].at # "gone"
                 \/ Live(m)' /\ runtime'[m].pid = q
          PROVE  Tie(q, j)
      <4>1. CASE m = n
        <5>1. bCli'[m].file # q
          BY <2>3, <4>1 DEF Pids
        <5>2. ~ Live(m)'
          BY <2>2, <2>3, <4>1 DEF Live
        <5> QED BY <5>1, <5>2, <3>2
      <4>2. CASE m # n
        <5>1. Id(m) = j /\ bCli'[m] = bCli[m] /\ runtime'[m] = runtime[m] /\ (Live(m)' <=> Live(m))
          BY <2>3, <3>2, <4>2 DEF Id, Live
        <5> QED BY <5>1, <3>2 DEF Tie
      <4> QED BY <4>1, <4>2
    <3> QED BY <3>1, <3>2, <2>4 DEF Tie
  <2> QED BY <2>3, <2>4, TiedKeeps
\* What changes neither box nor files, and leaves every run with no more than it had.
<1>4. ASSUME BoxStep(n), reused' = reused,
             \A i \in Ids : box'[i] = box[i] \/ box'[i] = None,
             \A q \in Pids : bFiles'[q] = bFiles[q] \/ bFiles'[q] \notin Ids \/ Tie(q, bFiles'[q]),
             \A m \in Runs : Live(m)' => Live(m) /\ runtime'[m].pid = runtime[m].pid,
             \A m \in Runs : bCli'[m].at # "gone" =>
                 \/ bCli'[m].file = bCli[m].file /\ bCli[m].at # "gone"
                 \/ Tie(bCli'[m].file, Id(m))
      PROVE  Tied'
  <2>1. ASSUME NEW q \in Pids, NEW j \in Ids, Tie(q, j)' PROVE Tie(q, j)
    <3>1. CASE bFiles'[q] = j
      BY <1>4, <3>1 DEF Tie
    <3>2. CASE box'[j] = q
      BY <1>4, <3>2 DEF Tie, Pids
    <3>3. ASSUME NEW m \in Runs, Id(m)' = j,
                 \/ bCli'[m].file = q /\ bCli'[m].at # "gone"
                 \/ Live(m)' /\ runtime'[m].pid = q
          PROVE  Tie(q, j)
      <4>1. Id(m) = j
        BY <1>2, <1>4, <3>3
      <4>2. CASE Live(m)' /\ runtime'[m].pid = q
        BY <1>4, <4>1, <4>2 DEF Tie
      <4>3. CASE bCli'[m].file = q /\ bCli'[m].at # "gone"
        <5>1. CASE bCli'[m].file = bCli[m].file /\ bCli[m].at # "gone"
          BY <4>1, <4>3, <5>1 DEF Tie
        <5>2. CASE Tie(bCli'[m].file, Id(m))
          BY <4>1, <4>3, <5>2
        <5> QED BY <1>4, <4>3, <5>1, <5>2
      <4> QED BY <3>3, <4>2, <4>3
    <3> QED BY <3>1, <3>2, <3>3, <2>1 DEF Tie
  <2> QED BY <1>4, <2>1, TiedKeeps
<1>5. CASE BoxStep(n) /\ \E p \in Pids : B!Spawn(n, p)
  <2>1. PICK p \in Pids : B!Spawn(n, p)
    BY <1>5
  <2>2. B!Give(p) /\ UNCHANGED <<box, bFiles>> /\ bCli[n].at = "spawn" /\ B!Go(n, "wait")
    BY <2>1 DEF B!Spawn, B!At
  <2>3. runtime'[n].pid = p /\ \A m \in Runs \ {n} : runtime'[m] = runtime[m]
    BY <1>0, <2>1 DEF B!Spawn, BoxTypes
  <2>4. \A m \in Runs : bCli'[m].at # "gone" => bCli'[m].file = bCli[m].file /\ bCli[m].at # "gone"
    <3>1. bCli'[n].file = bCli[n].file /\ \A m \in Runs \ {n} : bCli'[m] = bCli[m]
      BY <1>0, <2>2, CliGoes DEF Places
    <3> QED BY <2>2, <3>1
  <2>5. Id(n) \in Ids
    BY <1>0, <2>2 DEF Placed
  <2>6. \A q \in Pids, j \in Ids : Tie(q, j)' => Tie(q, j) \/ (q = p /\ j = Id(n))
    BY <1>2, <1>5, <2>2, <2>3, <2>4 DEF Tie, Live
  <2>7. reused => reused'
    BY <2>2 DEF B!Give
  <2> QED BY <2>2, <2>5, <2>6, <2>7, GivesUntied, TiedGives
<1>6. CASE BoxStep(n) /\ \E p \in Pids : B!Up(n, p)
  <2>1. PICK p \in Pids : B!Up(n, p)
    BY <1>6
  <2>2. B!Give(p) /\ UNCHANGED <<bCli, bFiles>> /\ runtime[n].at = "starting"
        /\ box' = [box EXCEPT ![Id(n)] = p]
    BY <2>1 DEF B!Up, B!Id, Id
  <2>3. Turns(n, "up")
    BY <1>0, <2>1, RuntimeTurns DEF B!Up, Runtimes
  <2>4. \A m \in Runs : Live(m)' => Live(m) /\ runtime'[m].pid = runtime[m].pid
    BY <2>2, <2>3 DEF Live, Turns
  <2>5. Id(n) \in Ids
    BY <1>1, <2>2 DEF Live
  <2>6. \A j \in Ids : box'[j] = box[j] \/ (j = Id(n) /\ box'[j] = p)
    BY <1>0, <2>2, <2>5 DEF BoxTypes
  <2>7. \A q \in Pids, j \in Ids : Tie(q, j)' => Tie(q, j) \/ (q = p /\ j = Id(n))
    BY <1>2, <1>6, <2>2, <2>4, <2>6 DEF Tie
  <2>8. reused => reused'
    BY <2>2 DEF B!Give
  <2> QED BY <2>2, <2>5, <2>7, <2>8, GivesUntied, TiedGives
<1>7. CASE BoxStep(n) /\ \E p \in Pids : B!Named(n, p)
  <2>1. PICK p \in Pids : B!Named(n, p)
    BY <1>7
  <2>2. UNCHANGED <<runtime, box, bFiles, reused>> /\ bCli[n].at = "wait"
        /\ bCli' = [bCli EXCEPT ![n].at = "record", ![n].file = p]
        /\ p \in {box[Id(n)], runtime[n].pid}
    BY <2>1 DEF B!Named, B!At, B!pids, B!Id, Id
  <2>3. bCli'[n].file = p /\ \A m \in Runs \ {n} : bCli'[m] = bCli[m]
    BY <1>0, <2>2 DEF BoxTypes
  <2>4. Live(n)
    BY <1>0, <2>2 DEF Placed
  <2>5. Tie(p, Id(n))
    BY <2>2, <2>4 DEF Tie
  <2>6. \A m \in Runs : Live(m)' => Live(m)
    BY <2>2 DEF Live
  <2> QED BY <1>4, <1>7, <2>2, <2>3, <2>5, <2>6
<1>8. CASE BoxStep(n) /\ (B!Record(n) \/ B!Recorded(n) \/ B!Forget(n))
  <2>1. UNCHANGED <<runtime, box, reused>> /\ bCli[n].at \in {"record", "write", "forget"}
    BY <1>8 DEF B!Record, B!Recorded, B!Forget, B!At, B!pids
  <2>2. bCli[n].file \in Pids
    BY <1>0, <2>1 DEF Placed
  <2>3. \E to \in Places : B!Go(n, to)
    BY <1>8 DEF B!Record, B!Recorded, B!Forget, Places
  <2>4. \A m \in Runs : bCli'[m].at # "gone" => bCli'[m].file = bCli[m].file /\ bCli[m].at # "gone"
    <3>1. bCli'[n].file = bCli[n].file /\ \A m \in Runs \ {n} : bCli'[m] = bCli[m]
      BY <1>0, <2>3, CliGoes
    <3> QED BY <2>1, <3>1
  <2>5. PICK v \in {"cut", None, Id(n)} : bFiles' = [bFiles EXCEPT ![bCli[n].file] = v]
    BY <1>8 DEF B!Record, B!Recorded, B!Forget, B!Id, Id
  <2>6. Tie(bCli[n].file, Id(n))
    BY <2>1 DEF Tie
  <2>7. ASSUME NEW q \in Pids
        PROVE  bFiles'[q] = bFiles[q] \/ bFiles'[q] \notin Ids \/ Tie(q, bFiles'[q])
    <3>1. CASE q = bCli[n].file
      <4>1. bFiles'[q] = v
        BY <1>0, <2>5, <3>1 DEF BoxTypes
      <4> QED BY <2>6, <3>1, <4>1
    <3>2. CASE q # bCli[n].file
      BY <1>0, <2>5, <3>2 DEF BoxTypes
    <3> QED BY <3>1, <3>2
  <2>8. \A m \in Runs : Live(m)' => Live(m)
    BY <2>1 DEF Live
  <2> QED BY <1>4, <1>8, <2>1, <2>4, <2>7, <2>8
<1>9. CASE BoxStep(n) /\ (\/ \E ok \in BOOLEAN : B!Mount(n, ok)
                          \/ B!Waited(n) \/ B!Fails(n) \/ B!Clean(n) \/ B!Killed(n))
  <2>1. UNCHANGED <<box, bFiles, reused>> /\ bCli[n].at # "gone"
    BY <1>9 DEF B!Mount, B!Waited, B!Fails, B!Clean, B!Killed, B!At, B!pids
  <2>3. \E to \in Places : B!Go(n, to)
    <3>1. ASSUME NEW ok \in BOOLEAN, B!Mount(n, ok) PROVE \E to \in Places : B!Go(n, to)
      <4>1. B!Go(n, IF ok THEN "spawn" ELSE "clean")
        BY <3>1 DEF B!Mount
      <4>2. (IF ok THEN "spawn" ELSE "clean") \in Places
        BY DEF Places
      <4> QED BY <4>1, <4>2
    <3> QED BY <3>1, <1>9 DEF B!Waited, B!Fails, B!Clean, B!Killed, Places
  <2>4. \A m \in Runs : bCli'[m].at # "gone" => bCli'[m].file = bCli[m].file /\ bCli[m].at # "gone"
    <3>1. bCli'[n].file = bCli[n].file /\ \A m \in Runs \ {n} : bCli'[m] = bCli[m]
      BY <1>0, <2>3, CliGoes
    <3> QED BY <2>1, <3>1
  <2>5. \/ UNCHANGED runtime
        \/ runtime[n].at = "zombie" /\ Turns(n, "over")
    <3>1. CASE B!Waited(n)
      BY <1>0, <3>1, RuntimeTurns DEF B!Waited, Runtimes
    <3>2. CASE B!Killed(n) /\ runtime[n].at = "zombie"
      BY <1>0, <3>2, RuntimeTurns DEF B!Killed, Runtimes
    <3>3. CASE B!Killed(n) /\ runtime[n].at # "zombie"
      <4>1. runtime' = [runtime EXCEPT ![n].at = runtime[n].at]
        BY <3>3 DEF B!Killed
      <4> QED BY <1>0, <4>1 DEF BoxTypes
    <3>4. CASE (\E ok \in BOOLEAN : B!Mount(n, ok)) \/ B!Fails(n) \/ B!Clean(n)
      BY <3>4 DEF B!Mount, B!Fails, B!Clean
    <3> QED BY <1>9, <3>1, <3>2, <3>3, <3>4
  <2>6. \A m \in Runs : Live(m)' => Live(m) /\ runtime'[m].pid = runtime[m].pid
    BY <2>5 DEF Live, Turns
  <2> QED BY <1>4, <1>9, <2>1, <2>4, <2>6
<1>10. CASE BoxStep(n) /\ (B!Refused(n) \/ B!Exits(n) \/ B!Over(n))
  <2>1. UNCHANGED <<bCli, bFiles, reused>> /\ Live(n)
        /\ (box' = box \/ box' = [box EXCEPT ![Id(n)] = None])
    BY <1>10 DEF B!Refused, B!Exits, B!Over, B!Id, Id, Live
  <2>2. \A i \in Ids : box'[i] = box[i] \/ box'[i] = None
    BY <1>0, <2>1 DEF BoxTypes
  <2>3. \E to \in Runtimes : runtime' = [runtime EXCEPT ![n].at = to]
    <3>1. CASE B!Exits(n)
      BY <3>1 DEF B!Exits, Runtimes
    <3>2. CASE (B!Refused(n) \/ B!Over(n)) /\ bCli[n].at = "gone"
      BY <3>2 DEF B!Refused, B!Over, B!Ends, B!At, Runtimes
    <3>3. CASE (B!Refused(n) \/ B!Over(n)) /\ bCli[n].at # "gone"
      BY <3>3 DEF B!Refused, B!Over, B!Ends, B!At, Runtimes
    <3> QED BY <1>10, <3>1, <3>2, <3>3
  <2>4. PICK to \in Runtimes : Turns(n, to)
    BY <1>0, <2>3, RuntimeTurns
  <2>5. \A m \in Runs : Live(m)' => Live(m) /\ runtime'[m].pid = runtime[m].pid
    BY <2>1, <2>4 DEF Live, Turns
  <2> QED BY <1>4, <1>10, <2>1, <2>2, <2>5
<1> QED BY <1>3, <1>5, <1>6, <1>7, <1>8, <1>9, <1>10 DEF BoxStep
Written == {"child", "forget"}

\* The parts of Filed.
FileThere == ~ reused => \A n \in Runs : bCli[n].at \in Written => bFiles[bCli[n].file] = Id(n)
FileNeeded == \A i \in Ids, p \in Pids : ~ B!Lost(i) /\ bFiles[p] = i =>
    \E n \in Runs : Id(n) = i /\ bCli[n].at \in Written /\ bCli[n].file = p
NamedFor(n) == ~ B!Lost(Id(n)) /\ bCli[n].at \in {"record", "write", "child"} =>
    \/ bCli[n].file = runtime[n].pid
    \/ runtime[n].at = "up" /\ bCli[n].file = box[Id(n)]
    \/ runtime[n].at \in {"ending", "zombie"}

LEMMA FiledParts == Filed <=> FileThere /\ FileNeeded /\ \A n \in Runs : NamedFor(n)
  BY DEF Filed, FileThere, FileNeeded, NamedFor, Written

\* Who is lost stays lost.
LEMMA LostStays ==
  ASSUME BoxBase, NEW n \in Runs, BoxStep(n), NEW i, B!Lost(i)
  PROVE  B!Lost(i)'
<1>0. BoxTypes
  BY DEF BoxBase
<1>1. \A m \in Runs : Id(m)' = Id(m)
  BY StepIds
<1>2. lost' = lost \/ lost' = lost \union {n}
  BY DEF BoxStep, B!Mount, B!Spawn, B!Named, B!Up, B!Record, B!Recorded, B!Waited, B!Forget,
         B!Fails, B!Clean, B!Killed, B!Refused, B!Exits, B!Over, B!Lose
<1>3. lost \subseteq Runs
  BY <1>0 DEF BoxTypes
<1> QED BY <1>1, <1>2, <1>3 DEF B!Lost, B!Id, Id

\* A step that leaves the files, and the runs that have written theirs.
LEMMA FiledKeeps ==
  ASSUME BoxBase, FileThere, FileNeeded, NEW n \in Runs, BoxStep(n), bFiles' = bFiles, reused => reused',
         \A m \in Runs \ {n} : bCli'[m] = bCli[m],
         bCli'[n].at \in Written => bCli[n].at \in Written /\ bCli'[n].file = bCli[n].file,
         bCli[n].at \in Written => \/ bCli'[n].at \in Written /\ bCli'[n].file = bCli[n].file
                                   \/ n \in lost'
  PROVE  FileThere' /\ FileNeeded'
<1>1. \A m \in Runs : Id(m)' = Id(m)
  BY StepIds
<1>2. FileThere'
  BY <1>1 DEF FileThere
<1>3. FileNeeded'
  <2> SUFFICES ASSUME NEW i \in Ids, NEW p \in Pids, ~ B!Lost(i)', bFiles[p] = i
               PROVE  \E m \in Runs : Id(m) = i /\ bCli'[m].at \in Written /\ bCli'[m].file = p
    BY <1>1 DEF FileNeeded
  <2>1. ~ B!Lost(i)
    BY LostStays
  <2>2. PICK m \in Runs : Id(m) = i /\ bCli[m].at \in Written /\ bCli[m].file = p
    BY <2>1 DEF FileNeeded
  <2>3. n \in lost' => Id(n) # i
    BY <1>1 DEF B!Lost, B!Id, Id
  <2>4. CASE m = n
    BY <2>2, <2>3, <2>4
  <2>5. CASE m # n
    BY <2>2, <2>5
  <2> QED BY <2>4, <2>5
<1> QED BY <1>2, <1>3

\* A step that leaves what other runs are named for.
LEMMA NamedKeeps ==
  ASSUME BoxBase, NEW n \in Runs, BoxStep(n), NEW m \in Runs \ {n}, NamedFor(m),
         bCli'[m] = bCli[m], runtime'[m] = runtime[m],
         runtime[m].at = "up" => box'[Id(m)] = box[Id(m)]
  PROVE  NamedFor(m)'
<1>1. Id(m)' = Id(m)
  BY StepIds
<1>2. ~ B!Lost(Id(m))' => ~ B!Lost(Id(m))
  <2>1. B!Lost(Id(m)) => \E k \in lost : Id(k) = Id(m)
    BY DEF B!Lost, B!Id, Id
  <2>2. (\E k \in lost' : Id(k)' = Id(m)') => B!Lost(Id(m))'
    BY DEF B!Lost, B!Id, Id
  <2>3. \A k \in Runs : Id(k)' = Id(k)
    BY StepIds
  <2>4. lost \subseteq lost' /\ lost \subseteq Runs
    BY DEF BoxBase, BoxTypes, BoxStep, B!Mount, B!Spawn, B!Named, B!Up, B!Record, B!Recorded,
           B!Waited, B!Forget, B!Fails, B!Clean, B!Killed, B!Refused, B!Exits, B!Over, B!Lose
  <2> QED BY <2>1, <2>2, <2>3, <2>4
<1> QED BY <1>1, <1>2 DEF NamedFor

\* Two runs that are there have files of their own.
LEMMA OwnFiles ==
  ASSUME BoxBase, Tied, FileThere, ~ reused, NEW n \in Runs, NEW m \in Runs \ {n},
         bCli[n].at \in {"record", "write", "forget"}, bCli[m].at \in Written
  PROVE  bCli[m].file # bCli[n].file
<1>1. Placed(n) /\ Placed(m) /\ Single
  BY DEF BoxBase
<1>2. Id(n) \in Ids /\ Id(m) \in Ids /\ bCli[n].file \in Pids
  BY <1>1 DEF Placed, Written
<1>3. Id(n) # Id(m)
  BY <1>1, <1>2 DEF Single, Written
<1>4. Tie(bCli[n].file, Id(n)) /\ Tie(bCli[m].file, Id(m))
  BY DEF Tie, Written
<1> QED BY <1>2, <1>3, <1>4 DEF Tied

LEMMA FiledStart ==
  ASSUME BoxBase, Filed, NEW n \in Runs, NEW i \in Ids, B!Start(n, i)
  PROVE  Filed'
<1>0. BoxTypes /\ Placed(n) /\ FileThere /\ FileNeeded /\ \A m \in Runs : NamedFor(m)
  BY FiledParts DEF BoxBase
<1>1. bCli[n].at = "new" /\ n \notin lost
  BY <1>0 DEF B!Start, B!At, Placed
<1>2. UNCHANGED <<runtime, box, bFiles, reused, lost>> /\ (\A m \in Runs \ {n} : bCli'[m] = bCli[m])
      /\ bCli'[n].at \in {"gone", "mount"}
  BY <1>0 DEF B!Start, B!pids, BoxTypes
<1>3. \A m \in Runs \ {n} : Id(m)' = Id(m)
  BY <1>2 DEF Id
<1>4. ASSUME NEW j PROVE B!Lost(j)' <=> B!Lost(j)
  <2>1. \A m \in lost : Id(m)' = Id(m)
    BY <1>0, <1>1, <1>3 DEF BoxTypes
  <2> QED BY <2>1, <1>2 DEF B!Lost, B!Id, Id
<1>5. FileThere'
  BY <1>0, <1>1, <1>2, <1>3 DEF FileThere, Written
<1>6. FileNeeded'
  <2> SUFFICES ASSUME NEW j \in Ids, NEW p \in Pids, ~ B!Lost(j), bFiles[p] = j
               PROVE  \E m \in Runs : Id(m)' = j /\ bCli'[m].at \in Written /\ bCli'[m].file = p
    BY <1>2, <1>4 DEF FileNeeded
  <2>2. PICK m \in Runs : Id(m) = j /\ bCli[m].at \in Written /\ bCli[m].file = p
    BY <1>0 DEF FileNeeded
  <2>3. m # n
    BY <2>2, <1>1 DEF Written
  <2> QED BY <1>2, <1>3, <2>2, <2>3
<1>7. ASSUME NEW m \in Runs PROVE NamedFor(m)'
  <2>1. CASE m = n
    BY <1>2, <2>1 DEF NamedFor
  <2>2. CASE m # n
    <3>1. NamedFor(m) /\ Id(m)' = Id(m) /\ bCli'[m] = bCli[m]
      BY <1>0, <1>2, <1>3, <2>2
    <3>2. B!Lost(Id(m)) => B!Lost(Id(m))'
      <4>1. B!Lost(Id(m)) => \E k \in lost : Id(k) = Id(m)
        BY DEF B!Lost, B!Id, Id
      <4>2. (\E k \in lost' : Id(k)' = Id(m)') => B!Lost(Id(m))'
        BY DEF B!Lost, B!Id, Id
      <4>3. \A k \in lost : Id(k)' = Id(k)
        BY <1>0, <1>1, <1>3 DEF BoxTypes
      <4> QED BY <4>1, <4>2, <4>3, <1>2, <3>1
    <3> QED BY <3>1, <3>2, <1>2 DEF NamedFor
  <2> QED BY <2>1, <2>2
<1> QED BY <1>5, <1>6, <1>7, FiledParts DEF Filed, FileThere, FileNeeded, NamedFor, Written
\* What the steps of a run do to its place and to the rest.
LEMMA StepFrame ==
  ASSUME BoxBase, NEW n \in Runs, BoxStep(n)
  PROVE  /\ \A m \in Runs \ {n} : bCli'[m] = bCli[m] /\ runtime'[m] = runtime[m]
         /\ reused => reused'
<1>0. BoxTypes
  BY DEF BoxBase
<1>1. CASE \E ok \in BOOLEAN : B!Mount(n, ok)
  BY <1>0, <1>1 DEF B!Mount, B!Go, B!pids, BoxTypes
<1>2. CASE \E p \in Pids : B!Spawn(n, p) \/ B!Named(n, p) \/ B!Up(n, p)
  BY <1>0, <1>2 DEF B!Spawn, B!Named, B!Up, B!Give, B!Go, B!pids, BoxTypes
<1>3. CASE B!Record(n) \/ B!Recorded(n) \/ B!Forget(n)
  BY <1>0, <1>3 DEF B!Record, B!Recorded, B!Forget, B!Go, B!pids, BoxTypes
<1>4. CASE B!Waited(n) \/ B!Fails(n) \/ B!Clean(n)
  BY <1>0, <1>4 DEF B!Waited, B!Fails, B!Clean, B!Go, B!pids, BoxTypes
<1>5. CASE B!Killed(n)
  BY <1>0, <1>5 DEF B!Killed, B!Go, BoxTypes
<1>6. CASE B!Refused(n) \/ B!Exits(n) \/ B!Over(n)
  BY <1>0, <1>6 DEF B!Refused, B!Exits, B!Over, B!Ends, BoxTypes
<1> QED BY <1>1, <1>2, <1>3, <1>4, <1>5, <1>6 DEF BoxStep

LEMMA FiledNext ==
  ASSUME BoxBase, Owned, Tied, Filed, NEW n \in Runs, BoxStep(n)
  PROVE  FileThere' /\ FileNeeded' /\ \A m \in Runs : NamedFor(m)'
<1> USE BoxAssumption
<1>0. BoxTypes /\ Placed(n) /\ FileThere /\ FileNeeded /\ (\A m \in Runs : NamedFor(m)) /\ Single
  BY FiledParts DEF BoxBase
<1>1. /\ \A m \in Runs \ {n} : bCli'[m] = bCli[m] /\ runtime'[m] = runtime[m]
      /\ reused => reused'
      /\ \A m \in Runs : Id(m)' = Id(m)
  BY StepFrame, StepIds
<1>2. B!Lost(Id(n))' \/ ~ B!Lost(Id(n))
  <2>1. ASSUME B!Lost(Id(n)) PROVE B!Lost(Id(n))'
    <3>1. PICK k \in lost : Id(k) = Id(n)
      BY <2>1 DEF B!Lost, B!Id, Id
    <3>2. k \in lost' /\ k \in Runs
      BY <1>0 DEF BoxTypes, BoxStep, B!Mount, B!Spawn, B!Named, B!Up, B!Record, B!Recorded,
           B!Waited, B!Forget, B!Fails, B!Clean, B!Killed, B!Refused, B!Exits, B!Over, B!Lose
    <3>3. Id(k)' = Id(n)'
      BY <1>1, <3>1, <3>2
    <3> QED BY <3>2, <3>3 DEF B!Lost, B!Id, Id
  <2> QED BY <2>1
<1>3. ASSUME NamedFor(n)', box' = box PROVE \A m \in Runs : NamedFor(m)'
  <2> SUFFICES ASSUME NEW m \in Runs \ {n} PROVE NamedFor(m)'
    BY <1>3
  <2> QED BY <1>0, <1>1, <1>3, NamedKeeps
\* Steps of ll-cli that leave the files.
<1>4. CASE (\E ok \in BOOLEAN : B!Mount(n, ok)) \/ B!Fails(n) \/ B!Clean(n) \/ B!Killed(n)
           \/ (\E p \in Pids : B!Spawn(n, p))
  <2>1. /\ bFiles' = bFiles /\ box' = box
        /\ bCli'[n].at \in {"spawn", "clean", "drop", "gone", "wait"}
        /\ bCli[n].at \in Written => n \in lost'
    <3>1. CASE \E ok \in BOOLEAN : B!Mount(n, ok)
      BY <1>0, <3>1 DEF B!Mount, B!Go, B!At, BoxTypes, Written
    <3>2. CASE B!Fails(n)
      BY <1>0, <3>2 DEF B!Fails, B!Go, BoxTypes, Written
    <3>3. CASE B!Clean(n)
      BY <1>0, <3>3 DEF B!Clean, B!Go, BoxTypes, Written
    <3>4. CASE B!Killed(n)
      BY <1>0, <3>4 DEF B!Killed, B!Lose, B!Go, BoxTypes, Written
    <3>5. CASE \E p \in Pids : B!Spawn(n, p)
      BY <1>0, <3>5 DEF B!Spawn, B!Go, B!At, BoxTypes, Written
    <3> QED BY <1>4, <3>1, <3>2, <3>3, <3>4, <3>5
  <2>2. FileThere' /\ FileNeeded'
    BY <1>0, <1>1, <2>1, FiledKeeps DEF Written
  <2>3. NamedFor(n)'
    BY <2>1 DEF NamedFor
  <2> QED BY <1>3, <2>1, <2>2, <2>3
<1>5. CASE \E p \in Pids : B!Named(n, p)
  <2>1. PICK p \in Pids : B!Named(n, p)
    BY <1>5
  <2>2. /\ bFiles' = bFiles /\ box' = box /\ runtime' = runtime /\ bCli[n].at = "wait"
        /\ bCli'[n].at = "record" /\ bCli'[n].file = p /\ p \in {box[Id(n)], runtime[n].pid}
    <3>1. bCli' = [bCli EXCEPT ![n].at = "record", ![n].file = p]
      BY <2>1 DEF B!Named
    <3>2. bCli'[n].at = "record" /\ bCli'[n].file = p
      BY <1>0, <3>1 DEF BoxTypes
    <3> QED BY <2>1, <3>2 DEF B!Named, B!At, B!pids, B!Id, Id
  <2>3. FileThere' /\ FileNeeded'
    BY <1>0, <1>1, <2>2, FiledKeeps DEF Written
  <2>4. NamedFor(n)'
    <3> SUFFICES ASSUME ~ B!Lost(Id(n)), p = box[Id(n)]
                 PROVE  runtime[n].at \in {"up", "ending"}
      BY <1>1, <1>2, <2>2 DEF NamedFor
    <3>1. Id(n) \in Ids
      BY <1>0, <2>2 DEF Placed
    <3>2. PICK m \in Runs : Id(m) = Id(n) /\ Created(m)
      BY <3>1 DEF Owned, Pids
    <3>3. m = n
      <4> SUFFICES ASSUME m # n PROVE FALSE
        OBVIOUS
      <4>1. bCli[m].at = "gone"
        BY <1>0, <2>2, <3>1, <3>2 DEF Single
      <4>2. Placed(m)
        BY DEF BoxBase
      <4> QED BY <3>2, <4>1, <4>2 DEF Placed, Created
    <3> QED BY <3>2, <3>3 DEF Created
  <2> QED BY <1>3, <2>2, <2>3, <2>4
<1>6. CASE B!Waited(n)
  <2>1. /\ bFiles' = bFiles /\ box' = box /\ bCli[n].at = "child"
        /\ bCli'[n].at = "forget" /\ bCli'[n].file = bCli[n].file
    BY <1>0, <1>6, CliGoes DEF B!Waited, B!At, Places
  <2>2. FileThere' /\ FileNeeded'
    BY <1>0, <1>1, <2>1, FiledKeeps DEF Written
  <2>3. NamedFor(n)'
    BY <2>1 DEF NamedFor
  <2> QED BY <1>3, <2>1, <2>2, <2>3
\* Steps that write the file.
<1>7. CASE B!Record(n) \/ B!Recorded(n) \/ B!Forget(n)
  <2>1. PICK to \in {"write", "child", "clean"}, v \in {"cut", Id(n), None} :
          /\ bFiles' = [bFiles EXCEPT ![bCli[n].file] = v] /\ B!Go(n, to)
          /\ to = "child" <=> v = Id(n)
    <3>1. Id(n) \in Ids
      BY <1>0, <1>7 DEF B!Record, B!Recorded, B!Forget, B!At, Placed
    <3>2. Id(n) # "cut" /\ Id(n) # None
      BY <3>1
    <3> QED BY <1>7, <3>2 DEF B!Record, B!Recorded, B!Forget, B!Id, Id
  <2>2. /\ box' = box /\ runtime' = runtime /\ reused' = reused /\ lost' = lost
        /\ bCli[n].at \in {"record", "write", "forget"}
    BY <1>7 DEF B!Record, B!Recorded, B!Forget, B!At, B!pids
  <2>3. bCli'[n].at = to /\ bCli'[n].file = bCli[n].file
    BY <1>0, <2>1, CliGoes DEF Places
  <2>4. bCli[n].file \in Pids /\ Id(n) \in Ids
    BY <1>0, <2>2 DEF Placed
  <2>5. bFiles'[bCli[n].file] = v /\ \A q \in Pids : q # bCli[n].file => bFiles'[q] = bFiles[q]
    BY <1>0, <2>1, <2>4 DEF BoxTypes
  <2>6. FileThere'
    <3> SUFFICES ASSUME ~ reused, NEW m \in Runs, bCli'[m].at \in Written
                 PROVE  bFiles'[bCli'[m].file] = Id(m)
      BY <1>1, <2>2 DEF FileThere
    <3>1. CASE m = n
      BY <3>1, <2>1, <2>3, <2>5 DEF Written
    <3>2. CASE m # n
      <4>1. bCli[m].file # bCli[n].file /\ bCli[m].file \in Pids
        <5>1. bCli[m].at \in Written /\ Placed(m)
          BY <1>1, <3>2 DEF BoxBase
        <5> QED BY <5>1, <1>0, <2>2, <3>2, OwnFiles DEF Placed, Written
      <4>2. bFiles[bCli[m].file] = Id(m)
        BY <1>0, <1>1, <3>2 DEF FileThere
      <4> QED BY <1>1, <2>5, <3>2, <4>1, <4>2
    <3> QED BY <3>1, <3>2
  <2>7. FileNeeded'
    <3> SUFFICES ASSUME NEW i \in Ids, NEW p \in Pids, ~ B!Lost(i)', bFiles'[p] = i
                 PROVE  \E m \in Runs : Id(m) = i /\ bCli'[m].at \in Written /\ bCli'[m].file = p
      BY <1>1 DEF FileNeeded
    <3>1. ~ B!Lost(i)
      BY LostStays
    <3>2. CASE p = bCli[n].file
      <4>1. v = i /\ v = Id(n)
        BY <2>5, <3>2
      <4> QED BY <2>1, <2>3, <3>2, <4>1 DEF Written
    <3>3. CASE p # bCli[n].file
      <4>1. PICK m \in Runs : Id(m) = i /\ bCli[m].at \in Written /\ bCli[m].file = p
        BY <1>0, <2>5, <3>1, <3>3 DEF FileNeeded
      <4> QED BY <1>1, <3>3, <4>1
    <3> QED BY <3>2, <3>3
  <2>8. NamedFor(n)'
    <3>1. CASE to = "clean"
      BY <2>3, <3>1 DEF NamedFor
    <3>2. CASE to # "clean"
      <4>1. bCli[n].at \in {"record", "write"}
        <5>1. B!Record(n) \/ B!Recorded(n)
          <6>1. B!Forget(n) => bCli'[n].at = "clean"
            BY <1>0, CliGoes DEF B!Forget, Places
          <6> QED BY <1>7, <2>3, <3>2, <6>1
        <5> QED BY <5>1 DEF B!Record, B!Recorded, B!At
      <4> QED BY <1>0, <1>1, <1>2, <2>2, <2>3, <4>1 DEF NamedFor
    <3> QED BY <3>1, <3>2
  <2> QED BY <1>3, <2>2, <2>6, <2>7, <2>8
\* Steps of the runtime.
<1>8. CASE (\E p \in Pids : B!Up(n, p)) \/ B!Refused(n) \/ B!Exits(n) \/ B!Over(n)
  <2>1. bFiles' = bFiles /\ bCli' = bCli /\ lost' = lost
    BY <1>8 DEF B!Up, B!Refused, B!Exits, B!Over
  <2>2. FileThere' /\ FileNeeded'
    BY <1>0, <1>1, <2>1, FiledKeeps DEF Written
  <2>3. runtime'[n].pid = runtime[n].pid
        /\ \/ runtime[n].at = "starting" /\ runtime'[n].at = "up"
           \/ runtime'[n].at \in {"ending", "zombie"}
           \/ bCli[n].at = "gone"
    <3>1. CASE \E p \in Pids : B!Up(n, p)
      BY <1>0, <3>1 DEF B!Up, BoxTypes
    <3>2. CASE B!Exits(n)
      BY <1>0, <3>2 DEF B!Exits, BoxTypes
    <3>3. CASE B!Refused(n) \/ B!Over(n)
      <4>1. runtime' = [runtime EXCEPT ![n].at = IF bCli[n].at = "gone" THEN "over" ELSE "zombie"]
        BY <3>3 DEF B!Refused, B!Over, B!Ends, B!At
      <4> QED BY <1>0, <4>1 DEF BoxTypes
    <3> QED BY <1>8, <3>1, <3>2, <3>3
  <2>4. NamedFor(n)'
    BY <1>0, <1>1, <1>2, <2>1, <2>3 DEF NamedFor
  <2>5. ASSUME NEW m \in Runs \ {n} PROVE NamedFor(m)'
    <3>1. ASSUME runtime[m].at = "up" PROVE box'[Id(m)] = box[Id(m)]
      <4>1. Created(m) /\ Id(m) \in Ids /\ box[Id(m)] # None
        <5>1. Created(m) /\ Placed(m) /\ Live(m)
          BY <3>1 DEF BoxBase, Created, Live
        <5> QED BY <5>1 DEF Placed, Owned, Live
      <4>2. \/ box' = box
            \/ (\E p : box' = [box EXCEPT ![Id(n)] = p]) /\ (box[Id(n)] = None \/ Created(n))
        BY <1>8 DEF B!Up, B!Refused, B!Exits, B!Over, B!Id, Id, Created
      <4>3. box' = box \/ Id(m) # Id(n)
        BY <4>1, <4>2 DEF Owned
      <4> QED BY <1>0, <4>1, <4>2, <4>3 DEF BoxTypes
    <3> QED BY <1>0, <1>1, <3>1, NamedKeeps
  <2> QED BY <2>2, <2>4, <2>5
<1> QED BY <1>4, <1>5, <1>6, <1>7, <1>8 DEF BoxStep

LEMMA BoxNext == BoxInv /\ [B!Next]_bVars => BoxInv'
<1> SUFFICES ASSUME BoxInv, [B!Next]_bVars PROVE BoxInv'
  OBVIOUS
<1>0. BoxBase /\ Owned /\ Tied /\ Filed
  BY DEF BoxInv
<1>1. CASE UNCHANGED bVars
  <2>1. B!Mode' = B!Mode
    BY <1>1, ModeSame DEF bVars
  <2>2. \A m \in Runs : Id(m)' = Id(m) /\ (Live(m)' <=> Live(m)) /\ (Created(m)' <=> Created(m))
    BY <1>1 DEF bVars, Id, Live, Created
  <2>3. ASSUME NEW i PROVE B!Lost(i)' <=> B!Lost(i)
    BY <1>1 DEF bVars, B!Lost, B!Id
  <2>4. BoxBase'
    <3>1. BoxTypes'
      BY <1>0, <1>1 DEF BoxBase, BoxTypes, bVars
    <3>2. ASSUME NEW m \in Runs PROVE Placed(m)'
      <4>1. Placed(m)
        BY <1>0 DEF BoxBase
      <4>2. B!Lost(Id(m))' <=> B!Lost(Id(m))
        BY <1>1 DEF bVars, B!Lost, B!Id, Id
      <4> HIDE DEF B!Mode
      <4> QED BY <4>1, <4>2, <1>1, <2>1, <2>2 DEF bVars, Placed
    <3>3. Single'
      BY <1>0, <1>1, <2>2 DEF BoxBase, Single, bVars
    <3>4. Rooted'
      BY <1>0, <1>1, <2>2, <2>3 DEF BoxBase, Rooted, bVars
    <3> QED BY <3>1, <3>2, <3>3, <3>4 DEF BoxBase
  <2>5. Owned'
    BY <1>0, <1>1, <2>2 DEF Owned, bVars
  <2>6. Tied'
    BY <1>0, <1>1, <2>2, TiedKeeps DEF bVars, Tie
  <2>7. Filed'
    <3>1. \A m \in Runs : (B!Lost(Id(m)))' <=> B!Lost(Id(m))
      BY <1>1 DEF bVars, B!Lost, B!Id, Id
    <3> QED BY <1>0, <1>1, <2>2, <2>3, <3>1 DEF Filed, bVars
  <2> QED BY <2>4, <2>5, <2>6, <2>7 DEF BoxInv
<1>2. CASE B!Next
  <2>1. PICK n \in Runs : BoxStep(n) \/ \E i \in Ids : B!Start(n, i)
    BY <1>2, BoxSteps
  <2>2. BoxBase' /\ Owned' /\ Tied'
    BY <1>0, <2>1, BaseNext, OwnedNext, TiedNext
  <2>3. Filed'
    <3>1. CASE BoxStep(n)
      <4>1. FileThere' /\ FileNeeded' /\ \A m \in Runs : NamedFor(m)'
        BY <1>0, <3>1, FiledNext
      <4> QED BY <4>1 DEF Filed, FileThere, FileNeeded, NamedFor, Written
    <3>2. CASE \E i \in Ids : B!Start(n, i)
      BY <1>0, <3>2, FiledStart
    <3> QED BY <2>1, <3>1, <3>2
  <2> QED BY <2>2, <2>3 DEF BoxInv
<1> QED BY <1>1, <1>2

\* Nothing stays mounted of a container whose ll-cli came to its end, and its
\* root is there for as long as its runtime.
THEOREM RootKeptHolds == ContainersSpec => []RootKept
<1>1. BoxInv => RootKept
  BY BoxRooted DEF BoxInv
<1> QED BY <1>1, BoxInit, BoxNext, BoxesRun, PTL DEF ContainersSpec

\* Who looks at the files sees what runs, as long as no pid comes back early.
THEOREM SeenAsIsHolds == ContainersSpec => []SeenAsIs
  BY BoxSeen, BoxInit, BoxNext, BoxesRun, PTL DEF ContainersSpec
=============================================================================
