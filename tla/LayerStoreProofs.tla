------------------------- MODULE LayerStoreProofs -------------------------
(***************************************************************************)
(* Theorems about LayerStore for any packages, versions, modules and       *)
(* containers.                                                             *)
(***************************************************************************)
EXTENDS LayerStore, FiniteSetTheorems, SequenceTheorems, TLAPS

-----------------------------------------------------------------------------
(* The inductive invariant.  What an operation has still to do is a list of *)
(* updates of which only the first few can be the parts of an import, of a  *)
(* removal or of a clean that has begun; no other update touches the refs,  *)
(* the checkouts or the entries in a way that depends on the one before.    *)

Parts == {"ref", "clear", "checkout", "upsert", "unref", "drop"}

\* What can change before an operation has come to the updates of the next app
\* must not begin anything once it is rolled back.
Forward == {"install", "import", "ref", "checkout", "upsert", "update"}
Undos   == {"unexport", "retire", "unimport", "merge"}
Collects == {"collect", "discard", "merge", "unref", "drop", "clear"}
Asks     == {"update", "updated"}

Kind(i)   == todo[i][1]
This      == todo[1][2]
At(i, do) == i <= Len(todo) /\ todo[i] = <<do, This>>
After(n)  == \A i \in 1..Len(todo) : i > n => Kind(i) \notin Parts
IsSeq(s)  == \E S : s \in Seq(S)

\* What a clean takes is of no entry.
Unused(c) == c \notin live \cup deferred \/ "pruned" \in hurt

ImportInv ==
    \/ At(1, "ref") /\ At(2, "clear") /\ At(3, "checkout") /\ At(4, "upsert") /\ After(4)
    \/ At(1, "clear") /\ At(2, "checkout") /\ At(3, "upsert") /\ After(3) /\ This \in named
    \/ At(1, "checkout") /\ At(2, "upsert") /\ After(2) /\ This \in named
    \/ At(1, "upsert") /\ After(1) /\ This \in named \cap dirs
RemovalInv ==
    \/ At(1, "unref") /\ At(2, "drop") /\ At(3, "clear") /\ After(3)
    \/ At(1, "drop") /\ At(2, "clear") /\ After(2)
    \/ At(1, "clear") /\ After(1) /\ Unused(This)
    \/ At(1, "clear") /\ At(2, "unref") /\ After(2) /\ Unused(This)
    \/ At(1, "unref") /\ After(1) /\ Unused(This)
ShapeInv == After(0) \/ ImportInv \/ RemovalInv

\* Only sweeps, and the parts of one, come before a sweep.
SweepInv == \A i \in 1..Len(todo) : Kind(i) = "sweep" =>
    /\ Unused(todo[i][2])
    /\ \A j \in 1..(i - 1) : Kind(j) \in {"sweep", "clear", "unref"}

\* The mutex has a holder while there is something to do.  A rollback begins
\* nothing before it comes to the next app, and after an app only apps follow.
HolderInv ==
    /\ who \in {"none", "job", "rollback", "gc"}
    /\ who = "none" => todo = <<>>
    /\ who = "job" => \A i \in 1..Len(undo) : undo[i][1] \in Undos
    /\ who = "rollback" => \A i \in 1..Len(todo) :
           Kind(i) \in Forward => \E j \in 1..(i - 1) : Kind(j) = "next"
    /\ \A i, j \in 1..Len(todo) : i < j /\ Kind(i) \in {"next", "update"} => Kind(j) \in Asks

\* What the deferred uninstall loop takes away is not busy, and cannot become
\* so, as it has the lock.
GcInv ==
    /\ use = [k \in Containers |-> use[k]] /\ recorded \subseteq Containers
    /\ \A k \in recorded : use[k] # {}
    /\ who = "gc" => /\ lock
                     /\ \A i \in 1..Len(todo) :
                           /\ Kind(i) \in Collects
                           /\ Kind(i) \in {"discard", "unref", "drop", "clear"} => ~Busy(todo[i][2].ref)

TodoInv == IsSeq(todo) /\ IsSeq(undo) /\ ShapeInv /\ SweepInv /\ HolderInv /\ GcInv

\* An entry has its objects, or is the one whose removal has unset the ref.
HaveInv == {"crashed", "pruned"} \cap hurt = {} =>
    live \cup deferred \subseteq named \cup nameless \cup {c \in {This} : Due("drop")}

FiniteInv == IsFiniteSet(live) /\ IsFiniteSet(deferred) /\ IsFiniteSet(named)

LayersInv == TodoInv /\ FilesThere /\ HaveInv /\ FiniteInv

-----------------------------------------------------------------------------
(* Lists of updates.                                                       *)

\* A list of updates of some kinds.
Made(s, K) == IsSeq(s) /\ \A i \in 1..Len(s) : s[i][1] \in K

LEMMA Concat ==
    ASSUME NEW s, NEW t, IsSeq(s), IsSeq(t)
    PROVE  /\ IsSeq(s \o t) /\ Len(s \o t) = Len(s) + Len(t) /\ Len(s) \in Nat /\ Len(t) \in Nat
           /\ \A i \in 1..Len(s) : (s \o t)[i] = s[i]
           /\ \A i \in (Len(s) + 1)..(Len(s) + Len(t)) : (s \o t)[i] = t[i - Len(s)]
<1>1. PICK S, T : s \in Seq(S) /\ t \in Seq(T)
  BY DEF IsSeq
<1>2. s \in Seq(S \cup T) /\ t \in Seq(S \cup T)
  BY <1>1
<1>3. s \o t \in Seq(S \cup T)
  BY <1>2
<1>4. IsSeq(s \o t)
  BY <1>3 DEF IsSeq
<1> QED BY <1>2, <1>4

LEMMA Rests ==
    ASSUME NEW s, IsSeq(s), s # <<>>
    PROVE  /\ IsSeq(Tail(s)) /\ Len(s) \in Nat \ {0} /\ Len(Tail(s)) = Len(s) - 1
           /\ Head(s) = s[1] /\ \A i \in 1..(Len(s) - 1) : Tail(s)[i] = s[i + 1]
<1>1. PICK S : s \in Seq(S)
  BY DEF IsSeq
<1>2. Tail(s) \in Seq(S)
  BY <1>1
<1>3. IsSeq(Tail(s))
  BY <1>2 DEF IsSeq
<1> QED BY <1>1, <1>3

LEMMA MadeConcat ==
    ASSUME NEW s, NEW t, NEW K, Made(s, K), Made(t, K)
    PROVE  Made(s \o t, K)
<1>1. IsSeq(s) /\ IsSeq(t)
  BY DEF Made
<1>2. ASSUME NEW i \in 1..(Len(s) + Len(t)) PROVE (s \o t)[i][1] \in K
  <2>1. CASE i \in 1..Len(s)
    BY <1>1, <2>1, Concat DEF Made
  <2>2. CASE i \in (Len(s) + 1)..(Len(s) + Len(t))
    <3>1. i - Len(s) \in 1..Len(t)
      BY <1>1, <2>2, Concat
    <3> QED BY <1>1, <2>2, <3>1, Concat DEF Made
  <2> QED BY <1>1, <2>1, <2>2, Concat
<1> QED BY <1>1, <1>2, Concat DEF Made

LEMMA MadeNone == ASSUME NEW K PROVE Made(<<>>, K)
<1>1. <<>> \in Seq({})
  OBVIOUS
<1> QED BY <1>1 DEF Made, IsSeq

LEMMA MadeOne == ASSUME NEW K, NEW e, e[1] \in K PROVE Made(<<e>>, K)
<1>1. <<e>> \in Seq({e}) /\ Len(<<e>>) = 1 /\ <<e>>[1] = e
  OBVIOUS
<1>2. IsSeq(<<e>>)
  BY <1>1 DEF IsSeq
<1>3. ASSUME NEW i \in 1..1 PROVE <<e>>[i][1] \in K
  <2>1. i = 1
    OBVIOUS
  <2> QED BY <1>1, <2>1
<1> QED BY <1>1, <1>2, <1>3 DEF Made

LEMMA MadeMore ==
    ASSUME NEW s, NEW K, NEW M, Made(s, K), K \subseteq M
    PROVE  Made(s, M)
BY DEF Made

LEMMA MadeEach ==
    ASSUME NEW do, NEW S, NEW s \in Seq(S)
    PROVE  /\ Made(Each(do, s), {do}) /\ Len(Each(do, s)) = Len(s)
           /\ \A i \in 1..Len(s) : Each(do, s)[i] = <<do, s[i]>> /\ s[i] \in S
<1>1. Each(do, s) \in Seq({do} \X S)
  BY DEF Each
<1>2. IsSeq(Each(do, s))
  BY <1>1 DEF IsSeq
<1>3. Len(Each(do, s)) = Len(s) /\ \A i \in 1..Len(s) : Each(do, s)[i] = <<do, s[i]>> /\ s[i] \in S
  BY DEF Each
<1>4. ASSUME NEW i \in 1..Len(s) PROVE Each(do, s)[i][1] = do
  BY <1>3
<1> QED BY <1>2, <1>3, <1>4 DEF Made

\* The list of the members of a finite set has no other members.
LEMMA Listed ==
    ASSUME NEW S, IsFiniteSet(S)
    PROVE  SetToSeq(S) \in Seq(S)
<1> DEFINE n == Cardinality(S)
<1>1. n \in Nat /\ ExistsBijection(1..n, S)
  BY FS_CardinalityType
<1>2. PICK f : f \in Bijection(1..n, S)
  BY <1>1 DEF ExistsBijection
<1>3. f \in [1..n -> S] /\ IsInjective(f)
  BY <1>2 DEF Bijection, Injection
<1>4. SetToSeq(S) \in [1..n -> S]
  BY <1>3 DEF SetToSeq
<1> QED BY <1>1, <1>4

LEMMA Mapped ==
    ASSUME NEW S, IsFiniteSet(S)
    PROVE  IsFiniteSet({c.ref : c \in S})
<1> DEFINE f == [c \in S |-> c.ref]
<1>1. f \in Surjection(S, {c.ref : c \in S})
  BY DEF Surjection
<1> QED BY <1>1, FS_Surjection

LEMMA MadeInOrder ==
    ASSUME NEW M
    PROVE  InOrder(M) \in Seq({"binary", "develop"})
<1> DEFINE b == IF "binary" \in M THEN <<"binary">> ELSE <<>>
           d == IF "develop" \in M THEN <<"develop">> ELSE <<>>
<1>1. b \in Seq({"binary", "develop"}) /\ d \in Seq({"binary", "develop"})
  <2>1. /\ <<>> \in Seq({"binary", "develop"})
        /\ <<"binary">> \in Seq({"binary", "develop"})
        /\ <<"develop">> \in Seq({"binary", "develop"})
    OBVIOUS
  <2> QED BY <2>1
<1> HIDE DEF b, d
<1>2. b \o d \in Seq({"binary", "develop"})
  BY <1>1
<1> QED BY <1>2 DEF InOrder, b, d

\* The holder goes on with s before the rest.
LEMMA Going ==
    ASSUME NEW s, NEW K, Made(s, K), IsSeq(todo), todo # <<>>, todo' = s \o Tail(todo)
    PROVE  /\ IsSeq(todo)' /\ Len(s) \in Nat /\ Len(todo) \in Nat \ {0} /\ Len(todo') = Len(s) + Len(todo) - 1
           /\ \A i \in 1..Len(s) : todo'[i] = s[i] /\ todo'[i][1] \in K
           /\ \A i \in (Len(s) + 1)..Len(todo') : todo'[i] = todo[i - Len(s) + 1]
<1>1. IsSeq(s) /\ IsSeq(Tail(todo)) /\ Len(Tail(todo)) = Len(todo) - 1 /\ Len(todo) \in Nat \ {0}
  BY Rests DEF Made
<1>2. /\ IsSeq(todo') /\ Len(s) \in Nat /\ Len(todo') = Len(s) + Len(todo) - 1
      /\ \A i \in 1..Len(s) : todo'[i] = s[i]
      /\ \A i \in (Len(s) + 1)..(Len(s) + (Len(todo) - 1)) : todo'[i] = Tail(todo)[i - Len(s)]
  BY <1>1, Concat
<1>3. ASSUME NEW i \in (Len(s) + 1)..Len(todo') PROVE todo'[i] = todo[i - Len(s) + 1]
  <2>1. i - Len(s) \in 1..(Len(todo) - 1)
    BY <1>1, <1>2
  <2> QED BY <1>1, <1>2, <2>1, Rests
<1>4. \A i \in 1..Len(s) : todo'[i][1] \in K
  BY <1>2 DEF Made
<1> QED BY <1>1, <1>2, <1>3, <1>4 DEF IsSeq

-----------------------------------------------------------------------------
(* What an operation plans.                                                *)

Plans == {"install", "import", "merge", "export", "unexport", "retire", "prune_after", "prune",
          "remove_all", "remove"}

LEMMA MadeSome ==
    ASSUME NEW s, NEW n \in Nat, NEW K, s = [i \in 1..n |-> s[i]],
           \A i \in 1..n : s[i][1] \in K
    PROVE  Made(s, K)
<1>1. s \in Seq({s[i] : i \in 1..n}) /\ Len(s) = n
  OBVIOUS
<1> QED BY <1>1 DEF Made, IsSeq

LEMMA MadePlan == ASSUME NEW r, NEW M PROVE Made(Plan(r, M), Plans)
<1> DEFINE ms == InOrder({m \in M : Found(Remote, r, m) # {}})
           s  == Plan(r, M)
<1>1. Len(ms) \in Nat
  BY MadeInOrder
<1>2. s = [i \in 1..Len(ms) |-> <<"install", CHOOSE c \in Found(Remote, r, ms[i]) : TRUE>>]
  BY DEF Plan
<1> HIDE DEF ms, s
<1>3. s = [i \in 1..Len(ms) |-> s[i]] /\ \A i \in 1..Len(ms) : s[i][1] \in Plans
  BY <1>2 DEF Plans
<1>4. Made(s, Plans)
  BY <1>1, <1>3, MadeSome
<1> QED BY <1>4 DEF s

LEMMA MadeMissing == ASSUME NEW r PROVE Made(MissingBase(r), Plans)
BY MadePlan, MadeNone DEF MissingBase

LEMMA MadeNeeded == ASSUME NEW r PROVE Made(EnsureBase(r), Plans)
<1>1. Made(Merging, Plans)
  BY MadeOne DEF Merging, Plans
<1> QED BY <1>1, MadeMissing, MadeNone, MadeConcat DEF EnsureBase

LEMMA MadeFixed ==
    /\ Made(Merging, Plans) /\ Made(PruneAfter, Plans) /\ Made(Merging, Undos)
    /\ \A r, M : Made(<<<<"export", r, M>>>>, Plans)
    /\ \A r, M : Made(<<<<"unexport", r, M>>>>, Plans) /\ Made(<<<<"unexport", r, M>>>>, Undos)
    /\ \A r : Made(<<<<"retire", r>>>>, Plans) /\ Made(<<<<"retire", r>>>>, Undos)
    /\ \A r : Made(<<<<"remove_all", r>>>>, Plans)
    /\ \A r, m : Made(<<<<"remove", r, m>>>>, Plans)
    /\ \A a : Made(<<<<"updated", a>>>>, Asks)
    /\ Made(<<<<"prune">>>>, Plans)
BY MadeOne DEF Merging, PruneAfter, Plans, Undos, Asks

LEMMA MadeFixedTwo ==
    ASSUME NEW r, NEW M
    PROVE  /\ Made(<<<<"unexport", r, M>>, <<"retire", r>>>>, Undos)
           /\ Made(<<<<"unexport", r, M>>, <<"retire", r>>>>, Plans)
           /\ \A m : Made(<<<<"unexport", r, M>>, <<"remove", r, m>>>>, Plans)
<1>1. ASSUME NEW e, NEW f, NEW K, e[1] \in K, f[1] \in K PROVE Made(<<e, f>>, K)
  <2>1. <<e, f>> \in Seq({e, f}) /\ Len(<<e, f>>) = 2 /\ <<e, f>>[1] = e /\ <<e, f>>[2] = f
    OBVIOUS
  <2>2. IsSeq(<<e, f>>)
    BY <2>1 DEF IsSeq
  <2>3. ASSUME NEW i \in 1..2 PROVE <<e, f>>[i][1] \in K
    <3>1. i = 1 \/ i = 2
      OBVIOUS
    <3> QED BY <1>1, <2>1, <3>1
  <2> QED BY <2>1, <2>2, <2>3 DEF Made
<1> DEFINE u == <<"unexport", r, M>>
           v == <<"retire", r>>
<1>2. u[1] \in Undos /\ v[1] \in Undos /\ u[1] \in Plans /\ v[1] \in Plans
  BY DEF Undos, Plans
<1>3. ASSUME NEW m PROVE <<"remove", r, m>>[1] \in Plans
  BY DEF Plans
<1> HIDE DEF u, v
<1>4. Made(<<u, v>>, Undos) /\ Made(<<u, v>>, Plans) /\ \A m : Made(<<u, <<"remove", r, m>>>>, Plans)
  BY <1>1, <1>2, <1>3
<1> QED BY <1>4 DEF u, v

LEMMA MadeReplace ==
    ASSUME NEW r, NEW old, NEW after, Made(after, Plans)
    PROVE  Made(Replace(r, old, after), Plans)
BY MadeFixed, MadeFixedTwo, MadeConcat, MadeNone DEF Replace

LEMMA Finite ==
    ASSUME FiniteInv
    PROVE  /\ IsFiniteSet(Installed)
           /\ \A L \in SUBSET Files : IsFiniteSet(L)
<1>1. IsFiniteSet(live \cap Mains)
  BY FS_Subset DEF FiniteInv
<1>2. IsFiniteSet(Installed)
  BY <1>1, Mapped DEF Installed
<1>3. \A L \in SUBSET Files : L \in SUBSET Commits
  BY DEF Files
<1> QED BY <1>2, <1>3, CommitAssumption, FS_Subset

\* What a job begins with; only a removal with force has more to tell.
Begins(plan, back) == \E h \in SUBSET {"forced"} : BeginAs(h, plan, back)

LEMMA Begun == ASSUME NEW plan, NEW back, Begin(plan, back) PROVE Begins(plan, back)
BY DEF Begin, Begins

LEMMA BundlePlans ==
    ASSUME FiniteInv, NEW L \in SUBSET Files, InstallUab(L)
    PROVE  \E plan, back : Made(plan, Plans) /\ Made(back, Undos) /\ Begin(plan, back)
<1> DEFINE r    == (CHOOSE c \in L : TRUE).ref
           all  == SetToSeq(L)
           old  == OfId(r.id)
           link == IF L \cap Mains # {} THEN Replace(r, old, PruneAfter)
                   ELSE [i \in DOMAIN all |-> <<"export", r, {all[i].module}>>]
           back == IF L \cap Mains # {} THEN <<<<"unexport", r, {"binary", "develop"}>>>>
                   ELSE [i \in DOMAIN all |-> <<"unexport", r, {all[i].module}>>]
<1>1. all \in Seq(L) /\ Len(all) \in Nat /\ DOMAIN all = 1..Len(all)
  BY Finite, Listed
<1>2. Reverse(all) \in Seq(L)
  BY <1>1 DEF Reverse
<1>3. Begin(EnsureBase(r) \o Each("import", all) \o Merging \o link,
            back \o Each("unimport", Reverse(all)) \o Merging)
  BY DEF InstallUab
<1> HIDE DEF r, all, old
<1>4. Made(link, Plans)
  <2>1. CASE L \cap Mains # {}
    BY <2>1, MadeReplace, MadeFixed
  <2>2. CASE L \cap Mains = {}
    <3>1. link = [i \in 1..Len(all) |-> link[i]] /\ \A i \in 1..Len(all) : link[i][1] \in Plans
      BY <1>1, <2>2 DEF Plans
    <3> QED BY <1>1, <3>1, MadeSome
  <2> QED BY <2>1, <2>2
<1>5. Made(back, Undos)
  <2>1. CASE L \cap Mains # {}
    BY <2>1, MadeFixed
  <2>2. CASE L \cap Mains = {}
    <3>1. back = [i \in 1..Len(all) |-> back[i]] /\ \A i \in 1..Len(all) : back[i][1] \in Undos
      BY <1>1, <2>2 DEF Undos
    <3> QED BY <1>1, <3>1, MadeSome
  <2> QED BY <2>1, <2>2
<1> HIDE DEF link, back
<1>6. Made(Each("import", all), Plans) /\ Made(Each("unimport", Reverse(all)), Undos)
  <2>1. Made(Each("import", all), {"import"}) /\ Made(Each("unimport", Reverse(all)), {"unimport"})
    BY <1>1, <1>2, MadeEach
  <2> QED BY <2>1, MadeMore DEF Plans, Undos
<1>7. Made(EnsureBase(r) \o Each("import", all) \o Merging \o link, Plans)
  BY <1>4, <1>6, MadeNeeded, MadeFixed, MadeConcat
<1>8. Made(back \o Each("unimport", Reverse(all)) \o Merging, Undos)
  BY <1>5, <1>6, MadeFixed, MadeConcat
<1> QED BY <1>3, <1>7, <1>8

LEMMA UpdatePlans ==
    ASSUME FiniteInv, NEW ids, NEW depsOnly, Update(ids, depsOnly)
    PROVE  \E plan, back : Made(plan, Asks) /\ Made(back, Undos) /\ Begin(plan, back)
<1> DEFINE S    == {r \in Installed \cap Apps : r.id \in ids}
           apps == SetToSeq(S)
           each == [i \in DOMAIN apps |-> <<"update", apps[i], depsOnly>>]
<1>1. apps \in Seq(S) /\ Len(apps) \in Nat /\ DOMAIN apps = 1..Len(apps)
  <2>1. IsFiniteSet(S)
    BY Finite, FS_Subset
  <2> QED BY <2>1, Listed
<1>2. Begin(each \o <<<<"updated", "failed">>>>, <<>>)
  BY DEF Update
<1> HIDE DEF apps
<1>3. each = [i \in 1..Len(apps) |-> each[i]] /\ \A i \in 1..Len(apps) : each[i][1] \in Asks
  BY <1>1 DEF Asks
<1>4. Made(each, Asks)
  BY <1>1, <1>3, MadeSome
<1> HIDE DEF each
<1>5. Made(each \o <<<<"updated", "failed">>>>, Asks)
  BY <1>4, MadeFixed, MadeConcat
<1> QED BY <1>2, <1>5, MadeNone

LEMMA JobPlans ==
    ASSUME FiniteInv, Job
    PROVE  \E plan, back : (Made(plan, Plans) \/ Made(plan, Asks)) /\ Made(back, Undos) /\ Begins(plan, back)
<1>1. ASSUME NEW r \in Apps, NEW M \in SUBSET {"binary", "develop"}, NEW b \in BOOLEAN, Install(r, M, b)
      PROVE  \E plan, back : (Made(plan, Plans) \/ Made(plan, Asks)) /\ Made(back, Undos) /\ Begins(plan, back)
  <2> DEFINE old  == Old(r, b)
             more == IF old = {} THEN {} ELSE ModulesOf(Newest(old))
             plan == Plan(r, M \cup more) \o MissingBase(r) \o Merging \o Replace(r, old, PruneAfter)
             back == <<<<"unexport", r, {"binary", "develop"}>>, <<"retire", r>>>>
  <2>1. Begin(plan, back)
    BY <1>1 DEF Install
  <2>2. Made(plan, Plans)
    BY MadePlan, MadeMissing, MadeReplace, MadeFixed, MadeConcat
  <2>3. Made(back, Undos)
    BY MadeFixedTwo
  <2> QED BY <2>1, <2>2, <2>3, Begun
<1>2. ASSUME NEW r \in Refs, NEW b \in BOOLEAN, InstallBase(r, b)
      PROVE  \E plan, back : (Made(plan, Plans) \/ Made(plan, Asks)) /\ Made(back, Undos) /\ Begins(plan, back)
  <2>1. Begin(Plan(r, {"binary"}) \o Merging, <<<<"retire", r>>>>)
    BY <1>2 DEF InstallBase
  <2> QED BY <2>1, MadePlan, MadeFixed, MadeConcat, Begun
<1>3. ASSUME NEW r \in Apps, InstallExtra(r, "develop")
      PROVE  \E plan, back : (Made(plan, Plans) \/ Made(plan, Asks)) /\ Made(back, Undos) /\ Begins(plan, back)
  <2>1. Begin(Plan(r, {"develop"}) \o Merging \o <<<<"export", r, {"develop"}>>>>,
              <<<<"unexport", r, {"develop"}>>, <<"retire", r>>>>)
    BY <1>3 DEF InstallExtra, BackExtra
  <2>2. Made(Plan(r, {"develop"}) \o Merging \o <<<<"export", r, {"develop"}>>>>, Plans)
    BY MadePlan, MadeFixed, MadeConcat
  <2> QED BY <2>1, <2>2, MadeFixedTwo, Begun
<1>4. ASSUME NEW r \in Apps, UninstallExtra(r, "develop")
      PROVE  \E plan, back : (Made(plan, Plans) \/ Made(plan, Asks)) /\ Made(back, Undos) /\ Begins(plan, back)
  <2>1. Begin(<<<<"unexport", r, {"develop"}>>, <<"remove", r, "develop">>>> \o Merging, <<>>)
    BY <1>4 DEF UninstallExtra
  <2>2. Made(<<<<"unexport", r, {"develop"}>>, <<"remove", r, "develop">>>> \o Merging, Plans)
    BY MadeFixedTwo, MadeFixed, MadeConcat
  <2> QED BY <2>1, <2>2, MadeNone, Begun
<1>5. ASSUME NEW c \in Files, InstallLayer(c)
      PROVE  \E plan, back : (Made(plan, Plans) \/ Made(plan, Asks)) /\ Made(back, Undos) /\ Begins(plan, back)
  <2> DEFINE r == c.ref
             imp == Each("import", <<c>>)
             one == EnsureBase(r) \o imp \o Merging \o Replace(r, OfId(r.id), Merging \o PruneAfter)
             two == imp \o Merging \o <<<<"export", r, {c.module}>>>>
  <2>1. Begin(one, <<>>) \/ Begin(two, <<>>)
    BY <1>5 DEF InstallLayer
  <2>2. Made(imp, Plans)
    <3>1. <<c>> \in Seq({c})
      OBVIOUS
    <3>2. Made(imp, {"import"})
      BY <3>1, MadeEach
    <3> QED BY <3>2, MadeMore DEF Plans
  <2> HIDE DEF imp
  <2>3. Made(Merging \o PruneAfter, Plans)
    BY MadeFixed, MadeConcat
  <2>4. Made(one, Plans)
    BY <2>2, <2>3, MadeNeeded, MadeReplace, MadeFixed, MadeConcat
  <2>5. Made(two, Plans)
    BY <2>2, MadeFixed, MadeConcat
  <2> QED BY <2>1, <2>4, <2>5, MadeNone, Begun
<1>6. ASSUME NEW L \in SUBSET Files, InstallUab(L)
      PROVE  \E plan, back : (Made(plan, Plans) \/ Made(plan, Asks)) /\ Made(back, Undos) /\ Begins(plan, back)
  BY <1>6, BundlePlans, Begun
<1>7. ASSUME NEW ids \in SUBSET {r.id : r \in Apps}, NEW b \in BOOLEAN, Update(ids, b)
      PROVE  \E plan, back : (Made(plan, Plans) \/ Made(plan, Asks)) /\ Made(back, Undos) /\ Begins(plan, back)
  BY <1>7, UpdatePlans, Begun
<1>8. ASSUME NEW r \in Refs, Uninstall(r)
      PROVE  \E plan, back : (Made(plan, Plans) \/ Made(plan, Asks)) /\ Made(back, Undos) /\ Begins(plan, back)
  <2> DEFINE one == IF r \in Apps THEN <<<<"unexport", r, {"binary", "develop"}>>>> ELSE <<>>
             two == IF r \in Apps THEN PruneAfter ELSE <<>>
             all == one \o <<<<"remove_all", r>>>> \o two \o Merging
  <2>1. Begins(all, <<>>)
    BY <1>8 DEF Uninstall, Begins
  <2>2. Made(one, Plans) /\ Made(two, Plans)
    BY MadeFixed, MadeNone
  <2> HIDE DEF one, two
  <2>3. Made(all, Plans)
    BY <2>2, MadeFixed, MadeConcat
  <2> QED BY <2>1, <2>3, MadeNone
<1>9. CASE Prune
  BY <1>9, MadeFixed, MadeNone, Begun DEF Prune
<1> QED BY <1>1, <1>2, <1>3, <1>4, <1>5, <1>6, <1>7, <1>8, <1>9 DEF Job

-----------------------------------------------------------------------------
(* How the list of what is to do changes.                                  *)

LEMMA Next1 ==
    ASSUME IsSeq(todo), NEW do, Due(do)
    PROVE  todo # <<>> /\ Kind(1) = do /\ Arg = This /\ Len(todo) \in Nat \ {0}
BY Rests DEF Due, Arg, This, Kind

\* The updates that come in the place of one that is no part of another.
Safe == {"merge", "mark", "remove", "prune_after", "prune", "clean", "remove_all"}

LEMMA NoParts ==
    ASSUME TodoInv, todo # <<>>, Kind(1) \notin Parts
    PROVE  After(0)
<1>1. Len(todo) \in Nat \ {0}
  BY Rests DEF TodoInv
<1>2. ASSUME NEW do, At(1, do), do \in Parts PROVE FALSE
  BY <1>2 DEF At, Kind
<1>3. {"ref", "clear", "checkout", "upsert", "unref", "drop"} \subseteq Parts
  BY DEF Parts
<1> QED BY <1>2, <1>3 DEF TodoInv, ShapeInv, ImportInv, RemovalInv

LEMMA NoSweeps ==
    ASSUME TodoInv, todo # <<>>, Kind(1) \notin {"sweep", "clear", "unref"}
    PROVE  \A i \in 1..Len(todo) : Kind(i) # "sweep"
<1>1. Len(todo) \in Nat \ {0}
  BY Rests DEF TodoInv
<1>2. ASSUME NEW i \in 1..Len(todo), Kind(i) = "sweep" PROVE FALSE
  <2>1. CASE i = 1
    BY <1>2, <2>1
  <2>2. CASE i # 1
    <3>1. 1 \in 1..(i - 1)
      BY <2>2
    <3> QED BY <1>2, <3>1 DEF TodoInv, SweepInv
  <2> QED BY <2>1, <2>2
<1> QED BY <1>2

\* What holds of the holder goes on to hold when its first update is replaced
\* by others that begin no import and end no app.
LEMMA HolderGoes ==
    ASSUME TodoInv, todo # <<>>, Kind(1) # "next",
           NEW s, NEW K, Made(s, K), K \cap {"next", "update"} = {}, who = "rollback" => K \cap Forward = {},
           todo' = s \o Tail(todo), UNCHANGED <<who, undo>>
    PROVE  HolderInv'
<1>1. /\ Len(s) \in Nat /\ Len(todo) \in Nat \ {0} /\ Len(todo') = Len(s) + Len(todo) - 1
      /\ \A i \in 1..Len(s) : todo'[i][1] \in K
      /\ \A i \in (Len(s) + 1)..Len(todo') : todo'[i] = todo[i - Len(s) + 1]
  BY Going DEF TodoInv
<1>2. who' # "none" /\ who' \in {"none", "job", "rollback", "gc"}
  BY DEF TodoInv, HolderInv
<1>3. ASSUME who' = "rollback", NEW i \in 1..Len(todo'), todo'[i][1] \in Forward
      PROVE  \E j \in 1..(i - 1) : todo'[j][1] = "next"
  <2>1. i \in (Len(s) + 1)..Len(todo')
    BY <1>1, <1>3
  <2>2. i - Len(s) + 1 \in 1..Len(todo) /\ todo[i - Len(s) + 1][1] \in Forward
    BY <1>1, <1>3, <2>1
  <2>3. PICK j \in 1..(i - Len(s)) : todo[j][1] = "next"
    BY <1>3, <2>2 DEF TodoInv, HolderInv, Kind
  <2>4. j # 1
    BY <2>3 DEF Kind
  <2>5. j + Len(s) - 1 \in (Len(s) + 1)..Len(todo') /\ j + Len(s) - 1 \in 1..(i - 1)
    BY <1>1, <2>1, <2>4
  <2>6. todo'[j + Len(s) - 1] = todo[j]
    BY <1>1, <2>5
  <2> QED BY <2>3, <2>5, <2>6
<1>4. ASSUME NEW i \in 1..Len(todo'), NEW j \in 1..Len(todo'), i < j, todo'[i][1] \in {"next", "update"}
      PROVE  todo'[j][1] \in Asks
  <2>1. i \in (Len(s) + 1)..Len(todo') /\ j \in (Len(s) + 1)..Len(todo')
    BY <1>1, <1>4
  <2>2. i - Len(s) + 1 \in 1..Len(todo) /\ j - Len(s) + 1 \in 1..Len(todo)
    BY <1>1, <2>1
  <2>3. todo'[i] = todo[i - Len(s) + 1] /\ todo'[j] = todo[j - Len(s) + 1]
    BY <1>1, <2>1
  <2>4. i - Len(s) + 1 < j - Len(s) + 1
    BY <1>1, <1>4
  <2> QED BY <1>4, <2>2, <2>3, <2>4 DEF TodoInv, HolderInv, Kind
<1>5. who' = "job" => \A i \in 1..Len(undo') : undo'[i][1] \in Undos
  BY DEF TodoInv, HolderInv
<1> QED BY <1>2, <1>3, <1>4, <1>5 DEF HolderInv, Kind

LEMMA GcGoes ==
    ASSUME TodoInv, todo # <<>>, NEW s, NEW K, Made(s, K),
           who = "gc" => /\ K \subseteq Collects
                         /\ \A i \in 1..Len(s) :
                              s[i][1] \in {"discard", "unref", "drop", "clear"} => ~Busy(s[i][2].ref),
           todo' = s \o Tail(todo), UNCHANGED <<who, lock, use, recorded>>
    PROVE  GcInv'
<1>1. /\ Len(s) \in Nat /\ Len(todo) \in Nat \ {0} /\ Len(todo') = Len(s) + Len(todo) - 1
      /\ \A i \in 1..Len(s) : todo'[i] = s[i] /\ todo'[i][1] \in K
      /\ \A i \in (Len(s) + 1)..Len(todo') : todo'[i] = todo[i - Len(s) + 1]
  BY Going DEF TodoInv
<1>2. \A r : Busy(r)' = Busy(r)
  BY DEF Busy
<1>3. ASSUME who = "gc", NEW i \in 1..Len(todo')
      PROVE  /\ todo'[i][1] \in Collects
             /\ todo'[i][1] \in {"discard", "unref", "drop", "clear"} => ~Busy(todo'[i][2].ref)
  <2>1. CASE i \in 1..Len(s)
    BY <1>1, <1>3, <2>1
  <2>2. CASE i \in (Len(s) + 1)..Len(todo')
    <3>1. i - Len(s) + 1 \in 1..Len(todo) /\ todo'[i] = todo[i - Len(s) + 1]
      BY <1>1, <2>2
    <3> QED BY <1>3, <3>1 DEF TodoInv, GcInv, Kind
  <2> QED BY <1>1, <2>1, <2>2
<1>4. who = "gc" => lock
  BY DEF TodoInv, GcInv
<1>5. /\ \A k \in recorded' : use'[k] # {}
      /\ use' = [k \in Containers |-> use'[k]] /\ recorded' \subseteq Containers
  BY DEF TodoInv, GcInv
<1> QED BY <1>2, <1>3, <1>4, <1>5 DEF GcInv, Kind

\* One update that is no part of another is replaced by others that are none.
LEMMA SafeGoes ==
    ASSUME TodoInv, todo # <<>>, Kind(1) \notin Parts \cup {"sweep", "next"},
           NEW s, Made(s, Safe), who = "gc" => Made(s, {"merge"}),
           todo' = s \o Tail(todo), UNCHANGED <<who, undo, lock, use, recorded>>
    PROVE  TodoInv'
<1>1. /\ IsSeq(todo)' /\ Len(s) \in Nat /\ Len(todo) \in Nat \ {0} /\ Len(todo') = Len(s) + Len(todo) - 1
      /\ \A i \in 1..Len(s) : todo'[i][1] \in Safe
      /\ \A i \in (Len(s) + 1)..Len(todo') : todo'[i] = todo[i - Len(s) + 1]
  BY Going DEF TodoInv
<1>2. ASSUME NEW i \in 1..Len(todo') PROVE todo'[i][1] \notin Parts \cup {"sweep"}
  <2>1. CASE i \in 1..Len(s)
    BY <1>1, <2>1 DEF Safe, Parts
  <2>2. CASE i \in (Len(s) + 1)..Len(todo')
    <3>1. i - Len(s) + 1 \in 1..Len(todo) /\ todo'[i] = todo[i - Len(s) + 1] /\ i - Len(s) + 1 > 0
      BY <1>1, <2>2
    <3>2. Kind(1) \notin {"sweep", "clear", "unref"} /\ Kind(1) \notin Parts
      BY DEF Parts
    <3> QED BY <3>1, <3>2, NoParts, NoSweeps DEF After, Kind
  <2> QED BY <1>1, <2>1, <2>2
<1>3. ShapeInv' /\ SweepInv'
  BY <1>2 DEF ShapeInv, After, SweepInv, Kind
<1>4. HolderInv'
  BY HolderGoes DEF Safe, Forward
<1>5. GcInv'
  <2>1. CASE who = "gc"
    <3>1. {"merge"} \subseteq Collects /\ \A i \in 1..Len(s) : s[i][1] = "merge"
      BY <2>1 DEF Made, Collects
    <3> QED BY <2>1, <3>1, GcGoes
  <2>2. CASE who # "gc"
    BY <2>2, GcGoes
  <2> QED BY <2>1, <2>2
<1> QED BY <1>1, <1>3, <1>4, <1>5 DEF TodoInv, IsSeq

\* The first update is a part, and done.
LEMMA PartGoes ==
    ASSUME TodoInv, todo # <<>>, Kind(1) \in Parts, todo' = <<>> \o Tail(todo),
           UNCHANGED <<who, undo, lock, use, recorded>>,
           Kind(1) \in {"clear", "unref"} => UNCHANGED <<live, deferred, hurt>>
    PROVE  /\ IsSeq(todo)' /\ IsSeq(undo)' /\ SweepInv' /\ HolderInv' /\ GcInv'
           /\ Len(todo) \in Nat \ {0} /\ Len(todo') = Len(todo) - 1
           /\ \A i \in 1..Len(todo') : todo'[i] = todo[i + 1]
<1>1. Made(<<>>, {}) /\ Len(<<>>) = 0
  BY MadeNone
<1>2. /\ IsSeq(todo)' /\ Len(todo) \in Nat \ {0} /\ Len(todo') = Len(todo) - 1
      /\ \A i \in 1..Len(todo') : todo'[i] = todo[i + 1]
  BY <1>1, Going DEF TodoInv
<1>3. HolderInv'
  BY <1>1, HolderGoes DEF Parts
<1>4. GcInv'
  BY <1>1, GcGoes DEF Collects
<1>5. SweepInv'
  <2> SUFFICES ASSUME NEW i \in 1..Len(todo'), todo'[i][1] = "sweep"
               PROVE  /\ todo'[i][2] \notin live' \cup deferred' \/ "pruned" \in hurt'
                      /\ \A j \in 1..(i - 1) : todo'[j][1] \in {"sweep", "clear", "unref"}
    BY DEF SweepInv, Kind, Unused
  <2>1. i + 1 \in 1..Len(todo) /\ Kind(i + 1) = "sweep" /\ todo'[i] = todo[i + 1]
    BY <1>2 DEF Kind
  <2>2. Unused(todo[i + 1][2]) /\ \A j \in 1..i : Kind(j) \in {"sweep", "clear", "unref"}
    BY <2>1 DEF TodoInv, SweepInv
  <2>3. Kind(1) \in {"clear", "unref"}
    <3>1. 1 \in 1..i
      OBVIOUS
    <3> QED BY <2>2, <3>1 DEF Parts
  <2>4. todo'[i][2] \notin live' \cup deferred' \/ "pruned" \in hurt'
    BY <2>1, <2>2, <2>3 DEF Unused
  <2>5. ASSUME NEW j \in 1..(i - 1) PROVE todo'[j][1] \in {"sweep", "clear", "unref"}
    <3>1. j + 1 \in 1..i /\ j \in 1..Len(todo')
      BY <1>2
    <3> QED BY <1>2, <2>2, <3>1 DEF Kind
  <2> QED BY <2>4, <2>5
<1> QED BY <1>2, <1>3, <1>4, <1>5 DEF TodoInv, IsSeq

LEMMA SetRefTodo == TodoInv /\ SetRef => TodoInv'
<1> SUFFICES ASSUME TodoInv, SetRef PROVE TodoInv'
  OBVIOUS
<1>1. IsSeq(todo) /\ Due("ref")
  BY DEF SetRef, TodoInv
<1>2. todo # <<>> /\ Kind(1) = "ref" /\ Arg = This /\ Len(todo) \in Nat \ {0} /\ Kind(1) \in Parts
  BY <1>1, Next1 DEF Parts
<1>3. todo' = <<>> \o Tail(todo) /\ UNCHANGED <<who, undo, lock, use, recorded>>
  BY DEF SetRef, Onward, Proceed
<1>4. Kind(1) \in {"clear", "unref"} => UNCHANGED <<live, deferred, hurt>>
  BY <1>2 DEF SetRef, Onward
<1>5. /\ IsSeq(todo)' /\ IsSeq(undo)' /\ SweepInv' /\ HolderInv' /\ GcInv' /\ Len(todo') = Len(todo) - 1
      /\ \A i \in 1..Len(todo') : todo'[i] = todo[i + 1]
  BY <1>2, <1>3, <1>4, PartGoes
<1>6. ~After(0)
  BY <1>2 DEF After
<1>7. ShapeInv'
  <2>1. CASE At(1, "ref") /\ At(2, "clear") /\ At(3, "checkout") /\ At(4, "upsert") /\ After(4)
    BY <1>2, <1>5, <2>1 DEF SetRef, At, After, This, Kind, ShapeInv, ImportInv, RemovalInv, Unused, Onward
  <2> QED BY <1>2, <1>6, <2>1 DEF TodoInv, ShapeInv, ImportInv, RemovalInv, At, Kind
<1> QED BY <1>5, <1>7 DEF TodoInv

LEMMA ClearTodo == TodoInv /\ Clear => TodoInv'
<1> SUFFICES ASSUME TodoInv, Clear PROVE TodoInv'
  OBVIOUS
<1>1. IsSeq(todo) /\ Due("clear")
  BY DEF Clear, TodoInv
<1>2. todo # <<>> /\ Kind(1) = "clear" /\ Arg = This /\ Len(todo) \in Nat \ {0} /\ Kind(1) \in Parts
  BY <1>1, Next1 DEF Parts
<1>3. todo' = <<>> \o Tail(todo) /\ UNCHANGED <<who, undo, lock, use, recorded>>
  BY DEF Clear, Onward, Proceed
<1>4. Kind(1) \in {"clear", "unref"} => UNCHANGED <<live, deferred, hurt>>
  BY <1>2 DEF Clear, Onward
<1>5. /\ IsSeq(todo)' /\ IsSeq(undo)' /\ SweepInv' /\ HolderInv' /\ GcInv' /\ Len(todo') = Len(todo) - 1
      /\ \A i \in 1..Len(todo') : todo'[i] = todo[i + 1]
  BY <1>2, <1>3, <1>4, PartGoes
<1>6. ~After(0)
  BY <1>2 DEF After
<1>7. ShapeInv'
  <2>1. CASE At(1, "clear") /\ At(2, "checkout") /\ At(3, "upsert") /\ After(3) /\ This \in named
    BY <1>2, <1>5, <2>1 DEF Clear, At, After, This, Kind, ShapeInv, ImportInv, RemovalInv, Unused, Onward
  <2>2. CASE At(1, "clear") /\ After(1) /\ Unused(This)
    BY <1>2, <1>5, <2>2 DEF Clear, At, After, This, Kind, ShapeInv, ImportInv, RemovalInv, Unused, Onward
  <2>3. CASE At(1, "clear") /\ At(2, "unref") /\ After(2) /\ Unused(This)
    BY <1>2, <1>5, <2>3 DEF Clear, At, After, This, Kind, ShapeInv, ImportInv, RemovalInv, Unused, Onward
  <2> QED BY <1>2, <1>6, <2>1, <2>2, <2>3 DEF TodoInv, ShapeInv, ImportInv, RemovalInv, At, Kind
<1> QED BY <1>5, <1>7 DEF TodoInv

LEMMA CheckoutTodo == TodoInv /\ Checkout => TodoInv'
<1> SUFFICES ASSUME TodoInv, Checkout PROVE TodoInv'
  OBVIOUS
<1>1. IsSeq(todo) /\ Due("checkout")
  BY DEF Checkout, TodoInv
<1>2. todo # <<>> /\ Kind(1) = "checkout" /\ Arg = This /\ Len(todo) \in Nat \ {0} /\ Kind(1) \in Parts
  BY <1>1, Next1 DEF Parts
<1>3. todo' = <<>> \o Tail(todo) /\ UNCHANGED <<who, undo, lock, use, recorded>>
  BY DEF Checkout, Onward, Proceed
<1>4. Kind(1) \in {"clear", "unref"} => UNCHANGED <<live, deferred, hurt>>
  BY <1>2 DEF Checkout, Onward
<1>5. /\ IsSeq(todo)' /\ IsSeq(undo)' /\ SweepInv' /\ HolderInv' /\ GcInv' /\ Len(todo') = Len(todo) - 1
      /\ \A i \in 1..Len(todo') : todo'[i] = todo[i + 1]
  BY <1>2, <1>3, <1>4, PartGoes
<1>6. ~After(0)
  BY <1>2 DEF After
<1>7. ShapeInv'
  <2>1. CASE At(1, "checkout") /\ At(2, "upsert") /\ After(2) /\ This \in named
    <3>1. (At(1, "upsert") /\ After(1) /\ This \in named \cap dirs)'
      BY <1>2, <1>5, <2>1 DEF Checkout, At, After, This, Kind, Unused, Onward
    <3> QED BY <3>1 DEF ShapeInv, ImportInv, RemovalInv
  <2> QED BY <1>2, <1>6, <2>1 DEF TodoInv, ShapeInv, ImportInv, RemovalInv, At, Kind
<1> QED BY <1>5, <1>7 DEF TodoInv

LEMMA UpsertTodo == TodoInv /\ Upsert => TodoInv'
<1> SUFFICES ASSUME TodoInv, Upsert PROVE TodoInv'
  OBVIOUS
<1>1. IsSeq(todo) /\ Due("upsert")
  BY DEF Upsert, TodoInv
<1>2. todo # <<>> /\ Kind(1) = "upsert" /\ Arg = This /\ Len(todo) \in Nat \ {0} /\ Kind(1) \in Parts
  BY <1>1, Next1 DEF Parts
<1>3. todo' = <<>> \o Tail(todo) /\ UNCHANGED <<who, undo, lock, use, recorded>>
  BY DEF Upsert, Onward, Proceed
<1>4. Kind(1) \in {"clear", "unref"} => UNCHANGED <<live, deferred, hurt>>
  BY <1>2 DEF Upsert, Onward
<1>5. /\ IsSeq(todo)' /\ IsSeq(undo)' /\ SweepInv' /\ HolderInv' /\ GcInv' /\ Len(todo') = Len(todo) - 1
      /\ \A i \in 1..Len(todo') : todo'[i] = todo[i + 1]
  BY <1>2, <1>3, <1>4, PartGoes
<1>6. ~After(0)
  BY <1>2 DEF After
<1>7. ShapeInv'
  <2>1. CASE At(1, "upsert") /\ After(1) /\ This \in named \cap dirs
    <3>1. (After(0))'
      BY <1>2, <1>5, <2>1 DEF Upsert, At, After, This, Kind, Unused, Onward
    <3> QED BY <3>1 DEF ShapeInv, ImportInv, RemovalInv
  <2> QED BY <1>2, <1>6, <2>1 DEF TodoInv, ShapeInv, ImportInv, RemovalInv, At, Kind
<1> QED BY <1>5, <1>7 DEF TodoInv

LEMMA UnrefTodo == TodoInv /\ Unref => TodoInv'
<1> SUFFICES ASSUME TodoInv, Unref PROVE TodoInv'
  OBVIOUS
<1>1. IsSeq(todo) /\ Due("unref")
  BY DEF Unref, TodoInv
<1>2. todo # <<>> /\ Kind(1) = "unref" /\ Arg = This /\ Len(todo) \in Nat \ {0} /\ Kind(1) \in Parts
  BY <1>1, Next1 DEF Parts
<1>3. todo' = <<>> \o Tail(todo) /\ UNCHANGED <<who, undo, lock, use, recorded>>
  BY DEF Unref, Onward, Proceed
<1>4. Kind(1) \in {"clear", "unref"} => UNCHANGED <<live, deferred, hurt>>
  BY <1>2 DEF Unref, Onward
<1>5. /\ IsSeq(todo)' /\ IsSeq(undo)' /\ SweepInv' /\ HolderInv' /\ GcInv' /\ Len(todo') = Len(todo) - 1
      /\ \A i \in 1..Len(todo') : todo'[i] = todo[i + 1]
  BY <1>2, <1>3, <1>4, PartGoes
<1>6. ~After(0)
  BY <1>2 DEF After
<1>7. ShapeInv'
  <2>1. CASE At(1, "unref") /\ At(2, "drop") /\ At(3, "clear") /\ After(3)
    BY <1>2, <1>5, <2>1 DEF Unref, At, After, This, Kind, ShapeInv, ImportInv, RemovalInv, Unused, Onward
  <2>2. CASE At(1, "unref") /\ After(1) /\ Unused(This)
    BY <1>2, <1>5, <2>2 DEF Unref, At, After, This, Kind, ShapeInv, ImportInv, RemovalInv, Unused, Onward
  <2> QED BY <1>2, <1>6, <2>1, <2>2 DEF TodoInv, ShapeInv, ImportInv, RemovalInv, At, Kind
<1> QED BY <1>5, <1>7 DEF TodoInv

LEMMA DropTodo == TodoInv /\ Drop => TodoInv'
<1> SUFFICES ASSUME TodoInv, Drop PROVE TodoInv'
  OBVIOUS
<1>1. IsSeq(todo) /\ Due("drop")
  BY DEF Drop, TodoInv
<1>2. todo # <<>> /\ Kind(1) = "drop" /\ Arg = This /\ Len(todo) \in Nat \ {0} /\ Kind(1) \in Parts
  BY <1>1, Next1 DEF Parts
<1>3. todo' = <<>> \o Tail(todo) /\ UNCHANGED <<who, undo, lock, use, recorded>>
  BY DEF Drop, Onward, Proceed
<1>4. Kind(1) \in {"clear", "unref"} => UNCHANGED <<live, deferred, hurt>>
  BY <1>2 DEF Drop, Onward
<1>5. /\ IsSeq(todo)' /\ IsSeq(undo)' /\ SweepInv' /\ HolderInv' /\ GcInv' /\ Len(todo') = Len(todo) - 1
      /\ \A i \in 1..Len(todo') : todo'[i] = todo[i + 1]
  BY <1>2, <1>3, <1>4, PartGoes
<1>6. ~After(0)
  BY <1>2 DEF After
<1>7. ShapeInv'
  <2>1. CASE At(1, "drop") /\ At(2, "clear") /\ After(2)
    BY <1>2, <1>5, <2>1 DEF Drop, At, After, This, Kind, ShapeInv, ImportInv, RemovalInv, Unused, Onward
  <2> QED BY <1>2, <1>6, <2>1 DEF TodoInv, ShapeInv, ImportInv, RemovalInv, At, Kind
<1> QED BY <1>5, <1>7 DEF TodoInv

LEMMA NotCollecting ==
    ASSUME TodoInv, todo # <<>>, Kind(1) \notin Collects
    PROVE  who # "gc"
BY Rests DEF TodoInv, GcInv

LEMMA SafeLists ==
    /\ Made(<<>>, Safe) /\ Made(<<>>, {"merge"}) /\ Made(Merging, Safe) /\ Made(Merging \o PruneAfter, Safe)
    /\ Made(<<<<"prune">>>>, Safe)
    /\ \A r, M : Made(Removal(r, M), Safe)
    /\ \A C : Made(<<<<"clean", C>>>>, Safe)
<1>1. \A r, M : Made(Removal(r, M), Safe)
  <2> TAKE r, M
  <2> DEFINE ms == InOrder(M)
             s  == Removal(r, M)
  <2>1. Len(ms) \in Nat
    BY MadeInOrder
  <2>2. s = [i \in 1..Len(ms) |-> <<"remove", r, ms[i]>>]
    BY DEF Removal
  <2> HIDE DEF ms, s
  <2>3. s = [i \in 1..Len(ms) |-> s[i]] /\ \A i \in 1..Len(ms) : s[i][1] \in Safe
    BY <2>2 DEF Safe
  <2>4. Made(s, Safe)
    BY <2>1, <2>3, MadeSome
  <2> QED BY <2>4 DEF s
<1>2. <<"merge">>[1] \in Safe /\ <<"prune_after">>[1] \in Safe /\ <<"prune">>[1] \in Safe /\ \A C : <<"clean", C>>[1] \in Safe
  BY DEF Safe
<1> QED BY <1>1, <1>2, MadeNone, MadeOne, MadeConcat DEF Merging, PruneAfter

\* The updates that are none of a sequence of parts, and what follows them.
LEMMA SafeSteps ==
    ASSUME TodoInv, FiniteInv,
           \/ Merge \/ Export \/ Unexport \/ Retire \/ Mark \/ RemoveAll \/ AfterChange \/ PruneUnused
           \/ UpdateSkips \/ Updated
    PROVE  TodoInv'
<1> DEFINE Goes(s) == /\ todo # <<>> /\ Kind(1) \notin Parts \cup {"sweep", "next"}
                      /\ Made(s, Safe) /\ (who = "gc" => Made(s, {"merge"}))
                      /\ todo' = s \o Tail(todo) /\ UNCHANGED <<who, undo, lock, use, recorded>>
<1>0. IsSeq(todo)
  BY DEF TodoInv
<1>1. ASSUME NEW s, Goes(s) PROVE TodoInv'
  BY <1>1, SafeGoes
<1>2. CASE Merge
  <2>1. todo # <<>> /\ Kind(1) = "merge"
    BY <1>0, <1>2, Next1 DEF Merge
  <2>2. Goes(<<>>)
    BY <1>2, <2>1, SafeLists DEF Merge, Onward, Proceed, Parts
  <2> QED BY <1>1, <2>2
<1>3. CASE Export
  <2>1. todo # <<>> /\ Kind(1) = "export"
    BY <1>0, <1>3, Next1 DEF Export
  <2>2. Goes(<<>>)
    BY <1>3, <2>1, SafeLists DEF Export, Onward, Proceed, Parts
  <2> QED BY <1>1, <2>2
<1>4. CASE Unexport
  <2>1. todo # <<>> /\ Kind(1) = "unexport"
    BY <1>0, <1>4, Next1 DEF Unexport
  <2>2. Goes(<<>>)
    BY <1>4, <2>1, SafeLists DEF Unexport, Onward, Proceed, Parts
  <2> QED BY <1>1, <2>2
<1>5. CASE Retire
  <2> DEFINE ms == InOrder(ModulesOf(Arg))
             s  == [i \in 1..Len(ms) |-> <<IF Busy(Arg) THEN "mark" ELSE "remove", Arg, ms[i]>>]
  <2>1. todo # <<>> /\ Kind(1) = "retire"
    BY <1>0, <1>5, Next1 DEF Retire
  <2>2. Onward(s)
    BY <1>5 DEF Retire
  <2>3. Len(ms) \in Nat
    BY MadeInOrder
  <2> HIDE DEF ms
  <2>4. s = [i \in 1..Len(ms) |-> s[i]] /\ \A i \in 1..Len(ms) : s[i][1] \in Safe
    BY DEF Safe
  <2>5. Made(s, Safe)
    BY <2>3, <2>4, MadeSome
  <2>6. who # "gc"
    BY <2>1, NotCollecting DEF Collects
  <2> HIDE DEF s
  <2>7. Goes(s)
    BY <2>1, <2>2, <2>5, <2>6 DEF Onward, Proceed, Parts
  <2> QED BY <1>1, <2>7
<1>6. CASE Mark
  <2>1. todo # <<>> /\ Kind(1) = "mark"
    BY <1>0, <1>6, Next1 DEF Mark
  <2>2. Goes(<<>>)
    BY <1>6, <2>1, SafeLists DEF Mark, Onward, Proceed, Parts
  <2> QED BY <1>1, <2>2
<1>7. CASE RemoveAll
  <2>1. todo # <<>> /\ Kind(1) = "remove_all" /\ who # "gc"
    BY <1>0, <1>7, Next1, NotCollecting DEF RemoveAll, Collects
  <2>2. Goes(Removal(Arg, ModulesOf(Arg)))
    BY <1>7, <2>1, SafeLists DEF RemoveAll, Onward, Proceed, Parts
  <2> QED BY <1>1, <2>2
<1>8. CASE AfterChange
  <2>1. todo # <<>> /\ Kind(1) = "prune_after" /\ who # "gc"
    BY <1>0, <1>8, Next1, NotCollecting DEF AfterChange, Collects
  <2>2. Onward(<<<<"prune">>>>) \/ Onward(<<>>)
    BY <1>8 DEF AfterChange
  <2>3. Goes(<<<<"prune">>>>) \/ Goes(<<>>)
    BY <2>1, <2>2, SafeLists DEF Onward, Proceed, Parts
  <2> QED BY <1>1, <2>3
<1>9. CASE PruneUnused
  <2> DEFINE S == Installed \ Kept
             C == {c \in live : c.ref \in Kept}
             s == Each("remove_all", SetToSeq(S)) \o Merging \o <<<<"clean", C>>>>
  <2>1. todo # <<>> /\ Kind(1) = "prune" /\ who # "gc"
    BY <1>0, <1>9, Next1, NotCollecting DEF PruneUnused, Collects
  <2>2. Onward(s)
    BY <1>9 DEF PruneUnused
  <2>3. Made(s, Safe)
    <3>1. IsFiniteSet(S)
      BY Finite, FS_Subset
    <3>2. Made(Each("remove_all", SetToSeq(S)), {"remove_all"})
      BY <3>1, Listed, MadeEach
    <3>3. Made(Each("remove_all", SetToSeq(S)), Safe)
      BY <3>2, MadeMore DEF Safe
    <3> QED BY <3>3, SafeLists, MadeConcat
  <2> HIDE DEF s
  <2>4. Goes(s)
    BY <2>1, <2>2, <2>3 DEF Onward, Proceed, Parts
  <2> QED BY <1>1, <2>4
<1>10. CASE UpdateSkips
  <2>1. todo # <<>> /\ Kind(1) = "update"
    BY <1>0, <1>10, Next1 DEF UpdateSkips
  <2>2. Goes(<<>>)
    BY <1>10, <2>1, SafeLists DEF UpdateSkips, Onward, Proceed, Parts
  <2> QED BY <1>1, <2>2
<1>11. CASE Updated
  <2>1. todo # <<>> /\ Kind(1) = "updated" /\ who # "gc"
    BY <1>0, <1>11, Next1, NotCollecting DEF Updated, Collects
  <2>2. Merging \o <<>> = Merging
    BY DEF Merging
  <2>3. Onward(<<>>) \/ Onward(Merging \o PruneAfter) \/ Onward(Merging)
    BY <1>11, <2>2 DEF Updated
  <2>4. Goes(<<>>) \/ Goes(Merging \o PruneAfter) \/ Goes(Merging)
    BY <2>1, <2>3, SafeLists DEF Onward, Proceed, Parts
  <2> QED BY <1>1, <2>4
<1> QED BY <1>2, <1>3, <1>4, <1>5, <1>6, <1>7, <1>8, <1>9, <1>10, <1>11

\* An update is replaced by the parts of what it does.
LEMMA ExpandGoes ==
    ASSUME TodoInv, todo # <<>>, Kind(1) \notin Parts \cup {"sweep", "next"},
           NEW s, Made(s, Parts), who = "rollback" => Made(s, Parts \ Forward),
           who = "gc" => /\ Made(s, Collects)
                         /\ \A i \in 1..Len(s) : ~Busy(s[i][2].ref),
           todo' = s \o Tail(todo), UNCHANGED <<who, undo, lock, use, recorded>>
    PROVE  /\ IsSeq(todo)' /\ IsSeq(undo)' /\ SweepInv' /\ HolderInv' /\ GcInv'
           /\ Len(s) \in Nat /\ Len(todo') \in Nat /\ Len(todo') >= Len(s)
           /\ \A i \in 1..Len(s) : todo'[i] = s[i]
           /\ \A i \in 1..Len(todo') : i > Len(s) => todo'[i][1] \notin Parts
<1>1. /\ IsSeq(todo)' /\ Len(s) \in Nat /\ Len(todo) \in Nat \ {0} /\ Len(todo') = Len(s) + Len(todo) - 1
      /\ \A i \in 1..Len(s) : todo'[i] = s[i] /\ todo'[i][1] \in Parts
      /\ \A i \in (Len(s) + 1)..Len(todo') : todo'[i] = todo[i - Len(s) + 1]
  BY Going DEF TodoInv
<1>2. ASSUME NEW i \in (Len(s) + 1)..Len(todo') PROVE todo'[i][1] \notin Parts \cup {"sweep"}
  <2>1. i - Len(s) + 1 \in 1..Len(todo) /\ todo'[i] = todo[i - Len(s) + 1] /\ i - Len(s) + 1 > 0
    BY <1>1
  <2>2. Kind(1) \notin {"sweep", "clear", "unref"} /\ Kind(1) \notin Parts
    BY DEF Parts
  <2> QED BY <2>1, <2>2, NoParts, NoSweeps DEF After, Kind
<1>3. SweepInv'
  <2>1. \A i \in 1..Len(todo') : todo'[i][1] # "sweep"
    BY <1>1, <1>2 DEF Parts
  <2> QED BY <2>1 DEF SweepInv, Kind
<1>4. HolderInv'
  <2>1. CASE who = "rollback"
    BY <2>1, HolderGoes DEF Parts
  <2>2. CASE who # "rollback"
    BY <2>2, HolderGoes DEF Parts
  <2> QED BY <2>1, <2>2
<1>5. GcInv'
  <2>1. CASE who = "gc"
    BY <2>1, GcGoes
  <2>2. CASE who # "gc"
    BY <2>2, GcGoes
  <2> QED BY <2>1, <2>2
<1> QED BY <1>1, <1>2, <1>3, <1>4, <1>5 DEF TodoInv, IsSeq

LEMMA MadeParts ==
    ASSUME NEW c
    PROVE  /\ Made(Import(c), Parts) /\ Len(Import(c)) = 4
           /\ Made(Removed(c), Parts) /\ Made(Removed(c), Parts \ Forward) /\ Made(Removed(c), Collects)
           /\ Len(Removed(c)) = 3
           /\ Made(<<<<"clear", c>>, <<"unref", c>>>>, Parts \ Forward)
           /\ Made(<<<<"clear", c>>, <<"unref", c>>>>, Parts)
<1>1. /\ Import(c) \in Seq(Parts \X {c}) /\ Len(Import(c)) = 4
      /\ Removed(c) \in Seq((Parts \ Forward) \X {c}) /\ Len(Removed(c)) = 3
      /\ Removed(c) \in Seq(Collects \X {c})
      /\ <<<<"clear", c>>, <<"unref", c>>>> \in Seq((Parts \ Forward) \X {c})
  BY DEF Import, Removed, Parts, Forward, Collects
<1>2. ASSUME NEW K, NEW s \in Seq(K \X {c}) PROVE Made(s, K)
  BY DEF Made, IsSeq
<1> QED BY <1>1, <1>2, MadeMore

LEMMA ImportTodo ==
    ASSUME TodoInv, NEW do \in {"install", "import"}, Due(do), Onward(Import(Arg)), UNCHANGED repo
    PROVE  TodoInv'
<1>1. todo # <<>> /\ Kind(1) = do /\ Kind(1) \notin Parts \cup {"sweep", "next"} /\ Len(todo) \in Nat \ {0}
  BY Next1 DEF TodoInv, Parts
<1>2. who # "gc" /\ who # "rollback"
  BY <1>1, NotCollecting DEF TodoInv, HolderInv, Forward, Collects
<1>3. todo' = Import(Arg) \o Tail(todo) /\ UNCHANGED <<who, undo, lock, use, recorded>>
  BY DEF Onward, Proceed
<1> DEFINE c == Arg
<1> HIDE DEF c
<1>4. Made(Import(c), Parts) /\ Len(Import(c)) = 4 /\ todo' = Import(c) \o Tail(todo)
  BY <1>3, MadeParts DEF c
<1>5. /\ IsSeq(todo)' /\ IsSeq(undo)' /\ SweepInv' /\ HolderInv' /\ GcInv' /\ Len(todo') \in Nat /\ Len(todo') >= 4
      /\ \A i \in 1..4 : todo'[i] = Import(c)[i]
      /\ \A i \in 1..Len(todo') : i > 4 => todo'[i][1] \notin Parts
  BY <1>1, <1>2, <1>3, <1>4, ExpandGoes
<1>6. /\ todo'[1] = <<"ref", c>> /\ todo'[2] = <<"clear", c>> /\ todo'[3] = <<"checkout", c>>
      /\ todo'[4] = <<"upsert", c>>
  BY <1>5 DEF Import
<1>7. ImportInv'
  BY <1>5, <1>6 DEF ImportInv, At, After, This, Kind
<1> QED BY <1>5, <1>7 DEF TodoInv, ShapeInv

LEMMA RemovedTodo ==
    ASSUME TodoInv, NEW do \in {"remove", "unimport", "discard"}, Due(do),
           NEW c, Onward(Removed(c)), UNCHANGED repo, who = "gc" => ~Busy(c.ref)
    PROVE  TodoInv'
<1>1. todo # <<>> /\ Kind(1) = do /\ Kind(1) \notin Parts \cup {"sweep", "next"}
  BY Next1 DEF TodoInv, Parts
<1> DEFINE s == Removed(c)
<1>2. todo' = s \o Tail(todo) /\ UNCHANGED <<who, undo, lock, use, recorded>>
  BY DEF Onward, Proceed
<1>3. /\ Made(s, Parts) /\ Made(s, Parts \ Forward) /\ Made(s, Collects) /\ Len(s) = 3
      /\ s[1] = <<"unref", c>> /\ s[2] = <<"drop", c>> /\ s[3] = <<"clear", c>>
  <2>1. s[1] = <<"unref", c>> /\ s[2] = <<"drop", c>> /\ s[3] = <<"clear", c>>
    BY DEF Removed
  <2> QED BY <2>1, MadeParts
<1> HIDE DEF s
<1>3b. ASSUME NEW i \in 1..Len(s) PROVE s[i][2] = c
  <2>1. i = 1 \/ i = 2 \/ i = 3
    BY <1>3
  <2> QED BY <1>3, <2>1
<1>4. /\ IsSeq(todo)' /\ IsSeq(undo)' /\ SweepInv' /\ HolderInv' /\ GcInv' /\ Len(todo') \in Nat /\ Len(todo') >= 3
      /\ \A i \in 1..3 : todo'[i] = s[i]
      /\ \A i \in 1..Len(todo') : i > 3 => todo'[i][1] \notin Parts
  <2>1. who = "gc" => \A i \in 1..Len(s) : ~Busy(s[i][2].ref)
    BY <1>3b
  <2>2. /\ IsSeq(todo)' /\ IsSeq(undo)' /\ SweepInv' /\ HolderInv' /\ GcInv'
        /\ Len(s) \in Nat /\ Len(todo') \in Nat /\ Len(todo') >= Len(s)
        /\ \A i \in 1..Len(s) : todo'[i] = s[i]
        /\ \A i \in 1..Len(todo') : i > Len(s) => todo'[i][1] \notin Parts
    <3>1. /\ Made(s, Parts) /\ (who = "rollback" => Made(s, Parts \ Forward))
          /\ (who = "gc" => Made(s, Collects) /\ \A i \in 1..Len(s) : ~Busy(s[i][2].ref))
      BY <1>3, <2>1
    <3> QED BY ONLY TodoInv, <1>1, <1>2, <3>1, ExpandGoes
  <2> QED BY <1>3, <2>2
<1>5. todo'[1] = <<"unref", c>> /\ todo'[2] = <<"drop", c>> /\ todo'[3] = <<"clear", c>>
  BY <1>3, <1>4
<1>6. RemovalInv'
  BY <1>4, <1>5 DEF RemovalInv, At, After, This, Kind
<1> QED BY <1>4, <1>6 DEF TodoInv, ShapeInv

LEMMA ExpandSteps ==
    ASSUME TodoInv, InstallModule \/ ImportLayer \/ RemoveModule \/ Unimport \/ Discard
    PROVE  TodoInv'
<1>0. IsSeq(todo)
  BY DEF TodoInv
<1>1. CASE InstallModule
  <2>1. Due("install") /\ todo # <<>> /\ Kind(1) = "install"
    BY <1>0, <1>1, Next1 DEF InstallModule
  <2>2. CASE Onward(Import(Arg)) /\ UNCHANGED repo
    BY <2>1, <2>2, ImportTodo
  <2>3. CASE Proceed(<<>>)
    BY <2>1, <2>3, SafeGoes, SafeLists DEF Proceed, Parts
  <2> QED BY <1>1, <2>2, <2>3 DEF InstallModule
<1>2. CASE ImportLayer
  BY <1>2, ImportTodo DEF ImportLayer
<1>3. CASE RemoveModule
  <2>1. Due("remove") /\ todo # <<>> /\ Kind(1) = "remove" /\ who # "gc"
    BY <1>0, <1>3, Next1, NotCollecting DEF RemoveModule, Collects
  <2>2. PICK c : Onward(Removed(c))
    BY <1>3 DEF RemoveModule
  <2> QED BY <1>3, <2>1, <2>2, RemovedTodo DEF RemoveModule
<1>4. CASE Unimport
  <2>1. Due("unimport") /\ todo # <<>> /\ Kind(1) = "unimport" /\ who # "gc"
    BY <1>0, <1>4, Next1, NotCollecting DEF Unimport, Collects
  <2>2. CASE Onward(Removed(Arg))
    BY <1>4, <2>1, <2>2, RemovedTodo DEF Unimport
  <2>3. CASE Onward(<<>>)
    BY <2>1, <2>3, SafeGoes, SafeLists DEF Onward, Proceed, Parts
  <2> QED BY <1>4, <2>2, <2>3 DEF Unimport
<1>5. CASE Discard
  <2>1. Due("discard") /\ todo # <<>> /\ Kind(1) = "discard" /\ Arg = This /\ Len(todo) \in Nat \ {0}
    BY <1>0, <1>5, Next1 DEF Discard
  <2>2. who = "gc" => ~Busy(Arg.ref)
    BY <2>1 DEF TodoInv, GcInv, This
  <2> QED BY <1>5, <2>1, <2>2, RemovedTodo DEF Discard
<1> QED BY <1>1, <1>2, <1>3, <1>4, <1>5

\* The parts of a sweep come in the place of it, other sweeps wait behind.
LEMMA SweepTodo == TodoInv /\ Sweep => TodoInv'
<1> SUFFICES ASSUME TodoInv, Sweep PROVE TodoInv'
  OBVIOUS
<1> DEFINE c == Arg
           s == <<<<"clear", c>>, <<"unref", c>>>>
<1>1. todo # <<>> /\ Kind(1) = "sweep" /\ c = This /\ who # "gc" /\ Len(todo) \in Nat \ {0} /\ IsSeq(undo)
  BY Next1, NotCollecting DEF Sweep, TodoInv, Collects
<1>2. todo' = s \o Tail(todo) /\ UNCHANGED <<who, undo, lock, use, recorded>> /\ UNCHANGED <<live, deferred, hurt>>
  BY DEF Sweep, Onward, Proceed, repo
<1> HIDE DEF c
<1>3. Made(s, Parts) /\ Made(s, Parts \ Forward) /\ Len(s) = 2 /\ s[1] = <<"clear", c>> /\ s[2] = <<"unref", c>>
  BY MadeParts
<1> HIDE DEF s
<1>4. /\ IsSeq(todo)' /\ Len(todo') = Len(todo) + 1
      /\ todo'[1] = <<"clear", c>> /\ todo'[2] = <<"unref", c>>
      /\ \A i \in 3..Len(todo') : todo'[i] = todo[i - 1]
  <2>1. /\ IsSeq(todo)' /\ Len(todo') = Len(s) + Len(todo) - 1
        /\ \A i \in 1..Len(s) : todo'[i] = s[i]
        /\ \A i \in (Len(s) + 1)..Len(todo') : todo'[i] = todo[i - Len(s) + 1]
    BY <1>1, <1>2, <1>3, Going DEF TodoInv
  <2> QED BY <1>1, <1>3, <2>1
<1>5. After(0) /\ Unused(c)
  BY <1>1, NoParts DEF Parts, TodoInv, SweepInv, This
<1>6. ShapeInv'
  <2>1. \A i \in 1..Len(todo') : i > 2 => todo'[i][1] \notin Parts
    BY <1>1, <1>4, <1>5 DEF After, Kind
  <2>2. RemovalInv'
    BY <1>1, <1>2, <1>4, <1>5, <2>1 DEF RemovalInv, At, After, This, Kind, Unused
  <2> QED BY <2>2 DEF ShapeInv
<1>7. SweepInv'
  <2> SUFFICES ASSUME NEW i \in 1..Len(todo'), todo'[i][1] = "sweep"
               PROVE  /\ todo'[i][2] \notin live' \cup deferred' \/ "pruned" \in hurt'
                      /\ \A j \in 1..(i - 1) : todo'[j][1] \in {"sweep", "clear", "unref"}
    BY DEF SweepInv, Kind, Unused
  <2>1. i \in 3..Len(todo')
    BY <1>1, <1>4
  <2>2. i - 1 \in 1..Len(todo) /\ todo'[i] = todo[i - 1] /\ Kind(i - 1) = "sweep"
    BY <1>1, <1>4, <2>1 DEF Kind
  <2>3. Unused(todo[i - 1][2]) /\ \A j \in 1..(i - 2) : Kind(j) \in {"sweep", "clear", "unref"}
    BY <2>2 DEF TodoInv, SweepInv
  <2>4. ASSUME NEW j \in 1..(i - 1) PROVE todo'[j][1] \in {"sweep", "clear", "unref"}
    <3>1. CASE j \in 1..2
      BY <1>4, <3>1
    <3>2. CASE j > 2
      <4>1. j \in 3..Len(todo') /\ j - 1 \in 1..(i - 2)
        BY <3>2
      <4> QED BY <1>4, <2>3, <4>1 DEF Kind
    <3> QED BY <3>1, <3>2
  <2> QED BY <1>2, <2>2, <2>3, <2>4 DEF Unused
<1>8. HolderInv'
  <2>1. CASE who = "rollback"
    BY <1>1, <1>2, <1>3, <2>1, HolderGoes DEF Parts
  <2>2. CASE who # "rollback"
    BY <1>1, <1>2, <1>3, <2>2, HolderGoes DEF Parts
  <2> QED BY <2>1, <2>2
<1>9. GcInv'
  BY <1>1, <1>2, <1>3, GcGoes
<1> QED BY <1>1, <1>2, <1>4, <1>6, <1>7, <1>8, <1>9 DEF TodoInv, IsSeq

LEMMA CleanTodo == TodoInv /\ FiniteInv /\ Clean => TodoInv'
<1> SUFFICES ASSUME TodoInv, FiniteInv, Clean PROVE TodoInv'
  OBVIOUS
<1> DEFINE gone == named \ Arg
           s    == Each("sweep", SetToSeq(gone))
<1>1. todo # <<>> /\ Kind(1) = "clean" /\ who # "gc" /\ Len(todo) \in Nat \ {0} /\ IsSeq(undo)
  BY Next1, NotCollecting DEF Clean, TodoInv, Collects
<1>2. todo' = s \o Tail(todo) /\ UNCHANGED <<who, undo, lock, use, recorded>> /\ UNCHANGED <<live, deferred>>
  BY DEF Clean, Proceed, repo
<1>3. \A c \in gone : c \notin live' \cup deferred' \/ "pruned" \in hurt'
  BY <1>2 DEF Clean
<1>4. Made(s, {"sweep"}) /\ \A i \in 1..Len(s) : s[i][1] = "sweep" /\ s[i][2] \in gone
  <2>1. IsFiniteSet(gone)
    BY FS_Subset DEF FiniteInv
  <2>2. SetToSeq(gone) \in Seq(gone)
    BY <2>1, Listed
  <2> DEFINE q == SetToSeq(gone)
  <2> HIDE DEF q
  <2>3. /\ Made(Each("sweep", q), {"sweep"}) /\ Len(Each("sweep", q)) = Len(q)
        /\ \A i \in 1..Len(q) : Each("sweep", q)[i] = <<"sweep", q[i]>> /\ q[i] \in gone
    BY <2>2, MadeEach DEF q
  <2>4. \A i \in 1..Len(Each("sweep", q)) : Each("sweep", q)[i][1] = "sweep" /\ Each("sweep", q)[i][2] \in gone
    BY <2>3
  <2> QED BY <2>3, <2>4 DEF q
<1> HIDE DEF s
<1>5. /\ IsSeq(todo)' /\ Len(s) \in Nat /\ Len(todo') = Len(s) + Len(todo) - 1
      /\ \A i \in 1..Len(s) : todo'[i] = s[i]
      /\ \A i \in (Len(s) + 1)..Len(todo') : todo'[i] = todo[i - Len(s) + 1]
  BY <1>1, <1>2, <1>4, Going DEF TodoInv
<1>6. \A i \in (Len(s) + 1)..Len(todo') : todo'[i][1] \notin Parts /\ todo'[i][1] # "sweep"
  <2> TAKE i \in (Len(s) + 1)..Len(todo')
  <2>1. i - Len(s) + 1 \in 1..Len(todo) /\ todo'[i] = todo[i - Len(s) + 1] /\ i - Len(s) + 1 > 0
    BY <1>1, <1>5
  <2> QED BY <1>1, <2>1, NoParts, NoSweeps DEF After, Kind, Parts
<1>7. ShapeInv'
  <2>1. After(0)'
    BY <1>4, <1>5, <1>6 DEF After, Kind, Parts
  <2> QED BY <2>1 DEF ShapeInv
<1>8. SweepInv'
  <2> SUFFICES ASSUME NEW i \in 1..Len(todo'), todo'[i][1] = "sweep"
               PROVE  /\ todo'[i][2] \notin live' \cup deferred' \/ "pruned" \in hurt'
                      /\ \A j \in 1..(i - 1) : todo'[j][1] \in {"sweep", "clear", "unref"}
    BY DEF SweepInv, Kind, Unused
  <2>1. i \in 1..Len(s)
    BY <1>1, <1>5, <1>6
  <2> QED BY <1>3, <1>4, <1>5, <2>1
<1>9. HolderInv'
  BY <1>1, <1>2, <1>4, HolderGoes DEF Forward
<1>10. GcInv'
  BY <1>1, <1>2, <1>4, GcGoes
<1> QED BY <1>1, <1>2, <1>5, <1>7, <1>8, <1>9, <1>10 DEF TodoInv, IsSeq

-----------------------------------------------------------------------------
(* The steps that begin, fail, go over to the next app or end.             *)

\* Nothing to do is a part of another update, or a sweep.
LEMMA ShapeGoes ==
    ASSUME \A i \in 1..Len(todo') : todo'[i][1] \notin Parts \cup {"sweep"}
    PROVE  ShapeInv' /\ SweepInv'
BY DEF ShapeInv, After, SweepInv, Kind

LEMMA Sub ==
    ASSUME NEW s, IsSeq(s), NEW m \in Nat \ {0}, NEW n \in 0..Len(s)
    PROVE  /\ IsSeq(SubSeq(s, m, n))
           /\ Len(SubSeq(s, m, n)) = IF m <= n THEN n - m + 1 ELSE 0
           /\ \A i \in 1..(n - m + 1) : SubSeq(s, m, n)[i] = s[m + i - 1]
<1>1. PICK S : s \in Seq(S)
  BY DEF IsSeq
<1>2. Len(s) \in Nat /\ \A i \in m..n : s[i] \in S
  BY <1>1
<1>3. /\ SubSeq(s, m, n) \in Seq(S)
      /\ Len(SubSeq(s, m, n)) = IF m <= n THEN n - m + 1 ELSE 0
      /\ \A i \in 1..(n - m + 1) : SubSeq(s, m, n)[i] = s[m + i - 1]
  BY <1>2, SubSeqProperties
<1> QED BY <1>3 DEF IsSeq

LEMMA MadeThree ==
    ASSUME NEW e, NEW f, NEW g, NEW K, e[1] \in K, f[1] \in K, g[1] \in K
    PROVE  Made(<<e, f, g>>, K)
<1> DEFINE s == <<e, f, g>>
<1>1. s \in Seq({e, f, g}) /\ Len(s) = 3 /\ s[1] = e /\ s[2] = f /\ s[3] = g
  OBVIOUS
<1> HIDE DEF s
<1>2. IsSeq(s)
  BY <1>1 DEF IsSeq
<1>3. ASSUME NEW i \in 1..3 PROVE s[i][1] \in K
  <2>1. i = 1 \/ i = 2 \/ i = 3
    OBVIOUS
  <2> QED BY <1>1, <2>1
<1>4. Made(s, K)
  BY <1>1, <1>2, <1>3 DEF Made
<1> QED BY <1>4 DEF s

LEMMA JobTodo == TodoInv /\ FiniteInv /\ Job => TodoInv'
<1> SUFFICES ASSUME TodoInv, FiniteInv, Job PROVE TodoInv'
  OBVIOUS
<1>1. PICK plan, back : (Made(plan, Plans) \/ Made(plan, Asks)) /\ Made(back, Undos) /\ Begins(plan, back)
  BY JobPlans
<1>2. who' = "job" /\ todo' = plan /\ undo' = back /\ UNCHANGED <<lock, use, recorded>>
  BY <1>1 DEF Begins, BeginAs
<1>3. IsSeq(todo') /\ IsSeq(undo')
  BY <1>1, <1>2 DEF Made
<1>4. \A i \in 1..Len(todo') : todo'[i][1] \in Plans \/ todo'[i][1] \in Asks
  BY <1>1, <1>2 DEF Made
<1>5. ShapeInv' /\ SweepInv'
  BY <1>4, ShapeGoes DEF Plans, Asks, Parts
<1>6. HolderInv'
  <2>1. CASE Made(plan, Plans)
    <3>1. \A i \in 1..Len(todo') : todo'[i][1] \notin {"next", "update"}
      BY <1>2, <2>1 DEF Made, Plans
    <3> QED BY <1>1, <1>2, <3>1 DEF HolderInv, Kind, Made
  <2>2. CASE Made(plan, Asks)
    <3>1. \A i \in 1..Len(todo') : todo'[i][1] \in Asks
      BY <1>2, <2>2 DEF Made
    <3> QED BY <1>1, <1>2, <3>1 DEF HolderInv, Kind, Made
  <2> QED BY <1>1, <2>1, <2>2
<1>7. GcInv'
  BY <1>2 DEF TodoInv, GcInv
<1> QED BY <1>3, <1>5, <1>6, <1>7 DEF TodoInv, IsSeq

\* What is left of an update of several apps once one of them failed.
LEMMA RestsAsks ==
    ASSUME TodoInv
    PROVE  /\ IsSeq(Rest) /\ Len(Rest) \in Nat
           /\ \A i \in 1..Len(Rest) : Rest[i][1] \in Asks \cup {"next"}
           /\ Len(Rest) > 0 => Rest[1][1] = "next"
           /\ \A i \in 2..Len(Rest) : Rest[i][1] \in Asks
<1> DEFINE marks == {i \in DOMAIN todo : todo[i][1] = "next"}
<1>1. IsSeq(todo) /\ Len(todo) \in Nat /\ DOMAIN todo = 1..Len(todo)
  <2>1. PICK S : todo \in Seq(S)
    BY DEF TodoInv, IsSeq
  <2> QED BY <2>1 DEF TodoInv
<1>2. CASE marks = {}
  <2>1. Rest = <<>>
    BY <1>2 DEF Rest
  <2> QED BY <2>1, MadeNone DEF Made
<1>3. CASE marks # {}
  <2>1. PICK m : m \in marks
    BY <1>3
  <2>2. m \in 1..Len(todo) /\ Kind(m) = "next"
    BY <1>1, <2>1 DEF Kind
  <2>3. \A n \in marks : n = m
    <3>1. ASSUME NEW n \in marks, n # m PROVE FALSE
      <4>1. n \in 1..Len(todo) /\ Kind(n) = "next"
        BY <1>1 DEF Kind
      <4>2. n < m \/ m < n
        BY <2>2, <3>1, <4>1
      <4>3. Kind(n) \in Asks \/ Kind(m) \in Asks
        BY <2>2, <4>1, <4>2 DEF TodoInv, HolderInv
      <4> QED BY <2>2, <4>1, <4>3 DEF Asks
    <3> QED BY <3>1
  <2>4. Min(marks) = m
    <3>1. \E x \in marks : \A y \in marks : x =< y
      BY <2>1, <2>2, <2>3
    <3>2. Min(marks) \in marks
      BY <3>1 DEF Min
    <3> QED BY <2>3, <3>2
  <2>5. Rest = SubSeq(todo, m, Len(todo))
    BY <1>3, <2>4 DEF Rest
  <2>6. /\ IsSeq(Rest) /\ Len(Rest) = Len(todo) - m + 1
        /\ \A i \in 1..Len(Rest) : Rest[i] = todo[m + i - 1]
    <3>1. m \in Nat \ {0} /\ Len(todo) \in 0..Len(todo) /\ m <= Len(todo)
      BY <1>1, <2>2
    <3> QED BY <1>1, <2>5, <3>1, Sub
  <2>7. ASSUME NEW i \in 2..Len(Rest) PROVE Rest[i][1] \in Asks
    <3>1. m + i - 1 \in 1..Len(todo) /\ m < m + i - 1 /\ Rest[i] = todo[m + i - 1]
      BY <1>1, <2>2, <2>6
    <3> QED BY <2>2, <3>1 DEF TodoInv, HolderInv, Kind
  <2>8. Rest[1][1] = "next"
    BY <1>1, <2>2, <2>6 DEF Kind
  <2> QED BY <1>1, <2>2, <2>6, <2>7, <2>8
<1> QED BY <1>2, <1>3

LEMMA FailTodo == TodoInv /\ StepFails => TodoInv'
<1> SUFFICES ASSUME TodoInv, StepFails PROVE TodoInv'
  OBVIOUS
<1>1. PICK do \in {"install", "checkout", "export", "unexport", "retire"} : Due(do) /\ Fail
  BY DEF StepFails
<1>2. todo # <<>> /\ Kind(1) = do /\ Len(todo) \in Nat \ {0}
  BY <1>1, Next1 DEF TodoInv
<1>3. who \in {"job", "rollback"}
  <2>1. who # "gc"
    BY <1>2, NotCollecting DEF Collects
  <2>2. who # "none"
    BY <1>2 DEF TodoInv, HolderInv
  <2> QED BY <2>1, <2>2 DEF TodoInv, HolderInv
<1>4. CASE who = "rollback"
  <2>1. Kind(1) \notin Forward
    BY <1>2, <1>4 DEF TodoInv, HolderInv
  <2>2. todo' = <<>> \o Tail(todo) /\ UNCHANGED <<who, undo, lock, use, recorded>>
    <3>1. todo' = Tail(todo) /\ UNCHANGED <<who, undo, lock, use, recorded>>
      BY <1>1, <1>4 DEF Fail
    <3>2. PICK S : Tail(todo) \in Seq(S)
      BY <1>2, Rests DEF TodoInv, IsSeq
    <3>3. <<>> \o Tail(todo) = Tail(todo)
      BY <3>2
    <3> QED BY <3>1, <3>3
  <2>3. Kind(1) \notin Parts \cup {"sweep", "next"}
    BY <1>2, <2>1 DEF Parts, Forward
  <2> QED BY <1>2, <1>4, <2>2, <2>3, SafeGoes, SafeLists
<1>5. CASE who = "job"
  <2> DEFINE n == Len(undo)
  <2>1. who' = "rollback" /\ todo' = undo \o Rest /\ UNCHANGED <<undo, lock, use, recorded>>
    BY <1>1, <1>5 DEF Fail
  <2>2. /\ IsSeq(todo') /\ Len(todo') = n + Len(Rest) /\ n \in Nat /\ Len(Rest) \in Nat
        /\ \A i \in 1..n : todo'[i] = undo[i]
        /\ \A i \in (n + 1)..Len(todo') : todo'[i] = Rest[i - n]
    BY <2>1, RestsAsks, Concat DEF TodoInv
  <2>3. ASSUME NEW i \in 1..n PROVE todo'[i][1] \in Undos
    BY <1>5, <2>2 DEF TodoInv, HolderInv
  <2>4. ASSUME NEW i \in (n + 1)..Len(todo')
        PROVE  /\ todo'[i][1] \in Asks \cup {"next"}
               /\ i = n + 1 => todo'[i][1] = "next"
               /\ i > n + 1 => todo'[i][1] \in Asks
    <3>1. i - n \in 1..Len(Rest) /\ todo'[i] = Rest[i - n]
      BY <2>2
    <3>2. i > n + 1 => i - n \in 2..Len(Rest)
      BY <2>2, <3>1
    <3> QED BY <2>2, <3>1, <3>2, RestsAsks
  <2>5. ShapeInv' /\ SweepInv'
    <3>1. ASSUME NEW i \in 1..Len(todo') PROVE todo'[i][1] \notin Parts \cup {"sweep"}
      <4>1. todo'[i][1] \in Undos \cup Asks \cup {"next"}
        BY <2>2, <2>3, <2>4
      <4> QED BY <4>1 DEF Undos, Asks, Parts
    <3> QED BY <3>1, ShapeGoes
  <2>6. HolderInv'
    <3>1. ASSUME NEW i \in 1..Len(todo'), todo'[i][1] \in Forward
          PROVE  \E j \in 1..(i - 1) : todo'[j][1] = "next"
      <4>1. i \in (n + 1)..Len(todo')
        BY <2>2, <2>3, <3>1 DEF Undos, Forward
      <4>2. i # n + 1
        BY <2>4, <3>1, <4>1 DEF Forward
      <4>3. n + 1 \in (n + 1)..Len(todo') /\ n + 1 \in 1..(i - 1)
        BY <2>2, <4>1, <4>2
      <4>4. todo'[n + 1][1] = "next"
        BY <2>4, <4>3
      <4> QED BY <4>3, <4>4
    <3>2. ASSUME NEW i \in 1..Len(todo'), NEW j \in 1..Len(todo'), i < j, todo'[i][1] \in {"next", "update"}
          PROVE  todo'[j][1] \in Asks
      <4>1. i \in (n + 1)..Len(todo')
        BY <2>2, <2>3, <3>2 DEF Undos
      <4>2. j \in (n + 1)..Len(todo') /\ j > n + 1
        BY <2>2, <3>2, <4>1
      <4> QED BY <2>4, <4>2
    <3> QED BY <2>1, <3>1, <3>2 DEF HolderInv, Kind
  <2>7. GcInv'
    BY <2>1 DEF TodoInv, GcInv
  <2> QED BY <2>1, <2>2, <2>5, <2>6, <2>7 DEF TodoInv, IsSeq
<1> QED BY <1>3, <1>4, <1>5

\* Of an app that is to be updated nothing but other apps is to come after.
LEMMA UpdateMade ==
    ASSUME UpdateApp
    PROVE  \E s, back : /\ Made(s, Plans) /\ Made(back, Undos)
                        /\ \E e : e[1] = "next" /\ todo' = s \o <<e>> \o Tail(todo)
                        /\ undo' = back /\ UNCHANGED <<who, lock, use, recorded>>
<1> DEFINE r    == Arg
           new  == Newer(r, Head(todo)[3])
           n    == Becomes(r, Head(todo)[3])
           own  == BaseOf[n]
           b    == Newest(Offers(own))
           more == IF OfId(own) = {} THEN Plan(b, {"binary"})
                   ELSE IF Newest(OfId(own)).version < b.version
                   THEN Plan(b, ModulesOf(Newest(OfId(own)))) ELSE <<>>
           plan == (IF new THEN Plan(n, ModulesOf(r)) ELSE <<>>) \o more
           join == IF plan = <<>> THEN <<>> ELSE Merging
           link == IF new THEN <<<<"export", n, {"binary", "develop"}>>,
                                 <<"unexport", r, {"binary", "develop"}>>, <<"retire", r>>>>
                   ELSE <<>>
           mark == <<"next", IF plan = <<>> THEN "same" ELSE "changed">>
           back == IF new THEN <<<<"unexport", n, {"binary", "develop"}>>, <<"retire", n>>>> ELSE <<>>
<1>1. todo' = plan \o join \o link \o <<mark>> \o Tail(todo) /\ undo' = back
      /\ UNCHANGED <<who, lock, use, recorded>>
  BY DEF UpdateApp
<1>2. mark[1] = "next"
  OBVIOUS
<1>3. Made(back, Undos)
  BY MadeFixedTwo, MadeNone
<1>4. Made(link, Plans)
  <2>1. /\ <<"export", n, {"binary", "develop"}>>[1] \in Plans
        /\ <<"unexport", r, {"binary", "develop"}>>[1] \in Plans /\ <<"retire", r>>[1] \in Plans
    BY DEF Plans
  <2>2. Made(<<<<"export", n, {"binary", "develop"}>>,
               <<"unexport", r, {"binary", "develop"}>>, <<"retire", r>>>>, Plans)
    BY <2>1, MadeThree
  <2> QED BY <2>2, MadeNone
<1>5. Made(more, Plans) /\ Made(join, Plans) /\ Made(IF new THEN Plan(n, ModulesOf(r)) ELSE <<>>, Plans)
  BY MadePlan, MadeNone, MadeFixed
<1> HIDE DEF join, link, back, mark, more, new
<1>6. Made(plan \o join \o link, Plans)
  BY <1>4, <1>5, MadeConcat
<1> QED BY <1>1, <1>2, <1>3, <1>6

LEMMA UpdateTodo == TodoInv /\ UpdateApp => TodoInv'
<1> SUFFICES ASSUME TodoInv, UpdateApp PROVE TodoInv'
  OBVIOUS
<1>1. PICK s, back : Made(s, Plans) /\ Made(back, Undos)
                     /\ \E e : e[1] = "next" /\ todo' = s \o <<e>> \o Tail(todo)
                     /\ undo' = back /\ UNCHANGED <<who, lock, use, recorded>>
  BY UpdateMade
<1>2. PICK e : e[1] = "next" /\ todo' = s \o <<e>> \o Tail(todo)
  BY <1>1
<1> DEFINE a == s \o <<e>>
<1>3. todo # <<>> /\ Kind(1) = "update" /\ Len(todo) \in Nat \ {0}
  BY Next1 DEF TodoInv, UpdateApp
<1>4. who = "job"
  <2>1. who # "gc"
    BY <1>3, NotCollecting DEF Collects
  <2>2. who # "none" /\ who # "rollback"
    BY <1>3 DEF TodoInv, HolderInv, Forward
  <2> QED BY <2>1, <2>2 DEF TodoInv, HolderInv
<1>5. /\ Made(a, Plans \cup {"next"}) /\ Len(s) \in Nat /\ Len(a) = Len(s) + 1
      /\ \A i \in 1..Len(s) : a[i] = s[i]
  <2>1. Made(s, Plans \cup {"next"}) /\ Made(<<e>>, Plans \cup {"next"})
    BY <1>1, <1>2, MadeMore, MadeOne
  <2>2. IsSeq(s) /\ IsSeq(<<e>>) /\ Len(<<e>>) = 1
    BY <2>1 DEF Made
  <2> QED BY <2>1, <2>2, MadeConcat, Concat
<1> HIDE DEF a
<1>6. todo' = a \o Tail(todo)
  BY <1>2 DEF a
<1>7. /\ IsSeq(todo)' /\ Len(a) \in Nat /\ Len(todo') = Len(a) + Len(todo) - 1
      /\ \A i \in 1..Len(a) : todo'[i] = a[i] /\ todo'[i][1] \in Plans \cup {"next"}
      /\ \A i \in (Len(a) + 1)..Len(todo') : todo'[i] = todo[i - Len(a) + 1]
  BY <1>3, <1>5, <1>6, Going DEF TodoInv
<1>8. ASSUME NEW i \in (Len(a) + 1)..Len(todo') PROVE todo'[i][1] \in Asks
  <2>1. i - Len(a) + 1 \in 1..Len(todo) /\ 1 < i - Len(a) + 1 /\ 1 \in 1..Len(todo)
    BY <1>3, <1>7
  <2>2. Kind(i - Len(a) + 1) \in Asks
    BY <1>3, <2>1 DEF TodoInv, HolderInv
  <2> QED BY <1>7, <2>2 DEF Kind
<1>9. ShapeInv' /\ SweepInv'
  <2>1. ASSUME NEW i \in 1..Len(todo') PROVE todo'[i][1] \notin Parts \cup {"sweep"}
    <3>1. todo'[i][1] \in Plans \cup {"next"} \/ todo'[i][1] \in Asks
      BY <1>7, <1>8
    <3> QED BY <3>1 DEF Plans, Asks, Parts
  <2> QED BY <2>1, ShapeGoes
<1>10. HolderInv'
  <2>1. ASSUME NEW i \in 1..Len(todo'), NEW j \in 1..Len(todo'), i < j, todo'[i][1] \in {"next", "update"}
        PROVE  todo'[j][1] \in Asks
    <3>1. i \notin 1..Len(s)
      <4>1. i \in 1..Len(s) => todo'[i][1] \in Plans
        BY <1>1, <1>5, <1>7 DEF Made
      <4> QED BY <2>1, <4>1 DEF Plans
    <3>2. j \in (Len(a) + 1)..Len(todo')
      BY <1>5, <1>7, <2>1, <3>1
    <3> QED BY <1>8, <3>2
  <2> QED BY <1>1, <1>4, <2>1 DEF HolderInv, Kind, Made
<1>11. GcInv'
  BY <1>1, <1>4 DEF TodoInv, GcInv
<1>12. IsSeq(undo')
  BY <1>1 DEF Made
<1> QED BY <1>7, <1>9, <1>10, <1>11, <1>12 DEF TodoInv, IsSeq

LEMMA NextTodo == TodoInv /\ NextApp => TodoInv'
<1> SUFFICES ASSUME TodoInv, NextApp PROVE TodoInv'
  OBVIOUS
<1>1. Kind(1) = "next" /\ Len(todo) \in Nat \ {0} /\ todo # <<>>
  BY Next1 DEF TodoInv, NextApp
<1> DEFINE t == Tail(todo)
<1>2. Made(t, Asks)
  <2>1. IsSeq(t) /\ Len(t) = Len(todo) - 1 /\ \A i \in 1..Len(t) : t[i] = todo[i + 1]
    BY <1>1, Rests DEF TodoInv
  <2>2. ASSUME NEW i \in 1..Len(t) PROVE t[i][1] \in Asks
    <3>1. i + 1 \in 1..Len(todo) /\ 1 < i + 1 /\ 1 \in 1..Len(todo)
      BY <1>1, <2>1
    <3>2. Kind(i + 1) \in Asks
      BY <1>1, <3>1 DEF TodoInv, HolderInv
    <3> QED BY <2>1, <3>2 DEF Kind
  <2> QED BY <2>1, <2>2 DEF Made
<1> HIDE DEF t
<1>3. Made(Front(t), Asks)
  <2>1. PICK S : t \in Seq(S)
    BY <1>2 DEF Made, IsSeq
  <2>2. Len(t) \in Nat
    BY <2>1
  <2>3. CASE Len(t) = 0
    <3>1. t = <<>> /\ SubSeq(t, 1, Len(t) - 1) = <<>>
      BY <2>1, <2>3, SubSeqEmpty
    <3> QED BY <3>1, MadeNone DEF Front
  <2>4. CASE Len(t) > 0
    <3>1. Len(t) - 1 \in 0..Len(t) /\ 1 \in Nat \ {0}
      BY <2>2, <2>4
    <3> DEFINE f == SubSeq(t, 1, Len(t) - 1)
    <3>2. IsSeq(t) /\ Len(t) - 1 - 1 + 1 = Len(t) - 1
      BY <1>2, <2>2 DEF Made
    <3>3. /\ IsSeq(f)
          /\ Len(f) = IF 1 <= Len(t) - 1 THEN Len(t) - 1 - 1 + 1 ELSE 0
          /\ \A i \in 1..(Len(t) - 1 - 1 + 1) : f[i] = t[1 + i - 1]
      BY <3>1, <3>2, Sub
    <3> HIDE DEF f
    <3>4. Front(t) = f
      BY DEF Front, f
    <3>5. IsSeq(f) /\ Len(f) = Len(t) - 1 /\ \A i \in 1..(Len(t) - 1) : f[i] = t[i]
      <4>1. Len(f) = Len(t) - 1
        <5> DEFINE n == Len(t)
        <5>1. n \in Nat /\ n > 0 /\ Len(f) = IF 1 <= n - 1 THEN n - 1 - 1 + 1 ELSE 0
          BY <2>2, <2>4, <3>3
        <5> HIDE DEF n
        <5>2. Len(f) = n - 1
          BY <5>1
        <5> QED BY <5>2 DEF n
      <4>2. ASSUME NEW i \in 1..(Len(t) - 1) PROVE f[i] = t[i]
        <5>1. 1 + i - 1 = i /\ i \in 1..(Len(t) - 1 - 1 + 1)
          BY <3>2
        <5>2. f[i] = t[1 + i - 1]
          BY <3>3, <5>1
        <5> QED BY <5>1, <5>2
      <4> QED BY <3>3, <4>1, <4>2
    <3> QED BY <1>2, <2>2, <3>4, <3>5 DEF Made
  <2> QED BY <2>2, <2>3, <2>4
<1>4. Made(Front(t) \o <<<<"updated", Arg>>>>, Asks)
  BY <1>3, MadeFixed, MadeConcat
<1>5. Made(todo', Asks) /\ who' = "job" /\ undo' = <<>> /\ UNCHANGED <<lock, use, recorded>>
  BY <1>2, <1>4 DEF NextApp, t
<1>6. \A i \in 1..Len(todo') : todo'[i][1] \in Asks
  BY <1>5 DEF Made
<1>7. ShapeInv' /\ SweepInv'
  BY <1>6, ShapeGoes DEF Asks, Parts
<1>8. HolderInv'
  BY <1>5, <1>6, MadeNone DEF HolderInv, Kind, Made
<1>9. GcInv'
  BY <1>5 DEF TodoInv, GcInv
<1>10. IsSeq(todo') /\ IsSeq(undo')
  BY <1>5, MadeNone DEF Made
<1> QED BY <1>7, <1>8, <1>9, <1>10 DEF TodoInv, IsSeq

\* There is nothing left to do.
LEMMA DoneTodo ==
    ASSUME TodoInv, todo' = <<>>, who' = "none" \/ (who' = who /\ lock' = lock),
           undo' = <<>> \/ undo' = undo, UNCHANGED <<use, recorded>>
    PROVE  TodoInv'
<1>1. IsSeq(<<>>) /\ Len(<<>>) = 0
  BY MadeNone DEF Made
<1>2. ShapeInv' /\ SweepInv'
  BY <1>1, ShapeGoes
<1>3. HolderInv'
  <2>1. who' = "job" => \A i \in 1..Len(undo') : undo'[i][1] \in Undos
    BY <1>1 DEF TodoInv, HolderInv
  <2> QED BY <1>1, <2>1 DEF TodoInv, HolderInv
<1>4. GcInv'
  BY <1>1 DEF TodoInv, GcInv
<1> QED BY <1>1, <1>2, <1>3, <1>4 DEF TodoInv, IsSeq

LEMMA DoneSteps == TodoInv /\ (UpdateCanceled \/ End \/ Crash \/ Rebuilt) => TodoInv'
<1> SUFFICES ASSUME TodoInv, UpdateCanceled \/ End \/ Crash \/ Rebuilt PROVE TodoInv'
  OBVIOUS
<1>1. CASE UpdateCanceled
  BY <1>1, DoneTodo DEF UpdateCanceled
<1>2. CASE End
  BY <1>2, DoneTodo DEF End
<1>3. CASE Crash
  BY <1>3, DoneTodo DEF Crash
<1>4. CASE Rebuilt
  BY <1>4, DoneTodo DEF Rebuilt
<1> QED BY <1>1, <1>2, <1>3, <1>4

-----------------------------------------------------------------------------
(* The deferred uninstall loop and the containers.                         *)

LEMMA GcTodo == TodoInv /\ FiniteInv /\ GcBegin => TodoInv'
<1> SUFFICES ASSUME TodoInv, FiniteInv, GcBegin PROVE TodoInv'
  OBVIOUS
<1> DEFINE S  == {c.ref : c \in deferred}
           s  == Each("collect", SetToSeq(S))
           t  == IF deferred = {} THEN <<>> ELSE <<<<"merge">>>>
           K  == {"collect", "merge"}
<1>1. who' = "gc" /\ lock' /\ todo' = s \o t /\ UNCHANGED <<undo, lock, use, recorded>>
  BY DEF GcBegin
<1>2. Made(s, K)
  <2>1. IsFiniteSet(S)
    BY Mapped DEF FiniteInv
  <2>2. Made(s, {"collect"})
    BY <2>1, Listed, MadeEach
  <2> QED BY <2>2, MadeMore
<1> HIDE DEF s
<1>3. Made(t, K)
  <2>1. <<"merge">>[1] \in K
    OBVIOUS
  <2> QED BY <2>1, MadeOne, MadeNone
<1> HIDE DEF t
<1>4. Made(todo', K)
  BY <1>1, <1>2, <1>3, MadeConcat
<1>5. \A i \in 1..Len(todo') : todo'[i][1] \in {"collect", "merge"}
  BY <1>4 DEF Made
<1>6. ShapeInv' /\ SweepInv'
  BY <1>5, ShapeGoes DEF Parts
<1>7. HolderInv'
  BY <1>1, <1>5 DEF HolderInv, Kind
<1>8. GcInv'
  BY <1>1, <1>5 DEF TodoInv, GcInv, Kind, Collects
<1>9. IsSeq(todo') /\ IsSeq(undo')
  BY <1>1, <1>4 DEF Made, TodoInv
<1> QED BY <1>6, <1>7, <1>8, <1>9 DEF TodoInv, IsSeq

LEMMA CollectTodo == TodoInv /\ FiniteInv /\ Collect => TodoInv'
<1> SUFFICES ASSUME TodoInv, FiniteInv, Collect PROVE TodoInv'
  OBVIOUS
<1> DEFINE S == {c \in deferred : c.ref = Arg}
           q == SetToSeq(S)
           d == Each("discard", q)
           s == IF Busy(Arg) THEN <<>> ELSE d
<1>1. todo # <<>> /\ Kind(1) = "collect" /\ Len(todo) \in Nat \ {0}
  BY Next1 DEF TodoInv, Collect
<1>2. todo' = s \o Tail(todo) /\ UNCHANGED <<who, undo, lock, use, recorded>>
  BY DEF Collect, Onward, Proceed
<1>3. q \in Seq(S)
  <2>1. IsFiniteSet(S)
    BY FS_Subset DEF FiniteInv
  <2> QED BY <2>1, Listed
<1> HIDE DEF q
<1>4. Made(d, {"discard"}) /\ Len(d) = Len(q) /\ \A i \in 1..Len(q) : d[i] = <<"discard", q[i]>> /\ q[i] \in S
  BY <1>3, MadeEach
<1> HIDE DEF d
<1>5. Made(s, {"discard"}) /\ \A i \in 1..Len(s) : ~Busy(s[i][2].ref)
  <2>1. CASE Busy(Arg)
    <3>1. s = <<>> /\ Len(<<>>) = 0
      BY <2>1
    <3> QED BY <3>1, MadeNone
  <2>2. CASE ~Busy(Arg)
    <3>1. s = d
      BY <2>2
    <3>2. ASSUME NEW i \in 1..Len(d) PROVE ~Busy(d[i][2].ref)
      <4>1. d[i][2] \in S
        BY <1>4
      <4>2. d[i][2].ref = Arg
        BY <4>1
      <4> QED BY <2>2, <4>2
    <3> HIDE DEF s
    <3> QED BY <1>4, <3>1, <3>2
  <2> QED BY <2>1, <2>2
<1> HIDE DEF s
<1>6. /\ IsSeq(todo)' /\ Len(s) \in Nat /\ Len(todo') = Len(s) + Len(todo) - 1
      /\ \A i \in 1..Len(s) : todo'[i] = s[i] /\ todo'[i][1] \in {"discard"}
      /\ \A i \in (Len(s) + 1)..Len(todo') : todo'[i] = todo[i - Len(s) + 1]
  BY <1>1, <1>2, <1>5, Going DEF TodoInv
<1>7. ASSUME NEW i \in 1..Len(todo') PROVE todo'[i][1] \notin Parts \cup {"sweep"}
  <2>1. CASE i \in 1..Len(s)
    BY <1>6, <2>1 DEF Parts
  <2>2. CASE i \in (Len(s) + 1)..Len(todo')
    <3>1. i - Len(s) + 1 \in 1..Len(todo) /\ todo'[i] = todo[i - Len(s) + 1] /\ i - Len(s) + 1 > 0
      BY <1>1, <1>6, <2>2
    <3> QED BY <1>1, <3>1, NoParts, NoSweeps DEF After, Kind, Parts
  <2> QED BY <1>6, <2>1, <2>2
<1>8. ShapeInv' /\ SweepInv'
  BY <1>7, ShapeGoes
<1>9. HolderInv'
  BY <1>1, <1>2, <1>5, HolderGoes DEF Forward
<1>10. GcInv'
  BY <1>1, <1>2, <1>5, GcGoes DEF Collects
<1> QED BY <1>2, <1>6, <1>8, <1>9, <1>10 DEF TodoInv, IsSeq

\* Nothing but the containers, or the lock, changes.
LEMMA AsideTodo ==
    ASSUME TodoInv, UNCHANGED <<who, todo, undo, live, deferred, named, dirs, hurt>>, GcInv'
    PROVE  TodoInv'
<1>1. ShapeInv' /\ SweepInv' /\ HolderInv'
  BY DEF TodoInv, ShapeInv, ImportInv, RemovalInv, SweepInv, HolderInv, At, After, This, Kind, Unused
<1> QED BY <1>1 DEF TodoInv

LEMMA AsideSteps ==
    ASSUME TodoInv,
           \/ GcLock \/ UNCHANGED vars
           \/ \E k \in Containers : (\E r \in Apps : Mount(k, r)) \/ Record(k) \/ Stop(k)
    PROVE  TodoInv'
<1>1. CASE GcLock
  <2>1. GcInv'
    BY <1>1 DEF TodoInv, GcInv, GcLock, Kind, Busy
  <2> QED BY <1>1, <2>1, AsideTodo DEF GcLock, repo, past
<1>2. CASE UNCHANGED vars
  <2>1. GcInv'
    BY <1>2 DEF TodoInv, GcInv, vars, Kind, Busy
  <2> QED BY <1>2, <2>1, AsideTodo DEF vars
<1>3. ASSUME NEW k \in Containers, NEW r \in Apps, Mount(k, r) PROVE TodoInv'
  <2>1. PICK S : use' = [use EXCEPT ![k] = S]
    BY <1>3 DEF Mount
  <2>2. use[k] = {} /\ UNCHANGED <<who, todo, lock, recorded>>
    BY <1>3 DEF Mount
  <2>3. /\ use = [j \in Containers |-> use[j]] /\ recorded \subseteq Containers
        /\ \A j \in recorded : use[j] # {}
    BY DEF TodoInv, GcInv
  <2>4. use' = [j \in Containers |-> use'[j]] /\ \A j \in Containers : j # k => use'[j] = use[j]
    BY <2>1, <2>3
  <2>5. \A j \in recorded : use'[j] = use[j]
    BY <2>2, <2>3, <2>4
  <2>6. \A q : Busy(q)' = Busy(q)
    BY <2>2, <2>5 DEF Busy
  <2>7. GcInv'
    BY <2>2, <2>3, <2>4, <2>5, <2>6 DEF TodoInv, GcInv, Kind
  <2> QED BY <1>3, <2>7, AsideTodo DEF Mount, repo, past
<1>4. ASSUME NEW k \in Containers, Record(k) PROVE TodoInv'
  <2>1. ~lock /\ UNCHANGED <<who, todo, lock, use>> /\ recorded' = recorded \cup {k} /\ use[k] # {}
    BY <1>4 DEF Record, Starting
  <2>2. GcInv'
    BY <2>1 DEF TodoInv, GcInv
  <2> QED BY <1>4, <2>2, AsideTodo DEF Record, repo, past
<1>5. ASSUME NEW k \in Containers, Stop(k) PROVE TodoInv'
  <2>1. use' = [use EXCEPT ![k] = {}] /\ recorded' = recorded \ {k} /\ UNCHANGED <<who, todo, lock>>
    BY <1>5 DEF Stop
  <2>2. /\ use = [j \in Containers |-> use[j]] /\ recorded \subseteq Containers
        /\ \A j \in recorded : use[j] # {}
    BY DEF TodoInv, GcInv
  <2>3. use' = [j \in Containers |-> use'[j]] /\ \A j \in Containers : j # k => use'[j] = use[j]
    BY <2>1, <2>2
  <2>4. \A j \in recorded' : j \in recorded /\ use'[j] = use[j]
    BY <2>1, <2>2, <2>3
  <2>5. \A q : Busy(q)' => Busy(q)
    BY <2>4 DEF Busy
  <2>6. GcInv'
    BY <2>1, <2>2, <2>3, <2>4, <2>5 DEF TodoInv, GcInv, Kind
  <2> QED BY <1>5, <2>6, AsideTodo DEF Stop, repo, past
<1> QED BY <1>1, <1>2, <1>3, <1>4, <1>5

LEMMA TodoStep == TodoInv /\ FiniteInv /\ [Next]_vars => TodoInv'
<1> SUFFICES ASSUME TodoInv, FiniteInv, [Next]_vars PROVE TodoInv'
  OBVIOUS
<1>1. CASE Change
  <2>1. CASE \/ Merge \/ Export \/ Unexport \/ Retire \/ Mark \/ RemoveAll \/ AfterChange \/ PruneUnused
             \/ UpdateSkips \/ Updated
    BY <2>1, SafeSteps
  <2>2. CASE InstallModule \/ ImportLayer \/ RemoveModule \/ Unimport
    BY <2>2, ExpandSteps
  <2>3. CASE SetRef \/ Clear \/ Checkout \/ Upsert \/ Unref \/ Drop
    BY <2>3, SetRefTodo, ClearTodo, CheckoutTodo, UpsertTodo, UnrefTodo, DropTodo
  <2>4. CASE UpdateApp \/ UpdateCanceled \/ NextApp
    BY <2>4, UpdateTodo, DoneSteps, NextTodo
  <2>5. CASE Clean \/ Sweep \/ StepFails
    BY <2>5, CleanTodo, SweepTodo, FailTodo
  <2> QED BY <1>1, <2>1, <2>2, <2>3, <2>4, <2>5 DEF Change
<1>2. CASE Job
  BY <1>2, JobTodo
<1>3. CASE Collect \/ Discard
  BY <1>3, CollectTodo, ExpandSteps
<1>4. CASE End \/ Crash \/ Rebuilt
  BY <1>4, DoneSteps
<1>5. CASE Gc
  BY <1>5, GcTodo, AsideSteps DEF Gc
<1>6. CASE \E k \in Containers : (\E r \in Apps : Mount(k, r)) \/ Record(k) \/ Stop(k)
  BY <1>6, AsideSteps
<1>7. CASE UNCHANGED vars
  BY <1>7, AsideSteps
<1> QED BY <1>1, <1>2, <1>3, <1>4, <1>5, <1>6, <1>7 DEF Next

-----------------------------------------------------------------------------
(* The entries, and what stands behind them.                               *)

\* What an update that is due says of the state.
LEMMA DueFacts ==
    ASSUME TodoInv
    PROVE  /\ Due("clear") => Unused(Arg) \/ <<"checkout", Arg>> \in ToSet(todo)
           /\ Due("upsert") => Arg \in named \cap dirs
           /\ Due("unref") => Unused(Arg) \/ (Head(Tail(todo)) = <<"drop", Arg>> /\ Tail(todo) # <<>>)
<1>1. ASSUME NEW do \in {"clear", "upsert", "unref"}, Due(do)
      PROVE  /\ todo # <<>> /\ Kind(1) = do /\ Arg = This /\ Len(todo) \in Nat \ {0} /\ IsSeq(todo) /\ ~After(0)
  <2>1. todo # <<>> /\ Kind(1) = do /\ Arg = This /\ Len(todo) \in Nat \ {0} /\ IsSeq(todo)
    BY <1>1, Next1 DEF TodoInv
  <2> QED BY <1>1, <2>1 DEF After, Parts
<1>2. CASE Due("clear")
  <2>1. Unused(This) \/ At(2, "checkout")
    BY <1>1, <1>2 DEF TodoInv, ShapeInv, ImportInv, RemovalInv, At, Kind
  <2>2. At(2, "checkout") => <<"checkout", This>> \in ToSet(todo)
    <3>1. PICK S : todo \in Seq(S)
      BY <1>1, <1>2 DEF IsSeq
    <3>2. DOMAIN todo = 1..Len(todo) /\ Len(todo) \in Nat
      BY <3>1
    <3>3. At(2, "checkout") => 2 \in DOMAIN todo /\ todo[2] = <<"checkout", This>>
      BY <3>2 DEF At
    <3> QED BY <3>3 DEF ToSet
  <2>3. Unused(Arg) \/ <<"checkout", Arg>> \in ToSet(todo)
    BY <1>1, <1>2, <2>1, <2>2
  <2> QED BY <1>2, <2>3 DEF Due
<1>3. CASE Due("upsert")
  <2>1. This \in named \cap dirs
    BY <1>1, <1>3 DEF TodoInv, ShapeInv, ImportInv, RemovalInv, At, Kind
  <2> QED BY <1>1, <1>3, <2>1 DEF Due
<1>4. CASE Due("unref")
  <2>1. Unused(This) \/ At(2, "drop")
    BY <1>1, <1>4 DEF TodoInv, ShapeInv, ImportInv, RemovalInv, At, Kind
  <2>2. At(2, "drop") => Head(Tail(todo)) = <<"drop", This>> /\ Tail(todo) # <<>>
    <3> SUFFICES ASSUME At(2, "drop") PROVE Head(Tail(todo)) = <<"drop", This>> /\ Tail(todo) # <<>>
      OBVIOUS
    <3> DEFINE t == Tail(todo)
    <3>1. IsSeq(t) /\ Len(t) = Len(todo) - 1 /\ \A i \in 1..(Len(todo) - 1) : t[i] = todo[i + 1]
      BY <1>1, <1>4, Rests
    <3>2. todo[2] = <<"drop", This>> /\ Len(todo) \in Nat /\ Len(todo) >= 2
      BY <1>1, <1>4 DEF At
    <3> HIDE DEF t
    <3>3. t[1] = todo[2]
      <4>1. 1 \in 1..(Len(todo) - 1) /\ 1 + 1 = 2
        BY <3>2
      <4> QED BY <3>1, <4>1
    <3>4. t # <<>>
      BY <3>1, <3>2
    <3>5. Head(t) = t[1]
      BY <3>1, <3>4, Rests
    <3> QED BY <3>2, <3>3, <3>4, <3>5 DEF t
  <2>3. Unused(Arg) \/ (Head(Tail(todo)) = <<"drop", Arg>> /\ Tail(todo) # <<>>)
    <3>1. Arg = This
      BY <1>1, <1>4
    <3> HIDE DEF Arg
    <3> QED BY <2>1, <2>2, <3>1
  <2> QED BY <1>4, <2>3 DEF Due
<1> QED BY <1>2, <1>3, <1>4

Entries == <<live, deferred, named, dirs, stripped, nameless>>
\* What of the past is no matter of theirs can change.
Lasting == {"crashed", "rebuilt", "pruned", "twice"}

\* The steps that plan, fail, end or are those of others.
Aside ==
    \/ Merge \/ Export \/ Unexport \/ Retire \/ RemoveAll \/ RemoveModule \/ AfterChange \/ PruneUnused
    \/ UpdateSkips \/ Updated \/ ImportLayer \/ Unimport \/ UpdateApp \/ UpdateCanceled \/ NextApp
    \/ Sweep \/ StepFails \/ Job \/ Collect \/ Discard \/ End \/ Gc \/ UNCHANGED vars
    \/ \E k \in Containers : (\E r \in Apps : Mount(k, r)) \/ Record(k) \/ Stop(k)

LEMMA AsideEntries ==
    ASSUME TodoInv, Aside
    PROVE  /\ UNCHANGED Entries /\ (todo' = todo \/ ~Due("drop"))
           /\ \A h \in Lasting : h \in hurt' <=> h \in hurt
<1> USE DEF Entries, repo, past, Onward, Proceed, Due, Lasting
<1>1. CASE Merge \/ Export \/ Unexport \/ Retire
  BY <1>1 DEF Merge, Export, Unexport, Retire
<1>2. CASE RemoveAll \/ RemoveModule \/ AfterChange \/ PruneUnused
  BY <1>2 DEF RemoveAll, RemoveModule, AfterChange, PruneUnused
<1>3. CASE UpdateSkips \/ Updated \/ ImportLayer \/ Unimport
  BY <1>3 DEF UpdateSkips, Updated, ImportLayer, Unimport
<1>4. CASE UpdateApp
  BY <1>4 DEF UpdateApp
<1>5. CASE UpdateCanceled \/ NextApp \/ Sweep
  BY <1>5 DEF UpdateCanceled, NextApp, Sweep
<1>6. CASE StepFails
  BY <1>6 DEF StepFails, Fail, Left
<1>7. CASE Job
  <2>1. \E h \in SUBSET {"forced"} : \E plan, back : BeginAs(h, plan, back)
    BY <1>7 DEF Job, Install, InstallBase, InstallExtra, InstallLayer, InstallUab, Update, Uninstall,
                UninstallExtra, Prune, Begin
  <2> QED BY <2>1 DEF BeginAs, TodoInv, HolderInv
<1>8. CASE Collect \/ Discard \/ End
  BY <1>8 DEF Collect, Discard, End
<1>9. CASE Gc
  BY <1>9 DEF Gc, GcLock, GcBegin, TodoInv, HolderInv
<1>10. CASE UNCHANGED vars
  BY <1>10 DEF vars
<1>11. CASE \E k \in Containers : (\E r \in Apps : Mount(k, r)) \/ Record(k) \/ Stop(k)
  BY <1>11 DEF Mount, Record, Stop
<1> QED BY <1>1, <1>2, <1>3, <1>4, <1>5, <1>6, <1>7, <1>8, <1>9, <1>10, <1>11 DEF Aside

\* All the others.
LEMMA StepKinds ==
    ASSUME [Next]_vars
    PROVE  \/ Aside \/ InstallModule \/ SetRef \/ Clear \/ Checkout \/ Upsert \/ Mark \/ Unref \/ Drop
           \/ Clean \/ Crash \/ Rebuilt
BY DEF Next, Change, Aside

\* What bringing a layer back, or planning its pull, does to the entries.
LEMMA InstallEntries ==
    ASSUME InstallModule
    PROVE  \/ UNCHANGED <<Entries, hurt>> /\ ~Due("drop")
           \/ /\ ~Due("drop") /\ UNCHANGED <<named, dirs, stripped, nameless>>
              /\ \E d \in deferred : /\ SameLayer(d, Arg)
                                     /\ deferred' = deferred \ {d} /\ live' = live \cup {d}
              /\ hurt' = IF \E c \in live : SameLayer(c, Arg) THEN hurt \cup {"twice"} ELSE hurt
BY DEF InstallModule, Entries, Onward, Proceed, repo, Due

LEMMA FilesStep == TodoInv /\ FilesThere /\ [Next]_vars => FilesThere'
<1> SUFFICES ASSUME TodoInv, FilesThere, [Next]_vars, "pruned" \notin hurt'
             PROVE  live' \cup deferred' \subseteq dirs' \cup stripped'
  BY DEF FilesThere
<1>1. CASE Aside
  BY <1>1, AsideEntries DEF FilesThere, Entries, Lasting
<1>2. CASE InstallModule
  BY <1>2, InstallEntries DEF FilesThere, Entries
<1>3. CASE SetRef
  BY <1>3 DEF SetRef, FilesThere
<1>4. CASE Clear
  <2>1. live \cup deferred \subseteq dirs \cup stripped
    BY <1>4 DEF Clear, FilesThere
  <2>2. Arg \notin live \cup deferred \/ <<"checkout", Arg>> \in ToSet(todo)
    BY <1>4, DueFacts DEF Clear, Unused
  <2> QED BY <1>4, <2>1, <2>2 DEF Clear
<1>5. CASE Checkout
  BY <1>5 DEF Checkout, FilesThere
<1>6. CASE Upsert
  <2>1. Arg \in dirs
    BY <1>6, DueFacts DEF Upsert
  <2> QED BY <1>6, <2>1 DEF Upsert, FilesThere
<1>7. CASE Mark
  BY <1>7 DEF Mark, FilesThere, Onward, Found
<1>8. CASE Unref
  BY <1>8 DEF Unref, FilesThere, Onward
<1>9. CASE Drop
  BY <1>9 DEF Drop, FilesThere
<1>10. CASE Clean
  BY <1>10 DEF Clean, FilesThere, repo
<1>11. CASE Crash
  BY <1>11 DEF Crash, FilesThere, repo
<1>12. CASE Rebuilt
  BY <1>12 DEF Rebuilt
<1> QED BY <1>1, <1>2, <1>3, <1>4, <1>5, <1>6, <1>7, <1>8, <1>9, <1>10, <1>11, <1>12, StepKinds

LEMMA HaveStep == TodoInv /\ HaveInv /\ [Next]_vars => HaveInv'
<1> DEFINE Clear0 == {"crashed", "pruned"} \cap hurt = {}
<1> SUFFICES ASSUME TodoInv, HaveInv, [Next]_vars, Clear0'
             PROVE  (live \cup deferred \subseteq named \cup nameless \cup {c \in {This} : Due("drop")})'
  BY DEF HaveInv
<1>0. ASSUME ~Due("drop"), Clear0 PROVE live \cup deferred \subseteq named \cup nameless
  BY <1>0 DEF HaveInv
<1>1. CASE Aside
  BY <1>1, AsideEntries DEF HaveInv, Entries, Lasting, This, Due
<1>2. CASE InstallModule
  <2>1. Clear0 /\ ~Due("drop")
    BY <1>2, InstallEntries DEF Entries
  <2> QED BY <1>0, <1>2, <2>1, InstallEntries DEF Entries
<1>3. CASE SetRef
  BY <1>0, <1>3 DEF SetRef, Due
<1>4. CASE Clear
  BY <1>0, <1>4 DEF Clear, Due
<1>5. CASE Checkout
  BY <1>0, <1>5 DEF Checkout, Due
<1>6. CASE Upsert
  <2>1. Arg \in named
    BY <1>6, DueFacts DEF Upsert
  <2>2. live \cup deferred \subseteq named \cup nameless
    BY <1>0, <1>6 DEF Upsert, Due
  <2> QED BY <1>6, <2>1, <2>2 DEF Upsert
<1>7. CASE Mark
  BY <1>0, <1>7 DEF Mark, Onward, Due, Found
<1>8. CASE Unref
  <2>1. named' = named \ {Arg} /\ UNCHANGED <<live, deferred, nameless, hurt>> /\ todo' = <<>> \o Tail(todo)
    BY <1>8 DEF Unref, Onward, Proceed
  <2>2. live \cup deferred \subseteq named \cup nameless
    BY <1>0, <1>8, <2>1 DEF Unref, Due
  <2>3. CASE Unused(Arg)
    BY <2>1, <2>2, <2>3 DEF Unused
  <2>4. CASE Head(Tail(todo)) = <<"drop", Arg>> /\ Tail(todo) # <<>>
    <3>1. IsSeq(todo) /\ todo # <<>>
      BY <1>8, Next1 DEF Unref, TodoInv
    <3>2. IsSeq(Tail(todo))
      BY <3>1, Rests
    <3>3. <<>> \o Tail(todo) = Tail(todo)
      <4>1. PICK S : Tail(todo) \in Seq(S)
        BY <3>2 DEF IsSeq
      <4> QED BY <4>1
    <3>4. todo' = Tail(todo) /\ Head(todo') = todo'[1]
      BY <2>1, <2>4, <3>2, <3>3, Rests
    <3>5. Due("drop")' /\ This' = Arg
      BY <2>4, <3>4 DEF Due, This
    <3> QED BY <2>1, <2>2, <3>5
  <2> QED BY <1>8, <2>3, <2>4, DueFacts DEF Unref
<1>9. CASE Drop
  <2>1. This = Arg
    BY <1>9, Next1 DEF Drop, TodoInv
  <2>2. live \cup deferred \subseteq named \cup nameless \cup {Arg}
    BY <1>9, <2>1 DEF Drop, HaveInv
  <2> QED BY <1>9, <2>2 DEF Drop
<1>10. CASE Clean
  BY <1>0, <1>10 DEF Clean, Due, repo
<1>11. CASE Crash
  BY <1>11 DEF Crash
<1>12. CASE Rebuilt
  BY <1>12 DEF Rebuilt
<1> QED BY <1>1, <1>2, <1>3, <1>4, <1>5, <1>6, <1>7, <1>8, <1>9, <1>10, <1>11, <1>12, StepKinds

LEMMA FiniteStep == TodoInv /\ FiniteInv /\ [Next]_vars => FiniteInv'
<1> SUFFICES ASSUME TodoInv, FiniteInv, [Next]_vars PROVE FiniteInv'
  OBVIOUS
<1> DEFINE Small(S, T) == \E x : S \subseteq T \cup {x}
<1>0. ASSUME NEW S, NEW T, IsFiniteSet(T), Small(S, T) PROVE IsFiniteSet(S)
  <2>1. PICK x : S \subseteq T \cup {x}
    BY <1>0
  <2> QED BY <1>0, <2>1, FS_AddElement, FS_Subset
<1>1. CASE UNCHANGED <<live, deferred, named>>
  BY <1>1 DEF FiniteInv
<1>2. CASE /\ Small(live', live) \/ Small(live', deferred) \/ Small(live', named)
           /\ Small(deferred', deferred) \/ \E x \in live : Small(deferred', deferred)
           /\ Small(named', named)
  BY <1>0, <1>2 DEF FiniteInv
<1> HIDE DEF Small
<1>3. CASE Aside \/ Clear \/ Checkout \/ Clean \/ Crash
  <2>1. CASE Aside
    BY <1>1, <2>1, AsideEntries DEF Entries
  <2> QED BY <1>1, <1>3, <2>1 DEF Clear, Checkout, Clean, Crash, repo
<1>4. CASE InstallModule
  <2>1. Small(live', live) /\ Small(deferred', deferred) /\ Small(named', named)
    BY <1>4, InstallEntries DEF Small, Entries
  <2> QED BY <1>2, <2>1
<1>5. CASE SetRef \/ Unref
  <2>1. Small(live', live) /\ Small(deferred', deferred) /\ Small(named', named)
    BY <1>5 DEF Small, SetRef, Unref, Onward
  <2> QED BY <1>2, <2>1
<1>6. CASE Upsert \/ Drop
  <2>1. Small(live', live) /\ Small(deferred', deferred) /\ Small(named', named)
    BY <1>6 DEF Small, Upsert, Drop
  <2> QED BY <1>2, <2>1
<1>7. CASE Mark
  <2>1. Small(live', live) /\ Small(deferred', deferred) /\ Small(named', named)
    BY <1>7 DEF Small, Mark, Onward
  <2> QED BY <1>2, <2>1
<1>8. CASE Rebuilt
  <2>1. Small(live', named) /\ Small(deferred', deferred) /\ Small(named', named)
    BY <1>8 DEF Small, Rebuilt
  <2> QED BY <1>2, <2>1
<1> QED BY <1>3, <1>4, <1>5, <1>6, <1>7, <1>8, StepKinds

\* Two live entries of one layer come from the rebuilt cache, and from a deferred
\* entry that is made live again next to another one: from nothing else.
OneLive == {"rebuilt", "twice"} \cap hurt = {} => \A c, d \in live : SameLayer(c, d) => c = d

LEMMA OneLiveStep == OneLive /\ TodoInv /\ [Next]_vars => OneLive'
<1> SUFFICES ASSUME OneLive, TodoInv, [Next]_vars, {"rebuilt", "twice"} \cap hurt' = {},
                    NEW c \in live', NEW d \in live', SameLayer(c, d)
             PROVE  c = d
  BY DEF OneLive, SameLayer
<1>1. ASSUME {"rebuilt", "twice"} \cap hurt = {}, c \in live, d \in live PROVE c = d
  BY <1>1 DEF OneLive
<1>2. CASE Aside
  BY <1>1, <1>2, AsideEntries DEF Entries, Lasting
<1>3. CASE InstallModule
  <2>1. CASE UNCHANGED <<Entries, hurt>>
    BY <1>1, <2>1 DEF Entries
  <2>2. CASE ~UNCHANGED <<Entries, hurt>>
    <3>1. PICK e \in deferred : SameLayer(e, Arg) /\ live' = live \cup {e}
      BY <1>3, <2>2, InstallEntries
    <3>2. hurt' = IF \E x \in live : SameLayer(x, Arg) THEN hurt \cup {"twice"} ELSE hurt
      BY <1>3, <2>2, InstallEntries
    <3>3. \A x \in live : ~SameLayer(x, Arg)
      BY <3>2
    <3>4. \A x \in live : ~SameLayer(x, e) /\ ~SameLayer(e, x)
      BY <3>1, <3>3 DEF SameLayer
    <3> QED BY <1>1, <3>1, <3>2, <3>3, <3>4
  <2> QED BY <2>1, <2>2
<1>4. CASE SetRef \/ Clear \/ Checkout \/ Unref
  BY <1>1, <1>4 DEF SetRef, Clear, Checkout, Unref, Onward
<1>5. CASE Upsert
  <2>1. live' = {x \in live : ~SameLayer(x, Arg)} \cup {Arg}
        /\ {"rebuilt", "twice"} \cap hurt = {}
    BY <1>5 DEF Upsert
  <2>2. ASSUME NEW x, NEW y, SameLayer(x, y) PROVE SameLayer(y, x)
    BY <2>2 DEF SameLayer
  <2> QED BY <1>1, <2>1, <2>2
<1>6. CASE Mark \/ Drop
  BY <1>1, <1>6 DEF Mark, Drop, Onward
<1>7. CASE Clean \/ Crash
  BY <1>1, <1>7 DEF Clean, Crash, repo
<1>8. CASE Rebuilt
  BY <1>8 DEF Rebuilt
<1> QED BY <1>2, <1>3, <1>4, <1>5, <1>6, <1>7, <1>8, StepKinds

\* Only what is cleared goes.
LEMMA SparesStep ==
    TodoInv /\ [Next]_vars => [who = "gc" => \A k \in recorded : use[k] \cap dirs \subseteq dirs']_vars
<1> SUFFICES ASSUME TodoInv, [Next]_vars, who = "gc", NEW k \in recorded
             PROVE  use[k] \cap dirs \subseteq dirs'
  OBVIOUS
<1>1. CASE Aside
  BY <1>1, AsideEntries DEF Entries
<1>2. CASE InstallModule
  BY <1>2, InstallEntries DEF Entries
<1>3. CASE SetRef \/ Checkout \/ Unref \/ Mark
  BY <1>3 DEF SetRef, Checkout, Unref, Mark
<1>4. CASE Upsert \/ Drop \/ Clean \/ Crash \/ Rebuilt
  BY <1>4 DEF Upsert, Drop, Clean, Crash, Rebuilt, repo
<1>5. CASE Clear
  <2>1. Kind(1) = "clear" /\ Arg = This /\ Len(todo) \in Nat \ {0} /\ dirs' = dirs \ {Arg}
    BY <1>5, Next1 DEF Clear, TodoInv
  <2>2. ~Busy(Arg.ref)
    BY <2>1 DEF TodoInv, GcInv, This
  <2>3. Arg \notin use[k]
    BY <2>2 DEF Busy
  <2> QED BY <2>1, <2>3
<1> QED BY <1>1, <1>2, <1>3, <1>4, <1>5, StepKinds

-----------------------------------------------------------------------------
(* The theorems.                                                           *)

LEMMA InitInv == Init => LayersInv /\ OneLive
<1> SUFFICES ASSUME Init PROVE LayersInv /\ OneLive
  OBVIOUS
<1>1. IsSeq(<<>>) /\ Len(<<>>) = 0
  BY MadeNone DEF Made
<1>2. ShapeInv /\ SweepInv /\ HolderInv
  BY <1>1 DEF Init, ShapeInv, After, SweepInv, HolderInv
<1>3. GcInv
  BY DEF Init, GcInv
<1>4. FilesThere /\ HaveInv /\ OneLive
  BY DEF Init, FilesThere, HaveInv, OneLive
<1>5. FiniteInv
  BY FS_EmptySet DEF Init, FiniteInv
<1> QED BY <1>1, <1>2, <1>3, <1>4, <1>5 DEF Init, LayersInv, TodoInv

\* The updates an operation has still to make come in an order that leaves the
\* entries whole wherever it is cut off: an import sets the ref and writes the
\* checkout before upsert_layer writes the entry, remove_layer_item drops the
\* entry before the checkout, and clean takes what no entry needs.
THEOREM LayersInvHolds == Spec => []LayersInv
<1>1. Init => LayersInv
  BY InitInv
<1>2. LayersInv /\ [Next]_vars => LayersInv'
  BY TodoStep, FilesStep, HaveStep, FiniteStep DEF LayersInv
<1> QED BY <1>1, <1>2, PTL DEF Spec

\* Every installed and every deferred layer has its files, between the updates
\* of an operation, after one of them failed and after a crash, but for what
\* FilesThere excuses; and its objects between operations, but for what
\* Complete excuses: whatever is installed, updated, removed, pruned and run.
THEOREM LayersWholeHolds == Spec => []LayersWhole
<1>1. LayersInv => LayersWhole
  <2> SUFFICES ASSUME LayersInv PROVE Complete
    BY DEF LayersInv, LayersWhole
  <2>1. who = "none" => ~Due("drop")
    BY DEF LayersInv, TodoInv, HolderInv, Due
  <2> QED BY <2>1 DEF Complete, Idle, LayersInv, HaveInv
<1> QED BY <1>1, LayersInvHolds, PTL

\* upsert_layer leaves one live entry for a module of a reference, and no other
\* step adds one, but for the rebuilt cache and a deferred entry that comes back.
LEMMA OneLiveHolds == Spec => []OneLive
<1>1. Init => OneLive
  BY InitInv
<1>2. LayersInv /\ OneLive /\ [Next]_vars => OneLive'
  BY OneLiveStep DEF LayersInv
<1> QED BY <1>1, <1>2, LayersInvHolds, PTL DEF Spec

\* While the deferred uninstall loop has the mutex, no step of any process takes
\* a checkout that a container with a process state was set up from.
THEOREM GcSparesRecordedHolds == Spec => GcSparesRecorded
<1>1. LayersInv /\ [Next]_vars => [who = "gc" => \A k \in recorded : use[k] \cap dirs \subseteq dirs']_vars
  BY SparesStep DEF LayersInv
<1> QED BY <1>1, LayersInvHolds, PTL DEF Spec, GcSparesRecorded

-----------------------------------------------------------------------------
(* The desktop entries.                                                    *)

AppCommits == {c \in Commits : c.ref \in Apps}
Items(s)   == {s[i] : i \in 1..Len(s)}

\* What an update links, unlinks, and takes away.
Links(e, c)  == e[1] = "export" /\ e[2] = c.ref /\ c.module \in e[3]
Covers(e, c) == e[1] = "unexport" /\ e[2] = c.ref /\ c.module \in e[3]
Takes(e, c)  == \/ e[1] \in {"retire", "remove_all"} /\ e[2] = c.ref
                \/ e[1] \in {"mark", "remove"} /\ e[2] = c.ref /\ e[3] = c.module
                \/ e[1] \in {"unimport", "discard", "drop"} /\ e[2] = c

Unlinked(s, i, c) == \E j \in 1..(i - 1) : Covers(s[j], c) /\ \A k \in (j + 1)..(i - 1) : ~Links(s[k], c)
NoLinks(s, n, c)  == \A k \in 1..n : ~Links(s[k], c)

\* Nothing is taken away before it is unlinked.
Orderly(s) == \A i \in 1..Len(s) : \A c \in AppCommits : Takes(s[i], c) => Unlinked(s, i, c)
OrderlyInv ==
    /\ exported \subseteq live
    /\ \A i \in 1..Len(todo) : \A c \in AppCommits :
           Takes(todo[i], c) => Unlinked(todo, i, c) \/ (c \notin exported /\ NoLinks(todo, i - 1, c))

\* The arguments of an update.
Pulls == {"install", "import", "ref", "checkout", "upsert"}
Fit(e) == /\ e[1] \in Pulls => e[2] \in Commits
          /\ e[1] \in {"export", "update"} => e[2] \in Apps
ArgsInv == /\ live \cup deferred \cup named \subseteq Commits /\ exported \subseteq AppCommits
           /\ live \cap deferred = {}
           /\ \A e \in Items(todo) : Fit(e)

LEMMA ItemsConcat ==
    ASSUME NEW s, NEW t, IsSeq(s), IsSeq(t)
    PROVE  Items(s \o t) = Items(s) \cup Items(t)
<1> USE DEF Items
<1>1. ASSUME NEW i \in 1..Len(s \o t) PROVE (s \o t)[i] \in Items(s) \cup Items(t)
  <2>1. CASE i \in 1..Len(s)
    BY <2>1, Concat
  <2>2. CASE i \notin 1..Len(s)
    <3>1. i - Len(s) \in 1..Len(t) /\ i \in (Len(s) + 1)..(Len(s) + Len(t))
      BY <2>2, Concat
    <3> QED BY <3>1, Concat
  <2> QED BY <2>1, <2>2
<1>2. ASSUME NEW i \in 1..Len(s) PROVE s[i] \in Items(s \o t)
  <2>1. i \in 1..Len(s \o t) /\ (s \o t)[i] = s[i]
    BY Concat
  <2> QED BY <2>1
<1>3. ASSUME NEW i \in 1..Len(t) PROVE t[i] \in Items(s \o t)
  <2>1. i + Len(s) \in 1..Len(s \o t) /\ (s \o t)[i + Len(s)] = t[i]
    <3>1. i + Len(s) \in (Len(s) + 1)..(Len(s) + Len(t)) /\ i + Len(s) - Len(s) = i
      BY Concat
    <3> QED BY <3>1, Concat
  <2> QED BY <2>1
<1> QED BY <1>1, <1>2, <1>3

LEMMA ItemsTail ==
    ASSUME NEW s, IsSeq(s), s # <<>>
    PROVE  Items(Tail(s)) \subseteq Items(s) /\ Head(s) \in Items(s)
<1>1. ASSUME NEW i \in 1..Len(Tail(s)) PROVE Tail(s)[i] \in Items(s)
  <2>1. i + 1 \in 1..Len(s) /\ Tail(s)[i] = s[i + 1]
    BY Rests
  <2> QED BY <2>1 DEF Items
<1>2. 1 \in 1..Len(s) /\ Head(s) = s[1]
  BY Rests
<1> QED BY <1>1, <1>2 DEF Items

LEMMA ItemsGo ==
    ASSUME NEW s, IsSeq(s), IsSeq(todo), todo # <<>>, todo' = s \o Tail(todo)
    PROVE  Items(todo') \subseteq Items(s) \cup Items(todo)
<1>1. IsSeq(Tail(todo)) /\ Items(Tail(todo)) \subseteq Items(todo)
  BY Rests, ItemsTail
<1> QED BY <1>1, ItemsConcat

\* Literal lists.
LEMMA ItemsNone == IsSeq(<<>>) /\ Items(<<>>) = {} /\ Len(<<>>) = 0
BY MadeNone DEF Made, Items

LEMMA ItemsOne ==
    ASSUME NEW e
    PROVE  IsSeq(<<e>>) /\ Items(<<e>>) = {e} /\ Len(<<e>>) = 1 /\ <<e>>[1] = e
<1> DEFINE s == <<e>>
<1>1. s \in Seq({e}) /\ Len(s) = 1 /\ s[1] = e
  OBVIOUS
<1> HIDE DEF s
<1>2. (\A i \in 1..1 : i = 1) /\ 1 \in 1..1
  OBVIOUS
<1>3. IsSeq(s)
  BY <1>1 DEF IsSeq
<1>4. Items(s) = {e}
  BY <1>1, <1>2 DEF Items
<1> QED BY <1>1, <1>3, <1>4 DEF s

LEMMA ItemsTwo ==
    ASSUME NEW e, NEW f
    PROVE  /\ IsSeq(<<e, f>>) /\ Items(<<e, f>>) = {e, f} /\ Len(<<e, f>>) = 2
           /\ <<e, f>>[1] = e /\ <<e, f>>[2] = f
<1>1. <<e, f>> \in Seq({e, f}) /\ Len(<<e, f>>) = 2 /\ <<e, f>>[1] = e /\ <<e, f>>[2] = f
  OBVIOUS
<1>2. \A i \in 1..2 : i = 1 \/ i = 2
  OBVIOUS
<1>3. 1 \in 1..2 /\ 2 \in 1..2
  OBVIOUS
<1>4. IsSeq(<<e, f>>)
  BY <1>1 DEF IsSeq
<1> QED BY <1>1, <1>2, <1>3, <1>4 DEF Items

LEMMA ItemsThree ==
    ASSUME NEW e, NEW f, NEW g
    PROVE  /\ IsSeq(<<e, f, g>>) /\ Items(<<e, f, g>>) = {e, f, g} /\ Len(<<e, f, g>>) = 3
           /\ <<e, f, g>>[1] = e /\ <<e, f, g>>[2] = f /\ <<e, f, g>>[3] = g
<1> DEFINE s == <<e, f, g>>
<1>1. s \in Seq({e, f, g}) /\ Len(s) = 3 /\ s[1] = e /\ s[2] = f /\ s[3] = g
  OBVIOUS
<1> HIDE DEF s
<1>2. \A i \in 1..3 : i = 1 \/ i = 2 \/ i = 3
  OBVIOUS
<1>3. 1 \in 1..3 /\ 2 \in 1..3 /\ 3 \in 1..3
  OBVIOUS
<1>4. IsSeq(s)
  BY <1>1 DEF IsSeq
<1>5. Items(s) = {e, f, g}
  BY <1>1, <1>2, <1>3 DEF Items
<1> QED BY <1>1, <1>4, <1>5 DEF s

LEMMA ItemsFour ==
    ASSUME NEW e, NEW f, NEW g, NEW h
    PROVE  /\ IsSeq(<<e, f, g, h>>) /\ Items(<<e, f, g, h>>) = {e, f, g, h} /\ Len(<<e, f, g, h>>) = 4
           /\ <<e, f, g, h>>[1] = e /\ <<e, f, g, h>>[2] = f /\ <<e, f, g, h>>[3] = g /\ <<e, f, g, h>>[4] = h
<1> DEFINE s == <<e, f, g, h>>
<1>1. s \in Seq({e, f, g, h}) /\ Len(s) = 4 /\ s[1] = e /\ s[2] = f /\ s[3] = g /\ s[4] = h
  OBVIOUS
<1> HIDE DEF s
<1>2. \A i \in 1..4 : i = 1 \/ i = 2 \/ i = 3 \/ i = 4
  OBVIOUS
<1>3. 1 \in 1..4 /\ 2 \in 1..4 /\ 3 \in 1..4 /\ 4 \in 1..4
  OBVIOUS
<1>4. IsSeq(s)
  BY <1>1 DEF IsSeq
<1>5. Items(s) = {e, f, g, h}
  BY <1>1, <1>2, <1>3 DEF Items
<1> QED BY <1>1, <1>4, <1>5 DEF s

\* A list with one update for each number.
Table(s, n) == /\ IsSeq(s) /\ Len(s) = n /\ \A i \in 1..n : s[i] \in Items(s)
               /\ \A e \in Items(s) : \E i \in 1..n : e = s[i]

LEMMA Tabled ==
    ASSUME NEW s, NEW n \in Nat, s = [i \in 1..n |-> s[i]]
    PROVE  Table(s, n)
<1>1. s \in Seq({s[i] : i \in 1..n}) /\ Len(s) = n
  OBVIOUS
<1> QED BY <1>1 DEF IsSeq, Items, Table

LEMMA EachIs ==
    ASSUME NEW do, NEW s, IsSeq(s)
    PROVE  /\ IsSeq(Each(do, s)) /\ Len(Each(do, s)) = Len(s) /\ Len(s) \in Nat
           /\ \A i \in 1..Len(s) : Each(do, s)[i] = <<do, s[i]>>
           /\ \A e \in Items(Each(do, s)) : \E x \in Items(s) : e = <<do, x>>
<1>1. PICK S : s \in Seq(S)
  BY DEF IsSeq
<1>2. /\ IsSeq(Each(do, s)) /\ Len(Each(do, s)) = Len(s) /\ Len(s) \in Nat
      /\ \A i \in 1..Len(s) : Each(do, s)[i] = <<do, s[i]>>
  BY <1>1, MadeEach DEF Made
<1> QED BY <1>2 DEF Items

LEMMA ItemsEach ==
    ASSUME NEW do, NEW S, IsFiniteSet(S)
    PROVE  /\ IsSeq(Each(do, SetToSeq(S))) /\ \A e \in Items(Each(do, SetToSeq(S))) : \E x \in S : e = <<do, x>>
<1>1. SetToSeq(S) \in Seq(S)
  BY Listed
<1> DEFINE q == SetToSeq(S)
<1> HIDE DEF q
<1>2. Made(Each(do, q), {do}) /\ Len(Each(do, q)) = Len(q) /\ \A i \in 1..Len(q) : Each(do, q)[i] = <<do, q[i]>> /\ q[i] \in S
  BY <1>1, MadeEach DEF q
<1>3. \A e \in Items(Each(do, q)) : \E x \in S : e = <<do, x>>
  BY <1>2 DEF Items
<1> QED BY <1>2, <1>3 DEF Made, q

LEMMA ItemsPlan ==
    ASSUME NEW r, NEW M
    PROVE  /\ IsSeq(Plan(r, M))
           /\ \A e \in Items(Plan(r, M)) :
                  \E c \in Remote : e = <<"install", c>> /\ c.ref = r /\ c.module \in M
<1> DEFINE ms == InOrder({m \in M : Found(Remote, r, m) # {}})
           s  == Plan(r, M)
<1>1. Len(ms) \in Nat
  BY MadeInOrder
<1>2. s = [i \in 1..Len(ms) |-> <<"install", CHOOSE c \in Found(Remote, r, ms[i]) : TRUE>>]
  BY DEF Plan
<1>3. \A i \in 1..Len(ms) : ms[i] \in {m \in M : Found(Remote, r, m) # {}}
  <2> DEFINE N == {m \in M : Found(Remote, r, m) # {}}
             b == IF "binary" \in N THEN <<"binary">> ELSE <<>>
             d == IF "develop" \in N THEN <<"develop">> ELSE <<>>
  <2>1. b \in Seq(N) /\ d \in Seq(N)
    <3> HIDE DEF N
    <3>1. /\ <<>> \in Seq(N) /\ ("binary" \in N => <<"binary">> \in Seq(N))
          /\ ("develop" \in N => <<"develop">> \in Seq(N))
      OBVIOUS
    <3> QED BY <3>1
  <2> HIDE DEF b, d, N
  <2>2. b \o d \in Seq(N)
    BY <2>1
  <2>3. ms = b \o d
    BY DEF InOrder, N, b, d
  <2>4. ms \in Seq(N)
    BY <2>2, <2>3
  <2> HIDE DEF ms
  <2>5. \A i \in 1..Len(ms) : ms[i] \in N
    BY <2>4
  <2> QED BY <2>5 DEF N
<1> HIDE DEF ms, s
<1>4. IsSeq(s) /\ \A e \in Items(s) : \E i \in 1..Len(ms) : e = s[i]
  <2> DEFINE n == Len(ms)
  <2>1. n \in Nat /\ s = [i \in 1..n |-> s[i]]
    BY <1>1, <1>2
  <2> HIDE DEF n
  <2>2. Table(s, n)
    BY <2>1, Tabled
  <2> QED BY <2>2 DEF Table, n
<1>5. ASSUME NEW i \in 1..Len(ms) PROVE \E c \in Remote : s[i] = <<"install", c>> /\ c.ref = r /\ c.module \in M
  <2>1. ms[i] \in M /\ Found(Remote, r, ms[i]) # {}
    BY <1>3
  <2>2. PICK c : c \in Found(Remote, r, ms[i]) /\ c = CHOOSE d \in Found(Remote, r, ms[i]) : TRUE
    BY <2>1
  <2>3. s[i] = <<"install", c>>
    BY <1>2, <2>2
  <2> QED BY <2>1, <2>2, <2>3 DEF Found
<1>6. \A e \in Items(s) : \E c \in Remote : e = <<"install", c>> /\ c.ref = r /\ c.module \in M
  BY <1>4, <1>5
<1> QED BY <1>4, <1>6 DEF s

\* The newest of some references is one of them.
LEMMA Latest ==
    ASSUME NEW S \in SUBSET Refs, S # {}
    PROVE  Newest(S) \in S /\ \A s \in S : s.version <= Newest(S).version
<1> DEFINE Above(k) == {j \in Refs : k.version <= j.version}
           T == {Above(k) : k \in S}
<1>1. IsFiniteSet(Refs) /\ \A r \in Refs : r.version \in Nat
  BY Mapped, CommitAssumption DEF Refs
<1>2. IsWellFoundedOn(StrictSubsetOrdering(Refs), FiniteSubsetsOf(Refs))
  BY <1>1, FS_StrictSubsetOrderingWellFounded
<1>3. T \subseteq FiniteSubsetsOf(Refs) /\ T # {}
  <2>1. FiniteSubsetsOf(Refs) = SUBSET Refs
    BY <1>1, FS_FiniteSubsetsOfFinite
  <2>2. \A k \in S : Above(k) \in SUBSET Refs
    OBVIOUS
  <2>3. PICK k \in S : TRUE
    OBVIOUS
  <2> HIDE DEF Above
  <2> QED BY <2>1, <2>2, <2>3
<1>4. \E x \in T : \A y \in T : ~ (<<y, x>> \in StrictSubsetOrdering(Refs))
  <2> HIDE DEF T
  <2> QED BY <1>2, <1>3, WFMin
<1>5. PICK k \in S : \A j \in S : ~ (<<Above(j), Above(k)>> \in StrictSubsetOrdering(Refs))
  BY <1>4
<1>6. ASSUME NEW j \in S, ~ j.version <= k.version PROVE FALSE
  <2>1. j.version \in Nat /\ k.version \in Nat
    BY <1>1
  <2>2. \A i \in Refs : i.version \in Nat
    BY <1>1
  <2>3. Above(j) \subseteq Above(k)
    BY <1>6, <2>1, <2>2
  <2>4. k \in Above(k) /\ k \notin Above(j)
    BY <1>6, <2>1
  <2>5. <<Above(j), Above(k)>> \in StrictSubsetOrdering(Refs)
    BY <2>3, <2>4 DEF StrictSubsetOrdering
  <2> QED BY <1>5, <2>5
<1>7. \E r \in S : \A s \in S : s.version <= r.version
  BY <1>6
<1> QED BY <1>7 DEF Newest

LEMMA References ==
    /\ Installed \subseteq Refs /\ \A id : Offers(id) \subseteq Refs /\ OfId(id) \subseteq Installed
    /\ \A id : \A r \in OfId(id) \cup Offers(id) : r.id = id
    /\ \A r \in Refs : r \in Apps <=> r.id \in AppIds
BY KindAssumption, CommitAssumption DEF Installed, Offers, OfId, Refs, Mains, Remote, AppIds


Takers == {"retire", "remove_all", "mark", "remove", "unimport", "discard", "drop"}

LEMMA OrderlyFree ==
    ASSUME NEW s, \A e \in Items(s) : e[1] \notin Takers
    PROVE  Orderly(s)
BY DEF Orderly, Items, Takes, Takers

\* A list begins as its first part does, and goes on as the second one, shifted.
LEMMA UnlinkedFirst ==
    ASSUME NEW s, NEW t, IsSeq(s), IsSeq(t), NEW i \in 1..Len(s), NEW c, Unlinked(s, i, c)
    PROVE  Unlinked(s \o t, i, c)
<1>1. PICK j \in 1..(i - 1) : Covers(s[j], c) /\ \A k \in (j + 1)..(i - 1) : ~Links(s[k], c)
  BY DEF Unlinked
<1>2. Len(s) \in Nat /\ \A k \in 1..(i - 1) : k \in 1..Len(s) /\ (s \o t)[k] = s[k]
  BY Concat
<1>3. \A k \in (j + 1)..(i - 1) : k \in 1..(i - 1)
  BY <1>1
<1> QED BY <1>1, <1>2, <1>3 DEF Unlinked

LEMMA UnlinkedLast ==
    ASSUME NEW s, NEW t, IsSeq(s), IsSeq(t), NEW i \in 1..Len(t), NEW c, Unlinked(t, i, c)
    PROVE  Unlinked(s \o t, i + Len(s), c)
<1> DEFINE n == Len(s)
           u == s \o t
           m == Len(t)
<1>1. PICK j \in 1..(i - 1) : Covers(t[j], c) /\ \A k \in (j + 1)..(i - 1) : ~Links(t[k], c)
  BY DEF Unlinked
<1>2. n \in Nat /\ m \in Nat /\ \A k \in (n + 1)..(n + m) : u[k] = t[k - n]
  BY Concat
<1>3. i \in 1..m
  OBVIOUS
<1> HIDE DEF n, u, m
<1>4. j + n \in 1..(i + n - 1) /\ u[j + n] = t[j]
  <2>1. j + n \in (n + 1)..(n + m) /\ j + n - n = j
    BY <1>2, <1>3
  <2> QED BY <1>2, <1>3, <2>1
<1>5. ASSUME NEW k \in (j + n + 1)..(i + n - 1) PROVE ~Links(u[k], c)
  <2>1. k - n \in (j + 1)..(i - 1) /\ k \in (n + 1)..(n + m)
    BY <1>2, <1>3
  <2>2. u[k] = t[k - n]
    BY <1>2, <2>1
  <2> QED BY <1>1, <2>1, <2>2
<1>6. Covers(u[j + n], c)
  BY <1>1, <1>4
<1>7. Unlinked(u, i + n, c)
  BY <1>2, <1>3, <1>4, <1>5, <1>6 DEF Unlinked
<1> QED BY <1>7 DEF n, u

LEMMA OrderlyConcat ==
    ASSUME NEW s, NEW t, IsSeq(s), IsSeq(t), Orderly(s), Orderly(t)
    PROVE  Orderly(s \o t)
<1> SUFFICES ASSUME NEW i \in 1..Len(s \o t), NEW c \in AppCommits, Takes((s \o t)[i], c)
             PROVE  Unlinked(s \o t, i, c)
  BY DEF Orderly
<1>1. CASE i \in 1..Len(s)
  BY <1>1, Concat, UnlinkedFirst DEF Orderly
<1>2. CASE i \notin 1..Len(s)
  <2>1. i - Len(s) \in 1..Len(t) /\ i \in (Len(s) + 1)..(Len(s) + Len(t)) /\ (i - Len(s)) + Len(s) = i
    BY <1>2, Concat
  <2>2. Takes(t[i - Len(s)], c)
    BY <2>1, Concat
  <2>3. Unlinked(t, i - Len(s), c)
    BY <2>1, <2>2 DEF Orderly
  <2>4. Unlinked(s \o t, (i - Len(s)) + Len(s), c)
    BY <2>1, <2>3, UnlinkedLast
  <2> QED BY <2>1, <2>4
<1> QED BY <1>1, <1>2

LEMMA OrderlyPair ==
    ASSUME NEW e, NEW f, \A c \in AppCommits : ~Takes(e, c) /\ (Takes(f, c) => Covers(e, c))
    PROVE  Orderly(<<e, f>>)
<1> DEFINE s == <<e, f>>
<1>1. Len(s) = 2 /\ s[1] = e /\ s[2] = f
  BY ItemsTwo
<1> HIDE DEF s
<1> SUFFICES ASSUME NEW i \in 1..Len(s), NEW c \in AppCommits, Takes(s[i], c)
             PROVE  Unlinked(s, i, c)
  BY DEF Orderly, s
<1>2. i = 2 /\ Covers(s[1], c)
  <2>1. i = 1 \/ i = 2
    BY <1>1
  <2> QED BY <1>1, <2>1
<1>3. 1 \in 1..(2 - 1) /\ \A k \in (1 + 1)..(2 - 1) : FALSE
  OBVIOUS
<1> QED BY <1>2, <1>3 DEF Unlinked

LEMMA OrderlyOne ==
    ASSUME NEW e, \A c \in AppCommits : ~Takes(e, c)
    PROVE  Orderly(<<e>>)
<1>1. Items(<<e>>) = {e}
  BY ItemsOne
<1> QED BY <1>1 DEF Orderly, Items

Both == {"binary", "develop"}

LEMMA OrderlyLists ==
    /\ Orderly(<<>>) /\ Orderly(Merging) /\ Orderly(PruneAfter) /\ Orderly(<<<<"prune">>>>)
    /\ \A r, M : Orderly(Plan(r, M))
    /\ \A r : Orderly(MissingBase(r)) /\ Orderly(EnsureBase(r))
    /\ \A r, M : Orderly(<<<<"export", r, M>>>>) /\ Orderly(<<<<"unexport", r, M>>>>)
    /\ \A r : /\ Orderly(<<<<"unexport", r, Both>>, <<"retire", r>>>>)
              /\ Orderly(<<<<"unexport", r, Both>>, <<"remove_all", r>>>>)
    /\ \A r, m : Orderly(<<<<"unexport", r, {m}>>, <<"remove", r, m>>>>)
    /\ \A r \in Refs \ Apps : Orderly(<<<<"retire", r>>>>) /\ Orderly(<<<<"remove_all", r>>>>)
<1>1. Orderly(<<>>)
  BY ItemsNone DEF Orderly
<1>2. Orderly(Merging) /\ Orderly(PruneAfter) /\ Orderly(<<<<"prune">>>>)
  BY OrderlyOne DEF Merging, PruneAfter, Takes
<1>3. \A r, M : Orderly(Plan(r, M))
  BY ItemsPlan, OrderlyFree DEF Takers
<1>4. \A r, M : Orderly(<<<<"export", r, M>>>>) /\ Orderly(<<<<"unexport", r, M>>>>)
  BY OrderlyOne DEF Takes
<1>5. \A r : Orderly(MissingBase(r)) /\ Orderly(EnsureBase(r))
  <2>1. IsSeq(Merging) /\ IsSeq(<<>>)
    BY ItemsOne, ItemsNone DEF Merging
  <2> QED BY <1>1, <1>2, <1>3, <2>1, ItemsPlan, OrderlyConcat DEF MissingBase, EnsureBase
<1>6. ASSUME NEW r PROVE /\ Orderly(<<<<"unexport", r, Both>>, <<"retire", r>>>>)
                         /\ Orderly(<<<<"unexport", r, Both>>, <<"remove_all", r>>>>)
  <2>1. \A c \in AppCommits : c.module \in Both
    BY KindAssumption DEF AppCommits, Both
  <2> DEFINE u == <<"unexport", r, Both>>
             v == <<"retire", r>>
             w == <<"remove_all", r>>
  <2>2. \A c \in AppCommits : /\ ~Takes(u, c)
                              /\ Takes(v, c) \/ Takes(w, c) => Covers(u, c)
    BY <2>1 DEF Takes, Covers
  <2> HIDE DEF u, v, w
  <2>3. Orderly(<<u, v>>) /\ Orderly(<<u, w>>)
    BY <2>2, OrderlyPair
  <2> QED BY <2>3 DEF u, v, w
<1>7. ASSUME NEW r, NEW m PROVE Orderly(<<<<"unexport", r, {m}>>, <<"remove", r, m>>>>)
  <2> DEFINE u == <<"unexport", r, {m}>>
             v == <<"remove", r, m>>
  <2>1. \A c \in AppCommits : ~Takes(u, c) /\ (Takes(v, c) => Covers(u, c))
    BY DEF Takes, Covers
  <2> HIDE DEF u, v
  <2>2. Orderly(<<u, v>>)
    BY <2>1, OrderlyPair
  <2> QED BY <2>2 DEF u, v
<1>8. ASSUME NEW r \in Refs \ Apps PROVE Orderly(<<<<"retire", r>>>>) /\ Orderly(<<<<"remove_all", r>>>>)
  BY OrderlyOne DEF Takes, AppCommits
<1> QED BY <1>1, <1>2, <1>3, <1>4, <1>5, <1>6, <1>7, <1>8

\* The arguments of what is planned.
FitAll(s) == IsSeq(s) /\ \A e \in Items(s) : Fit(e)
Sound(s)  == FitAll(s) /\ Orderly(s)

LEMMA SoundConcat ==
    ASSUME NEW s, NEW t, Sound(s), Sound(t)
    PROVE  Sound(s \o t)
<1>1. IsSeq(s) /\ IsSeq(t) /\ IsSeq(s \o t) /\ Items(s \o t) = Items(s) \cup Items(t)
  BY ItemsConcat, Concat DEF Sound, FitAll
<1>2. Orderly(s \o t)
  BY <1>1, OrderlyConcat DEF Sound
<1> QED BY <1>1, <1>2 DEF Sound, FitAll

LEMMA SoundOne ==
    ASSUME NEW e, Fit(e), Orderly(<<e>>)
    PROVE  Sound(<<e>>)
BY ItemsOne DEF Sound, FitAll

LEMMA SoundTwo ==
    ASSUME NEW e, NEW f, Fit(e), Fit(f), Orderly(<<e, f>>)
    PROVE  Sound(<<e, f>>)
BY ItemsTwo DEF Sound, FitAll

LEMMA SoundLists ==
    /\ Sound(<<>>) /\ Sound(Merging) /\ Sound(PruneAfter) /\ Sound(<<<<"prune">>>>)
    /\ \A r, M : Sound(Plan(r, M))
    /\ \A r : Sound(MissingBase(r)) /\ Sound(EnsureBase(r))
    /\ \A r \in Apps : \A M : Sound(<<<<"export", r, M>>>>)
    /\ \A r, M : Sound(<<<<"unexport", r, M>>>>)
    /\ \A r : /\ Sound(<<<<"unexport", r, Both>>, <<"retire", r>>>>)
              /\ Sound(<<<<"unexport", r, Both>>, <<"remove_all", r>>>>)
    /\ \A r, m : Sound(<<<<"unexport", r, {m}>>, <<"remove", r, m>>>>)
    /\ \A r \in Refs \ Apps : Sound(<<<<"retire", r>>>>) /\ Sound(<<<<"remove_all", r>>>>)
    /\ \A a : Sound(<<<<"updated", a>>>>)
<1>0. /\ Fit(<<"merge">>) /\ Fit(<<"prune_after">>) /\ Fit(<<"prune">>)
      /\ \A r \in Apps : \A M : Fit(<<"export", r, M>>)
      /\ \A r, M : Fit(<<"unexport", r, M>>) /\ Fit(<<"remove", r, M>>)
      /\ \A r : Fit(<<"retire", r>>) /\ Fit(<<"remove_all", r>>) /\ Fit(<<"updated", r>>)
      /\ \A c \in Commits : Fit(<<"install", c>>)
  BY DEF Fit, Pulls
<1>1. Sound(<<>>)
  BY ItemsNone, OrderlyLists DEF Sound, FitAll
<1>2. Sound(Merging) /\ Sound(PruneAfter) /\ Sound(<<<<"prune">>>>)
  BY <1>0, SoundOne, OrderlyLists DEF Merging, PruneAfter
<1>3. \A r, M : Sound(Plan(r, M))
  BY <1>0, ItemsPlan, OrderlyLists DEF Remote, Sound, FitAll
<1>4. \A r \in Apps : \A M : Sound(<<<<"export", r, M>>>>)
  BY <1>0, SoundOne, OrderlyLists
<1>5. \A r, M : Sound(<<<<"unexport", r, M>>>>)
  BY <1>0, SoundOne, OrderlyLists
<1>6. \A r : /\ Sound(<<<<"unexport", r, Both>>, <<"retire", r>>>>)
             /\ Sound(<<<<"unexport", r, Both>>, <<"remove_all", r>>>>)
  BY <1>0, SoundTwo, OrderlyLists
<1>7. \A r, m : Sound(<<<<"unexport", r, {m}>>, <<"remove", r, m>>>>)
  BY <1>0, SoundTwo, OrderlyLists
<1>8. \A r \in Refs \ Apps : Sound(<<<<"retire", r>>>>) /\ Sound(<<<<"remove_all", r>>>>)
  BY <1>0, SoundOne, OrderlyLists
<1>9. \A a : Sound(<<<<"updated", a>>>>)
  <2>1. \A a : Orderly(<<<<"updated", a>>>>)
    BY OrderlyOne DEF Takes
  <2> QED BY <1>0, <2>1, SoundOne
<1>10. \A r : Sound(MissingBase(r)) /\ Sound(EnsureBase(r))
  BY <1>1, <1>2, <1>3, SoundConcat DEF MissingBase, EnsureBase
<1> QED BY <1>1, <1>2, <1>3, <1>4, <1>5, <1>6, <1>7, <1>8, <1>9, <1>10

LEMMA SoundReplace ==
    ASSUME NEW r \in Apps, NEW old, NEW after, Sound(after)
    PROVE  Sound(Replace(r, old, after))
BY SoundLists, SoundConcat DEF Replace, Both

LEMMA SoundEach ==
    ASSUME NEW do \in {"install", "import"}, NEW s, s \in Seq(Commits)
    PROVE  Sound(Each(do, s))
<1>1. Made(Each(do, s), {do}) /\ Len(Each(do, s)) = Len(s) /\ \A i \in 1..Len(s) : Each(do, s)[i] = <<do, s[i]>> /\ s[i] \in Commits
  BY MadeEach
<1>2. \A e \in Items(Each(do, s)) : e[1] = do /\ e[2] \in Commits
  BY <1>1 DEF Items
<1>3. Orderly(Each(do, s))
  BY <1>2, OrderlyFree DEF Takers
<1> QED BY <1>1, <1>2, <1>3 DEF Sound, FitAll, Fit, Made, Pulls


\* Everything is unlinked first.
LEMMA OrderlyBack ==
    ASSUME NEW s, NEW t, IsSeq(s), IsSeq(t),
           \A e \in Items(s) \cup Items(t) : e[1] # "export",
           \A e \in Items(s) : e[1] \notin Takers,
           \A e \in Items(t), c \in AppCommits : Takes(e, c) => \E d \in Items(s) : Covers(d, c)
    PROVE  Orderly(s \o t)
<1> DEFINE u == s \o t
           n == Len(s)
           m == Len(t)
<1>1. /\ n \in Nat /\ m \in Nat /\ Len(u) = n + m /\ Items(u) = Items(s) \cup Items(t)
      /\ \A k \in 1..n : u[k] = s[k]
      /\ \A k \in (n + 1)..(n + m) : u[k] = t[k - n]
  BY Concat, ItemsConcat
<1>2. Items(s) = {s[k] : k \in 1..n} /\ Items(t) = {t[k] : k \in 1..m} /\ Items(u) = {u[k] : k \in 1..(n + m)}
  BY <1>1 DEF Items
<1> HIDE DEF u, n, m
<1> SUFFICES ASSUME NEW i \in 1..(n + m), NEW c \in AppCommits, Takes(u[i], c)
             PROVE  Unlinked(u, i, c)
  BY <1>1 DEF Orderly, u
<1>3. i \in (n + 1)..(n + m)
  <2>1. i \in 1..n => u[i] \in Items(s)
    BY <1>1, <1>2
  <2>2. u[i][1] \in Takers
    BY DEF Takes, Takers
  <2> QED BY <1>1, <2>1, <2>2
<1>4. u[i] \in Items(t)
  <2>1. i - n \in 1..m /\ u[i] = t[i - n]
    BY <1>1, <1>3
  <2> QED BY <1>2, <2>1
<1>5. PICK j \in 1..n : Covers(s[j], c)
  BY <1>2, <1>4
<1>6. j \in 1..(i - 1) /\ Covers(u[j], c)
  BY <1>1, <1>3, <1>5
<1>7. \A k \in (j + 1)..(i - 1) : k \in 1..(n + m)
  BY <1>1, <1>3, <1>6
<1>8. \A k \in (j + 1)..(i - 1) : ~Links(u[k], c)
  BY <1>1, <1>2, <1>7 DEF Links
<1> QED BY <1>6, <1>8 DEF Unlinked

LEMMA BundleBack ==
    ASSUME FiniteInv, NEW L \in SUBSET Files, L # {}, NEW r \in Apps, \A c \in L : c.ref = r,
           NEW all, all = SetToSeq(L), NEW back,
           back = IF L \cap Mains # {} THEN <<<<"unexport", r, {"binary", "develop"}>>>>
                  ELSE [i \in DOMAIN all |-> <<"unexport", r, {all[i].module}>>]
    PROVE  Orderly(back \o Each("unimport", Reverse(all)) \o Merging)
<1>0. all \in Seq(L) /\ Len(all) \in Nat /\ DOMAIN all = 1..Len(all) /\ IsFiniteSet(L)
  BY Finite, Listed
<1>1. Reverse(all) \in Seq(L) /\ Len(Reverse(all)) = Len(all) /\ \A i \in 1..Len(all) : Reverse(all)[i] = all[Len(all) - i + 1]
  BY <1>0 DEF Reverse
<1> DEFINE rev == Reverse(all)
           imp == Each("unimport", rev)
<1> HIDE DEF rev
<1>2. IsSeq(imp) /\ \A e \in Items(imp) : e[1] = "unimport" /\ \E i \in 1..Len(all) : e[2] = all[i]
  <2>1. rev \in Seq(L) /\ Len(rev) = Len(all) /\ \A i \in 1..Len(all) : rev[i] = all[Len(all) - i + 1]
    BY <1>1 DEF rev
  <2>2. IsSeq(imp) /\ Len(imp) = Len(rev) /\ \A i \in 1..Len(rev) : imp[i] = <<"unimport", rev[i]>>
    <3>1. IsSeq(rev)
      BY <2>1 DEF IsSeq
    <3> QED BY <3>1, EachIs
  <2> HIDE DEF imp
  <2>3. ASSUME NEW i \in 1..Len(all) PROVE imp[i][1] = "unimport" /\ \E j \in 1..Len(all) : imp[i][2] = all[j]
    <3>1. Len(all) - i + 1 \in 1..Len(all)
      BY <1>0
    <3> QED BY <2>1, <2>2, <3>1
  <2> DEFINE n == Len(all)
  <2>4. \A e \in Items(imp) : \E i \in 1..n : e = imp[i]
    BY <2>1, <2>2 DEF Items
  <2>5. \A i \in 1..n : imp[i][1] = "unimport" /\ \E j \in 1..n : imp[i][2] = all[j]
    BY <2>3
  <2> HIDE DEF n
  <2>6. ASSUME NEW e \in Items(imp) PROVE e[1] = "unimport" /\ \E j \in 1..n : e[2] = all[j]
    <3>1. PICK i \in 1..n : e = imp[i]
      BY <2>4
    <3> QED BY <2>5, <3>1
  <2> QED BY <2>2, <2>6 DEF n
<1> HIDE DEF imp
<1>3. /\ IsSeq(back) /\ \A e \in Items(back) : e[1] = "unexport"
      /\ \A i \in 1..Len(all) : \E e \in Items(back) : Covers(e, all[i])
  <2>1. \A i \in 1..Len(all) : all[i] \in L /\ all[i].ref = r /\ all[i].module \in {"binary", "develop"}
    BY <1>0, KindAssumption DEF Files
  <2>2. CASE L \cap Mains # {}
    <3> DEFINE e == <<"unexport", r, {"binary", "develop"}>>
    <3>1. IsSeq(back) /\ Items(back) = {e}
      BY <2>2, ItemsOne
    <3>2. e[1] = "unexport" /\ \A i \in 1..Len(all) : Covers(e, all[i])
      BY <2>1 DEF Covers
    <3> QED BY <3>1, <3>2
  <2>3. CASE L \cap Mains = {}
    <3>1. back = [i \in 1..Len(all) |-> <<"unexport", r, {all[i].module}>>]
      BY <1>0, <2>3
    <3>2. back = [i \in 1..Len(all) |-> back[i]]
      BY <3>1
    <3> DEFINE n == Len(all)
    <3>3. n \in Nat /\ back = [i \in 1..n |-> back[i]]
      BY <1>0, <3>2
    <3> HIDE DEF n
    <3>4. Table(back, n)
      BY <3>3, Tabled
    <3>5. \A i \in 1..n : back[i][1] = "unexport" /\ Covers(back[i], all[i])
      <4>1. \A i \in 1..n : back[i] = <<"unexport", r, {all[i].module}>> /\ all[i].ref = r
        BY <2>1, <3>1 DEF n
      <4> SUFFICES ASSUME NEW i \in 1..n PROVE back[i][1] = "unexport" /\ Covers(back[i], all[i])
        OBVIOUS
      <4> DEFINE e == <<"unexport", r, {all[i].module}>>
      <4>2. e[1] = "unexport" /\ e[2] = r /\ e[3] = {all[i].module}
        OBVIOUS
      <4> HIDE DEF e
      <4>3. back[i] = e
        BY <4>1 DEF e
      <4> QED BY <4>1, <4>2, <4>3 DEF Covers
    <3>6. (\A e \in Items(back) : e[1] = "unexport") /\ \A i \in 1..n : \E e \in Items(back) : Covers(e, all[i])
      <4>1. \A i \in 1..n : back[i] \in Items(back)
        BY <3>4 DEF Table
      <4>2. ASSUME NEW e \in Items(back) PROVE e[1] = "unexport"
        <5>1. PICK i \in 1..n : e = back[i]
          BY <3>4 DEF Table
        <5> QED BY <3>5, <5>1
      <4> QED BY <3>5, <4>1, <4>2
    <3> QED BY <3>4, <3>6 DEF n, Table
  <2> QED BY <2>2, <2>3
<1>4. Orderly(back \o imp)
  <2>1. \A e \in Items(imp), c \in AppCommits : Takes(e, c) => \E d \in Items(back) : Covers(d, c)
    <3> SUFFICES ASSUME NEW e \in Items(imp), NEW c \in AppCommits, Takes(e, c)
                 PROVE  \E d \in Items(back) : Covers(d, c)
      OBVIOUS
    <3>1. PICK i \in 1..Len(all) : e[1] = "unimport" /\ e[2] = all[i]
      BY <1>2
    <3>2. c = all[i]
      BY <3>1 DEF Takes
    <3> QED BY <1>3, <3>2
  <2> QED BY <1>2, <1>3, <2>1, OrderlyBack DEF Takers
<1>5. IsSeq(back \o imp) /\ IsSeq(Merging)
  BY <1>2, <1>3, Concat, ItemsOne DEF Merging
<1> QED BY <1>4, <1>5, OrderlyConcat, OrderlyLists DEF imp, rev

LEMMA BundleLinks ==
    ASSUME FiniteInv, NEW L \in SUBSET Files, NEW r \in Apps,
           NEW all, all = SetToSeq(L), NEW link,
           link = [i \in DOMAIN all |-> <<"export", r, {all[i].module}>>]
    PROVE  Sound(link)
<1>0. all \in Seq(L) /\ Len(all) \in Nat /\ DOMAIN all = 1..Len(all) /\ IsFiniteSet(L)
  BY Finite, Listed
<1>1. link = [i \in 1..Len(all) |-> <<"export", r, {all[i].module}>>]
  BY <1>0
<1>2. link = [i \in 1..Len(all) |-> link[i]]
  BY <1>1
<1>3. IsSeq(link) /\ \A e \in Items(link) : \E i \in 1..Len(all) : e = link[i]
  <2> DEFINE n == Len(all)
  <2>1. n \in Nat /\ link = [i \in 1..n |-> link[i]]
    BY <1>0, <1>2
  <2> HIDE DEF n
  <2>2. Table(link, n)
    BY <2>1, Tabled
  <2> QED BY <2>2 DEF n, Table
<1>4. \A e \in Items(link) : e[1] = "export" /\ e[2] = r
  BY <1>1, <1>3
<1>5. Orderly(link)
  BY <1>4, OrderlyFree DEF Takers
<1> QED BY <1>3, <1>4, <1>5 DEF Sound, FitAll, Fit, Pulls

\* A job begins with updates that have their arguments, and unlinks what it
\* takes away; so does its rollback, but for that of an extra module.
BeginSound == Sound(todo') /\ (Orderly(undo') \/ \E r \in Apps : undo' = BackExtra(r, "develop"))

LEMMA BeginIs == ASSUME NEW plan, NEW back, Begin(plan, back) PROVE todo' = plan /\ undo' = back
BY DEF Begin, BeginAs

LEMMA JobSound ==
    ASSUME FiniteInv, Job
    PROVE  BeginSound
<1> USE DEF BeginSound
<1>0. Both = {"binary", "develop"}
  BY DEF Both
<1>1. ASSUME NEW r \in Apps, NEW M \in SUBSET {"binary", "develop"}, NEW b \in BOOLEAN, Install(r, M, b)
      PROVE  BeginSound
  <2> DEFINE old  == Old(r, b)
             more == IF old = {} THEN {} ELSE ModulesOf(Newest(old))
             plan == Plan(r, M \cup more) \o MissingBase(r) \o Merging \o Replace(r, old, PruneAfter)
             back == <<<<"unexport", r, {"binary", "develop"}>>, <<"retire", r>>>>
  <2>1. Begin(plan, back)
    BY <1>1 DEF Install
  <2>2. Sound(plan)
    BY SoundLists, SoundReplace, SoundConcat
  <2>3. Sound(back)
    BY <1>0, SoundLists
  <2> QED BY <2>1, <2>2, <2>3, BeginIs DEF Sound
<1>2. ASSUME NEW r \in Refs, NEW b \in BOOLEAN, InstallBase(r, b)
      PROVE  BeginSound
  <2>1. r \in Refs \ Apps /\ Begin(Plan(r, {"binary"}) \o Merging, <<<<"retire", r>>>>)
    BY <1>2 DEF InstallBase
  <2>2. Sound(Plan(r, {"binary"}) \o Merging) /\ Sound(<<<<"retire", r>>>>)
    BY <2>1, SoundLists, SoundConcat
  <2> QED BY <2>1, <2>2, BeginIs DEF Sound
<1>3. ASSUME NEW r \in Apps, InstallExtra(r, "develop")
      PROVE  BeginSound
  <2>1. Begin(Plan(r, {"develop"}) \o Merging \o <<<<"export", r, {"develop"}>>>>, BackExtra(r, "develop"))
    BY <1>3 DEF InstallExtra
  <2>2. Sound(Plan(r, {"develop"}) \o Merging \o <<<<"export", r, {"develop"}>>>>)
    BY SoundLists, SoundConcat
  <2> QED BY <2>1, <2>2, BeginIs
<1>4. ASSUME NEW r \in Apps, UninstallExtra(r, "develop")
      PROVE  BeginSound
  <2>1. Begin(<<<<"unexport", r, {"develop"}>>, <<"remove", r, "develop">>>> \o Merging, <<>>)
    BY <1>4 DEF UninstallExtra
  <2>2. Sound(<<<<"unexport", r, {"develop"}>>, <<"remove", r, "develop">>>> \o Merging) /\ Sound(<<>>)
    BY SoundLists, SoundConcat
  <2> QED BY <2>1, <2>2, BeginIs DEF Sound
<1>5. ASSUME NEW c \in Files, InstallLayer(c)
      PROVE  BeginSound
  <2> DEFINE r == c.ref
             imp == Each("import", <<c>>)
             one == EnsureBase(r) \o imp \o Merging \o Replace(r, OfId(r.id), Merging \o PruneAfter)
             two == imp \o Merging \o <<<<"export", r, {c.module}>>>>
  <2>1. r \in Apps /\ (Begin(one, <<>>) \/ Begin(two, <<>>))
    BY <1>5 DEF InstallLayer
  <2>2. Sound(imp)
    <3>1. <<c>> \in Seq(Commits)
      BY DEF Files
    <3> QED BY <3>1, SoundEach
  <2> HIDE DEF imp
  <2>3. Sound(Merging \o PruneAfter)
    BY SoundLists, SoundConcat
  <2>4. Sound(Replace(r, OfId(r.id), Merging \o PruneAfter))
    BY <2>1, <2>3, SoundReplace
  <2> HIDE DEF r
  <2>5. Sound(one) /\ Sound(two) /\ Sound(<<>>)
    BY <2>1, <2>2, <2>4, SoundLists, SoundConcat
  <2> QED BY <2>1, <2>5, BeginIs DEF Sound
<1>6. ASSUME NEW L \in SUBSET Files, InstallUab(L)
      PROVE  BeginSound
  <2> DEFINE r    == (CHOOSE c \in L : TRUE).ref
             all  == SetToSeq(L)
             old  == OfId(r.id)
             link == IF L \cap Mains # {} THEN Replace(r, old, PruneAfter)
                     ELSE [i \in DOMAIN all |-> <<"export", r, {all[i].module}>>]
             back == IF L \cap Mains # {} THEN <<<<"unexport", r, {"binary", "develop"}>>>>
                     ELSE [i \in DOMAIN all |-> <<"unexport", r, {all[i].module}>>]
             plan == EnsureBase(r) \o Each("import", all) \o Merging \o link
             undone == back \o Each("unimport", Reverse(all)) \o Merging
  <2>1. L # {} /\ r \in Apps /\ (\A c \in L : c.ref = r) /\ Begin(plan, undone)
    BY <1>6 DEF InstallUab
  <2>2. all \in Seq(Commits) /\ all = SetToSeq(L)
    <3>1. all \in Seq(L) /\ L \subseteq Commits
      BY Finite, Listed DEF Files
    <3> QED BY <3>1
  <2> HIDE DEF r, all
  <2>3. Orderly(undone)
    BY <2>1, <2>2, BundleBack
  <2>4. Sound(link)
    <3>1. CASE L \cap Mains # {}
      BY <2>1, <3>1, SoundReplace, SoundLists
    <3>2. CASE L \cap Mains = {}
      BY <2>1, <2>2, <3>2, BundleLinks
    <3> QED BY <3>1, <3>2
  <2>5. Sound(Each("import", all))
    BY <2>2, SoundEach
  <2> HIDE DEF link, undone
  <2>6. Sound(plan)
    BY <2>4, <2>5, SoundLists, SoundConcat
  <2> QED BY <2>1, <2>3, <2>6, BeginIs
<1>7. ASSUME NEW ids \in SUBSET {r.id : r \in Apps}, NEW b \in BOOLEAN, Update(ids, b)
      PROVE  BeginSound
  <2> DEFINE S    == {r \in Installed \cap Apps : r.id \in ids}
             apps == SetToSeq(S)
             each == [i \in DOMAIN apps |-> <<"update", apps[i], b>>]
  <2>1. apps \in Seq(S) /\ Len(apps) \in Nat /\ DOMAIN apps = 1..Len(apps)
    <3>1. IsFiniteSet(S)
      BY Finite, FS_Subset
    <3> QED BY <3>1, Listed
  <2>2. Begin(each \o <<<<"updated", "failed">>>>, <<>>)
    BY <1>7 DEF Update
  <2>3. \A i \in 1..Len(apps) : apps[i] \in Apps
    BY <2>1
  <2> HIDE DEF apps
  <2>4. each = [i \in 1..Len(apps) |-> <<"update", apps[i], b>>]
    BY <2>1
  <2> HIDE DEF each
  <2>5. each = [i \in 1..Len(apps) |-> each[i]]
    BY <2>4
  <2>6. IsSeq(each) /\ \A e \in Items(each) : \E i \in 1..Len(apps) : e = each[i]
    <3> DEFINE n == Len(apps)
    <3>1. n \in Nat /\ each = [i \in 1..n |-> each[i]]
      BY <2>1, <2>5
    <3> HIDE DEF n
    <3>2. Table(each, n)
      BY <3>1, Tabled
    <3> QED BY <3>2 DEF n, Table
  <2>7. \A e \in Items(each) : e[1] = "update" /\ e[2] \in Apps
    BY <2>3, <2>4, <2>6
  <2>8. Orderly(each)
    BY <2>7, OrderlyFree DEF Takers
  <2>9. Sound(each)
    BY <2>6, <2>7, <2>8 DEF Sound, FitAll, Fit, Pulls
  <2>10. Sound(each \o <<<<"updated", "failed">>>>) /\ Sound(<<>>)
    BY <2>9, SoundLists, SoundConcat
  <2> QED BY <2>2, <2>10, BeginIs DEF Sound
<1>8. ASSUME NEW r \in Refs, Uninstall(r)
      PROVE  BeginSound
  <2> DEFINE one == IF r \in Apps THEN <<<<"unexport", r, {"binary", "develop"}>>>> ELSE <<>>
             two == IF r \in Apps THEN PruneAfter ELSE <<>>
             all == one \o <<<<"remove_all", r>>>> \o two \o Merging
  <2>1. todo' = all /\ undo' = <<>>
    BY <1>8 DEF Uninstall, BeginAs
  <2>2. Sound(one \o <<<<"remove_all", r>>>>)
    <3>1. CASE r \in Apps
      <4> DEFINE u == <<"unexport", r, {"binary", "develop"}>>
                 v == <<"remove_all", r>>
      <4>0. <<u>> \o <<v>> = <<u, v>>
        <5> DEFINE w == <<u>> \o <<v>>
        <5> HIDE DEF u, v
        <5>1. IsSeq(<<u>>) /\ IsSeq(<<v>>) /\ <<u>>[1] = u /\ <<v>>[1] = v /\ Len(<<u>>) = 1 /\ Len(<<v>>) = 1
          BY ItemsOne
        <5>2. IsSeq(w) /\ Len(w) = 2 /\ w[1] = u /\ w[2] = v
          BY <5>1, Concat
        <5> HIDE DEF w
        <5>3. w = <<u, v>>
          <6>1. PICK S : w \in Seq(S)
            BY <5>2 DEF IsSeq
          <6> QED BY <5>2, <6>1
        <5> QED BY <5>3 DEF w
      <4>1. one \o <<<<"remove_all", r>>>> = <<<<"unexport", r, {"binary", "develop"}>>, <<"remove_all", r>>>>
        BY <3>1, <4>0 DEF u, v
      <4> QED BY <1>0, <4>1, SoundLists
    <3>2. CASE r \notin Apps
      BY <3>2, SoundLists, SoundConcat
    <3> QED BY <3>1, <3>2
  <2>3. Sound(two) /\ Sound(<<>>)
    BY SoundLists
  <2> HIDE DEF one, two
  <2>4. Sound(all)
    BY <2>2, <2>3, SoundLists, SoundConcat
  <2> QED BY <2>1, <2>3, <2>4 DEF Sound
<1>9. CASE Prune
  <2>1. Begin(<<<<"prune">>>>, <<>>)
    BY <1>9 DEF Prune
  <2> QED BY <2>1, SoundLists, BeginIs DEF Sound
<1> QED BY <1>1, <1>2, <1>3, <1>4, <1>5, <1>6, <1>7, <1>8, <1>9 DEF Job


\* The holder of the mutex goes on with s before the rest.
Turn(s) == todo # <<>> /\ IsSeq(s) /\ todo' = s \o Tail(todo) /\ UNCHANGED <<who, undo>>

\* Every module of a version.
Entire(do, r) == LET ms == InOrder(ModulesOf(r)) IN [i \in 1..Len(ms) |-> <<do, r, ms[i]>>]

\* What is next, by the update that is due.
Turns(s) ==
    \/ s = <<>> /\ Kind(1) \notin {"next", "collect", "retire", "remove_all", "discard", "remove", "import", "prune", "clean", "sweep"}
    \/ s = Import(This) /\ Kind(1) \in {"install", "import"}
    \/ s = Removed(This) /\ Kind(1) \in {"unimport", "discard"}
    \/ Kind(1) = "remove" /\ \E c \in Found(live, This, todo[1][3]) : s = Removed(c)
    \/ Kind(1) \in {"retire", "remove_all"} /\ \E do \in {"mark", "remove"} : s = Entire(do, This)
    \/ Kind(1) = "updated" /\ s \in {Merging, Merging \o PruneAfter}
    \/ Kind(1) = "prune_after" /\ s = <<<<"prune">>>>
    \/ Kind(1) = "prune" /\ s = Each("remove_all", SetToSeq(Installed \ Kept))
                              \o Merging \o <<<<"clean", {c \in live : c.ref \in Kept}>>>>
    \/ Kind(1) = "clean" /\ \A e \in Items(s) : e[1] = "sweep"
    \/ Kind(1) = "sweep" /\ s = <<<<"clear", This>>, <<"unref", This>>>>
    \/ Kind(1) = "collect" /\ \A e \in Items(s) : e[1] = "discard" /\ e[2] \in deferred
    \/ Kind(1) = "retire" /\ s = <<>> /\ who = "rollback"

Going1 == Merge \/ UpdateSkips \/ SetRef \/ Clear \/ Checkout \/ Upsert \/ Export \/ Unexport \/ Mark \/ Unref \/ Drop

LEMMA HeadIs ==
    ASSUME TodoInv, NEW do, Due(do)
    PROVE  todo # <<>> /\ Kind(1) = do /\ Arg = This /\ Head(todo) = todo[1] /\ Len(todo) \in Nat \ {0} /\ IsSeq(todo)
BY Next1, Rests DEF TodoInv

LEMMA IsSeqs ==
    /\ IsSeq(<<>>) /\ IsSeq(Merging) /\ IsSeq(Merging \o PruneAfter) /\ IsSeq(<<<<"prune">>>>)
    /\ \A c : IsSeq(Import(c)) /\ IsSeq(Removed(c)) /\ IsSeq(<<<<"clear", c>>, <<"unref", c>>>>)
BY SafeLists, MadeParts DEF Made

LEMMA EntireIs ==
    ASSUME NEW do, NEW r
    PROVE  /\ IsSeq(Entire(do, r))
           /\ \A e \in Items(Entire(do, r)) : \E m \in Both : e = <<do, r, m>>
           /\ \A m \in ModulesOf(r) \cap Both : <<do, r, m>> \in Items(Entire(do, r))
<1> DEFINE M  == ModulesOf(r)
           ms == InOrder(M)
           n  == Len(ms)
           s  == Entire(do, r)
<1>1. ms \in Seq(Both) /\ n \in Nat
  BY MadeInOrder DEF Both
<1>2. \A m \in M \cap Both : \E i \in 1..n : ms[i] = m
  <2> DEFINE b == IF "binary" \in M THEN <<"binary">> ELSE <<>>
             d == IF "develop" \in M THEN <<"develop">> ELSE <<>>
  <2>1. b \in Seq(Both) /\ d \in Seq(Both)
    <3>1. <<>> \in Seq(Both) /\ <<"binary">> \in Seq(Both) /\ <<"develop">> \in Seq(Both)
      BY DEF Both
    <3> QED BY <3>1
  <2>2. ("binary" \in M => Len(b) = 1 /\ b[1] = "binary") /\ ("develop" \in M => Len(d) = 1 /\ d[1] = "develop")
    OBVIOUS
  <2>3. ms = b \o d
    BY DEF InOrder
  <2> HIDE DEF b, d, M, ms
  <2>4. /\ n = Len(b) + Len(d) /\ Len(b) \in Nat /\ Len(d) \in Nat
        /\ \A i \in 1..Len(b) : ms[i] = b[i]
        /\ \A i \in (Len(b) + 1)..(Len(b) + Len(d)) : ms[i] = d[i - Len(b)]
    <3>1. IsSeq(b) /\ IsSeq(d)
      BY <2>1 DEF IsSeq
    <3> QED BY <2>3, <3>1, Concat
  <2> HIDE DEF n
  <2>5. ASSUME "binary" \in M PROVE \E i \in 1..n : ms[i] = "binary"
    <3>1. 1 \in 1..n /\ ms[1] = "binary"
      <4>1. Len(b) = 1 /\ b[1] = "binary"
        BY <2>2, <2>5
      <4>2. 1 \in 1..Len(b) /\ 1 \in 1..n
        BY <2>4, <4>1
      <4> QED BY <2>4, <4>1, <4>2
    <3> QED BY <3>1
  <2>6. ASSUME "develop" \in M PROVE \E i \in 1..n : ms[i] = "develop"
    <3>1. n \in 1..n /\ ms[n] = "develop"
      <4>1. Len(d) = 1 /\ d[1] = "develop"
        BY <2>2, <2>6
      <4>2. n \in (Len(b) + 1)..(Len(b) + Len(d)) /\ n - Len(b) = 1 /\ n \in 1..n
        BY <2>4, <4>1
      <4> QED BY <2>4, <4>1, <4>2
    <3> QED BY <3>1
  <2> QED BY <2>5, <2>6 DEF Both
<1>3. s = [i \in 1..n |-> <<do, r, ms[i]>>]
  BY DEF Entire
<1>4. \A i \in 1..n : ms[i] \in Both
  BY <1>1
<1> HIDE DEF ms, n, s, M
<1>5. s = [i \in 1..n |-> s[i]] /\ \A i \in 1..n : s[i] = <<do, r, ms[i]>>
  BY <1>3
<1>6. Table(s, n)
  BY <1>1, <1>5, Tabled
<1>7. ASSUME NEW e \in Items(s) PROVE \E m \in Both : e = <<do, r, m>>
  <2>1. PICK i \in 1..n : e = s[i]
    BY <1>6 DEF Table
  <2>2. ms[i] \in Both /\ e = <<do, r, ms[i]>>
    BY <1>4, <1>5, <2>1
  <2> QED BY <2>2
<1>8. ASSUME NEW m \in M \cap Both PROVE <<do, r, m>> \in Items(s)
  <2>1. PICK i \in 1..n : ms[i] = m
    BY <1>2
  <2>2. s[i] = <<do, r, m>> /\ s[i] \in Items(s)
    BY <1>5, <1>6, <2>1 DEF Table
  <2> QED BY <2>2
<1> QED BY <1>6, <1>7, <1>8 DEF Table, s, M

LEMMA Turning ==
    ASSUME TodoInv, FiniteInv,
           \/ Merge \/ Unimport \/ UpdateSkips \/ Updated
           \/ InstallModule \/ ImportLayer \/ SetRef \/ Clear \/ Checkout \/ Upsert \/ Export \/ Unexport
           \/ Retire \/ Mark \/ RemoveAll \/ RemoveModule \/ Unref \/ Drop
           \/ AfterChange \/ PruneUnused \/ Clean \/ Sweep \/ Collect \/ Discard
           \/ StepFails /\ who # "job"
    PROVE  \E s : Turn(s) /\ Turns(s)
<1> USE IsSeqs
<1>1. CASE Going1
  <2>1. PICK do \in {"merge", "update", "ref", "clear", "checkout", "upsert", "export", "unexport", "mark", "unref", "drop"} : Due(do)
    BY <1>1 DEF Going1, Merge, UpdateSkips, SetRef, Clear, Checkout, Upsert, Export, Unexport, Mark, Unref, Drop
  <2>2. Proceed(<<>>)
    BY <1>1 DEF Going1, Merge, UpdateSkips, SetRef, Clear, Checkout, Upsert, Export, Unexport, Mark, Unref, Drop, Onward
  <2>3. Turn(<<>>) /\ Turns(<<>>)
    BY <2>1, <2>2, HeadIs DEF Turn, Turns, Proceed
  <2> QED BY <2>3
<1>2. CASE Unimport
  <2>1. Kind(1) = "unimport" /\ todo # <<>> /\ Arg = This
    BY <1>2, HeadIs DEF Unimport
  <2>2. Onward(Removed(This)) \/ Onward(<<>>)
    BY <1>2, <2>1 DEF Unimport
  <2>3. (Turn(Removed(This)) /\ Turns(Removed(This))) \/ (Turn(<<>>) /\ Turns(<<>>))
    BY <2>1, <2>2 DEF Turn, Turns, Onward, Proceed
  <2> QED BY <2>3
<1>3. CASE Updated
  <2>1. Merging \o <<>> = Merging
    BY DEF Merging
  <2>2. Onward(<<>>) \/ Onward(Merging \o PruneAfter) \/ Onward(Merging)
    BY <1>3, <2>1 DEF Updated
  <2>3. \E s \in {<<>>, Merging, Merging \o PruneAfter} : Onward(s)
    BY <2>2
  <2>4. PICK s \in {<<>>, Merging, Merging \o PruneAfter} : Onward(s)
    BY <2>3
  <2>5. Kind(1) = "updated" /\ todo # <<>>
    BY <1>3, HeadIs DEF Updated
  <2>6. Turn(s) /\ Turns(s)
    BY <2>4, <2>5 DEF Turn, Turns, Onward, Proceed
  <2> QED BY <2>6
<1>4. CASE InstallModule \/ ImportLayer
  <2>1. CASE Onward(Import(Arg)) /\ (Due("install") \/ Due("import"))
    <3>1. Turn(Import(This)) /\ Turns(Import(This))
      BY <2>1, HeadIs DEF Turn, Turns, Onward, Proceed
    <3> QED BY <3>1
  <2>2. CASE Proceed(<<>>) /\ Due("install")
    <3>1. Turn(<<>>) /\ Turns(<<>>)
      BY <2>2, HeadIs DEF Turn, Turns, Proceed
    <3> QED BY <3>1
  <2> QED BY <1>4, <2>1, <2>2 DEF InstallModule, ImportLayer
<1>5. CASE Retire \/ RemoveAll
  <2>1. Kind(1) \in {"retire", "remove_all"} /\ todo # <<>> /\ Arg = This
    BY <1>5, HeadIs DEF Retire, RemoveAll
  <2>2. PICK do \in {"mark", "remove"} : Onward(Entire(do, This))
    <3>1. CASE Retire
      <4>1. CASE Busy(This)
        BY <2>1, <3>1, <4>1 DEF Retire, Entire
      <4>2. CASE ~Busy(This)
        BY <2>1, <3>1, <4>2 DEF Retire, Entire
      <4> QED BY <4>1, <4>2
    <3>2. CASE RemoveAll
      BY <2>1, <3>2 DEF RemoveAll, Removal, Entire
    <3> QED BY <1>5, <3>1, <3>2
  <2>3. IsSeq(Entire(do, This))
    BY EntireIs
  <2>4. Turn(Entire(do, This)) /\ Turns(Entire(do, This))
    BY <2>1, <2>2, <2>3 DEF Turn, Turns, Onward, Proceed
  <2> QED BY <2>4
<1>6. CASE RemoveModule
  <2>1. Kind(1) = "remove" /\ todo # <<>> /\ Arg = This /\ Head(todo) = todo[1]
    BY <1>6, HeadIs DEF RemoveModule
  <2>2. PICK c \in Found(live, This, todo[1][3]) : Onward(Removed(c))
    BY <1>6, <2>1 DEF RemoveModule
  <2>3. Turn(Removed(c)) /\ Turns(Removed(c))
    BY <2>1, <2>2 DEF Turn, Turns, Onward, Proceed
  <2> QED BY <2>3
<1>7. CASE AfterChange
  <2>1. Kind(1) = "prune_after" /\ todo # <<>>
    BY <1>7, HeadIs DEF AfterChange
  <2>2. \E s \in {<<>>, <<<<"prune">>>>} : Onward(s)
    BY <1>7 DEF AfterChange
  <2>3. PICK s \in {<<>>, <<<<"prune">>>>} : Onward(s)
    BY <2>2
  <2>4. Turn(s) /\ Turns(s)
    BY <2>1, <2>3 DEF Turn, Turns, Onward, Proceed
  <2> QED BY <2>4
<1>8. CASE PruneUnused
  <2> DEFINE p == Each("remove_all", SetToSeq(Installed \ Kept))
             q == <<<<"clean", {c \in live : c.ref \in Kept}>>>>
             s == p \o Merging \o q
  <2>1. Kind(1) = "prune" /\ todo # <<>> /\ Onward(s)
    BY <1>8, HeadIs DEF PruneUnused
  <2>2. IsSeq(p)
    <3>1. IsFiniteSet(Installed \ Kept)
      BY Finite, FS_Subset
    <3> QED BY <3>1, ItemsEach
  <2>3. IsSeq(q)
    BY ItemsOne
  <2>4. IsSeq(s)
    <3> HIDE DEF p, q
    <3> QED BY <2>2, <2>3, Concat
  <2>5. Turns(s)
    BY <2>1 DEF Turns
  <2> HIDE DEF s
  <2>6. Turn(s)
    BY <2>1, <2>4 DEF Turn, Onward, Proceed
  <2> QED BY <2>5, <2>6
<1>9. CASE Clean
  <2> DEFINE s == Each("sweep", SetToSeq(named \ Arg))
  <2>1. Kind(1) = "clean" /\ todo # <<>> /\ Proceed(s)
    BY <1>9, HeadIs DEF Clean
  <2>2. IsSeq(s) /\ \A e \in Items(s) : \E x \in named \ Arg : e = <<"sweep", x>>
    <3>1. IsFiniteSet(named \ Arg)
      BY FS_Subset DEF FiniteInv
    <3> QED BY <3>1, ItemsEach
  <2> HIDE DEF s
  <2>3. Turn(s) /\ Turns(s)
    BY <2>1, <2>2 DEF Turn, Turns, Proceed
  <2> QED BY <2>3
<1>10. CASE Sweep
  <2> DEFINE s == <<<<"clear", This>>, <<"unref", This>>>>
  <2>1. Kind(1) = "sweep" /\ todo # <<>> /\ Onward(s)
    BY <1>10, HeadIs DEF Sweep
  <2>2. IsSeq(s)
    OBVIOUS
  <2>3. Turns(s)
    BY <2>1 DEF Turns
  <2> HIDE DEF s
  <2>4. Turn(s)
    BY <2>1, <2>2 DEF Turn, Onward, Proceed
  <2> QED BY <2>3, <2>4
<1>11. CASE Collect
  <2> DEFINE S == {c \in deferred : c.ref = Arg}
             d == Each("discard", SetToSeq(S))
             s == IF Busy(Arg) THEN <<>> ELSE d
  <2>1. Kind(1) = "collect" /\ todo # <<>> /\ Onward(s)
    BY <1>11, HeadIs DEF Collect
  <2>2. IsSeq(d) /\ \A e \in Items(d) : e[1] = "discard" /\ e[2] \in deferred
    <3>1. IsFiniteSet(S)
      BY FS_Subset DEF FiniteInv
    <3>2. IsSeq(d) /\ \A e \in Items(d) : \E x \in S : e = <<"discard", x>>
      BY <3>1, ItemsEach
    <3> HIDE DEF d
    <3> QED BY <3>2
  <2> HIDE DEF d
  <2>3. IsSeq(s) /\ \A e \in Items(s) : e[1] = "discard" /\ e[2] \in deferred
    BY <2>2, ItemsNone
  <2> HIDE DEF s
  <2>4. Turn(s) /\ Turns(s)
    BY <2>1, <2>3 DEF Turn, Turns, Onward, Proceed
  <2> QED BY <2>4
<1>12. CASE Discard
  <2>1. Turn(Removed(This)) /\ Turns(Removed(This))
    BY <1>12, HeadIs DEF Discard, Turn, Turns, Onward, Proceed
  <2> QED BY <2>1
<1>13. CASE StepFails /\ who # "job"
  <2>1. PICK do \in {"install", "checkout", "export", "unexport", "retire"} : Due(do) /\ Fail
    BY <1>13 DEF StepFails
  <2>2. todo # <<>> /\ Kind(1) = do
    BY <2>1, HeadIs
  <2>3. who = "rollback"
    <3>1. who # "gc"
      BY <2>2, NotCollecting DEF Collects
    <3>2. who # "none"
      BY <2>2 DEF TodoInv, HolderInv
    <3> QED BY <1>13, <3>1, <3>2 DEF TodoInv, HolderInv
  <2>4. todo' = <<>> \o Tail(todo)
    <3>1. todo' = Tail(todo)
      BY <1>13, <2>1 DEF Fail
    <3>2. PICK S : Tail(todo) \in Seq(S)
      BY <2>2, Rests DEF TodoInv, IsSeq
    <3> QED BY <3>1, <3>2
  <2>5. Turn(<<>>) /\ Turns(<<>>)
    BY <2>1, <2>2, <2>3, <2>4 DEF Turn, Turns, Fail
  <2> QED BY <2>5
<1> QED BY <1>1, <1>2, <1>3, <1>4, <1>5, <1>6, <1>7, <1>8, <1>9, <1>10, <1>11, <1>12, <1>13 DEF Going1


LEMMA Turned ==
    ASSUME NEW s, IsSeq(todo), Turn(s)
    PROVE  /\ IsSeq(todo)' /\ Len(s) \in Nat /\ Len(todo) \in Nat \ {0} /\ Len(todo') = Len(s) + Len(todo) - 1
           /\ \A i \in 1..Len(s) : todo'[i] = s[i] /\ s[i] \in Items(s)
           /\ \A i \in (Len(s) + 1)..Len(todo') : i - Len(s) + 1 \in 2..Len(todo) /\ todo'[i] = todo[i - Len(s) + 1]
           /\ Items(todo') \subseteq Items(s) \cup Items(todo) /\ todo[1] \in Items(todo)
<1> DEFINE K == {s[i][1] : i \in 1..Len(s)}
<1>1. Made(s, K)
  BY DEF Turn, Made
<1>2. IsSeq(s) /\ todo # <<>> /\ todo' = s \o Tail(todo)
  BY DEF Turn
<1> HIDE DEF K
<1>3. /\ IsSeq(todo)' /\ Len(s) \in Nat /\ Len(todo) \in Nat \ {0} /\ Len(todo') = Len(s) + Len(todo) - 1
      /\ \A i \in 1..Len(s) : todo'[i] = s[i]
      /\ \A i \in (Len(s) + 1)..Len(todo') : todo'[i] = todo[i - Len(s) + 1]
  BY <1>1, <1>2, Going
<1>4. Items(todo') \subseteq Items(s) \cup Items(todo)
  BY <1>2, ItemsGo
<1>5. \A i \in (Len(s) + 1)..Len(todo') : i - Len(s) + 1 \in 2..Len(todo)
  BY <1>3
<1>6. todo[1] \in Items(todo)
  BY <1>3 DEF Items
<1> QED BY <1>3, <1>4, <1>5, <1>6 DEF Items

\* What is taken away is not linked: what comes in the place of the first update takes no
\* more than it did.
LEMMA LinkedGoes ==
    ASSUME TodoInv, ArgsInv, OrderlyInv, NEW s, Turn(s),
           \A e \in Items(s) : /\ e[1] # "export"
                               /\ \A c \in AppCommits : Takes(e, c) => (Takes(todo[1], c) \/ c \notin exported) /\ todo[1][1] # "export",
           \A c \in AppCommits : c \in exported' => c \in exported \/ Links(todo[1], c),
           \A c \in AppCommits : Covers(todo[1], c) => c \notin exported'
    PROVE  \A i \in 1..Len(todo') : \A c \in AppCommits :
               Takes(todo'[i], c) => Unlinked(todo', i, c) \/ (c \notin exported' /\ NoLinks(todo', i - 1, c))
<1> DEFINE n == Len(s)
           m == Len(todo)
           u == todo'
<1>1. /\ n \in Nat /\ m \in Nat \ {0} /\ Len(u) = n + m - 1
      /\ \A i \in 1..n : u[i] = s[i] /\ s[i] \in Items(s)
      /\ \A i \in (n + 1)..Len(u) : i - n + 1 \in 2..m /\ u[i] = todo[i - n + 1]
  BY Turned DEF TodoInv
<1>2. \A i \in 1..m : \A c \in AppCommits :
          Takes(todo[i], c) => Unlinked(todo, i, c) \/ (c \notin exported /\ NoLinks(todo, i - 1, c))
  BY DEF OrderlyInv
<1> HIDE DEF n, m, u
<1> SUFFICES ASSUME NEW i \in 1..Len(u), NEW c \in AppCommits, Takes(u[i], c)
             PROVE  Unlinked(u, i, c) \/ (c \notin exported' /\ NoLinks(u, i - 1, c))
  BY DEF u
<1>3. \A k \in 1..n : ~Links(u[k], c)
  BY <1>1 DEF Links
<1>4. CASE i \in 1..n
  <2>1. NoLinks(u, i - 1, c)
    BY <1>1, <1>3, <1>4 DEF NoLinks
  <2>2. (Takes(todo[1], c) \/ c \notin exported) /\ todo[1][1] # "export"
    BY <1>1, <1>4
  <2>3. c \notin exported
    <3>1. Takes(todo[1], c) => Unlinked(todo, 1, c) \/ c \notin exported
      BY <1>1, <1>2
    <3>2. ~Unlinked(todo, 1, c)
      BY DEF Unlinked
    <3> QED BY <2>2, <3>1, <3>2
  <2>5. c \notin exported'
    BY <2>2, <2>3 DEF Links
  <2> QED BY <2>1, <2>5
<1>5. CASE i \notin 1..n
  <2> DEFINE k == i - n + 1
  <2>1. k \in 2..m /\ u[i] = todo[k] /\ i \in (n + 1)..Len(u)
    BY <1>1, <1>5
  <2>2. \A j \in 2..(k - 1) : j + n - 1 \in (n + 1)..(i - 1) /\ u[j + n - 1] = todo[j]
    <3> SUFFICES ASSUME NEW j \in 2..(k - 1) PROVE j + n - 1 \in (n + 1)..(i - 1) /\ u[j + n - 1] = todo[j]
      OBVIOUS
    <3>1. j + n - 1 \in (n + 1)..Len(u) /\ j + n - 1 - n + 1 = j
      BY <1>1, <2>1
    <3>2. u[j + n - 1] = todo[j + n - 1 - n + 1]
      BY <1>1, <3>1
    <3>3. j + n - 1 \in (n + 1)..(i - 1)
      BY <1>1, <2>1
    <3> QED BY <3>1, <3>2, <3>3
  <2>3. \A l \in (n + 1)..(i - 1) : l - n + 1 \in 2..(k - 1) /\ u[l] = todo[l - n + 1]
    BY <1>1, <2>1
  <2>4. CASE Unlinked(todo, k, c)
    <3>1. PICK j \in 1..(k - 1) : Covers(todo[j], c) /\ \A l \in (j + 1)..(k - 1) : ~Links(todo[l], c)
      BY <2>4 DEF Unlinked
    <3>2. CASE j = 1
      <4>1. c \notin exported'
        BY <3>1, <3>2
      <4>2. \A l \in (n + 1)..(i - 1) : ~Links(u[l], c)
        BY <2>1, <2>3, <3>1, <3>2
      <4>3. NoLinks(u, i - 1, c)
        BY <1>1, <1>3, <2>1, <4>2 DEF NoLinks
      <4> QED BY <4>1, <4>3
    <3>3. CASE j # 1
      <4>1. j \in 2..(k - 1)
        BY <2>1, <3>1, <3>3
      <4>2. j + n - 1 \in 1..(i - 1) /\ Covers(u[j + n - 1], c)
        <5>1. j + n - 1 \in (n + 1)..(i - 1) /\ u[j + n - 1] = todo[j]
          BY <2>2, <4>1
        <5> QED BY <1>1, <3>1, <5>1
      <4>3. \A l \in (j + n - 1 + 1)..(i - 1) : l \in (n + 1)..(i - 1) /\ l - n + 1 \in (j + 1)..(k - 1)
        BY <1>1, <2>1, <4>1
      <4>4. \A l \in (j + n - 1 + 1)..(i - 1) : ~Links(u[l], c)
        BY <2>3, <3>1, <4>3
      <4> QED BY <4>2, <4>4 DEF Unlinked
    <3> QED BY <3>2, <3>3
  <2>5. CASE c \notin exported /\ NoLinks(todo, k - 1, c)
    <3>1. \A l \in 1..(k - 1) : ~Links(todo[l], c)
      BY <2>5 DEF NoLinks
    <3>2. ~Links(todo[1], c) /\ c \notin exported'
      <4>1. 1 \in 1..(k - 1)
        BY <2>1
      <4> QED BY <2>5, <3>1, <4>1
    <3>3. \A l \in (n + 1)..(i - 1) : ~Links(u[l], c)
      BY <2>1, <2>3, <3>1
    <3>4. NoLinks(u, i - 1, c)
      BY <1>1, <1>3, <2>1, <3>3 DEF NoLinks
    <3> QED BY <3>2, <3>4
  <2> QED BY <1>1, <1>2, <2>1, <2>4, <2>5
<1> QED BY <1>4, <1>5

\* A list that is orderly, and one that takes nothing away.
LEMMA LinkedStarts ==
    ASSUME NEW s, NEW t, IsSeq(s), IsSeq(t), Orderly(s), \A e \in Items(t) : e[1] \notin Takers, todo' = s \o t
    PROVE  \A i \in 1..Len(todo') : \A c \in AppCommits :
               Takes(todo'[i], c) => Unlinked(todo', i, c) \/ (c \notin exported' /\ NoLinks(todo', i - 1, c))
BY OrderlyFree, OrderlyConcat DEF Orderly


\* What comes in the place of an update has its arguments, and takes away no
\* more than the update, or what is deferred.
Small(e) == /\ Fit(e) /\ e[1] \notin {"export", "unexport", "update", "next"}
            /\ \A c \in AppCommits : Takes(e, c) => (Takes(todo[1], c) \/ c \in deferred) /\ todo[1][1] # "export"

LEMMA TurnItems ==
    ASSUME TodoInv, FiniteInv, ArgsInv, NEW s, Turn(s), Turns(s)
    PROVE  \A e \in Items(s) : Small(e)
<1> USE DEF Kind, This
<1>0. todo[1] \in Items(todo) /\ Fit(todo[1])
  BY Turned DEF TodoInv, ArgsInv
<1>1. CASE s = <<>>
  BY <1>1, ItemsNone
<1>2. CASE s = Import(This) /\ Kind(1) \in {"install", "import"}
  <2>1. Items(s) = {<<"ref", This>>, <<"clear", This>>, <<"checkout", This>>, <<"upsert", This>>}
    BY <1>2, ItemsFour DEF Import
  <2>2. This \in Commits
    BY <1>0, <1>2 DEF Fit, Pulls
  <2>3. \A do \in {"ref", "clear", "checkout", "upsert"} : Small(<<do, This>>)
    BY <2>2 DEF Small, Fit, Takes
  <2> QED BY <2>1, <2>3
<1>3. ASSUME NEW c, s = Removed(c), \A d \in AppCommits : d = c => Takes(todo[1], d), todo[1][1] # "export"
      PROVE  \A e \in Items(s) : Small(e)
  <2>1. Items(s) = {<<"unref", c>>, <<"drop", c>>, <<"clear", c>>}
    BY <1>3, ItemsThree DEF Removed
  <2>2. \A do \in {"unref", "drop", "clear"} : Small(<<do, c>>)
    BY <1>3 DEF Small, Fit, Takes, Pulls
  <2> QED BY <2>1, <2>2
<1>4. CASE s = Removed(This) /\ Kind(1) \in {"unimport", "discard"}
  BY <1>3, <1>4 DEF Takes
<1>5. CASE Kind(1) = "remove" /\ \E c \in Found(live, This, todo[1][3]) : s = Removed(c)
  BY <1>3, <1>5 DEF Takes, Found
<1>6. CASE Kind(1) \in {"retire", "remove_all"} /\ \E do \in {"mark", "remove"} : s = Entire(do, This)
  <2>1. PICK do \in {"mark", "remove"} : s = Entire(do, This)
    BY <1>6
  <2>2. \A m : Small(<<do, This, m>>)
    BY <1>6 DEF Small, Fit, Takes, Pulls
  <2> QED BY <2>1, <2>2, EntireIs
<1>7. CASE Kind(1) = "updated" /\ s \in {Merging, Merging \o PruneAfter}
  <2>1. Items(Merging) = {<<"merge">>} /\ Items(PruneAfter) = {<<"prune_after">>} /\ IsSeq(Merging) /\ IsSeq(PruneAfter)
    BY ItemsOne DEF Merging, PruneAfter
  <2>2. Items(s) \subseteq {<<"merge">>, <<"prune_after">>}
    <3>1. Items(Merging \o PruneAfter) = {<<"merge">>} \cup {<<"prune_after">>}
      BY <2>1, ItemsConcat
    <3> QED BY <1>7, <2>1, <3>1
  <2>3. Small(<<"merge">>) /\ Small(<<"prune_after">>)
    BY DEF Small, Fit, Takes, Pulls
  <2> QED BY <2>2, <2>3
<1>8. CASE Kind(1) = "prune_after" /\ s = <<<<"prune">>>>
  <2>1. Items(s) = {<<"prune">>}
    BY <1>8, ItemsOne
  <2>2. Small(<<"prune">>)
    BY DEF Small, Fit, Takes, Pulls
  <2> QED BY <2>1, <2>2
<1>9. CASE Kind(1) = "prune" /\ s = Each("remove_all", SetToSeq(Installed \ Kept))
                              \o Merging \o <<<<"clean", {c \in live : c.ref \in Kept}>>>>
  <2> DEFINE p == Each("remove_all", SetToSeq(Installed \ Kept))
             S == {c \in live : c.ref \in Kept}
             q == <<<<"clean", S>>>>
  <2>1. IsSeq(p) /\ \A e \in Items(p) : \E x \in Installed \ Kept : e = <<"remove_all", x>>
    <3>1. IsFiniteSet(Installed \ Kept)
      BY Finite, FS_Subset
    <3> QED BY <3>1, ItemsEach
  <2>2. Items(Merging) = {<<"merge">>} /\ IsSeq(Merging) /\ Items(q) = {<<"clean", S>>} /\ IsSeq(q)
    BY ItemsOne DEF Merging
  <2> HIDE DEF p, q, S
  <2>3. Items(s) = Items(p) \cup Items(Merging) \cup Items(q)
    <3>1. s = p \o Merging \o q
      BY <1>9 DEF p, q, S
    <3> QED BY <2>1, <2>2, <3>1, ItemsConcat, Concat
  <2>4. ASSUME NEW x \in Installed \ Kept PROVE Small(<<"remove_all", x>>)
    <3>1. x \notin Apps
      BY <2>4 DEF Kept
    <3> QED BY <3>1 DEF Small, Fit, Takes, Pulls, AppCommits
  <2>5. Small(<<"merge">>) /\ Small(<<"clean", S>>)
    BY DEF Small, Fit, Takes, Pulls
  <2> QED BY <2>1, <2>2, <2>3, <2>4, <2>5
<1>10. CASE Kind(1) = "clean" /\ \A e \in Items(s) : e[1] = "sweep"
  BY <1>10 DEF Small, Fit, Takes, Pulls
<1>11. CASE Kind(1) = "sweep" /\ s = <<<<"clear", This>>, <<"unref", This>>>>
  <2>1. Items(s) = {<<"clear", This>>, <<"unref", This>>}
    BY <1>11, ItemsTwo
  <2>2. \A c : Small(<<"clear", c>>) /\ Small(<<"unref", c>>)
    BY DEF Small, Fit, Takes, Pulls
  <2> QED BY <2>1, <2>2
<1>12. CASE Kind(1) = "collect" /\ \A e \in Items(s) : e[1] = "discard" /\ e[2] \in deferred
  BY <1>12 DEF Small, Fit, Takes, Pulls
<1> QED BY <1>1, <1>2, <1>4, <1>5, <1>6, <1>7, <1>8, <1>9, <1>10, <1>11, <1>12 DEF Turns

\* The updates of a rollback or of the next apps.
LEMMA FitUndos ==
    ASSUME NEW s, NEW K, Made(s, K), K \cap (Pulls \cup {"export", "update"}) = {}
    PROVE  \A e \in Items(s) : Fit(e)
BY DEF Made, Items, Fit

\* What an update of an app plans.
Renewal(n, r) == <<<<"export", n, Both>>, <<"unexport", r, Both>>, <<"retire", r>>>>
Bases(n) == LET own == BaseOf[n]
                b   == Newest(Offers(own)) IN
            IF OfId(own) = {} THEN Plan(b, {"binary"})
            ELSE IF Newest(OfId(own)).version < b.version THEN Plan(b, ModulesOf(Newest(OfId(own)))) ELSE <<>>

LEMMA UpdateIs ==
    ASSUME TodoInv, ArgsInv, UpdateApp
    PROVE  LET r    == This
               new  == Newer(r, todo[1][3])
               n    == Becomes(r, todo[1][3])
               plan == (IF new THEN Plan(n, ModulesOf(r)) ELSE <<>>) \o Bases(n) IN
           /\ todo # <<>> /\ Kind(1) = "update" /\ who = "job" /\ r \in Apps /\ n \in Apps /\ n.id = r.id
           /\ todo' = plan \o (IF plan = <<>> THEN <<>> ELSE Merging) \o (IF new THEN Renewal(n, r) ELSE <<>>)
                      \o <<<<"next", IF plan = <<>> THEN "same" ELSE "changed">>>> \o Tail(todo)
           /\ undo' = IF new THEN <<<<"unexport", n, Both>>, <<"retire", n>>>> ELSE <<>>
           /\ UNCHANGED <<repo, who, lock, use, recorded, past>>
           /\ Updatable(r, todo[1][3])
           /\ new => n # r /\ r.version < n.version /\ n \in Offers(r.id)
           /\ ~new => n = r
           /\ IsSeq(Tail(todo)) /\ \A e \in Items(Tail(todo)) : e[1] \in Asks /\ Fit(e)
<1>1. todo # <<>> /\ Kind(1) = "update" /\ Arg = This /\ Head(todo) = todo[1] /\ IsSeq(todo) /\ Len(todo) \in Nat \ {0}
  BY HeadIs DEF UpdateApp
<1>2. who = "job"
  <2>1. who # "gc"
    BY <1>1, NotCollecting DEF Collects
  <2>2. who # "none" /\ who # "rollback"
    BY <1>1 DEF TodoInv, HolderInv, Forward
  <2> QED BY <2>1, <2>2 DEF TodoInv, HolderInv
<1>3. todo[1] \in Items(todo) /\ This \in Apps
  BY <1>1 DEF Items, ArgsInv, Fit, Kind, This
<1>4. Updatable(This, todo[1][3])
  BY <1>1 DEF UpdateApp
<1>5. ASSUME Newer(This, todo[1][3]) PROVE /\ Newest(Offers(This.id)) \in Offers(This.id)
                                           /\ This.version < Newest(Offers(This.id)).version
  <2>1. Offers(This.id) # {}
    BY <1>4, <1>5 DEF Updatable, Newer
  <2> QED BY <1>5, <2>1, Latest, References DEF Newer
<1>6. Becomes(This, todo[1][3]) \in Apps /\ Becomes(This, todo[1][3]).id = This.id
  <2>1. CASE ~Newer(This, todo[1][3])
    BY <1>3, <2>1 DEF Becomes
  <2>2. CASE Newer(This, todo[1][3])
    <3>1. Becomes(This, todo[1][3]) \in Offers(This.id)
      BY <1>5, <2>2 DEF Becomes
    <3> QED BY <1>3, <3>1, References, CommitAssumption
  <2> QED BY <2>1, <2>2
<1>7. Newer(This, todo[1][3]) => Becomes(This, todo[1][3]) # This
  <2> SUFFICES ASSUME Newer(This, todo[1][3]) PROVE Becomes(This, todo[1][3]) # This
    OBVIOUS
  <2>1. This \in Refs /\ \A x \in Refs : x.version \in Nat
    BY <1>3, CommitAssumption DEF Refs
  <2>2. This.version < Becomes(This, todo[1][3]).version
    BY <1>5 DEF Becomes
  <2>3. ~(This.version < This.version)
    BY <2>1
  <2> QED BY <2>2, <2>3
<1>8. IsSeq(Tail(todo)) /\ \A e \in Items(Tail(todo)) : e[1] \in Asks /\ Fit(e)
  <2> DEFINE t == Tail(todo)
  <2>1. IsSeq(t) /\ Len(t) = Len(todo) - 1 /\ \A i \in 1..Len(t) : t[i] = todo[i + 1]
    BY <1>1, Rests
  <2>2. ASSUME NEW i \in 1..Len(t) PROVE t[i][1] \in Asks
    <3>1. i + 1 \in 1..Len(todo) /\ 1 < i + 1 /\ 1 \in 1..Len(todo)
      BY <1>1, <2>1
    <3>2. Kind(i + 1) \in Asks
      BY <1>1, <3>1 DEF TodoInv, HolderInv
    <3> QED BY <2>1, <3>2 DEF Kind
  <2>3. \A e \in Items(t) : e[1] \in Asks
    BY <2>2 DEF Items
  <2>4. Items(t) \subseteq Items(todo)
    BY <1>1, ItemsTail
  <2> QED BY <2>1, <2>3, <2>4 DEF ArgsInv
<1>9. /\ Newer(This, todo[1][3]) => Becomes(This, todo[1][3]) = Newest(Offers(This.id))
      /\ ~Newer(This, todo[1][3]) => Becomes(This, todo[1][3]) = This
  BY DEF Becomes
<1>10. LET r    == This
           new  == Newer(r, todo[1][3])
           n    == Becomes(r, todo[1][3])
           plan == (IF new THEN Plan(n, ModulesOf(r)) ELSE <<>>) \o Bases(n) IN
       /\ todo' = plan \o (IF plan = <<>> THEN <<>> ELSE Merging) \o (IF new THEN Renewal(n, r) ELSE <<>>)
                      \o <<<<"next", IF plan = <<>> THEN "same" ELSE "changed">>>> \o Tail(todo)
       /\ undo' = IF new THEN <<<<"unexport", n, Both>>, <<"retire", n>>>> ELSE <<>>
       /\ UNCHANGED <<repo, who, lock, use, recorded, past>>
  BY <1>1 DEF UpdateApp, Bases, Renewal, Both
<1> QED BY <1>1, <1>2, <1>3, <1>4, <1>5, <1>6, <1>7, <1>8, <1>9, <1>10


\* The steps that put something in the place of the first update.
Plain ==
    \/ Merge \/ Unimport \/ UpdateSkips \/ Updated
    \/ InstallModule \/ ImportLayer \/ SetRef \/ Clear \/ Checkout \/ Upsert \/ Export \/ Unexport
    \/ Retire \/ Mark \/ RemoveAll \/ RemoveModule \/ Unref \/ Drop
    \/ AfterChange \/ PruneUnused \/ Clean \/ Sweep \/ Collect \/ Discard
    \/ StepFails /\ who # "job"
Resting == GcLock \/ UNCHANGED vars
           \/ \E k \in Containers : (\E r \in Apps : Mount(k, r)) \/ Record(k) \/ Stop(k)
Stopping == UpdateCanceled \/ End \/ Crash \/ Rebuilt

LEMMA StepForms ==
    ASSUME [Next]_vars
    PROVE  Plain \/ Job \/ UpdateApp \/ NextApp \/ (StepFails /\ who = "job") \/ GcBegin \/ Stopping \/ Resting
BY DEF Next, Change, Gc, Plain, Resting, Stopping

LEMMA StopIs ==
    ASSUME Stopping
    PROVE  todo' = <<>> /\ UNCHANGED exported
           /\ (who' # "job" \/ UNCHANGED undo)
           /\ (Rebuilt \/ UNCHANGED <<live, deferred, named, merged>>)
           /\ hurt \subseteq hurt'
BY DEF Stopping, UpdateCanceled, End, Crash, Rebuilt, repo, past

LEMMA RestIs ==
    ASSUME Resting
    PROVE  UNCHANGED <<repo, todo, undo, who, hurt>>
BY DEF Resting, GcLock, vars, Mount, Record, Stop, repo, past

\* What is left but the last.
LEMMA FrontIs ==
    ASSUME NEW t, IsSeq(t)
    PROVE  IsSeq(Front(t)) /\ \A i \in 1..Len(Front(t)) : i \in 1..(Len(t) - 1) /\ Front(t)[i] = t[i]
<1>1. PICK S : t \in Seq(S)
  BY DEF IsSeq
<1>2. Len(t) \in Nat
  BY Concat
<1>3. CASE Len(t) = 0
  <2>1. t = <<>> /\ SubSeq(t, 1, Len(t) - 1) = <<>>
    BY <1>1, <1>3, SubSeqEmpty
  <2>2. Front(t) = <<>>
    BY <2>1 DEF Front
  <2>3. IsSeq(<<>>) /\ Len(<<>>) = 0 /\ 1..0 = {}
    BY ItemsNone
  <2> QED BY <2>2, <2>3
<1>4. CASE Len(t) > 0
  <2> DEFINE n == Len(t) - 1
             f == SubSeq(t, 1, n)
  <2>1. n \in 0..Len(t) /\ 1 \in Nat \ {0} /\ n \in Nat
    BY <1>2, <1>4
  <2>2. Front(t) = f
    BY DEF Front
  <2> HIDE DEF n
  <2>3. /\ IsSeq(f) /\ Len(f) = IF 1 <= n THEN n - 1 + 1 ELSE 0
        /\ \A i \in 1..(n - 1 + 1) : f[i] = t[1 + i - 1]
    BY <2>1, Sub
  <2> HIDE DEF f
  <2>4. ASSUME NEW i \in 1..Len(f) PROVE i \in 1..n /\ f[i] = t[i]
    <3>1. i \in 1..n /\ i \in 1..(n - 1 + 1) /\ 1 + i - 1 = i
      BY <2>1, <2>3
    <3>2. f[i] = t[1 + i - 1]
      BY <2>3, <3>1
    <3> QED BY <3>1, <3>2
  <2> QED BY <2>2, <2>3, <2>4 DEF n
<1> QED BY <1>2, <1>3, <1>4

LEMMA NextIs ==
    ASSUME TodoInv, NextApp
    PROVE  /\ IsSeq(todo') /\ (\A e \in Items(todo') : e[1] \in Asks /\ (e \in Items(todo) \/ e[1] = "updated"))
           /\ who' = "job" /\ undo' = <<>> /\ UNCHANGED repo /\ UNCHANGED hurt
           /\ who \in {"job", "rollback"} /\ Kind(1) = "next" /\ todo # <<>>
<1>1. Kind(1) = "next" /\ Len(todo) \in Nat \ {0} /\ todo # <<>> /\ IsSeq(todo)
  BY HeadIs DEF NextApp
<1>2. who \in {"job", "rollback"}
  <2>1. who # "gc"
    BY <1>1, NotCollecting DEF Collects
  <2> QED BY <1>1, <2>1 DEF TodoInv, HolderInv
<1> DEFINE t == Tail(todo)
<1>3. /\ IsSeq(t) /\ Len(t) \in Nat /\ Items(t) \subseteq Items(todo) /\ \A i \in 1..Len(t) : t[i][1] \in Asks
  <2>1. IsSeq(t) /\ Len(t) = Len(todo) - 1 /\ \A i \in 1..Len(t) : t[i] = todo[i + 1]
    BY <1>1, Rests
  <2>2. ASSUME NEW i \in 1..Len(t) PROVE t[i][1] \in Asks
    <3>1. i + 1 \in 1..Len(todo) /\ 1 < i + 1 /\ 1 \in 1..Len(todo)
      BY <1>1, <2>1
    <3>2. Kind(i + 1) \in Asks
      BY <1>1, <3>1 DEF TodoInv, HolderInv
    <3> QED BY <2>1, <3>2 DEF Kind
  <2> QED BY <1>1, <2>1, <2>2, ItemsTail
<1> HIDE DEF t
<1>4. \A e \in Items(t) : e[1] \in Asks
  BY <1>3 DEF Items
<1>5. IsSeq(Front(t)) /\ Items(Front(t)) \subseteq Items(t)
  <2>1. \A i \in 1..Len(Front(t)) : i \in 1..(Len(t) - 1) /\ Front(t)[i] = t[i]
    BY <1>3, FrontIs
  <2>2. \A i \in 1..(Len(t) - 1) : i \in 1..Len(t)
    BY <1>3
  <2> QED BY <1>3, <2>1, <2>2, FrontIs DEF Items
<1> DEFINE a == <<<<"updated", Arg>>>>
<1>6. IsSeq(a) /\ Items(a) = {<<"updated", Arg>>}
  BY ItemsOne
<1> DEFINE x == <<"updated", Arg>>
<1>7. x[1] = "updated" /\ "updated" \in Asks
  BY DEF Asks
<1>8. todo' = t \/ todo' = Front(t) \o a
  BY DEF NextApp, t
<1> HIDE DEF a
<1>9. IsSeq(Front(t) \o a) /\ Items(Front(t) \o a) = Items(Front(t)) \cup {x}
  BY <1>5, <1>6, ItemsConcat, Concat
<1> HIDE DEF x
<1>10. IsSeq(todo') /\ \A e \in Items(todo') : e[1] \in Asks /\ (e \in Items(todo) \/ e[1] = "updated")
  <2>1. CASE todo' = t
    BY <1>3, <1>4, <2>1
  <2>2. CASE todo' = Front(t) \o a
    BY <1>3, <1>4, <1>5, <1>7, <1>9, <2>2
  <2> QED BY <1>8, <2>1, <2>2
<1> QED BY <1>1, <1>2, <1>10 DEF NextApp, past

\* The rest, once an app could not be updated.
LEMMA RestSub ==
    ASSUME TodoInv
    PROVE  Rest = <<>> \/ \E m \in 1..Len(todo) : /\ Len(Rest) = Len(todo) - m + 1
                                                  /\ \A i \in 1..Len(Rest) : Rest[i] = todo[m + i - 1]
<1> DEFINE marks == {i \in DOMAIN todo : todo[i][1] = "next"}
<1>1. IsSeq(todo) /\ Len(todo) \in Nat /\ DOMAIN todo = 1..Len(todo)
  <2>1. PICK S : todo \in Seq(S)
    BY DEF TodoInv, IsSeq
  <2> QED BY <2>1 DEF TodoInv
<1>2. CASE marks = {}
  BY <1>2 DEF Rest
<1>3. CASE marks # {}
  <2>1. Rest = SubSeq(todo, Min(marks), Len(todo))
    BY <1>3 DEF Rest
  <2>2. PICK m \in marks : TRUE
    BY <1>3
  <2>3. \A x \in marks : x = m
    <3>1. ASSUME NEW x \in marks, x # m PROVE FALSE
      <4>1. x \in 1..Len(todo) /\ m \in 1..Len(todo) /\ Kind(x) = "next" /\ Kind(m) = "next" /\ (x < m \/ m < x)
        BY <1>1, <3>1 DEF Kind
      <4>2. Kind(x) \in Asks \/ Kind(m) \in Asks
        BY <4>1 DEF TodoInv, HolderInv
      <4> QED BY <4>1, <4>2 DEF Asks
    <3> QED BY <3>1
  <2>4. Min(marks) = m
    <3>1. \E x \in marks : \A y \in marks : x =< y
      BY <1>1, <2>2, <2>3
    <3>2. Min(marks) \in marks
      BY <3>1 DEF Min
    <3> QED BY <2>3, <3>2
  <2>5. m \in 1..Len(todo) /\ m \in Nat \ {0} /\ Len(todo) \in 0..Len(todo) /\ m <= Len(todo)
    BY <1>1
  <2>6. Rest = SubSeq(todo, m, Len(todo))
    BY <2>1, <2>4
  <2>7. /\ Len(Rest) = IF m <= Len(todo) THEN Len(todo) - m + 1 ELSE 0
        /\ \A i \in 1..(Len(todo) - m + 1) : Rest[i] = todo[m + i - 1]
    BY <1>1, <2>5, <2>6, Sub
  <2>8. Len(Rest) = Len(todo) - m + 1
    BY <2>5, <2>7
  <2> QED BY <2>5, <2>7, <2>8
<1> QED BY <1>2, <1>3

LEMMA RestItems ==
    ASSUME TodoInv
    PROVE  IsSeq(Rest) /\ Items(Rest) \subseteq Items(todo) /\ \A e \in Items(Rest) : e[1] \in Asks \cup {"next"}
<1>1. /\ IsSeq(Rest) /\ \A e \in Items(Rest) : e[1] \in Asks \cup {"next"}
  BY RestsAsks DEF Items
<1>2. CASE Rest = <<>>
  BY <1>1, <1>2, ItemsNone
<1>3. ASSUME NEW m \in 1..Len(todo), Len(Rest) = Len(todo) - m + 1,
             \A i \in 1..Len(Rest) : Rest[i] = todo[m + i - 1]
      PROVE  Items(Rest) \subseteq Items(todo)
  <2>1. Len(todo) \in Nat
    BY Concat DEF TodoInv
  <2>2. \A i \in 1..Len(Rest) : m + i - 1 \in 1..Len(todo)
    BY <1>3, <2>1
  <2> QED BY <1>3, <2>2 DEF Items
<1> QED BY <1>1, <1>2, <1>3, RestSub

LEMMA FailIs ==
    ASSUME StepFails, who = "job", TodoInv
    PROVE  /\ todo' = undo \o Rest /\ who' = "rollback" /\ hurt' = hurt \cup Left /\ UNCHANGED <<repo, undo>>
           /\ IsSeq(undo) /\ Made(undo, Undos)
           /\ todo # <<>> /\ Kind(1) \in {"install", "checkout", "export", "unexport", "retire"}
<1>1. PICK do \in {"install", "checkout", "export", "unexport", "retire"} : Due(do) /\ Fail
  BY DEF StepFails
<1>2. todo # <<>> /\ Kind(1) = do
  BY <1>1, HeadIs
<1>3. Made(undo, Undos)
  BY DEF TodoInv, HolderInv, Made
<1> QED BY <1>1, <1>2, <1>3 DEF Fail, TodoInv

LEMMA ArgsStep == TodoInv /\ FiniteInv /\ ArgsInv /\ [Next]_vars => ArgsInv'
<1> SUFFICES ASSUME TodoInv, FiniteInv, ArgsInv, [Next]_vars PROVE ArgsInv'
  OBVIOUS
<1> DEFINE Sets == live \cup deferred \cup named \subseteq Commits /\ exported \subseteq AppCommits /\ live \cap deferred = {}
<1>0. Sets
  BY DEF ArgsInv
<1>1. ASSUME Plain PROVE ArgsInv'
  <2>1. PICK s : Turn(s) /\ Turns(s)
    BY <1>1, Turning DEF Plain
  <2>2. \A e \in Items(todo') : Fit(e)
    BY <2>1, Turned, TurnItems DEF Small, TodoInv, ArgsInv
  <2>3. Fit(todo[1]) /\ todo # <<>>
    BY <2>1, Turned DEF ArgsInv, TodoInv, Turn
  <2>4. Sets'
    <3>1. CASE /\ UNCHANGED repo
      BY <1>0, <3>1 DEF repo
    <3>2. CASE InstallModule
      BY <1>0, <3>1, <3>2 DEF InstallModule
    <3>3. CASE SetRef
      <4>1. Arg \in Commits
        BY <2>3, <3>3, HeadIs DEF SetRef, Fit, Kind, This, Pulls
      <4> QED BY <1>0, <3>3, <4>1 DEF SetRef
    <3>4. CASE Upsert
      <4>1. Arg \in Commits
        BY <2>3, <3>4, HeadIs DEF Upsert, Fit, Kind, This, Pulls
      <4> QED BY <1>0, <3>4, <4>1 DEF Upsert
    <3>5. CASE Export
      <4>1. Arg \in Apps
        BY <2>3, <3>5, HeadIs DEF Export, Fit, Kind, This
      <4>2. Linked \subseteq AppCommits
        BY <1>0, <4>1 DEF Linked, AppCommits
      <4> QED BY <1>0, <3>5, <4>2 DEF Export
    <3>6. CASE Clear \/ Checkout \/ Unexport \/ Unref \/ Drop \/ Merge \/ Clean
      BY <1>0, <3>6 DEF Clear, Checkout, Unexport, Unref, Drop, Merge, Clean, repo
    <3>7. CASE Mark
      <4>1. PICK c \in live : live' = live \ {c} /\ deferred' = deferred \cup {c}
        BY <3>7 DEF Mark, Found
      <4> QED BY <1>0, <3>7, <4>1 DEF Mark
    <3>8. CASE \/ Unimport \/ UpdateSkips \/ Updated \/ ImportLayer
               \/ Retire \/ RemoveAll \/ RemoveModule \/ AfterChange \/ PruneUnused \/ Sweep \/ Collect \/ Discard
               \/ StepFails
      BY <3>1, <3>8 DEF Unimport, UpdateSkips, Updated, ImportLayer, Retire, RemoveAll, RemoveModule, AfterChange,
                        PruneUnused, Sweep, Collect, Discard, StepFails, Fail
    <3> QED BY <1>1, <3>2, <3>3, <3>4, <3>5, <3>6, <3>7, <3>8 DEF Plain
  <2> QED BY <2>2, <2>4 DEF ArgsInv
<1>2. CASE Job
  <2>1. \A e \in Items(todo') : Fit(e)
    BY <1>2, JobSound DEF BeginSound, Sound, FitAll
  <2>2. UNCHANGED repo
    <3>1. \E h \in SUBSET {"forced"} : \E plan, back : BeginAs(h, plan, back)
      BY <1>2 DEF Job, Install, InstallBase, InstallExtra, InstallLayer, InstallUab, Update, Uninstall,
                  UninstallExtra, Prune, Begin
    <3> QED BY <3>1 DEF BeginAs
  <2> QED BY <1>0, <2>1, <2>2 DEF ArgsInv, repo
<1>3. CASE UpdateApp
  <2> DEFINE r    == This
             new  == Newer(r, todo[1][3])
             n    == Becomes(r, todo[1][3])
             own  == IF new THEN Plan(n, ModulesOf(r)) ELSE <<>>
             plan == own \o Bases(n)
             join == IF plan = <<>> THEN <<>> ELSE Merging
             link == IF new THEN Renewal(n, r) ELSE <<>>
             e0   == <<"next", IF plan = <<>> THEN "same" ELSE "changed">>
             mark == <<e0>>
  <2>1. /\ todo' = plan \o join \o link \o mark \o Tail(todo) /\ n \in Apps /\ UNCHANGED repo
        /\ IsSeq(Tail(todo)) /\ \A e \in Items(Tail(todo)) : Fit(e)
    BY <1>3, UpdateIs
  <2>2. FitAll(own) /\ FitAll(Bases(n)) /\ FitAll(join)
    BY SoundLists DEF Bases, Sound
  <2>3. FitAll(link)
    <3>1. Fit(<<"export", n, Both>>) /\ Fit(<<"unexport", r, Both>>) /\ Fit(<<"retire", r>>)
      BY <2>1 DEF Fit, Pulls
    <3>2. FitAll(Renewal(n, r))
      BY <3>1, ItemsThree DEF FitAll, Renewal
    <3> QED BY <3>2, SoundLists DEF Sound
  <2>4. FitAll(mark)
    <3>1. Fit(e0)
      BY DEF Fit, Pulls
    <3> HIDE DEF e0
    <3> QED BY <3>1, ItemsOne DEF FitAll
  <2> HIDE DEF own, join, link, mark
  <2>5. ASSUME NEW s, NEW t, FitAll(s), FitAll(t) PROVE FitAll(s \o t)
    BY <2>5, ItemsConcat, Concat DEF FitAll
  <2>6. FitAll(Tail(todo))
    BY <2>1 DEF FitAll
  <2>7. FitAll(todo')
    BY <2>1, <2>2, <2>3, <2>4, <2>5, <2>6
  <2> QED BY <1>0, <2>1, <2>7 DEF ArgsInv, FitAll, repo
<1>4. CASE NextApp
  <2>1. \A e \in Items(todo') : Fit(e)
    BY <1>4, NextIs DEF ArgsInv, Fit, Pulls
  <2> QED BY <1>0, <1>4, <2>1, NextIs DEF ArgsInv, repo
<1>5. CASE StepFails /\ who = "job"
  <2>1. \A e \in Items(undo) : Fit(e)
    BY <1>5, FailIs, FitUndos DEF Undos, Pulls
  <2>2. Items(todo') = Items(undo) \cup Items(Rest)
    BY <1>5, FailIs, RestItems, ItemsConcat
  <2>3. \A e \in Items(todo') : Fit(e)
    BY <2>1, <2>2, RestItems DEF ArgsInv
  <2> QED BY <1>0, <1>5, <2>3, FailIs DEF ArgsInv, repo
<1>6. CASE GcBegin
  <2> DEFINE s == Each("collect", SetToSeq({c.ref : c \in deferred}))
             t == IF deferred = {} THEN <<>> ELSE <<<<"merge">>>>
  <2>1. todo' = s \o t /\ UNCHANGED repo
    BY <1>6 DEF GcBegin
  <2>2. IsSeq(s) /\ \A e \in Items(s) : Fit(e)
    <3>1. IsFiniteSet({c.ref : c \in deferred})
      BY Mapped DEF FiniteInv
    <3>2. IsSeq(s) /\ \A e \in Items(s) : \E x \in {c.ref : c \in deferred} : e = <<"collect", x>>
      BY <3>1, ItemsEach
    <3> HIDE DEF s
    <3> QED BY <3>2 DEF Fit, Pulls
  <2>3. IsSeq(t) /\ \A e \in Items(t) : Fit(e)
    BY SoundLists DEF Sound, FitAll, Merging
  <2> HIDE DEF s, t
  <2>4. \A e \in Items(todo') : Fit(e)
    BY <2>1, <2>2, <2>3, ItemsConcat
  <2> QED BY <1>0, <2>1, <2>4 DEF ArgsInv, repo
<1>7. CASE Stopping
  <2>1. \A e \in Items(todo') : Fit(e)
    BY <1>7, StopIs, ItemsNone
  <2>2. Sets'
    <3>1. CASE Rebuilt
      BY <1>0, <3>1 DEF Rebuilt
    <3> QED BY <1>0, <1>7, <3>1, StopIs
  <2> QED BY <2>1, <2>2 DEF ArgsInv
<1>8. CASE Resting
  BY <1>8, RestIs DEF ArgsInv, repo, Items
<1> QED BY <1>1, <1>2, <1>3, <1>4, <1>5, <1>6, <1>7, <1>8, StepForms


\* A rollback unlinks what it takes away, but that of an extra module.
UndoInv == who = "job" => Orderly(undo) \/ \E r \in Apps : undo = BackExtra(r, "develop")

LEMMA UndoStep == TodoInv /\ FiniteInv /\ ArgsInv /\ UndoInv /\ [Next]_vars => UndoInv'
<1> SUFFICES ASSUME TodoInv, FiniteInv, ArgsInv, UndoInv, [Next]_vars PROVE UndoInv'
  OBVIOUS
<1> USE DEF UndoInv
<1>1. CASE Plain
  <2>1. PICK s : Turn(s) /\ Turns(s)
    BY <1>1, Turning DEF Plain
  <2> QED BY <2>1 DEF Turn
<1>2. CASE Job
  BY <1>2, JobSound DEF BeginSound
<1>3. CASE UpdateApp
  BY <1>3, UpdateIs, OrderlyLists
<1>4. CASE NextApp
  BY <1>4, NextIs, OrderlyLists
<1>5. CASE StepFails /\ who = "job"
  BY <1>5, FailIs
<1>6. CASE GcBegin
  BY <1>6 DEF GcBegin
<1>7. CASE Stopping
  <2>1. Stopping => who' = who \/ who' = "none"
    BY DEF Stopping, UpdateCanceled, End, Crash, Rebuilt
  <2> QED BY <1>7, <2>1, StopIs
<1>8. CASE Resting
  BY <1>8, RestIs
<1> QED BY <1>1, <1>2, <1>3, <1>4, <1>5, <1>6, <1>7, <1>8, StepForms

LinkedInv == {"rebuilt", "linked"} \cap hurt = {} => OrderlyInv

LEMMA OrderlyPlain ==
    ASSUME TodoInv, FiniteInv, ArgsInv, OrderlyInv, Plain, "linked" \notin hurt'
    PROVE  OrderlyInv'
<1>1. PICK s : Turn(s) /\ Turns(s)
  BY Turning DEF Plain
<1>2. /\ todo # <<>> /\ Head(todo) = todo[1] /\ Arg = todo[1][2] /\ exported \subseteq AppCommits /\ exported \subseteq live
      /\ live \cap deferred = {} /\ IsSeq(todo) /\ Len(todo) \in Nat \ {0}
  BY <1>1, Rests DEF Turn, TodoInv, ArgsInv, OrderlyInv, Arg
<1>3. \A c \in AppCommits : c \in exported => ~Takes(todo[1], c)
  <2> SUFFICES ASSUME NEW c \in AppCommits, c \in exported, Takes(todo[1], c) PROVE FALSE
    OBVIOUS
  <2>1. 1 \in 1..Len(todo)
    BY <1>2
  <2>2. Unlinked(todo, 1, c)
    BY <2>1 DEF OrderlyInv
  <2>3. \A j \in 1..(1 - 1) : FALSE
    OBVIOUS
  <2> QED BY <2>2, <2>3 DEF Unlinked
<1>4. /\ \A c \in AppCommits : c \in exported' => c \in exported \/ Links(todo[1], c)
      /\ \A c \in AppCommits : Covers(todo[1], c) => c \notin exported'
      /\ exported' \subseteq live'
  <2>1. CASE UNCHANGED repo /\ todo[1][1] # "unexport"
    BY <1>2, <2>1 DEF repo, Covers
  <2>2. CASE InstallModule \/ SetRef \/ Clear \/ Checkout \/ Unref \/ Merge \/ Clean
    <3>1. UNCHANGED exported /\ live \subseteq live' /\ todo[1][1] # "unexport"
      BY <1>2, <2>2 DEF InstallModule, SetRef, Clear, Checkout, Unref, Merge, Clean, Onward, repo, Due
    <3> QED BY <1>2, <3>1 DEF Covers
  <2>3. CASE Upsert
    <3>1. UNCHANGED exported /\ live \cap exported \subseteq live' /\ todo[1][1] # "unexport"
      BY <1>2, <2>3 DEF Upsert, Due
    <3> QED BY <1>2, <3>1 DEF Covers
  <2>4. CASE Drop
    <3>1. UNCHANGED exported /\ live' = live \ {Arg} /\ todo[1][1] = "drop"
      BY <1>2, <2>4 DEF Drop, Due
    <3>2. Arg \notin exported
      BY <1>2, <1>3, <3>1 DEF Takes
    <3> QED BY <1>2, <3>1, <3>2 DEF Covers
  <2>5. CASE Mark
    <3>1. todo[1][1] = "mark" /\ UNCHANGED exported
      BY <1>2, <2>5 DEF Mark, Due
    <3>2. PICK c \in Found(live, Arg, todo[1][3]) : live' = live \ {c}
      BY <1>2, <2>5 DEF Mark
    <3>3. c \notin exported
      <4>1. Takes(todo[1], c)
        BY <1>2, <3>1, <3>2 DEF Takes, Found
      <4> QED BY <1>2, <1>3, <4>1
    <3> QED BY <1>2, <3>1, <3>2, <3>3 DEF Covers
  <2>6. CASE Export
    <3>1. exported' = exported \cup Linked /\ UNCHANGED live /\ todo[1][1] = "export"
      BY <1>2, <2>6 DEF Export, Due
    <3>2. Linked \subseteq live /\ \A c \in Linked : Links(todo[1], c)
      BY <1>2, <3>1 DEF Linked, Links
    <3> QED BY <1>2, <3>1, <3>2 DEF Covers
  <2>7. CASE Unexport
    <3>1. exported' = exported \ Linked /\ UNCHANGED live /\ todo[1][1] = "unexport"
      BY <1>2, <2>7 DEF Unexport, Due
    <3>2. \A c : c \in exported /\ Covers(todo[1], c) => c \in Linked
      BY <1>2 DEF Linked, Covers
    <3> QED BY <1>2, <3>1, <3>2 DEF Links
  <2>8. CASE StepFails /\ who # "job"
    <3>1. UNCHANGED repo /\ hurt' = hurt \cup Left
      BY <2>8 DEF StepFails, Fail
    <3>2. who = "rollback"
      <4>1. todo[1][1] \notin Collects
        BY <1>2, <2>8 DEF StepFails, Due, Collects
      <4>2. who # "gc"
        BY <1>2, <4>1, NotCollecting DEF Kind
      <4>3. who # "none"
        BY <1>2 DEF TodoInv, HolderInv
      <4> QED BY <2>8, <4>2, <4>3 DEF TodoInv, HolderInv
    <3>3. todo[1][1] = "unexport" => Linked \cap exported = {}
      <4> SUFFICES ASSUME todo[1][1] = "unexport", Linked \cap exported # {} PROVE FALSE
        OBVIOUS
      <4>1. "linked" \in Left
        BY <1>2, <3>2 DEF Left, Due
      <4> QED BY <3>1, <4>1
    <3>4. \A c : c \in exported /\ Covers(todo[1], c) => c \in Linked /\ todo[1][1] = "unexport"
      BY <1>2 DEF Linked, Covers
    <3>5. \A c : c \in exported => ~Covers(todo[1], c)
      BY <3>3, <3>4
    <3> QED BY <1>2, <3>1, <3>5 DEF repo
  <2>9. CASE \/ Unimport \/ UpdateSkips \/ Updated \/ ImportLayer
             \/ Retire \/ RemoveAll \/ RemoveModule \/ AfterChange \/ PruneUnused \/ Sweep \/ Collect \/ Discard
    <3>1. UNCHANGED repo
      BY <2>9 DEF Unimport, UpdateSkips, Updated, ImportLayer, Retire, RemoveAll, RemoveModule, AfterChange,
                  PruneUnused, Sweep, Collect, Discard
    <3>2. todo[1][1] # "unexport"
      BY <1>2, <2>9 DEF Unimport, UpdateSkips, Updated, ImportLayer, Retire, RemoveAll, RemoveModule, AfterChange,
                  PruneUnused, Sweep, Collect, Discard, Due
    <3> QED BY <2>1, <3>1, <3>2
  <2> QED BY <2>2, <2>3, <2>4, <2>5, <2>6, <2>7, <2>8, <2>9 DEF Plain
<1>5. \A e \in Items(s) : /\ e[1] # "export"
                          /\ \A c \in AppCommits : Takes(e, c) => (Takes(todo[1], c) \/ c \notin exported) /\ todo[1][1] # "export"
  <2>1. \A e \in Items(s) : Small(e)
    BY <1>1, TurnItems
  <2> QED BY <1>2, <2>1 DEF Small
<1>6. \A i \in 1..Len(todo') : \A c \in AppCommits :
          Takes(todo'[i], c) => Unlinked(todo', i, c) \/ (c \notin exported' /\ NoLinks(todo', i - 1, c))
  BY <1>1, <1>4, <1>5, LinkedGoes
<1> QED BY <1>4, <1>6 DEF OrderlyInv

\* The updates of the next app come in order, and after them only apps follow.
LEMMA OrderlyUpdate ==
    ASSUME TodoInv, ArgsInv, UpdateApp
    PROVE  \A i \in 1..Len(todo') : \A c \in AppCommits :
               Takes(todo'[i], c) => Unlinked(todo', i, c) \/ (c \notin exported' /\ NoLinks(todo', i - 1, c))
<1> DEFINE r    == This
           new  == Newer(r, todo[1][3])
           n    == Becomes(r, todo[1][3])
           own  == IF new THEN Plan(n, ModulesOf(r)) ELSE <<>>
           plan == own \o Bases(n)
           join == IF plan = <<>> THEN <<>> ELSE Merging
           link == IF new THEN Renewal(n, r) ELSE <<>>
           e0   == <<"next", IF plan = <<>> THEN "same" ELSE "changed">>
           mark == <<e0>>
<1>1. /\ todo' = plan \o join \o link \o mark \o Tail(todo) /\ n \in Apps
      /\ IsSeq(Tail(todo)) /\ \A e \in Items(Tail(todo)) : e[1] \in Asks
  BY UpdateIs
<1>2. Sound(own) /\ Sound(Bases(n)) /\ Sound(join)
  BY SoundLists DEF Bases
<1>3. Sound(link)
  <2>1. CASE new
    <3> DEFINE u == <<<<"export", n, Both>>>>
               v == <<<<"unexport", r, Both>>, <<"retire", r>>>>
    <3>1. Sound(u) /\ Sound(v)
      BY <1>1, SoundLists
    <3>2. u \o v = Renewal(n, r)
      <4> DEFINE a == <<"export", n, Both>>
                 b == <<"unexport", r, Both>>
                 d == <<"retire", r>>
      <4> HIDE DEF a, b, d
      <4>1. /\ IsSeq(<<a>>) /\ Len(<<a>>) = 1 /\ <<a>>[1] = a
            /\ IsSeq(<<b, d>>) /\ Len(<<b, d>>) = 2 /\ <<b, d>>[1] = b /\ <<b, d>>[2] = d
        BY ItemsOne, ItemsTwo
      <4> DEFINE w == <<a>> \o <<b, d>>
      <4>2. IsSeq(w) /\ Len(w) = 3 /\ w[1] = a /\ w[2] = b /\ w[3] = d
        BY <4>1, Concat
      <4> HIDE DEF w
      <4>3. w = <<a, b, d>>
        <5>1. PICK S : w \in Seq(S)
          BY <4>2 DEF IsSeq
        <5> QED BY <4>2, <5>1
      <4> QED BY <4>3 DEF w, a, b, d, Renewal
    <3> HIDE DEF u, v
    <3>3. Sound(u \o v)
      BY <3>1, SoundConcat
    <3> QED BY <2>1, <3>2, <3>3
  <2>2. CASE ~new
    BY <2>2, SoundLists
  <2> QED BY <2>1, <2>2
<1>4. Sound(mark)
  <2>1. Fit(e0) /\ \A c : ~Takes(e0, c)
    BY DEF Fit, Pulls, Takes
  <2> HIDE DEF e0
  <2> QED BY <2>1, SoundOne, OrderlyOne
<1> HIDE DEF own, join, link, mark
<1> DEFINE a == plan \o join \o link \o mark
<1>5. Sound(a)
  BY <1>2, <1>3, <1>4, SoundConcat
<1>6. todo' = a \o Tail(todo)
  BY <1>1
<1> HIDE DEF a
<1>7. IsSeq(a) /\ Orderly(a)
  BY <1>5 DEF Sound, FitAll
<1>8. \A e \in Items(Tail(todo)) : e[1] \notin Takers
  BY <1>1 DEF Asks, Takers
<1> QED BY <1>1, <1>6, <1>7, <1>8, LinkedStarts

LEMMA LinkedStep ==
    TodoInv /\ FiniteInv /\ ArgsInv /\ UndoInv /\ LinkedInv /\ [Next]_vars => LinkedInv'
<1> SUFFICES ASSUME TodoInv, FiniteInv, ArgsInv, UndoInv, LinkedInv, [Next]_vars,
                    {"rebuilt", "linked"} \cap hurt' = {}
             PROVE  OrderlyInv'
  BY DEF LinkedInv
<1> DEFINE Listing == \A i \in 1..Len(todo') : \A c \in AppCommits :
               Takes(todo'[i], c) => Unlinked(todo', i, c) \/ (c \notin exported' /\ NoLinks(todo', i - 1, c))
<1>0. ASSUME hurt \subseteq hurt' \cup {"unmerged"} PROVE OrderlyInv
  BY <1>0 DEF LinkedInv
<1>1. CASE Plain
  <2>1. hurt \subseteq hurt' \cup {"unmerged"}
    BY <1>1 DEF Plain, Merge, Unimport, UpdateSkips, Updated, InstallModule, ImportLayer, SetRef, Clear, Checkout,
                Upsert, Export, Unexport, Retire, Mark, RemoveAll, RemoveModule, Unref, Drop,
                AfterChange, PruneUnused, Clean, Sweep, Collect, Discard, StepFails, Fail, Onward
  <2>2. OrderlyInv
    BY <1>0, <2>1
  <2> QED BY <1>1, <2>2, OrderlyPlain
<1> HIDE DEF Listing
<1>2. ASSUME OrderlyInv, Listing, UNCHANGED <<live, exported>> PROVE OrderlyInv'
  BY <1>2 DEF OrderlyInv, Listing
<1>3. CASE Job
  <2>1. \E h \in SUBSET {"forced"} : \E plan, back : BeginAs(h, plan, back)
    BY <1>3 DEF Job, Install, InstallBase, InstallExtra, InstallLayer, InstallUab, Update, Uninstall,
                UninstallExtra, Prune, Begin
  <2>2. UNCHANGED repo /\ hurt \subseteq hurt'
    BY <2>1 DEF BeginAs
  <2>3. Sound(todo')
    BY <1>3, JobSound DEF BeginSound
  <2>4. Listing
    BY <2>3 DEF Sound, Orderly, Listing
  <2> QED BY <1>0, <1>2, <2>2, <2>4 DEF repo
<1>4. CASE UpdateApp
  <2>1. UNCHANGED repo /\ hurt' = hurt
    BY <1>4 DEF UpdateApp, past
  <2> QED BY <1>0, <1>2, <1>4, <2>1, OrderlyUpdate DEF repo, Listing
<1>5. CASE NextApp
  <2>1. \A e \in Items(todo') : e[1] \notin Takers
    BY <1>5, NextIs DEF Asks, Takers
  <2>2. Listing
    BY <2>1, OrderlyFree DEF Orderly, Listing
  <2> QED BY <1>0, <1>2, <1>5, <2>2, NextIs DEF repo
<1>6. CASE StepFails /\ who = "job"
  <2>1. Orderly(undo)
    <3> SUFFICES ASSUME NEW r \in Apps, undo = BackExtra(r, "develop") PROVE FALSE
      BY <1>6 DEF UndoInv
    <3>1. "linked" \in Left
      BY <1>6 DEF Left
    <3> QED BY <1>6, <3>1, FailIs
  <2>2. \A e \in Items(Rest) : e[1] \notin Takers
    BY RestItems DEF Asks, Takers
  <2>3. Listing
    BY <1>6, <2>1, <2>2, FailIs, RestItems, LinkedStarts DEF Listing
  <2>4. hurt \subseteq hurt' /\ UNCHANGED repo
    BY <1>6, FailIs
  <2> QED BY <1>0, <1>2, <2>3, <2>4 DEF repo
<1>7. CASE GcBegin
  <2> DEFINE s == Each("collect", SetToSeq({c.ref : c \in deferred}))
             t == IF deferred = {} THEN <<>> ELSE Merging
  <2>1. todo' = s \o t /\ UNCHANGED <<repo, hurt>>
    BY <1>7 DEF GcBegin, past, Merging
  <2>2. IsSeq(s) /\ \A e \in Items(s) : e[1] \notin Takers
    <3>1. IsFiniteSet({c.ref : c \in deferred})
      BY Mapped DEF FiniteInv
    <3>2. IsSeq(s) /\ \A e \in Items(s) : \E x \in {c.ref : c \in deferred} : e = <<"collect", x>>
      BY <3>1, ItemsEach
    <3> HIDE DEF s
    <3> QED BY <3>2 DEF Takers
  <2>3. IsSeq(t) /\ Orderly(t)
    BY OrderlyLists, IsSeqs
  <2> HIDE DEF s, t
  <2>4. Orderly(todo')
    BY <2>1, <2>2, <2>3, OrderlyFree, OrderlyConcat
  <2>5. Listing
    BY <2>4 DEF Orderly, Listing
  <2> QED BY <1>0, <1>2, <2>1, <2>5 DEF repo
<1>8. CASE Stopping
  <2>1. ~Rebuilt
    BY DEF Rebuilt
  <2>2. Listing
    <3>1. Orderly(todo')
      BY <1>8, StopIs, OrderlyLists
    <3> QED BY <3>1 DEF Orderly, Listing
  <2> QED BY <1>0, <1>2, <1>8, <2>1, <2>2, StopIs
<1>9. CASE Resting
  <2>1. UNCHANGED <<live, exported, todo, hurt>>
    BY <1>9, RestIs DEF repo
  <2>2. OrderlyInv
    BY <1>0, <2>1
  <2>3. Listing
    BY <2>1, <2>2 DEF OrderlyInv, Listing
  <2> QED BY <1>2, <2>1, <2>2, <2>3
<1> QED BY <1>1, <1>3, <1>4, <1>5, <1>6, <1>7, <1>8, <1>9, StepForms

\* Desktop entries are unlinked before the layers they start are taken away,
\* also in a rollback; nothing that is linked goes in between.
THEOREM ExportedLiveHolds == Spec => []ExportedLive
<1>1. Init => ArgsInv /\ UndoInv /\ LinkedInv
  <2> SUFFICES ASSUME Init PROVE ArgsInv /\ UndoInv /\ LinkedInv
    OBVIOUS
  <2>1. Items(todo) = {} /\ Len(todo) = 0
    BY ItemsNone DEF Init
  <2> QED BY <2>1 DEF Init, ArgsInv, UndoInv, LinkedInv, OrderlyInv
<1>2. LayersInv /\ ArgsInv /\ UndoInv /\ LinkedInv /\ [Next]_vars => (ArgsInv /\ UndoInv /\ LinkedInv)'
  BY ArgsStep, UndoStep, LinkedStep DEF LayersInv
<1>3. LinkedInv => ExportedLive
  BY DEF LinkedInv, OrderlyInv, ExportedLive
<1> QED BY <1>1, <1>2, <1>3, LayersInvHolds, PTL DEF Spec
=============================================================================
