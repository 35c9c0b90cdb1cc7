--------------------------- MODULE BuilderProofs ---------------------------
(***************************************************************************)
(* Proofs about Builder: what the builders leave in the repository is      *)
(* sound, for any number of them, of projects, of modules and of bases.    *)
(***************************************************************************)
EXTENDS Builder, TLAPS

-----------------------------------------------------------------------------
(* The inductive invariant.                                                *)

Copies  == [layers : SUBSET Layers, merged : SUBSET SUBSET Layers]
AllRules == {Rules[i] : i \in 1..Len(Rules)}
            \cup {[name |-> "develop", files |-> {"header"}], [name |-> "binary", files |-> Files]}
Lists   == {l \in Seq(AllRules) : l # <<>> /\ l[Len(l)] = [name |-> "binary", files |-> Files]}

\* Steps a command is planned of; the others come up as it goes.
Planned == {"sources", "resolve", "local", "merge", "container", "copy", "split", "replace",
            "remove", "commit", "check", "read", "start"}
OnLayers == {"name", "clear", "checkout", "upsert", "drop", "erase"}
Steps   == {<<do>> : do \in Planned \ {"split", "remove", "commit"}}
           \cup {<<do, c>> : do \in OnLayers, c \in Layers}
           \cup {<<"remove", r>> : r \in Refs}
           \cup {<<"commit", S>> : S \in (SUBSET Layers) \ {{}}}
           \cup {<<"split", l>> : l \in Lists}
           \cup {<<"overlay", N>> : N \in (SUBSET SUBSET Layers) \ {{}}}
           \cup {<<do, N>> : do \in {"list", "sweep"}, N \in SUBSET SUBSET Layers}

Results == {"none", "done", "failed", "broken", "emptied", "built", "killed"}

TypeInv ==
    /\ file \in Copies /\ mem \in [Builders -> Copies]
    /\ torn \in BOOLEAN /\ writing \subseteq Builders
    /\ named \subseteq Layers /\ dirs \subseteq Layers /\ merged \subseteq SUBSET Layers
    /\ cut \subseteq Layers /\ bare \subseteq Layers
    /\ todo \in [Builders -> Seq(Steps)]
    /\ left \in [Builders -> [there : BOOLEAN, files : SUBSET Files]]
    /\ parts \in [Builders -> [Modules -> SUBSET Files]]
    /\ made \in [Builders -> SUBSET Files]
    /\ result \in [Builders -> Results]
    /\ gen \in 0..MaxRuns /\ stale \subseteq Builders /\ overlap \in BOOLEAN

Ahead(t) == {t[i] : i \in 1..Len(t)}
Kinds(t) == {s[1] : s \in Ahead(t)}
Rank(do) == CASE do = "container" -> 1 [] do = "copy" -> 2 [] do = "split" -> 3
              [] do = "replace" -> 4 [] do = "remove" -> 4 [] do = "commit" -> 5
              [] do = "check" -> 6 [] OTHER -> 0

\* The order of what is to be done.
Ordered(t) == \A i, j \in 1..Len(t) : i < j =>
    Rank(t[i][1]) = 0 \/ Rank(t[j][1]) = 0 \/ Rank(t[i][1]) < Rank(t[j][1])

\* Steps that are not planned come first, and lead on to others.
Shaped(t) == \A i \in 1..Len(t) :
    /\ i > 1 /\ t[i][1] \notin Planned => t[i][1] \in {"list", "sweep"}
    /\ t[i][1] = "list" => i = 1 \/ (i = 2 /\ t[1][1] = "overlay")
    /\ t[i][1] = "sweep" => i = 1 \/ t[i - 1] = <<"list", t[i][2]>>
    /\ t[i][1] = "list" => i < Len(t) /\ t[i + 1] = <<"sweep", t[i][2]>>
    /\ t[i][1] = "overlay" => i < Len(t) /\ t[i + 1][1] = "list"
    /\ t[i][1] \in {"drop", "erase"} => i < Len(t) /\ t[i + 1][1] = "remove"

TodoInv == \A p \in Builders : 
    /\ Shaped(todo[p]) /\ Ordered(todo[p])
    /\ Kinds(todo[p]) \cap {"container", "copy"} # {} => "split" \in Kinds(todo[p])
    /\ todo[p] # <<>> => result[p] = "none"

\* The layers a list of steps imports.
Of(s) == IF s[1] \in {"name", "clear", "checkout", "upsert"} THEN {s[2]}
         ELSE IF s[1] = "commit" THEN s[2] ELSE {}
Imports(t) == UNION {Of(s) : s \in Ahead(t)}

UpTo(n) == {c \in Layers : c.gen <= n}
Writers == {"upsert", "drop", "list"}

GenInv ==
    /\ file.layers \subseteq UpTo(gen) /\ named \subseteq UpTo(gen)
    /\ torn => file = Empty
    /\ \A p \in Builders :
         /\ mem[p].layers \subseteq UpTo(gen) /\ Imports(todo[p]) \subseteq UpTo(gen)
         /\ Due(p, "drop") \/ Due(p, "erase") => Arg(p) \in UpTo(gen)
         /\ Due(p, "erase") => Arg(p) \notin mem[p].layers
         /\ p \in writing => todo[p] # <<>> /\ Head(todo[p])[1] \in Writers
         /\ p \notin stale /\ p \notin writing => ~torn /\ mem[p] = file

LoneInv == ~overlap =>
    /\ LoneSound /\ named \subseteq dirs \cup cut
    /\ \A p \in Open :
         /\ p \notin stale /\ Open = {p}
         /\ p \in writing => /\ torn /\ mem[p].layers \subseteq dirs \cup bare
                            /\ mem[p].merged \subseteq merged
         /\ Due(p, "drop") \/ Due(p, "erase") => Arg(p) \notin named
         /\ Due(p, "upsert") => Arg(p) \in dirs
         /\ Due(p, "overlay") => todo[p][2][2] \subseteq merged \cup Arg(p)
         /\ Due(p, "list") => Arg(p) \subseteq merged
         /\ Due(p, "sweep") => file.merged = Arg(p)

Parted(p) ==
    LET P(m) == parts[p][m] IN
    /\ left[p].files \cup UNION {P(m) : m \in Modules} = made[p]
    /\ \A m \in Modules : P(m) \cap left[p].files # {} => m = "develop" /\ P(m) = made[p]
    /\ \A m, n \in Modules : m # n /\ P(m) \cap P(n) # {} =>
          \E d \in {m, n} : d = "develop" /\ P(d) = made[p]

PartsInv == \A p \in Builders :
    /\ Parted(p)
    /\ Kinds(todo[p]) \cap {"container", "copy"} # {} => \A m \in Modules : parts[p][m] = {}

Building(p) == result[p] = "built" \/ "check" \in Kinds(todo[p])
Removes(t)  == Kinds(t) \cap {"replace", "remove"} # {}

Apart(p, g) == \A q \in Builders \ {p} :
    /\ Imports(todo[q]) \cap Packed(p, g) = {}
    /\ p \notin stale /\ Due(q, "erase") => Arg(q) \notin Packed(p, g)

Replaced(p, g) ==
    /\ \A s \in Ahead(todo[p]) : s[1] = "remove" => s[2] = Own(p)
    /\ Removes(todo[p]) => <<"commit", Packed(p, g)>> \in Ahead(todo[p])
    /\ ~Removes(todo[p]) => OfRef(mem[p].layers, Own(p)) \subseteq Packed(p, g)

Listed(p, g) ==
    /\ \A c \in Imports(todo[p]) : c.ref.id = "base" \/ c \in Packed(p, g)
    /\ \A c \in Packed(p, g) :
          c \in Imports(todo[p]) \/ (c \in mem[p].layers /\ (p \notin stale => c \in dirs))
    /\ Due(p, "upsert") /\ Arg(p) \in Packed(p, g) /\ p \notin stale => Arg(p) \in dirs

BuildInv(p, g) == Apart(p, g) /\ Replaced(p, g) /\ Listed(p, g)

BuildingInv == \A p \in Builders : Building(p) =>
    /\ result[p] = "built" => todo[p] = <<>>
    /\ "split" \in Kinds(todo[p]) \/ left[p].files = {}
    /\ \E g \in 1..gen : BuildInv(p, g)

IInv == TypeInv /\ TodoInv /\ GenInv /\ LoneInv /\ PartsInv /\ BuildingInv

-----------------------------------------------------------------------------
(* Lists of steps.                                                         *)

\* What a step may have of its own to go on with, before the rest of the list.
GoesOn(t, s) ==
    /\ s \in Seq(Steps) /\ t \in Seq(Steps) /\ t # <<>>
    /\ \A x \in Ahead(s) :
         /\ x[1] \notin {"container", "copy", "check"}
         /\ Rank(x[1]) = 0 \/ Rank(x[1]) = Rank(Head(t)[1])
         /\ \A c \in Of(x) : c \in Of(Head(t)) \/ (c \in UpTo(0) /\ c.ref.id = "base")
    /\ \A i, j \in 1..Len(s) : i < j => Rank(s[i][1]) = 0 \/ Rank(s[j][1]) = 0
    /\ \/ s = <<>>
       \/ Shaped(s) /\ Head(t)[1] \notin {"overlay", "list"}
       \/ Head(t)[1] = "drop" /\ Len(s) = 1 /\ s[1][1] = "erase"
       \/ Head(t)[1] = "overlay" /\ Len(s) = 1 /\ s[1][1] = "overlay"

\* What a step of each kind is.
LEMMA StepIs ==
    ASSUME NEW s \in Steps
    PROVE  /\ s[1] \in OnLayers => s = <<s[1], s[2]>> /\ s[2] \in Layers
           /\ s[1] = "remove" => s = <<"remove", s[2]>> /\ s[2] \in Refs
           /\ s[1] = "commit" => s = <<"commit", s[2]>> /\ s[2] \subseteq Layers /\ s[2] # {}
           /\ s[1] = "split" => s[2] \in Lists
           /\ s[1] = "overlay" => s[2] \subseteq SUBSET Layers /\ s[2] # {}
           /\ s[1] \in {"list", "sweep"} => s[2] \subseteq SUBSET Layers
<1>1. ASSUME NEW do \in Planned \ {"split", "remove", "commit"}, s = <<do>>
      PROVE  s[1] \notin OnLayers \cup {"remove", "commit", "split", "overlay", "list", "sweep"}
  <2>1. s[1] = do
    BY <1>1
  <2> QED BY <1>1, <2>1 DEF Planned, OnLayers
<1>2. ASSUME NEW do \in OnLayers, NEW c \in Layers, s = <<do, c>>
      PROVE  s[1] = do /\ s[2] = c
             /\ s[1] \notin {"remove", "commit", "split", "overlay", "list", "sweep"}
  BY <1>2 DEF OnLayers
<1>3. ASSUME NEW do \in {"remove", "commit", "split", "overlay", "list", "sweep"}, NEW x,
             s = <<do, x>>
      PROVE  s[1] = do /\ s[2] = x /\ s[1] \notin OnLayers
  BY <1>3 DEF OnLayers
<1>4. \/ \E do \in Planned \ {"split", "remove", "commit"} : s = <<do>>
      \/ \E do \in OnLayers, c \in Layers : s = <<do, c>>
      \/ \E r \in Refs : s = <<"remove", r>>
      \/ \E S \in (SUBSET Layers) \ {{}} : s = <<"commit", S>>
      \/ \E l \in Lists : s = <<"split", l>>
      \/ \E N \in (SUBSET SUBSET Layers) \ {{}} : s = <<"overlay", N>>
      \/ \E do \in {"list", "sweep"}, N \in SUBSET SUBSET Layers : s = <<do, N>>
  BY SMT DEF Steps
<1>5. CASE \E do \in Planned \ {"split", "remove", "commit"} : s = <<do>>
  BY <1>1, <1>5 DEF OnLayers
<1>6. CASE \E do \in OnLayers, c \in Layers : s = <<do, c>>
  BY <1>2, <1>6
<1>7. CASE ~(\E do \in OnLayers, c \in Layers : s = <<do, c>>)
           /\ ~(\E do \in Planned \ {"split", "remove", "commit"} : s = <<do>>)
  <2>1. \A r : s = <<"remove", r>> => s[1] = "remove" /\ s[2] = r
    OBVIOUS
  <2>2. \A S : s = <<"commit", S>> => s[1] = "commit" /\ s[2] = S
    OBVIOUS
  <2>3. \A l : s = <<"split", l>> => s[1] = "split" /\ s[2] = l
    OBVIOUS
  <2>4. \A N : s = <<"overlay", N>> => s[1] = "overlay" /\ s[2] = N
    OBVIOUS
  <2>5. \A do, N : s = <<do, N>> => s[1] = do /\ s[2] = N
    OBVIOUS
  <2>6. CASE \E r \in Refs : s = <<"remove", r>>
    BY <2>6, <2>1 DEF OnLayers
  <2>7. CASE \E S \in (SUBSET Layers) \ {{}} : s = <<"commit", S>>
    <3> PICK S \in (SUBSET Layers) \ {{}} : s = <<"commit", S>>
      BY <2>7
    <3>1. s[1] = "commit" /\ s[2] = S /\ S \subseteq Layers /\ S # {}
      BY <2>2
    <3> QED BY <3>1 DEF OnLayers
  <2>8. CASE \E l \in Lists : s = <<"split", l>>
    BY <2>8, <2>3 DEF OnLayers
  <2>9. CASE \E N \in (SUBSET SUBSET Layers) \ {{}} : s = <<"overlay", N>>
    <3> PICK N \in (SUBSET SUBSET Layers) \ {{}} : s = <<"overlay", N>>
      BY <2>9
    <3>1. s[1] = "overlay" /\ s[2] = N /\ N \subseteq SUBSET Layers /\ N # {}
      BY <2>4
    <3> QED BY <3>1 DEF OnLayers
  <2>10. CASE \E do \in {"list", "sweep"}, N \in SUBSET SUBSET Layers : s = <<do, N>>
    BY <2>10, <2>5 DEF OnLayers
  <2> QED BY <1>7, <1>4, <2>6, <2>7, <2>8, <2>9, <2>10
<1> QED BY <1>5, <1>6, <1>7

LEMMA MakeStep ==
    /\ \A do \in Planned \ {"split", "remove", "commit"} : <<do>> \in Steps
    /\ \A do \in OnLayers, c \in Layers : <<do, c>> \in Steps
    /\ \A r \in Refs : <<"remove", r>> \in Steps
    /\ \A S : S \subseteq Layers /\ S # {} => <<"commit", S>> \in Steps
    /\ \A l \in Lists : <<"split", l>> \in Steps
    /\ \A N : N \subseteq SUBSET Layers /\ N # {} => <<"overlay", N>> \in Steps
    /\ \A N : \A do \in {"list", "sweep"} : N \subseteq SUBSET Layers => <<do, N>> \in Steps
<1>1. \A do \in Planned \ {"split", "remove", "commit"} : <<do>> \in Steps
  BY DEF Steps
<1>2. \A do \in OnLayers, c \in Layers : <<do, c>> \in Steps
  BY DEF Steps
<1>3. \A r \in Refs : <<"remove", r>> \in Steps
  BY DEF Steps
<1>4. ASSUME NEW S, S \subseteq Layers, S # {}  PROVE <<"commit", S>> \in Steps
  <2>1. S \in (SUBSET Layers) \ {{}}
    BY <1>4
  <2> QED BY <2>1 DEF Steps
<1>5. \A l \in Lists : <<"split", l>> \in Steps
  BY DEF Steps
<1>6. ASSUME NEW N, N \subseteq SUBSET Layers, N # {}  PROVE <<"overlay", N>> \in Steps
  <2>1. N \in (SUBSET SUBSET Layers) \ {{}}
    BY <1>6
  <2> QED BY <2>1 DEF Steps
<1>7. ASSUME NEW do \in {"list", "sweep"}, NEW N, N \subseteq SUBSET Layers
      PROVE  <<do, N>> \in Steps
  <2>1. N \in SUBSET SUBSET Layers
    BY <1>7
  <2> QED BY <2>1 DEF Steps
<1> QED BY <1>1, <1>2, <1>3, <1>4, <1>5, <1>6, <1>7

\* The list after a step, by its places.
LEMMA Places ==
    ASSUME NEW t \in Seq(Steps), t # <<>>, NEW s \in Seq(Steps)
    PROVE  LET u == s \o Tail(t) IN
           /\ u \in Seq(Steps) /\ Len(u) = Len(s) + Len(t) - 1
           /\ \A i \in 1..Len(s) : i \in 1..Len(u) /\ u[i] = s[i]
           /\ \A i \in 1..Len(u) : i > Len(s) =>
                i - Len(s) + 1 \in 2..Len(t) /\ u[i] = t[i - Len(s) + 1]
           /\ \A j \in 2..Len(t) : j + Len(s) - 1 \in 1..Len(u) /\ u[j + Len(s) - 1] = t[j]
<1> DEFINE u == s \o Tail(t)
<1>1. Tail(t) \in Seq(Steps) /\ Len(Tail(t)) = Len(t) - 1 /\ Len(t) \in Nat /\ Len(t) >= 1
      /\ \A i \in 1..Len(t) - 1 : Tail(t)[i] = t[i + 1]
  OBVIOUS
<1>2. u \in Seq(Steps) /\ Len(u) = Len(s) + Len(t) - 1 /\ Len(s) \in Nat
      /\ \A i \in 1..Len(u) : u[i] = IF i <= Len(s) THEN s[i] ELSE Tail(t)[i - Len(s)]
  BY <1>1
<1>3. \A i \in 1..Len(u) : i > Len(s) =>
        i - Len(s) + 1 \in 2..Len(t) /\ u[i] = t[i - Len(s) + 1]
  <2> SUFFICES ASSUME NEW i \in 1..Len(u), i > Len(s)
               PROVE  i - Len(s) + 1 \in 2..Len(t) /\ u[i] = t[i - Len(s) + 1]
    OBVIOUS
  <2>1. i - Len(s) \in 1..Len(t) - 1
    BY <1>1, <1>2
  <2> HIDE DEF u
  <2> QED BY <1>1, <1>2, <2>1
<1>4. \A j \in 2..Len(t) : j + Len(s) - 1 \in 1..Len(u) /\ u[j + Len(s) - 1] = t[j]
  <2> SUFFICES ASSUME NEW j \in 2..Len(t)
               PROVE  j + Len(s) - 1 \in 1..Len(u) /\ u[j + Len(s) - 1] = t[j]
    OBVIOUS
  <2>1. j + Len(s) - 1 \in 1..Len(u) /\ j - 1 \in 1..Len(t) - 1 /\ ~(j + Len(s) - 1 <= Len(s))
        /\ (j + Len(s) - 1) - Len(s) = j - 1 /\ (j - 1) + 1 = j
    BY <1>1, <1>2
  <2> HIDE DEF u
  <2> QED BY <1>1, <1>2, <2>1
<1> QED BY <1>2, <1>3, <1>4

\* What is ahead before and after a step.
LEMMA AheadAfter ==
    ASSUME NEW t \in Seq(Steps), t # <<>>, NEW s \in Seq(Steps)
    PROVE  /\ Ahead(t) = {Head(t)} \cup Ahead(Tail(t))
           /\ Ahead(s \o Tail(t)) = Ahead(s) \cup Ahead(Tail(t))
           /\ Ahead(t) \subseteq Steps /\ Head(t) \in Steps
<1>1. Ahead(t) = {Head(t)} \cup Ahead(Tail(t))
  <2>1. Head(t) = t[1] /\ 1 \in 1..Len(t) /\ Len(Tail(t)) = Len(t) - 1 /\ Len(t) \in Nat
        /\ \A i \in 1..Len(t) - 1 : Tail(t)[i] = t[i + 1]
    OBVIOUS
  <2>2. ASSUME NEW i \in 1..Len(t)  PROVE t[i] \in {Head(t)} \cup Ahead(Tail(t))
    <3>1. CASE i = 1 BY <3>1, <2>1
    <3>2. CASE i # 1
      <4>1. i - 1 \in 1..Len(t) - 1 /\ (i - 1) + 1 = i
        BY <3>2, <2>1
      <4>2. Tail(t)[i - 1] = t[i]
        BY <4>1, <2>1
      <4> QED BY <4>1, <4>2, <2>1 DEF Ahead
    <3> QED BY <3>1, <3>2
  <2>3. ASSUME NEW i \in 1..Len(Tail(t))  PROVE Tail(t)[i] \in Ahead(t)
    <3>1. i + 1 \in 1..Len(t) /\ Tail(t)[i] = t[i + 1]
      BY <2>1
    <3> QED BY <3>1 DEF Ahead
  <2> QED BY <2>1, <2>2, <2>3 DEF Ahead
<1>2. Ahead(s \o Tail(t)) = Ahead(s) \cup Ahead(Tail(t))
  <2> DEFINE r == Tail(t)
  <2>1. r \in Seq(Steps)
    OBVIOUS
  <2> HIDE DEF r
  <2>2. Len(s \o r) = Len(s) + Len(r) /\ Len(s) \in Nat /\ Len(r) \in Nat
        /\ \A i \in 1..Len(s \o r) : (s \o r)[i] = IF i <= Len(s) THEN s[i] ELSE r[i - Len(s)]
    BY <2>1
  <2>3. ASSUME NEW i \in 1..Len(s \o r)  PROVE (s \o r)[i] \in Ahead(s) \cup Ahead(r)
    <3>1. CASE i <= Len(s) BY <3>1, <2>2 DEF Ahead
    <3>2. CASE ~(i <= Len(s))
      <4>1. i - Len(s) \in 1..Len(r) BY <3>2, <2>2
      <4> QED BY <4>1, <3>2, <2>2 DEF Ahead
    <3> QED BY <3>1, <3>2
  <2>4. ASSUME NEW i \in 1..Len(s)  PROVE s[i] \in Ahead(s \o r)
    <3>1. i \in 1..Len(s \o r) /\ i <= Len(s) BY <2>2
    <3> QED BY <3>1, <2>2 DEF Ahead
  <2>5. ASSUME NEW i \in 1..Len(r)  PROVE r[i] \in Ahead(s \o r)
    <3>1. i + Len(s) \in 1..Len(s \o r) /\ ~(i + Len(s) <= Len(s)) /\ (i + Len(s)) - Len(s) = i
      BY <2>2
    <3>2. (s \o r)[i + Len(s)] = r[i] BY <3>1, <2>2
    <3> QED BY <3>1, <3>2 DEF Ahead
  <2> QED BY <2>3, <2>4, <2>5 DEF Ahead, r
<1>3. \A i \in 1..Len(t) : t[i] \in Steps
  OBVIOUS
<1>4. Head(t) = t[1] /\ 1 \in 1..Len(t)
  OBVIOUS
<1> QED BY <1>1, <1>2, <1>3, <1>4 DEF Ahead

\* Only planned steps wait behind one that has no list to write.
LEMMA BehindPlanned ==
    ASSUME NEW t \in Seq(Steps), t # <<>>, Shaped(t), Head(t)[1] \notin {"overlay", "list"},
           NEW j \in 2..Len(t)
    PROVE  t[j][1] \in Planned
<1>1. Head(t) = t[1] /\ Len(t) \in Nat /\ j \in 1..Len(t) /\ j > 1 /\ j - 1 \in 1..Len(t)
  OBVIOUS
<1>2. t[j][1] # "list"
  BY <1>1 DEF Shaped
<1>3. ASSUME t[j][1] = "sweep"  PROVE FALSE
  <2>1. t[j - 1] = <<"list", t[j][2]>>
    BY <1>1, <1>3 DEF Shaped
  <2>2. t[j - 1][1] = "list"
    BY <2>1
  <2>3. j - 1 = 1 \/ t[1][1] = "overlay"
    BY <2>2, <1>1 DEF Shaped
  <2> QED BY <2>2, <2>3, <1>1
<1>4. t[j][1] \notin Planned => t[j][1] \in {"list", "sweep"}
  BY <1>1 DEF Shaped
<1> QED BY <1>2, <1>3, <1>4

\* A step leaves the list in shape, and in order.
LEMMA ShapedAfter ==
    ASSUME NEW t, NEW s, Shaped(t), GoesOn(t, s)
    PROVE  Shaped(s \o Tail(t))
<1> DEFINE u == s \o Tail(t)
<1>1. t \in Seq(Steps) /\ s \in Seq(Steps) /\ t # <<>>
  BY DEF GoesOn
<1>2. /\ u \in Seq(Steps) /\ Len(u) = Len(s) + Len(t) - 1
      /\ \A i \in 1..Len(s) : i \in 1..Len(u) /\ u[i] = s[i]
      /\ \A i \in 1..Len(u) : i > Len(s) =>
           i - Len(s) + 1 \in 2..Len(t) /\ u[i] = t[i - Len(s) + 1]
      /\ \A j \in 2..Len(t) : j + Len(s) - 1 \in 1..Len(u) /\ u[j + Len(s) - 1] = t[j]
  BY <1>1, Places
<1>3. Head(t) = t[1] /\ Len(t) \in Nat /\ 1 \in 1..Len(t) /\ Len(s) \in Nat /\ Len(u) \in Nat
  BY <1>1, <1>2
<1> HIDE DEF u
<1>4. CASE s = <<>>
  <2>1. Len(s) = 0
    BY <1>4
  <2>2. ASSUME NEW i \in 1..Len(u)
        PROVE  /\ i + 1 \in 1..Len(t) /\ i + 1 > 1 /\ u[i] = t[i + 1]
               /\ i + 1 < Len(t) => i < Len(u) /\ u[i + 1] = t[i + 2]
               /\ i > 1 => u[i - 1] = t[i]
    <3>1. i - Len(s) + 1 = i + 1 /\ Len(u) = Len(t) - 1
      BY <2>1, <1>2, <1>3
    <3>2. i + 1 < Len(t) => i + 1 \in 1..Len(u) /\ (i + 1) - Len(s) + 1 = i + 2
      BY <2>1, <3>1, <1>3
    <3>3. i > 1 => i - 1 \in 1..Len(u) /\ (i - 1) - Len(s) + 1 = i
      BY <2>1, <3>1, <1>3
    <3>4. i + 1 \in 1..Len(t) /\ i + 1 > 1 /\ u[i] = t[i + 1]
      BY <2>1, <3>1, <1>2, <1>3
    <3>5. i + 1 < Len(t) => i < Len(u) /\ u[i + 1] = t[i + 2]
      BY <2>1, <3>1, <3>2, <1>2, <1>3
    <3>6. i > 1 => u[i - 1] = t[i]
      BY <2>1, <3>1, <3>3, <1>2, <1>3
    <3> QED BY <3>4, <3>5, <3>6
  <2> SUFFICES ASSUME NEW i \in 1..Len(u)
               PROVE  /\ i > 1 /\ u[i][1] \notin Planned => u[i][1] \in {"list", "sweep"}
                      /\ u[i][1] = "list" => i = 1 \/ (i = 2 /\ u[1][1] = "overlay")
                      /\ u[i][1] = "sweep" => i = 1 \/ u[i - 1] = <<"list", u[i][2]>>
                      /\ u[i][1] = "list" => i < Len(u) /\ u[i + 1] = <<"sweep", u[i][2]>>
                      /\ u[i][1] = "overlay" => i < Len(u) /\ u[i + 1][1] = "list"
                      /\ u[i][1] \in {"drop", "erase"} =>
                           i < Len(u) /\ u[i + 1][1] = "remove"
    BY DEF Shaped, u
  <2>3. /\ i + 1 \in 1..Len(t) /\ i + 1 > 1 /\ u[i] = t[i + 1] /\ (i + 1) + 1 = i + 2
        /\ i + 1 < Len(t) => i < Len(u) /\ u[i + 1] = t[i + 2]
        /\ i > 1 => u[i - 1] = t[i]
        /\ (i + 1) - 1 = i /\ (i + 1 = 2 => i = 1)
    BY <2>2
  <2>4. /\ t[i + 1][1] \notin Planned => t[i + 1][1] \in {"list", "sweep"}
        /\ t[i + 1][1] = "list" => i = 1
        /\ t[i + 1][1] = "sweep" => t[i] = <<"list", t[i + 1][2]>>
        /\ t[i + 1][1] = "list" => i + 1 < Len(t) /\ t[i + 2] = <<"sweep", t[i + 1][2]>>
    BY <2>3 DEF Shaped
  <2>5. t[i + 1][1] \notin {"overlay", "drop", "erase"}
    BY <2>4 DEF Planned
  <2> QED BY <2>3, <2>4, <2>5
<1>5. CASE Shaped(s) /\ Head(t)[1] \notin {"overlay", "list"}
  <2>1. ASSUME NEW i \in 1..Len(u), i > Len(s)  PROVE u[i][1] \in Planned
    <3>1. i - Len(s) + 1 \in 2..Len(t) /\ u[i] = t[i - Len(s) + 1]
      BY <2>1, <1>2
    <3> QED BY <3>1, <1>1, <1>5, BehindPlanned
  <2> SUFFICES ASSUME NEW i \in 1..Len(u)
               PROVE  /\ i > 1 /\ u[i][1] \notin Planned => u[i][1] \in {"list", "sweep"}
                      /\ u[i][1] = "list" => i = 1 \/ (i = 2 /\ u[1][1] = "overlay")
                      /\ u[i][1] = "sweep" => i = 1 \/ u[i - 1] = <<"list", u[i][2]>>
                      /\ u[i][1] = "list" => i < Len(u) /\ u[i + 1] = <<"sweep", u[i][2]>>
                      /\ u[i][1] = "overlay" => i < Len(u) /\ u[i + 1][1] = "list"
                      /\ u[i][1] \in {"drop", "erase"} =>
                           i < Len(u) /\ u[i + 1][1] = "remove"
    BY DEF Shaped, u
  <2>2. CASE i > Len(s)
    BY <2>1, <2>2 DEF Planned
  <2>3. CASE ~(i > Len(s))
    <3>1. i \in 1..Len(s) /\ u[i] = s[i] /\ 1 \in 1..Len(s) /\ u[1] = s[1]
      BY <2>3, <1>2, <1>3
    <3>2. i > 1 => i - 1 \in 1..Len(s) /\ u[i - 1] = s[i - 1]
      BY <3>1, <1>2, <1>3
    <3>3. i < Len(s) => i + 1 \in 1..Len(s) /\ u[i + 1] = s[i + 1] /\ i < Len(u)
      BY <3>1, <1>2, <1>3
    <3>4. /\ i > 1 /\ s[i][1] \notin Planned => s[i][1] \in {"list", "sweep"}
          /\ s[i][1] = "list" => i = 1 \/ (i = 2 /\ s[1][1] = "overlay")
          /\ s[i][1] = "sweep" => i = 1 \/ s[i - 1] = <<"list", s[i][2]>>
          /\ s[i][1] = "list" => i < Len(s) /\ s[i + 1] = <<"sweep", s[i][2]>>
          /\ s[i][1] = "overlay" => i < Len(s) /\ s[i + 1][1] = "list"
          /\ s[i][1] \in {"drop", "erase"} => i < Len(s) /\ s[i + 1][1] = "remove"
      BY <1>5, <3>1 DEF Shaped
    <3> QED BY <3>1, <3>2, <3>3, <3>4
  <2> QED BY <2>2, <2>3
<1>6. ASSUME Len(s) = 1,
             \/ Head(t)[1] = "drop" /\ s[1][1] = "erase"
             \/ Head(t)[1] = "overlay" /\ s[1][1] = "overlay"
      PROVE  Shaped(u)
  <2>1. Len(u) = Len(t) /\ u[1] = s[1]
    BY <1>6, <1>2, <1>3
  <2>2. ASSUME NEW i \in 2..Len(t)  PROVE u[i] = t[i]
    <3>1. i \in 1..Len(u) /\ i > Len(s) /\ i - Len(s) + 1 = i
      BY <2>1, <1>6, <1>3
    <3> QED BY <3>1, <1>2
  <2> SUFFICES ASSUME NEW i \in 1..Len(u)
               PROVE  /\ i > 1 /\ u[i][1] \notin Planned => u[i][1] \in {"list", "sweep"}
                      /\ u[i][1] = "list" => i = 1 \/ (i = 2 /\ u[1][1] = "overlay")
                      /\ u[i][1] = "sweep" => i = 1 \/ u[i - 1] = <<"list", u[i][2]>>
                      /\ u[i][1] = "list" => i < Len(u) /\ u[i + 1] = <<"sweep", u[i][2]>>
                      /\ u[i][1] = "overlay" => i < Len(u) /\ u[i + 1][1] = "list"
                      /\ u[i][1] \in {"drop", "erase"} =>
                           i < Len(u) /\ u[i + 1][1] = "remove"
    BY DEF Shaped
  <2>3. CASE i = 1
    <3>1. /\ t[1][1] = "drop" => 1 < Len(t) /\ t[1 + 1][1] = "remove"
          /\ t[1][1] = "overlay" => 1 < Len(t) /\ t[1 + 1][1] = "list"
      BY <1>3 DEF Shaped
    <3>2. 1 < Len(t) => 1 + 1 \in 2..Len(t)
      BY <1>3
    <3> QED BY <2>1, <2>2, <2>3, <3>1, <3>2, <1>3, <1>6 DEF Planned
  <2>4. CASE i # 1
    <3>1. i \in 2..Len(t) /\ i \in 1..Len(t) /\ i > 1 /\ u[i] = t[i]
      BY <2>1, <2>2, <2>4, <1>3
    <3>2. i < Len(t) => i + 1 \in 2..Len(t) /\ u[i + 1] = t[i + 1]
      BY <2>2, <3>1, <1>3
    <3>3. i # 2 => i - 1 \in 2..Len(t) /\ u[i - 1] = t[i - 1]
      BY <2>2, <3>1, <1>3
    <3>4. /\ t[i][1] \notin Planned => t[i][1] \in {"list", "sweep"}
          /\ t[i][1] = "list" => (i = 2 /\ t[1][1] = "overlay")
          /\ t[i][1] = "sweep" => t[i - 1] = <<"list", t[i][2]>>
          /\ t[i][1] = "list" => i < Len(t) /\ t[i + 1] = <<"sweep", t[i][2]>>
      BY <3>1 DEF Shaped
    <3>5. t[i][1] \notin {"overlay", "drop", "erase"}
      BY <3>4 DEF Planned
    <3>6. t[i][1] = "sweep" => i # 2
      <4>1. SUFFICES ASSUME t[i][1] = "sweep", i = 2  PROVE FALSE
        OBVIOUS
      <4>2. t[1] = <<"list", t[i][2]>>
        BY <4>1, <3>4
      <4>3. t[1][1] = "list"
        BY <4>2
      <4> QED BY <4>3, <1>3, <1>6
    <3>7. t[i][1] = "list" => u[1][1] = "overlay"
      BY <3>4, <2>1, <1>3, <1>6
    <3> QED BY <2>1, <3>1, <3>2, <3>3, <3>4, <3>5, <3>6, <3>7
  <2> QED BY <2>3, <2>4
<1> QED BY <1>4, <1>5, <1>6 DEF GoesOn, u

LEMMA OrderedAfter ==
    ASSUME NEW t, NEW s, Ordered(t), GoesOn(t, s)
    PROVE  Ordered(s \o Tail(t))
<1> DEFINE u == s \o Tail(t)
<1>1. t \in Seq(Steps) /\ s \in Seq(Steps) /\ t # <<>>
  BY DEF GoesOn
<1>2. /\ u \in Seq(Steps) /\ Len(u) = Len(s) + Len(t) - 1
      /\ \A i \in 1..Len(s) : i \in 1..Len(u) /\ u[i] = s[i]
      /\ \A i \in 1..Len(u) : i > Len(s) =>
           i - Len(s) + 1 \in 2..Len(t) /\ u[i] = t[i - Len(s) + 1]
  BY <1>1, Places
<1>3. Head(t) = t[1] /\ Len(t) \in Nat /\ 1 \in 1..Len(t) /\ Len(s) \in Nat
  BY <1>1
<1> HIDE DEF u
<1> SUFFICES ASSUME NEW i \in 1..Len(u), NEW j \in 1..Len(u), i < j
             PROVE  Rank(u[i][1]) = 0 \/ Rank(u[j][1]) = 0 \/ Rank(u[i][1]) < Rank(u[j][1])
  BY DEF Ordered, u
<1>4. CASE j <= Len(s)
  <2>1. i \in 1..Len(s) /\ j \in 1..Len(s)
    BY <1>3, <1>4
  <2> QED BY <2>1, <1>2 DEF GoesOn
<1>5. CASE j > Len(s) /\ i > Len(s)
  <2>1. i - Len(s) + 1 \in 1..Len(t) /\ j - Len(s) + 1 \in 1..Len(t)
        /\ i - Len(s) + 1 < j - Len(s) + 1
    BY <1>5, <1>2, <1>3
  <2> QED BY <2>1, <1>5, <1>2 DEF Ordered
<1>6. CASE j > Len(s) /\ i <= Len(s)
  <2>0. j - Len(s) + 1 \in 2..Len(t) /\ u[j] = t[j - Len(s) + 1] /\ j \in Nat
    BY <1>6, <1>2
  <2>1. j - Len(s) + 1 \in 1..Len(t) /\ 1 < j - Len(s) + 1
    BY <2>0, <1>3
  <2>2. Rank(t[1][1]) = 0 \/ Rank(u[j][1]) = 0 \/ Rank(t[1][1]) < Rank(u[j][1])
    BY <2>0, <2>1, <1>3 DEF Ordered
  <2>3. i \in 1..Len(s) /\ u[i] = s[i] /\ s[i] \in Ahead(s)
    BY <1>6, <1>2, <1>3 DEF Ahead
  <2> QED BY <2>2, <2>3, <1>3 DEF GoesOn
<1> QED BY <1>3, <1>4, <1>5, <1>6

\* Whatever has a place in the order and comes later is later in it.
LEMMA OrderedBehind ==
    ASSUME NEW t \in Seq(Steps), t # <<>>, Ordered(t), Rank(Head(t)[1]) # 0,
           NEW x \in Ahead(Tail(t)), Rank(x[1]) # 0
    PROVE  Rank(Head(t)[1]) < Rank(x[1])
<1>1. Head(t) = t[1] /\ 1 \in 1..Len(t) /\ Len(Tail(t)) = Len(t) - 1 /\ Len(t) \in Nat
      /\ \A i \in 1..Len(t) - 1 : Tail(t)[i] = t[i + 1]
  OBVIOUS
<1>2. PICK i \in 1..Len(Tail(t)) : x = Tail(t)[i]
  BY DEF Ahead
<1>3. i + 1 \in 1..Len(t) /\ x = t[i + 1] /\ 1 < i + 1
  BY <1>1, <1>2
<1> QED BY <1>1, <1>3 DEF Ordered

\* What a step that goes on with s leaves of the lists.
LEMMA Onwards ==
    ASSUME IInv, NEW p \in Builders, NEW s, GoesOn(todo[p], s), Onward(p, s)
    PROVE  /\ todo' \in [Builders -> Seq(Steps)] /\ result' \in [Builders -> Results]
           /\ \A q \in Builders \ {p} : todo'[q] = todo[q] /\ result'[q] = result[q]
           /\ result[p] = "none" /\ result'[p] # "built"
           /\ Ahead(todo'[p]) = Ahead(s) \cup Ahead(Tail(todo[p]))
           /\ Ahead(todo[p]) = {Head(todo[p])} \cup Ahead(Tail(todo[p]))
           /\ Ahead(todo[p]) \subseteq Steps
           /\ s # <<>> => todo'[p] # <<>> /\ Head(todo'[p]) = s[1]
           /\ Imports(todo'[p]) \subseteq Imports(todo[p]) \cup {c \in UpTo(0) : c.ref.id = "base"}
           /\ "check" \in Kinds(todo'[p]) => "check" \in Kinds(todo[p])
           /\ TodoInv'
<1> DEFINE t == todo[p]
           u == s \o Tail(t)
<1>1. t \in Seq(Steps) /\ s \in Seq(Steps) /\ t # <<>>
  BY DEF GoesOn
<1>2. todo' = [todo EXCEPT ![p] = u]
      /\ result' = IF u = <<>> THEN [result EXCEPT ![p] = "done"] ELSE result
  BY DEF Onward, Then
<1>3. u \in Seq(Steps) /\ Len(u) = Len(s) + Len(t) - 1
      /\ \A i \in 1..Len(s) : i \in 1..Len(u) /\ u[i] = s[i]
  BY <1>1, Places
<1>4. /\ Ahead(t) = {Head(t)} \cup Ahead(Tail(t))
      /\ Ahead(u) = Ahead(s) \cup Ahead(Tail(t))
      /\ Ahead(t) \subseteq Steps /\ Head(t) \in Steps
  BY <1>1, AheadAfter
<1>5. todo \in [Builders -> Seq(Steps)] /\ result \in [Builders -> Results]
  BY DEF IInv, TypeInv
<1> HIDE DEF u
<1>6. todo'[p] = u /\ todo' \in [Builders -> Seq(Steps)]
      /\ \A q \in Builders \ {p} : todo'[q] = todo[q]
  BY <1>2, <1>3, <1>5
<1>7. result' \in [Builders -> Results] /\ result[p] = "none" /\ result'[p] # "built"
      /\ (u # <<>> => result'[p] = "none")
      /\ \A q \in Builders \ {p} : result'[q] = result[q]
  <2>1. result[p] = "none"
    BY <1>1 DEF IInv, TodoInv
  <2> QED BY <2>1, <1>2, <1>5 DEF Results
<1>8. s # <<>> => u # <<>> /\ Head(u) = s[1]
  <2> SUFFICES ASSUME s # <<>>  PROVE u # <<>> /\ Head(u) = s[1]
    OBVIOUS
  <2>1. 1 \in 1..Len(s)
    BY <1>1
  <2>2. 1 \in 1..Len(u) /\ u[1] = s[1]
    BY <2>1, <1>3
  <2> QED BY <2>2, <1>3
<1>9. Imports(u) \subseteq Imports(t) \cup {c \in UpTo(0) : c.ref.id = "base"}
  BY <1>4 DEF Imports, GoesOn
<1>10. "check" \in Kinds(u) => "check" \in Kinds(t)
  BY <1>4 DEF Kinds, GoesOn
<1>11. Shaped(u) /\ Ordered(u)
  BY ShapedAfter, OrderedAfter DEF IInv, TodoInv, u
<1>12. ASSUME Kinds(u) \cap {"container", "copy"} # {}  PROVE "split" \in Kinds(u)
  <2>1. PICK x \in Ahead(Tail(t)) : x[1] \in {"container", "copy"}
    BY <1>4, <1>12 DEF Kinds, GoesOn
  <2>2. "split" \in Kinds(t)
    BY <1>4, <2>1 DEF Kinds, IInv, TodoInv
  <2>3. PICK y \in Ahead(t) : y[1] = "split"
    BY <2>2 DEF Kinds
  <2>4. CASE y \in Ahead(Tail(t))
    BY <2>3, <2>4, <1>4 DEF Kinds
  <2>5. CASE y = Head(t)
    <3>1. Rank(Head(t)[1]) = 3 /\ Rank(x[1]) \in {1, 2}
      BY <2>1, <2>3, <2>5 DEF Rank
    <3>2. Rank(Head(t)[1]) < Rank(x[1])
      BY <3>1, <1>1, <2>1, OrderedBehind DEF IInv, TodoInv
    <3> QED BY <3>1, <3>2
  <2> QED BY <2>3, <2>4, <2>5, <1>4
<1>13. TodoInv'
  <2> SUFFICES ASSUME NEW q \in Builders
               PROVE  /\ Shaped(todo'[q]) /\ Ordered(todo'[q])
                      /\ Kinds(todo'[q]) \cap {"container", "copy"} # {} =>
                           "split" \in Kinds(todo'[q])
                      /\ todo'[q] # <<>> => result'[q] = "none"
    BY DEF TodoInv, Shaped, Ordered, Kinds, Ahead
  <2>1. CASE q = p
    BY <2>1, <1>6, <1>7, <1>11, <1>12
  <2>2. CASE q # p
    BY <2>2, <1>6, <1>7 DEF IInv, TodoInv
  <2> QED BY <2>1, <2>2
<1> QED BY <1>4, <1>6, <1>7, <1>8, <1>9, <1>10, <1>13

\* With nothing of its own, a step comes to one that was planned, or goes on
\* with the writing of a list.
LEMMA NextPlanned ==
    ASSUME IInv, NEW p \in Builders, GoesOn(todo[p], <<>>), Onward(p, <<>>),
           todo'[p] # <<>>
    PROVE  /\ Head(todo'[p])[1] \notin OnLayers \cup {"overlay"}
           /\ Head(todo'[p])[1] = "list" =>
                Head(todo[p])[1] = "overlay" /\ Head(todo'[p]) = todo[p][2]
           /\ Head(todo'[p])[1] = "sweep" => Head(todo[p]) = <<"list", Head(todo'[p])[2]>>
<1> DEFINE t == todo[p]
<1>1. t \in Seq(Steps) /\ t # <<>> /\ todo \in [Builders -> Seq(Steps)]
  BY DEF GoesOn, IInv, TypeInv
<1>2. todo'[p] = <<>> \o Tail(t)
  BY <1>1 DEF Onward, Then
<1>3. Head(t) = t[1] /\ 2 \in 1..Len(t) /\ Head(todo'[p]) = t[2]
  BY <1>1, <1>2
<1>4. Shaped(t)
  BY DEF IInv, TodoInv
<1>5. /\ 2 > 1 /\ t[2][1] \notin Planned => t[2][1] \in {"list", "sweep"}
      /\ t[2][1] = "list" => 2 = 1 \/ (2 = 2 /\ t[1][1] = "overlay")
      /\ t[2][1] = "sweep" => 2 = 1 \/ t[2 - 1] = <<"list", t[2][2]>>
  BY <1>3, <1>4 DEF Shaped
<1> QED BY <1>3, <1>5 DEF Planned, OnLayers

\* The parts of an output, where a step leaves them alone.
LEMMA PartsKept ==
    ASSUME IInv, NEW p \in Builders, NEW s, GoesOn(todo[p], s), Onward(p, s),
           UNCHANGED <<left, parts, made>>
    PROVE  PartsInv'
<1>1. /\ \A q \in Builders \ {p} : todo'[q] = todo[q]
      /\ Ahead(todo'[p]) = Ahead(s) \cup Ahead(Tail(todo[p]))
      /\ Ahead(todo[p]) = {Head(todo[p])} \cup Ahead(Tail(todo[p]))
  BY Onwards
<1>2. ASSUME Kinds(todo'[p]) \cap {"container", "copy"} # {}
      PROVE  Kinds(todo[p]) \cap {"container", "copy"} # {}
  <2>1. PICK x \in Ahead(todo'[p]) : x[1] \in {"container", "copy"}
    BY <1>2 DEF Kinds
  <2>2. x \in Ahead(todo[p])
    BY <1>1, <2>1 DEF GoesOn
  <2> QED BY <2>1, <2>2 DEF Kinds
<1> SUFFICES ASSUME NEW q \in Builders
             PROVE  /\ Parted(q)'
                    /\ Kinds(todo'[q]) \cap {"container", "copy"} # {} =>
                         \A m \in Modules : parts'[q][m] = {}
  BY DEF PartsInv, Kinds, Ahead
<1>3. Parted(q)'
  BY DEF IInv, PartsInv, Parted
<1> QED BY <1>1, <1>2, <1>3 DEF IInv, PartsInv

\* The builds, where a step goes on: what is left to show for each of them.
LEMMA BuildingKept ==
    ASSUME IInv, NEW p \in Builders, NEW s, GoesOn(todo[p], s), Onward(p, s), gen' = gen,
           stale \subseteq stale',
           \A q \in Builders \ {p} : left'[q] = left[q],
           "check" \in Kinds(todo'[p]) => "split" \in Kinds(todo'[p]) \/ left'[p].files = {},
           \A q \in Builders \ {p} : \A g \in 1..gen :
             Building(q) /\ BuildInv(q, g) => BuildInv(q, g)',
           \A g \in 1..gen : "check" \in Kinds(todo'[p]) /\ BuildInv(p, g) =>
             Replaced(p, g)' /\ Listed(p, g)'
    PROVE  BuildingInv'
<1>1. /\ \A q \in Builders \ {p} : todo'[q] = todo[q] /\ result'[q] = result[q]
      /\ result'[p] # "built"
      /\ "check" \in Kinds(todo'[p]) => "check" \in Kinds(todo[p])
  BY Onwards
<1>2. ASSUME NEW q \in Builders \ {p}, result'[q] = "built" \/ "check" \in Kinds(todo'[q])
      PROVE  /\ result'[q] = "built" => todo'[q] = <<>>
             /\ "split" \in Kinds(todo'[q]) \/ left'[q].files = {}
             /\ \E g \in 1..gen' : BuildInv(q, g)'
  <2>1. Building(q)
    BY <1>1, <1>2 DEF Building
  <2>2. PICK g \in 1..gen : BuildInv(q, g)
    BY <2>1 DEF IInv, BuildingInv
  <2>3. BuildInv(q, g)'
    BY <2>1, <2>2
  <2> QED BY <1>1, <2>1, <2>3 DEF IInv, BuildingInv
<1>3. ASSUME "check" \in Kinds(todo'[p])
      PROVE  \E g \in 1..gen' : BuildInv(p, g)'
  <2>1. Building(p)
    BY <1>1, <1>3 DEF Building
  <2>2. PICK g \in 1..gen : BuildInv(p, g)
    BY <2>1 DEF IInv, BuildingInv
  <2>3. Replaced(p, g)' /\ Listed(p, g)'
    BY <2>2, <1>3
  <2>4. Apart(p, g)'
    BY <2>2, <1>1 DEF BuildInv, Apart, Due, Arg, Imports, Ahead
  <2> QED BY <2>3, <2>4 DEF BuildInv
<1> QED BY <1>1, <1>2, <1>3 DEF BuildingInv, Building, Kinds, Ahead

LEMMA Earlier == ASSUME TypeInv PROVE UpTo(0) \subseteq UpTo(gen)
BY BuilderAssumption DEF TypeInv, UpTo, Layers

LEMMA NoBaseBuilt ==
    ASSUME NEW p \in Builders, NEW g, NEW c \in Packed(p, g)
    PROVE  c.ref = Own(p) /\ c.gen = g /\ c.ref.id # "base"
BY BuilderAssumption DEF Packed, Own

\* The builds of the others, where a step goes on.
LEMMA OtherBuilds ==
    ASSUME IInv, NEW p \in Builders, NEW s, GoesOn(todo[p], s), Onward(p, s),
           stale \subseteq stale', NEW q \in Builders \ {p}, NEW g \in 1..gen, BuildInv(q, g),
           mem'[q] = mem[q],
           q \notin stale' /\ Due(p, "erase")' => Arg(p)' \notin Packed(q, g),
           q \notin stale' => \A c \in Packed(q, g) : c \in dirs => c \in dirs'
    PROVE  BuildInv(q, g)'
<1>1. /\ \A r \in Builders \ {p} : todo'[r] = todo[r]
      /\ Imports(todo'[p]) \subseteq Imports(todo[p]) \cup {c \in UpTo(0) : c.ref.id = "base"}
  BY Onwards
<1>2. Imports(todo'[p]) \cap Packed(q, g) = {}
  BY <1>1, NoBaseBuilt DEF BuildInv, Apart
<1>3. Apart(q, g)'
  <2> SUFFICES ASSUME NEW r \in Builders \ {q}
               PROVE  /\ Imports(todo'[r]) \cap Packed(q, g) = {}
                      /\ q \notin stale' /\ Due(r, "erase")' => Arg(r)' \notin Packed(q, g)
    BY DEF Apart, Packed, Imports, Ahead, Of, Due, Arg
  <2>1. CASE r = p
    BY <2>1, <1>2
  <2>2. CASE r # p
    BY <2>2, <1>1 DEF BuildInv, Apart, Due, Arg
  <2> QED BY <2>1, <2>2
<1>4. todo'[q] = todo[q]
  BY <1>1
<1>5. Replaced(q, g)'
  BY <1>4 DEF BuildInv, Replaced, Ahead, Removes, Kinds, OfRef
<1>6. Listed(q, g)'
  <2>1. Listed(q, g)
    BY DEF BuildInv
  <2>2. \A c \in Packed(q, g) :
          c \in Imports(todo[q]) \/ (c \in mem'[q].layers /\ (q \notin stale' => c \in dirs'))
    BY <2>1 DEF Listed
  <2>3. Due(q, "upsert") /\ Arg(q) \in Packed(q, g) /\ q \notin stale' => Arg(q) \in dirs'
    BY <2>1 DEF Listed
  <2> QED BY <2>1, <2>2, <2>3, <1>4 DEF Listed, Imports, Ahead, Of, Packed, Due, Arg
<1> QED BY <1>3, <1>5, <1>6 DEF BuildInv

\* What a build has removed and is to commit, where a step removes nothing.
LEMMA ReplacedKept ==
    ASSUME IInv, NEW p \in Builders, NEW s, GoesOn(todo[p], s), Onward(p, s),
           NEW g \in 1..gen, Replaced(p, g), Head(todo[p])[1] \notin {"replace", "remove"},
           OfRef(mem'[p].layers, Own(p)) \subseteq OfRef(mem[p].layers, Own(p)) \cup Packed(p, g)
    PROVE  Replaced(p, g)'
<1> DEFINE t == todo[p]
<1>1. /\ Ahead(todo'[p]) = Ahead(s) \cup Ahead(Tail(t))
      /\ Ahead(t) = {Head(t)} \cup Ahead(Tail(t))
      /\ t \in Seq(Steps) /\ t # <<>> /\ Ordered(t)
  BY Onwards DEF IInv, GoesOn, TodoInv
<1>2. ASSUME NEW x \in Ahead(todo'[p]), x[1] \in {"replace", "remove"}
      PROVE  x \in Ahead(Tail(t)) /\ x \in Ahead(t)
  <2>1. SUFFICES ASSUME x \in Ahead(s)  PROVE FALSE
    BY <1>1
  <2>2. Rank(x[1]) = 4
    BY <1>2 DEF Rank
  <2>3. Rank(Head(t)[1]) = 4
    BY <2>1, <2>2 DEF GoesOn
  <2> QED BY <2>3 DEF Rank
<1>3. Removes(todo'[p]) <=> Removes(t)
  <2>1. Removes(todo'[p]) <=> \E x \in Ahead(todo'[p]) : x[1] \in {"replace", "remove"}
    BY DEF Removes, Kinds
  <2>2. Removes(t) <=> \E x \in Ahead(t) : x[1] \in {"replace", "remove"}
    BY DEF Removes, Kinds
  <2> QED BY <2>1, <2>2, <1>1, <1>2
<1>4. ASSUME Removes(todo'[p])  PROVE <<"commit", Packed(p, g)>> \in Ahead(todo'[p])
  <2>1. PICK x \in Ahead(todo'[p]) : x[1] \in {"replace", "remove"}
    BY <1>4 DEF Removes, Kinds
  <2>2. <<"commit", Packed(p, g)>> \in Ahead(t)
    BY <1>3, <1>4 DEF Replaced
  <2>3. Head(t) # <<"commit", Packed(p, g)>>
    <3>1. SUFFICES ASSUME Head(t)[1] = "commit"  PROVE FALSE
      OBVIOUS
    <3>2. Rank(Head(t)[1]) = 5 /\ Rank(x[1]) = 4
      BY <2>1, <3>1 DEF Rank
    <3>3. Rank(Head(t)[1]) < Rank(x[1])
      BY <1>1, <1>2, <2>1, <3>2, OrderedBehind
    <3> QED BY <3>2, <3>3
  <2> QED BY <1>1, <2>2, <2>3
<1>5. ~Removes(todo'[p]) => OfRef(mem'[p].layers, Own(p)) \subseteq Packed(p, g)
  BY <1>3 DEF Replaced
<1>6. \A x \in Ahead(todo'[p]) : x[1] = "remove" => x[2] = Own(p)
  BY <1>2 DEF Replaced
<1> QED BY <1>4, <1>5, <1>6 DEF Replaced, Removes, Kinds, Ahead, OfRef, Own, Packed

\* What a build is still to list, and what it has listed.
LEMMA ListedKept ==
    ASSUME IInv, NEW p \in Builders, NEW s, GoesOn(todo[p], s), Onward(p, s),
           NEW g \in 1..gen, Listed(p, g), stale \subseteq stale',
           \A c \in Packed(p, g) : c \in Of(Head(todo[p])) =>
             \/ \E x \in Ahead(s) : c \in Of(x)
             \/ c \in mem'[p].layers /\ (p \notin stale' => c \in dirs'),
           \A c \in Packed(p, g) : c \in mem[p].layers =>
             c \in mem'[p].layers \/ c \in Imports(todo'[p]),
           \A c \in Packed(p, g) : c \in dirs => c \in dirs' \/ c \in Imports(todo'[p]),
           Due(p, "upsert")' /\ Arg(p)' \in Packed(p, g) /\ p \notin stale' => Arg(p)' \in dirs'
    PROVE  Listed(p, g)'
<1> DEFINE t == todo[p]
<1>1. /\ Ahead(todo'[p]) = Ahead(s) \cup Ahead(Tail(t))
      /\ Ahead(t) = {Head(t)} \cup Ahead(Tail(t))
      /\ Imports(todo'[p]) \subseteq Imports(t) \cup {c \in UpTo(0) : c.ref.id = "base"}
  BY Onwards
<1>2. \A c \in Imports(todo'[p]) : c.ref.id = "base" \/ c \in Packed(p, g)
  BY <1>1 DEF Listed
<1>3. ASSUME NEW c \in Packed(p, g)
      PROVE  c \in Imports(todo'[p]) \/ (c \in mem'[p].layers /\ (p \notin stale' => c \in dirs'))
  <2>1. CASE c \in Imports(t)
    <3>1. PICK x \in Ahead(t) : c \in Of(x)
      BY <2>1 DEF Imports
    <3>2. CASE x \in Ahead(Tail(t))
      BY <3>1, <3>2, <1>1 DEF Imports
    <3>3. CASE x = Head(t)
      <4>1. (\E y \in Ahead(s) : c \in Of(y)) => c \in Imports(todo'[p])
        BY <1>1 DEF Imports
      <4> QED BY <3>1, <3>3, <4>1
    <3> QED BY <3>1, <3>2, <3>3, <1>1
  <2>2. CASE c \in mem[p].layers /\ (p \notin stale => c \in dirs)
    BY <2>2
  <2> QED BY <2>1, <2>2 DEF Listed
<1> QED BY <1>2, <1>3 DEF Listed, Imports, Ahead, Of, Packed, Due, Arg, Own

\* The copies of the list, where a step leaves them alone.
LEMMA GenKept ==
    ASSUME IInv, NEW p \in Builders, NEW s, GoesOn(todo[p], s), Onward(p, s),
           UNCHANGED <<file, torn, writing, mem, gen, stale>>, named' \subseteq UpTo(gen),
           Head(todo[p])[1] \notin Writers,
           Due(p, "drop")' => Arg(p)' \in UpTo(gen), ~Due(p, "erase")'
    PROVE  GenInv'
<1>1. /\ \A r \in Builders \ {p} : todo'[r] = todo[r]
      /\ Imports(todo'[p]) \subseteq Imports(todo[p]) \cup {c \in UpTo(0) : c.ref.id = "base"}
  BY Onwards
<1>2. Imports(todo'[p]) \subseteq UpTo(gen)
  BY <1>1, Earlier DEF IInv, GenInv
<1> SUFFICES ASSUME NEW q \in Builders
             PROVE  /\ mem[q].layers \subseteq UpTo(gen) /\ Imports(todo'[q]) \subseteq UpTo(gen)
                    /\ Due(q, "drop")' \/ Due(q, "erase")' => Arg(q)' \in UpTo(gen)
                    /\ Due(q, "erase")' => Arg(q)' \notin mem[q].layers
                    /\ q \in writing => todo'[q] # <<>> /\ Head(todo'[q])[1] \in Writers
                    /\ q \notin stale /\ q \notin writing => ~torn /\ mem[q] = file
  BY DEF IInv, GenInv, UpTo, Imports, Ahead, Of, Due, Arg
<1>3. CASE q = p
  BY <1>2, <1>3 DEF IInv, GenInv
<1>4. CASE q # p
  BY <1>1, <1>4 DEF IInv, GenInv, Due, Arg
<1> QED BY <1>3, <1>4

\* A step that changes nothing of the repository but what is merged.
LEMMA Moves ==
    ASSUME IInv, NEW p \in Builders, NEW s, GoesOn(todo[p], s), Onward(p, s),
           UNCHANGED <<file, torn, writing, mem, dirs, left, parts, made, gen, stale>>,
           named' \subseteq UpTo(gen),
           Head(todo[p])[1] \notin {"split", "replace", "remove"} \cup Writers,
           \A c \in Of(Head(todo[p])) : c.ref.id = "base" \/ \E x \in Ahead(s) : c \in Of(x),
           s # <<>> => s[1][1] \notin {"drop", "erase", "upsert"}
    PROVE  TodoInv' /\ GenInv' /\ PartsInv' /\ BuildingInv'
<1>1. /\ s # <<>> => todo'[p] # <<>> /\ Head(todo'[p]) = s[1]
      /\ Ahead(todo'[p]) = Ahead(s) \cup Ahead(Tail(todo[p]))
      /\ Ahead(todo[p]) = {Head(todo[p])} \cup Ahead(Tail(todo[p]))
      /\ "check" \in Kinds(todo'[p]) => "check" \in Kinds(todo[p])
      /\ TodoInv'
  BY Onwards
<1>2. ~Due(p, "drop")' /\ ~Due(p, "erase")' /\ ~Due(p, "upsert")'
  <2>1. CASE s = <<>>
    <3>1. todo'[p] # <<>> => Head(todo'[p])[1] \notin OnLayers
      BY <2>1, NextPlanned
    <3> QED BY <3>1 DEF Due, OnLayers
  <2>2. CASE s # <<>>
    BY <2>2, <1>1 DEF Due
  <2> QED BY <2>1, <2>2
<1>3. GenInv'
  BY <1>2, GenKept
<1>4. PartsInv'
  BY PartsKept
<1>5. "check" \in Kinds(todo'[p]) => "split" \in Kinds(todo'[p]) \/ left'[p].files = {}
  <2>1. ASSUME "split" \in Kinds(todo[p])  PROVE "split" \in Kinds(todo'[p])
    BY <2>1, <1>1 DEF Kinds
  <2> QED BY <2>1, <1>1 DEF IInv, BuildingInv, Building
<1>6. ASSUME NEW q \in Builders \ {p}, NEW g \in 1..gen, BuildInv(q, g)
      PROVE  BuildInv(q, g)'
  BY <1>2, <1>6, OtherBuilds
<1>7. ASSUME NEW g \in 1..gen, BuildInv(p, g)
      PROVE  Replaced(p, g)' /\ Listed(p, g)'
  <2>1. Replaced(p, g) /\ Listed(p, g)
    BY <1>7 DEF BuildInv
  <2>2. \A c \in Packed(p, g) : c \in Of(Head(todo[p])) => \E x \in Ahead(s) : c \in Of(x)
    BY NoBaseBuilt
  <2>3. Replaced(p, g)'
    BY <2>1, ReplacedKept
  <2>4. Listed(p, g)'
    BY <1>2, <2>1, <2>2, ListedKept
  <2> QED BY <2>3, <2>4
<1>8. BuildingInv'
  BY <1>5, <1>6, <1>7, BuildingKept
<1> QED BY <1>1, <1>3, <1>4, <1>8

\* The builders that have the repository open, where a step goes on.
LEMMA LoneKept ==
    ASSUME IInv, NEW p \in Builders, NEW s, GoesOn(todo[p], s), Onward(p, s),
           overlap' = overlap, p \notin writing',
           ~overlap /\ LoneSound /\ named \subseteq dirs \cup cut /\ p \notin stale =>
             /\ p \notin stale' /\ named' \subseteq dirs' \cup cut'
             /\ Due(p, "drop")' \/ Due(p, "erase")' => Arg(p)' \notin named'
             /\ file'.layers \subseteq dirs' \cup bare' /\ file'.merged \subseteq merged'
             /\ Due(p, "upsert")' => Arg(p)' \in dirs'
             /\ Due(p, "overlay")' => todo'[p][2][2] \subseteq merged' \cup Arg(p)'
             /\ Due(p, "list")' => Arg(p)' \subseteq merged'
             /\ Due(p, "sweep")' => file'.merged = Arg(p)'
    PROVE  LoneInv'
<1>1. \A q \in Builders \ {p} : todo'[q] = todo[q]
  BY Onwards
<1>2. p \in Open
  BY DEF GoesOn, Open
<1> SUFFICES ASSUME ~overlap
             PROVE  /\ LoneSound' /\ named' \subseteq dirs' \cup cut'
                    /\ \A q \in Open' :
                         /\ q \notin stale' /\ Open' = {q} /\ q \notin writing'
                         /\ Due(q, "drop")' \/ Due(q, "erase")' => Arg(q)' \notin named'
                         /\ Due(q, "upsert")' => Arg(q)' \in dirs'
                         /\ Due(q, "overlay")' => todo'[q][2][2] \subseteq merged' \cup Arg(q)'
                         /\ Due(q, "list")' => Arg(q)' \subseteq merged'
                         /\ Due(q, "sweep")' => file'.merged = Arg(q)'
  BY DEF LoneInv, Open, LoneSound, Due, Arg
<1>3. LoneSound /\ named \subseteq dirs \cup cut /\ p \notin stale /\ Open = {p}
  BY <1>2 DEF IInv, LoneInv
<1>4. Open' \subseteq {p}
  BY <1>1, <1>3 DEF Open
<1>5. LoneSound'
  BY <1>3 DEF LoneSound
<1> QED BY <1>3, <1>4, <1>5

\* Steps that leave the files alone, and come to none that writes a list but
\* of a layer no ref leads to.
LEMMA LoneMoves ==
    ASSUME IInv, NEW p \in Builders, NEW s, GoesOn(todo[p], s), Onward(p, s),
           UNCHANGED <<file, writing, dirs, cut, bare, merged, stale, overlap>>,
           named' \subseteq named, Head(todo[p])[1] \notin {"overlay"} \cup Writers,
           s # <<>> => /\ s[1][1] \notin {"upsert", "overlay", "list", "sweep", "erase"}
                       /\ s[1][1] = "drop" => s[1][2] \notin named'
    PROVE  LoneInv'
<1>1. s # <<>> => todo'[p] # <<>> /\ Head(todo'[p]) = s[1]
  BY Onwards
<1>2. /\ ~Due(p, "upsert")' /\ ~Due(p, "overlay")' /\ ~Due(p, "list")' /\ ~Due(p, "sweep")'
      /\ Due(p, "drop")' \/ Due(p, "erase")' => Arg(p)' \notin named'
  <2>1. CASE s = <<>>
    <3>1. todo'[p] # <<>> => /\ Head(todo'[p])[1] \notin OnLayers \cup {"overlay", "list"}
                             /\ Head(todo'[p])[1] # "sweep"
      BY <2>1, NextPlanned DEF Writers
    <3> QED BY <3>1 DEF Due, OnLayers
  <2>2. CASE s # <<>>
    BY <2>2, <1>1 DEF Due, Arg
  <2> QED BY <2>1, <2>2
<1>3. ~overlap => file.layers \subseteq dirs \cup bare /\ file.merged \subseteq merged
  BY DEF IInv, LoneInv, LoneSound
<1>4. p \notin writing'
  BY DEF IInv, GenInv
<1> QED BY <1>2, <1>3, <1>4, LoneKept

\* What a step may go on with.
LEMMA NoneOn == ASSUME NEW t \in Seq(Steps), t # <<>> PROVE GoesOn(t, <<>>)
BY DEF GoesOn, Ahead

LEMMA OneOn ==
    ASSUME NEW t \in Seq(Steps), t # <<>>, NEW x \in Steps,
           x[1] \notin {"container", "copy", "check"},
           Rank(x[1]) = 0 \/ Rank(x[1]) = Rank(Head(t)[1]),
           \A c \in Of(x) : c \in Of(Head(t)) \/ (c \in UpTo(0) /\ c.ref.id = "base"),
           \/ /\ x[1] \notin {"drop", "erase", "overlay", "list", "sweep"}
              /\ Head(t)[1] \notin {"overlay", "list"}
           \/ Head(t)[1] = "drop" /\ x[1] = "erase"
           \/ Head(t)[1] = "overlay" /\ x[1] = "overlay"
    PROVE  GoesOn(t, <<x>>) /\ Ahead(<<x>>) = {x} /\ <<x>> # <<>>
<1>1. <<x>> \in Seq(Steps) /\ Len(<<x>>) = 1 /\ <<x>>[1] = x
  OBVIOUS
<1>2. Ahead(<<x>>) = {x}
  BY <1>1 DEF Ahead
<1>3. x[1] \notin {"drop", "erase", "overlay", "list", "sweep"} => Shaped(<<x>>)
  BY <1>1 DEF Shaped
<1> QED BY <1>1, <1>2, <1>3 DEF GoesOn

\* The end of a command; of a build that ends well, what it leaves.
LEMMA Ended ==
    ASSUME IInv, NEW p \in Builders, todo[p] # <<>>, NEW how \in Results \ {"none"},
           todo' = [todo EXCEPT ![p] = <<>>], result' = [result EXCEPT ![p] = how],
           writing' = writing \ {p}, stale' = stale \cup (writing \cap {p}),
           UNCHANGED <<file, torn, named, dirs, merged, cut, bare, mem, work, gen, overlap>>,
           how = "built" => left[p].files = {} /\ \E g \in 1..gen : BuildInv(p, g)'
    PROVE  IInv'
<1>1. /\ todo' = [todo EXCEPT ![p] = <<>>] /\ result' = [result EXCEPT ![p] = how]
      /\ UNCHANGED <<file, torn, named, dirs, merged, cut, bare, mem, base, left, parts, made,
                     gen, overlap>>
      /\ \A q \in Builders \ {p} :
           (q \in writing' <=> q \in writing) /\ (q \in stale' <=> q \in stale)
      /\ p \notin writing' /\ (p \notin stale' => p \notin stale /\ p \notin writing)
  BY DEF work
<1>2. TypeInv /\ TodoInv /\ GenInv /\ LoneInv /\ PartsInv /\ BuildingInv
  BY DEF IInv
<1>3. /\ todo'[p] = <<>> /\ result'[p] = how
      /\ \A q \in Builders \ {p} : todo'[q] = todo[q] /\ result'[q] = result[q]
  BY <1>1, <1>2 DEF TypeInv
<1>4. Ahead(<<>>) = {} /\ Kinds(<<>>) = {} /\ Imports(<<>>) = {}
  BY DEF Ahead, Kinds, Imports
<1>5. TypeInv'
  <2>1. writing' \subseteq Builders /\ stale' \subseteq Builders
    BY <1>2 DEF TypeInv
  <2> QED BY <2>1, <1>1, <1>2 DEF TypeInv
<1>6. TodoInv'
  <2> SUFFICES ASSUME NEW q \in Builders
               PROVE  /\ Shaped(todo'[q]) /\ Ordered(todo'[q])
                      /\ Kinds(todo'[q]) \cap {"container", "copy"} # {} =>
                           "split" \in Kinds(todo'[q])
                      /\ todo'[q] # <<>> => result'[q] = "none"
    BY DEF TodoInv, Shaped, Ordered, Kinds, Ahead
  <2>1. CASE q = p
    BY <2>1, <1>3, <1>4 DEF Shaped, Ordered
  <2>2. CASE q # p
    BY <2>2, <1>2, <1>3 DEF TodoInv
  <2> QED BY <2>1, <2>2
<1>7. GenInv'
  <2> SUFFICES ASSUME NEW q \in Builders
               PROVE  /\ mem[q].layers \subseteq UpTo(gen) /\ Imports(todo'[q]) \subseteq UpTo(gen)
                      /\ Due(q, "drop")' \/ Due(q, "erase")' => Arg(q)' \in UpTo(gen)
                      /\ Due(q, "erase")' => Arg(q)' \notin mem[q].layers
                      /\ q \in writing' => todo'[q] # <<>> /\ Head(todo'[q])[1] \in Writers
                      /\ q \notin stale' /\ q \notin writing' => ~torn /\ mem[q] = file
    BY <1>1, <1>2 DEF GenInv, UpTo, Imports, Ahead, Of, Due, Arg
  <2>1. CASE q = p
    BY <2>1, <1>1, <1>2, <1>3, <1>4 DEF GenInv, Due
  <2>2. CASE q # p
    BY <2>2, <1>1, <1>2, <1>3 DEF GenInv, Due, Arg
  <2> QED BY <2>1, <2>2
<1>8. LoneInv'
  <2>1. Open' = Open \ {p}
    BY <1>3 DEF Open
  <2>2. ~overlap => Open' = {}
    BY <2>1, <1>2 DEF LoneInv, Open
  <2> QED BY <2>2, <1>1, <1>2 DEF LoneInv, LoneSound
<1>9. PartsInv'
  <2> SUFFICES ASSUME NEW q \in Builders
               PROVE  /\ Parted(q)'
                      /\ Kinds(todo'[q]) \cap {"container", "copy"} # {} =>
                           \A m \in Modules : parts'[q][m] = {}
    BY DEF PartsInv, Kinds, Ahead
  <2>1. Parted(q)'
    BY <1>1, <1>2 DEF PartsInv, Parted
  <2> QED BY <2>1, <1>1, <1>2, <1>3, <1>4 DEF PartsInv
<1>10. BuildingInv'
  <2> SUFFICES ASSUME NEW q \in Builders, Building(q)'
               PROVE  /\ result'[q] = "built" => todo'[q] = <<>>
                      /\ "split" \in Kinds(todo'[q]) \/ left'[q].files = {}
                      /\ \E g \in 1..gen' : BuildInv(q, g)'
    BY DEF BuildingInv, Building, Kinds, Ahead
  <2>1. CASE q = p
    <3>1. how = "built"
      BY <2>1, <1>3, <1>4 DEF Building, Kinds, Ahead
    <3> QED BY <2>1, <3>1, <1>1, <1>3
  <2>2. CASE q # p
    <3>1. Building(q)
      BY <2>2, <1>3 DEF Building, Kinds, Ahead
    <3>2. PICK g \in 1..gen : BuildInv(q, g)
      BY <3>1, <1>2 DEF BuildingInv
    <3>3. BuildInv(q, g)'
      <4>1. Apart(q, g)'
        <5> SUFFICES ASSUME NEW r \in Builders \ {q}
                     PROVE  /\ Imports(todo'[r]) \cap Packed(q, g) = {}
                            /\ q \notin stale' /\ Due(r, "erase")' => Arg(r)' \notin Packed(q, g)
          BY <1>1 DEF Apart, Packed, Imports, Ahead, Of, Due, Arg
        <5>1. CASE r = p
          BY <5>1, <1>3, <1>4 DEF Due
        <5>2. CASE r # p
          BY <5>2, <1>1, <1>3, <3>2 DEF BuildInv, Apart, Due, Arg
        <5> QED BY <5>1, <5>2
      <4>2. todo'[q] = todo[q]
        BY <2>2, <1>3
      <4>3. Replaced(q, g)'
        <5>1. mem' = mem /\ Replaced(q, g)
          BY <3>2, <1>1 DEF BuildInv
        <5>2. /\ \A s \in Ahead(todo'[q]) : s[1] = "remove" => s[2] = Own(q)
              /\ Removes(todo'[q]) => <<"commit", Packed(q, g)>> \in Ahead(todo'[q])
              /\ ~Removes(todo'[q]) => OfRef(mem'[q].layers, Own(q)) \subseteq Packed(q, g)
          BY <4>2, <5>1 DEF Replaced
        <5> QED BY <5>2 DEF Replaced, Removes, Kinds, Ahead, OfRef, Own, Packed
      <4>4. Listed(q, g)'
        BY <2>2, <4>2, <3>2, <1>1 DEF BuildInv, Listed, Imports, Ahead, Due, Arg
      <4> QED BY <4>1, <4>3, <4>4 DEF BuildInv
    <3> QED BY <2>2, <3>1, <3>3, <1>1, <1>2, <1>3 DEF BuildingInv
  <2> QED BY <2>1, <2>2
<1> QED BY <1>5, <1>6, <1>7, <1>8, <1>9, <1>10 DEF IInv

LEMMA Ending ==
    ASSUME IInv, NEW p \in Builders, todo[p] # <<>>, Head(todo[p])[1] \notin Writers,
           NEW how \in Results \ {"none"}, End(p, how),
           how = "built" => left[p].files = {} /\ \E g \in 1..gen : BuildInv(p, g)'
    PROVE  IInv'
<1>1. /\ todo' = [todo EXCEPT ![p] = <<>>] /\ result' = [result EXCEPT ![p] = how]
      /\ UNCHANGED <<file, torn, writing, named, dirs, merged, cut, bare, mem, work, gen, stale,
                     overlap>>
  BY DEF End, disk, list
<1>2. p \notin writing
  BY DEF IInv, GenInv
<1>3. writing' = writing \ {p} /\ stale' = stale \cup (writing \cap {p})
  BY <1>1, <1>2
<1> QED BY <1>1, <1>3, Ended

\* A change of the list that no process takes part in, or one that does not go on.
LEMMA Stays ==
    ASSUME IInv, UNCHANGED <<todo, result, mem, dirs, left, parts, made, gen>>,
           stale \subseteq stale'
    PROVE  TodoInv' /\ PartsInv' /\ BuildingInv'
<1>1. TodoInv'
  <2> SUFFICES ASSUME NEW q \in Builders
               PROVE  /\ Shaped(todo'[q]) /\ Ordered(todo'[q])
                      /\ Kinds(todo'[q]) \cap {"container", "copy"} # {} =>
                           "split" \in Kinds(todo'[q])
                      /\ todo'[q] # <<>> => result'[q] = "none"
    BY DEF TodoInv, Shaped, Ordered, Kinds, Ahead
  <2> QED BY DEF IInv, TodoInv
<1>2. PartsInv'
  <2> SUFFICES ASSUME NEW q \in Builders
               PROVE  /\ Parted(q)'
                      /\ Kinds(todo'[q]) \cap {"container", "copy"} # {} =>
                           \A m \in Modules : parts'[q][m] = {}
    BY DEF PartsInv, Kinds, Ahead
  <2>1. Parted(q)'
    BY DEF IInv, PartsInv, Parted
  <2> QED BY <2>1 DEF IInv, PartsInv
<1>3. BuildingInv'
  <2> SUFFICES ASSUME NEW q \in Builders, Building(q)'
               PROVE  /\ result'[q] = "built" => todo'[q] = <<>>
                      /\ "split" \in Kinds(todo'[q]) \/ left'[q].files = {}
                      /\ \E g \in 1..gen' : BuildInv(q, g)'
    BY DEF BuildingInv, Building, Kinds, Ahead
  <2>1. Building(q)
    BY DEF Building, Kinds, Ahead
  <2>2. PICK g \in 1..gen : BuildInv(q, g)
    BY <2>1 DEF IInv, BuildingInv
  <2>3. Apart(q, g)'
    <3> SUFFICES ASSUME NEW r \in Builders \ {q}
                 PROVE  /\ Imports(todo'[r]) \cap Packed(q, g) = {}
                        /\ q \notin stale' /\ Due(r, "erase")' => Arg(r)' \notin Packed(q, g)
      BY DEF Apart, Packed, Imports, Ahead, Of, Due, Arg
    <3> QED BY <2>2 DEF BuildInv, Apart, Due, Arg
  <2>4. Replaced(q, g)'
    BY <2>2 DEF BuildInv, Replaced, Ahead, Removes, Kinds, OfRef
  <2>5. Listed(q, g)'
    <3>1. Listed(q, g)
      BY <2>2 DEF BuildInv
    <3> QED BY <3>1 DEF Listed, Imports, Ahead, Of, Packed, Due, Arg
  <2>6. BuildInv(q, g)'
    BY <2>3, <2>4, <2>5 DEF BuildInv
  <2> QED BY <2>1, <2>6 DEF IInv, BuildingInv
<1> QED BY <1>1, <1>2, <1>3

-----------------------------------------------------------------------------
(* One lemma for each step.                                                *)

LEMMA AtHead ==
    ASSUME IInv, NEW p \in Builders, todo[p] # <<>>
    PROVE  /\ todo[p] \in Seq(Steps) /\ Head(todo[p]) \in Steps
           /\ Head(todo[p]) \in Ahead(todo[p]) /\ GoesOn(todo[p], <<>>)
           /\ result[p] = "none"
<1>1. todo[p] \in Seq(Steps)
  BY DEF IInv, TypeInv
<1>2. Head(todo[p]) \in Steps /\ Head(todo[p]) \in Ahead(todo[p])
  BY <1>1, AheadAfter
<1> QED BY <1>1, <1>2, NoneOn DEF IInv, TodoInv

\* Steps that change nothing of the repository, of the output or of its modules.
LEMMA Quiet ==
    ASSUME IInv, NEW p \in Builders, NEW s, GoesOn(todo[p], s), Onward(p, s),
           UNCHANGED <<disk, mem, left, parts, made, gen, stale, overlap>>,
           Head(todo[p])[1] \notin {"split", "replace", "remove", "overlay"} \cup Writers,
           \A c \in Of(Head(todo[p])) : c.ref.id = "base" \/ \E x \in Ahead(s) : c \in Of(x),
           s # <<>> => s[1][1] \notin {"drop", "erase", "upsert", "overlay", "list", "sweep"}
    PROVE  IInv'
<1>1. TodoInv' /\ GenInv' /\ PartsInv' /\ BuildingInv'
  <2>1. named' \subseteq UpTo(gen)
    BY DEF disk, IInv, GenInv
  <2> QED BY <2>1, Moves DEF disk, list
<1>2. LoneInv'
  BY LoneMoves DEF disk, list
<1>3. TypeInv'
  <2>1. todo' \in [Builders -> Seq(Steps)] /\ result' \in [Builders -> Results]
    BY Onwards
  <2> QED BY <2>1 DEF IInv, TypeInv, disk, list
<1> QED BY <1>1, <1>2, <1>3 DEF IInv

LEMMA IdleStep ==
    ASSUME IInv, NEW p \in Builders, todo[p] # <<>>, Idle(p),
           Head(todo[p])[1] \in {"sources", "start", "read"}
    PROVE  IInv'
<1>1. Onward(p, <<>>) /\ UNCHANGED <<disk, mem, left, parts, made, gen, stale, overlap>>
  BY DEF Idle, work
<1>2. Of(Head(todo[p])) = {}
  BY DEF Of
<1> QED BY <1>1, <1>2, AtHead, Quiet DEF Writers

LEMMA FailsStep ==
    ASSUME IInv, NEW p \in Builders, todo[p] # <<>>, Head(todo[p])[1] \notin Writers,
           Fails(p) \/ Breaks(p)
    PROVE  IInv'
BY Ending DEF Fails, Breaks, Results

LEMMA SourcesStep == ASSUME IInv, NEW p \in Builders, Sources(p) PROVE IInv'
BY IdleStep, FailsStep DEF Sources, Due, Writers

LEMMA StartStep == ASSUME IInv, NEW p \in Builders, StartBuilt(p) PROVE IInv'
BY IdleStep, FailsStep DEF StartBuilt, Due, Writers

LEMMA ReadStep == ASSUME IInv, NEW p \in Builders, Read(p) PROVE IInv'
BY IdleStep, FailsStep DEF Read, Due, Writers

LEMMA ImportFailsStep == ASSUME IInv, NEW p \in Builders, ImportFails(p) PROVE IInv'
BY FailsStep DEF ImportFails, Importing, Due, Writers

LEMMA SplitBreaksStep == ASSUME IInv, NEW p \in Builders, SplitBreaks(p) PROVE IInv'
BY Ending DEF SplitBreaks, Due, Results, Writers

LEMMA KillStep == ASSUME IInv, NEW p \in Builders, Kill(p) PROVE IInv'
BY Ended DEF Kill, Results

LEMMA ResolveLocalStep == ASSUME IInv, NEW p \in Builders, ResolveLocal(p) PROVE IInv'
<1>1. todo[p] # <<>> /\ Head(todo[p])[1] \in {"local", "resolve"}
  BY DEF ResolveLocal, Due
<1>2. CASE Fails(p)
  BY <1>1, <1>2, FailsStep DEF Writers
<1>3. CASE Choose(p, Local(p), <<>>)
  <2>1. Onward(p, <<>>) /\ UNCHANGED <<disk, mem, left, parts, made, gen, stale, overlap>>
    BY <1>3 DEF Choose
  <2>2. Of(Head(todo[p])) = {}
    BY <1>1 DEF Of
  <2> QED BY <1>1, <2>1, <2>2, AtHead, Quiet DEF Writers
<1> QED BY <1>2, <1>3 DEF ResolveLocal

LEMMA BaseLayers ==
    ASSUME NEW v \in Versions, NEW m \in {"binary", "develop"}
    PROVE  /\ BaseLayer(v, m) \in UpTo(0) /\ BaseLayer(v, m).ref.id = "base"
           /\ <<"name", BaseLayer(v, m)>> \in Steps
<1>1. BaseLayer(v, m) \in Layers
  BY BuilderAssumption DEF BaseLayer, Layers, Refs, Modules
<1> QED BY <1>1 DEF BaseLayer, BaseRef, UpTo, Steps, OnLayers

LEMMA ResolveRemoteStep == ASSUME IInv, NEW p \in Builders, ResolveRemote(p) PROVE IInv'
<1>1. todo[p] # <<>> /\ Head(todo[p])[1] = "resolve"
  BY DEF ResolveRemote, Due
<1>2. PICK v \in Versions : Choose(p, v, <<<<"name", BaseLayer(v, "binary")>>>>)
  BY DEF ResolveRemote, Versions
<1> DEFINE x == <<"name", BaseLayer(v, "binary")>>
<1>3. x \in Steps /\ x[1] = "name" /\ Of(x) \subseteq {c \in UpTo(0) : c.ref.id = "base"}
  BY BaseLayers DEF Of
<1> HIDE DEF x
<1>4. GoesOn(todo[p], <<x>>) /\ <<x>> # <<>> /\ <<x>>[1] = x
  BY <1>1, <1>3, AtHead, OneOn DEF Rank
<1>5. Onward(p, <<x>>) /\ UNCHANGED <<disk, mem, left, parts, made, gen, stale, overlap>>
  BY <1>2 DEF Choose, x
<1>6. Of(Head(todo[p])) = {}
  BY <1>1 DEF Of
<1> QED BY <1>1, <1>3, <1>4, <1>5, <1>6, Quiet DEF Writers

LEMMA PullFailsStep == ASSUME IInv, NEW p \in Builders, PullFails(p) PROVE IInv'
<1>1. todo[p] # <<>> /\ Head(todo[p])[1] \in {"name", "clear", "checkout"}
      /\ Head(todo[p])[2].ref.id = "base"
  BY DEF PullFails, Importing, Due, Arg
<1>2. Onward(p, <<>>) /\ UNCHANGED <<disk, mem, left, parts, made, gen, stale, overlap>>
  BY DEF PullFails
<1>3. Of(Head(todo[p])) = {Head(todo[p])[2]}
  BY <1>1 DEF Of
<1> QED BY <1>1, <1>2, <1>3, AtHead, Quiet DEF Writers

\* A build imports what it has said.
LEMMA CommitStep == ASSUME IInv, NEW p \in Builders, Commit(p) PROVE IInv'
<1> DEFINE A == Arg(p)
           c == AnyOf(A)
           others == A \ {c}
           x == <<"name", c>>
           y == <<"commit", others>>
           s == IF others = {} THEN <<x>> ELSE <<x, y>>
<1>1. todo[p] # <<>> /\ Head(todo[p])[1] = "commit" /\ Of(Head(todo[p])) = A
  BY DEF Commit, Due, Of, Arg
<1>2. A \subseteq Layers /\ A # {}
  BY <1>1, AtHead, StepIs DEF Arg
<1>3. c \in A
  BY <1>2 DEF AnyOf
<1>4. x \in Steps /\ x[1] = "name" /\ Of(x) = {c}
  BY <1>2, <1>3 DEF Steps, OnLayers, Of
<1>5. y[1] = "commit" /\ Of(y) = others /\ (others # {} => y \in Steps)
  <2>1. others \subseteq Layers
    BY <1>2
  <2> HIDE DEF A, c, others
  <2>2. others # {} => <<"commit", others>> \in Steps
    BY <2>1, MakeStep
  <2>3. Of(<<"commit", others>>) = others
    BY DEF Of
  <2> QED BY <2>2, <2>3
<1>6. Onward(p, s) /\ UNCHANGED <<disk, mem, left, parts, made, gen, stale, overlap>>
  BY DEF Commit, work
<1> HIDE DEF A, c, others, x, y
<1>7. GoesOn(todo[p], s) /\ s # <<>> /\ s[1] = x /\ Ahead(s) = IF others = {} THEN {x} ELSE {x, y}
  <2>1. CASE others = {}
    BY <2>1, <1>1, <1>3, <1>4, AtHead, OneOn DEF Rank
  <2>2. CASE others # {}
    <3>1. <<x, y>> \in Seq(Steps) /\ Len(<<x, y>>) = 2 /\ <<x, y>>[1] = x /\ <<x, y>>[2] = y
      BY <2>2, <1>4, <1>5
    <3>2. Ahead(<<x, y>>) = {x, y}
      BY <3>1 DEF Ahead
    <3>3. Shaped(<<x, y>>)
      BY <3>1, <1>4, <1>5 DEF Shaped, Planned
    <3>4. Rank(x[1]) = 0 /\ Rank(y[1]) = Rank(Head(todo[p])[1])
      BY <1>1, <1>4, <1>5 DEF Rank
    <3>5. \A i, j \in 1..Len(<<x, y>>) : i < j =>
            Rank(<<x, y>>[i][1]) = 0 \/ Rank(<<x, y>>[j][1]) = 0
      BY <3>1, <3>4
    <3>6. Of(x) \subseteq A /\ Of(y) \subseteq A
      BY <1>3, <1>4, <1>5 DEF others
    <3>7. GoesOn(todo[p], <<x, y>>)
      BY <1>1, <1>4, <1>5, <3>1, <3>2, <3>3, <3>4, <3>5, <3>6, AtHead DEF GoesOn
    <3> QED BY <2>2, <3>1, <3>2, <3>7
  <2> QED BY <2>1, <2>2
<1>8. \A d \in A : \E z \in Ahead(s) : d \in Of(z)
  BY <1>4, <1>5, <1>7 DEF others
<1> QED BY <1>1, <1>4, <1>6, <1>7, <1>8, Quiet DEF Writers

\* The commit of a build waits behind what it removes.
LEMMA CommitBehind ==
    ASSUME IInv, NEW p \in Builders, NEW g, todo[p] # <<>>, Replaced(p, g),
           Head(todo[p])[1] \in {"replace", "remove", "drop", "erase"}
    PROVE  /\ <<"commit", Packed(p, g)>> \in Ahead(Tail(todo[p]))
           /\ Head(todo[p])[1] \in {"drop", "erase"} =>
                \E x \in Ahead(Tail(todo[p])) : x[1] = "remove"
<1> DEFINE t == todo[p]
<1>1. t \in Seq(Steps) /\ Shaped(t) /\ Ahead(t) = {Head(t)} \cup Ahead(Tail(t))
  BY AtHead, AheadAfter DEF IInv, TodoInv
<1>2. ASSUME Head(t)[1] \in {"drop", "erase"}
      PROVE  \E x \in Ahead(Tail(t)) : x[1] = "remove"
  <2>1. Head(t) = t[1] /\ 1 \in 1..Len(t) /\ Len(t) \in Nat
    BY <1>1
  <2>2. 1 < Len(t) /\ t[1 + 1][1] = "remove"
    BY <1>1, <1>2, <2>1 DEF Shaped
  <2>3. 1 \in 1..Len(Tail(t)) /\ Tail(t)[1] = t[2]
    BY <1>1, <2>1, <2>2
  <2>4. Tail(t)[1] \in Ahead(Tail(t))
    BY <2>3 DEF Ahead
  <2>5. Tail(t)[1][1] = "remove"
    BY <2>2, <2>3
  <2> QED BY <2>4, <2>5
<1>3. Removes(t)
  BY <1>1, <1>2 DEF Removes, Kinds
<1>4. <<"commit", Packed(p, g)>> \in Ahead(t)
  BY <1>3 DEF Replaced
<1>5. Head(t) # <<"commit", Packed(p, g)>>
  OBVIOUS
<1> QED BY <1>1, <1>2, <1>4, <1>5

\* Every module of a reference is removed, one after the other.
LEMMA RemovingStep ==
    ASSUME IInv, NEW p \in Builders, todo[p] # <<>>, NEW r, Removing(p, r),
           \/ Head(todo[p])[1] = "replace" /\ r = Own(p)
           \/ Head(todo[p])[1] = "remove" /\ r = Head(todo[p])[2]
    PROVE  IInv'
<1> DEFINE t == todo[p]
           those == OfRef(mem[p].layers, r)
           c == AnyOf(those)
           x == <<"drop", c>>
           y == <<"remove", r>>
           s == IF those = {} THEN <<>> ELSE <<x, y>>
<1>1. t \in Seq(Steps) /\ Head(t) \in Steps /\ GoesOn(t, <<>>)
  BY AtHead
<1>2. r \in Refs
  BY <1>1, StepIs DEF Refs
<1>3. /\ Onward(p, s)
      /\ UNCHANGED <<file, torn, writing, dirs, merged, cut, bare, mem, left, parts, made, gen,
                     stale, overlap>>
      /\ named' \subseteq named /\ (those # {} => c \notin named')
  BY DEF Removing, list, work
<1>4. those \subseteq Layers /\ those \subseteq UpTo(gen)
  BY DEF IInv, GenInv, TypeInv, Copies, OfRef
<1>5. those # {} => c \in those
  BY DEF AnyOf
<1>6. y \in Steps /\ y[1] = "remove" /\ y[2] = r /\ x[1] = "drop" /\ x[2] = c
      /\ (those # {} => x \in Steps)
  BY <1>2, <1>4, <1>5, MakeStep DEF OnLayers
<1>7. Rank(Head(t)[1]) = 4 /\ Of(Head(t)) = {}
  BY DEF Rank, Of
<1>8. Of(x) = {} /\ Of(y) = {} /\ Rank(x[1]) = 0 /\ Rank(y[1]) = 4
  BY DEF Of, Rank
<1> HIDE DEF c, x, y
<1>9. /\ GoesOn(t, s) /\ (those = {} => s = <<>>)
      /\ those # {} => s # <<>> /\ s[1] = x /\ Ahead(s) = {x, y}
  <2>1. CASE those = {}
    BY <2>1, <1>1
  <2>2. CASE those # {}
    <3>1. <<x, y>> \in Seq(Steps) /\ Len(<<x, y>>) = 2 /\ <<x, y>>[1] = x /\ <<x, y>>[2] = y
      BY <2>2, <1>6
    <3>2. Ahead(<<x, y>>) = {x, y}
      BY <3>1 DEF Ahead
    <3>3. Shaped(<<x, y>>)
      BY <3>1, <1>6 DEF Shaped, Planned
    <3>4. \A i, j \in 1..Len(<<x, y>>) : i < j =>
            Rank(<<x, y>>[i][1]) = 0 \/ Rank(<<x, y>>[j][1]) = 0
      BY <3>1, <1>8
    <3>5. GoesOn(t, <<x, y>>)
      BY <1>1, <1>6, <1>7, <1>8, <3>1, <3>2, <3>3, <3>4 DEF GoesOn
    <3> QED BY <2>2, <3>1, <3>2, <3>5
  <2> QED BY <2>1, <2>2
<1> HIDE DEF those, s
<1>10. /\ todo' \in [Builders -> Seq(Steps)] /\ result' \in [Builders -> Results]
       /\ s # <<>> => todo'[p] # <<>> /\ Head(todo'[p]) = s[1]
       /\ Ahead(todo'[p]) = Ahead(s) \cup Ahead(Tail(t))
       /\ Ahead(t) = {Head(t)} \cup Ahead(Tail(t))
       /\ "check" \in Kinds(todo'[p]) => "check" \in Kinds(t)
       /\ TodoInv'
  BY <1>3, <1>9, Onwards
<1>11. TypeInv'
  BY <1>3, <1>10 DEF IInv, TypeInv
<1>12. /\ Due(p, "drop")' => Arg(p)' \in UpTo(gen)
       /\ ~Due(p, "erase")' /\ ~Due(p, "upsert")'
  <2>1. CASE those = {}
    <3>1. todo'[p] # <<>> => Head(todo'[p])[1] \notin OnLayers
      BY <2>1, <1>1, <1>3, <1>9, NextPlanned
    <3> QED BY <3>1 DEF Due, OnLayers
  <2>2. CASE those # {}
    <3>1. todo'[p] # <<>> /\ Head(todo'[p]) = x
      BY <2>2, <1>9, <1>10
    <3> QED BY <2>2, <3>1, <1>4, <1>5, <1>6 DEF Due, Arg
  <2> QED BY <2>1, <2>2
<1>13. GenInv'
  <2>1. named' \subseteq UpTo(gen) /\ Head(t)[1] \notin Writers
    BY <1>3 DEF IInv, GenInv, Writers
  <2> QED BY <1>3, <1>9, <1>12, <2>1, GenKept
<1>14. PartsInv'
  BY <1>3, <1>9, PartsKept
<1>15. LoneInv'
  <2>1. Head(t)[1] \notin {"overlay"} \cup Writers
    BY DEF Writers
  <2>2. s # <<>> => /\ s[1][1] \notin {"upsert", "overlay", "list", "sweep", "erase"}
                    /\ s[1][1] = "drop" => s[1][2] \notin named'
    BY <1>3, <1>6, <1>9
  <2> QED BY <1>3, <1>9, <2>1, <2>2, LoneMoves
<1>16. "check" \in Kinds(todo'[p]) => "split" \in Kinds(todo'[p]) \/ left'[p].files = {}
  <2>1. ASSUME "split" \in Kinds(t)  PROVE "split" \in Kinds(todo'[p])
    BY <2>1, <1>10 DEF Kinds
  <2> QED BY <2>1, <1>3, <1>10 DEF IInv, BuildingInv, Building
<1>17. ASSUME NEW q \in Builders \ {p}, NEW g \in 1..gen, BuildInv(q, g)
       PROVE  BuildInv(q, g)'
  BY <1>3, <1>9, <1>12, <1>17, OtherBuilds
<1>18. ASSUME NEW g \in 1..gen, BuildInv(p, g)
       PROVE  Replaced(p, g)' /\ Listed(p, g)'
  <2>1. Replaced(p, g) /\ Listed(p, g)
    BY <1>18 DEF BuildInv
  <2>2. <<"commit", Packed(p, g)>> \in Ahead(todo'[p])
    BY <2>1, <1>10, CommitBehind
  <2>3. r = Own(p)
    BY <2>1, <1>10 DEF Replaced
  <2>4. \A z \in Ahead(todo'[p]) : z[1] = "remove" => z[2] = Own(p)
    <3>1. CASE those = {}
      <4>1. Ahead(s) = {}
        BY <1>9, <3>1 DEF Ahead
      <4> QED BY <2>1, <4>1, <1>10 DEF Replaced
    <3>2. CASE those # {}
      BY <2>1, <2>3, <1>6, <1>9, <1>10, <3>2 DEF Replaced
    <3> QED BY <3>1, <3>2
  <2>5. ~Removes(todo'[p]) => OfRef(mem'[p].layers, Own(p)) \subseteq Packed(p, g)
    <3>1. CASE those = {}
      BY <2>3, <3>1, <1>3 DEF OfRef, those
    <3>2. CASE those # {}
      <4>1. y \in Ahead(todo'[p])
        BY <1>9, <1>10, <3>2
      <4> QED BY <4>1, <1>6 DEF Removes, Kinds
    <3> QED BY <3>1, <3>2
  <2>6. Replaced(p, g)'
    BY <2>2, <2>4, <2>5 DEF Replaced, Removes, Kinds, Ahead, OfRef, Own, Packed
  <2>7. Listed(p, g)'
    BY <2>1, <1>3, <1>7, <1>9, <1>12, ListedKept
  <2> QED BY <2>6, <2>7
<1>19. BuildingInv'
  BY <1>3, <1>9, <1>16, <1>17, <1>18, BuildingKept
<1> QED BY <1>10, <1>11, <1>13, <1>14, <1>15, <1>19 DEF IInv

LEMMA RemoveRefStep == ASSUME IInv, NEW p \in Builders, RemoveRef(p) PROVE IInv'
BY RemovingStep DEF RemoveRef, Due, Arg

LEMMA ReplaceStep == ASSUME IInv, NEW p \in Builders, Replace(p) PROVE IInv'
BY RemovingStep, FailsStep DEF Replace, Due, Writers

\* What a step leaves of the layers yet to be split.
LEMMA SplitKept ==
    ASSUME IInv, NEW p \in Builders, NEW s, GoesOn(todo[p], s), Onward(p, s),
           Head(todo[p])[1] # "split", left' = left, "check" \in Kinds(todo'[p])
    PROVE  "split" \in Kinds(todo'[p]) \/ left'[p].files = {}
<1>1. /\ Ahead(todo'[p]) = Ahead(s) \cup Ahead(Tail(todo[p]))
      /\ Ahead(todo[p]) = {Head(todo[p])} \cup Ahead(Tail(todo[p]))
      /\ "check" \in Kinds(todo[p])
  BY Onwards
<1>2. "split" \in Kinds(todo[p]) \/ left[p].files = {}
  BY <1>1 DEF IInv, BuildingInv, Building
<1>3. ASSUME "split" \in Kinds(todo[p])  PROVE "split" \in Kinds(todo'[p])
  BY <1>1, <1>3 DEF Kinds
<1> QED BY <1>2, <1>3

\* The layer a step is for.
LEMMA LayerAtHead ==
    ASSUME IInv, NEW p \in Builders, todo[p] # <<>>, Head(todo[p])[1] \in OnLayers
    PROVE  /\ Arg(p) \in Layers
           /\ Head(todo[p])[1] \in {"name", "clear", "checkout", "upsert"} =>
                Of(Head(todo[p])) = {Arg(p)} /\ Arg(p) \in Imports(todo[p])
           /\ Head(todo[p])[1] \in {"drop", "erase"} => Of(Head(todo[p])) = {}
BY AtHead, StepIs DEF Arg, Of, Imports, OnLayers

LEMMA NameStep == ASSUME IInv, NEW p \in Builders, Name(p) PROVE IInv'
<1> DEFINE c == Arg(p)
           x == <<"clear", c>>
           s == <<x>>
<1>1. todo[p] # <<>> /\ Head(todo[p])[1] = "name"
  BY DEF Name, Due
<1>2. c \in Layers /\ Of(Head(todo[p])) = {c} /\ c \in Imports(todo[p])
  BY <1>1, LayerAtHead DEF OnLayers
<1>3. x \in Steps /\ x[1] = "clear" /\ x[2] = c /\ Of(x) = {c} /\ Rank(x[1]) = 0
  BY <1>2, MakeStep DEF OnLayers, Of, Rank
<1>4. /\ Onward(p, s)
      /\ UNCHANGED <<file, torn, writing, mem, dirs, bare, merged, left, parts, made, gen, stale,
                     overlap>>
      /\ named' \subseteq named \cup {c} /\ cut' \subseteq cut \cup {c}
      /\ cut \subseteq cut' /\ c \in dirs \cup cut'
  BY DEF Name, list, work
<1>5. c \in UpTo(gen) /\ p \notin writing /\ Head(todo[p])[1] \notin Writers
  BY <1>1, <1>2 DEF IInv, GenInv, Writers
<1> HIDE DEF x, c
<1>6. GoesOn(todo[p], s) /\ s # <<>> /\ s[1] = x /\ Ahead(s) = {x}
  BY <1>1, <1>2, <1>3, AtHead, OneOn
<1> HIDE DEF s
<1>7. /\ todo' \in [Builders -> Seq(Steps)] /\ result' \in [Builders -> Results]
      /\ todo'[p] # <<>> /\ Head(todo'[p]) = x
  BY <1>4, <1>6, Onwards
<1>8. TypeInv'
  BY <1>2, <1>4, <1>7 DEF IInv, TypeInv
<1>9. TodoInv' /\ GenInv' /\ PartsInv' /\ BuildingInv'
  <2>1. named' \subseteq UpTo(gen)
    BY <1>4, <1>5 DEF IInv, GenInv
  <2> QED BY <1>1, <1>2, <1>3, <1>4, <1>5, <1>6, <2>1, Moves
<1>10. ~Due(p, "drop")' /\ ~Due(p, "erase")' /\ ~Due(p, "upsert")' /\ ~Due(p, "overlay")'
       /\ ~Due(p, "list")' /\ ~Due(p, "sweep")'
  BY <1>3, <1>7 DEF Due
<1>11. LoneInv'
  <2>1. LoneSound /\ ~overlap =>
          file'.layers \subseteq dirs' \cup bare' /\ file'.merged \subseteq merged'
    BY <1>4 DEF LoneSound
  <2>2. named \subseteq dirs \cup cut => named' \subseteq dirs' \cup cut'
    BY <1>4
  <2> QED BY <1>4, <1>5, <1>6, <1>10, <2>1, <2>2, LoneKept
<1> QED BY <1>8, <1>9, <1>11 DEF IInv

LEMMA ClearStep == ASSUME IInv, NEW p \in Builders, Clear(p) PROVE IInv'
<1> DEFINE c == Arg(p)
           x == <<"checkout", c>>
           s == <<x>>
<1>1. todo[p] # <<>> /\ Head(todo[p])[1] = "clear"
  BY DEF Clear, Due
<1>0. named \subseteq UpTo(gen) /\ p \notin writing /\ Head(todo[p])[1] \notin Writers
  BY <1>1 DEF IInv, GenInv, Writers
<1>2. c \in Layers /\ Of(Head(todo[p])) = {c} /\ c \in Imports(todo[p])
  BY <1>1, LayerAtHead DEF OnLayers
<1>3. x \in Steps /\ x[1] = "checkout" /\ x[2] = c /\ Of(x) = {c} /\ Rank(x[1]) = 0
  BY <1>2, MakeStep DEF OnLayers, Of, Rank
<1>4. /\ Onward(p, s)
      /\ UNCHANGED <<file, torn, writing, named, mem, merged, left, parts, made, gen, stale,
                     overlap>>
      /\ dirs' = dirs \ {c} /\ cut' = cut \cup {c}
      /\ bare' \subseteq bare \cup {c} /\ bare \ {c} \subseteq bare'
      /\ c \in file.layers => c \in bare'
  BY DEF Clear, list, work
<1> HIDE DEF x, c
<1>5. GoesOn(todo[p], s) /\ s # <<>> /\ s[1] = x /\ Ahead(s) = {x}
  BY <1>1, <1>2, <1>3, AtHead, OneOn
<1> HIDE DEF s
<1>6. /\ todo' \in [Builders -> Seq(Steps)] /\ result' \in [Builders -> Results]
      /\ todo'[p] # <<>> /\ Head(todo'[p]) = x
      /\ Ahead(todo'[p]) = Ahead(s) \cup Ahead(Tail(todo[p]))
      /\ TodoInv'
  BY <1>4, <1>5, Onwards
<1>7. TypeInv'
  BY <1>2, <1>4, <1>6 DEF IInv, TypeInv
<1>8. ~Due(p, "drop")' /\ ~Due(p, "erase")' /\ ~Due(p, "upsert")' /\ ~Due(p, "overlay")'
      /\ ~Due(p, "list")' /\ ~Due(p, "sweep")'
  BY <1>3, <1>6 DEF Due
<1>9. GenInv'
  BY <1>0, <1>4, <1>5, <1>8, GenKept
<1>10. LoneInv'
  <2>1. LoneSound /\ ~overlap =>
          file'.layers \subseteq dirs' \cup bare' /\ file'.merged \subseteq merged'
    BY <1>4 DEF LoneSound
  <2>2. named \subseteq dirs \cup cut => named' \subseteq dirs' \cup cut'
    BY <1>4
  <2> QED BY <1>0, <1>4, <1>5, <1>8, <2>1, <2>2, LoneKept
<1>11. PartsInv'
  BY <1>4, <1>5, PartsKept
<1>12. c \in Imports(todo'[p])
  BY <1>3, <1>5, <1>6 DEF Imports
<1>13. ASSUME NEW q \in Builders \ {p}, NEW g \in 1..gen, BuildInv(q, g)
       PROVE  BuildInv(q, g)'
  <2>1. c \notin Packed(q, g)
    BY <1>2, <1>13 DEF BuildInv, Apart
  <2> QED BY <1>4, <1>5, <1>8, <1>13, <2>1, OtherBuilds
<1>14. ASSUME NEW g \in 1..gen, BuildInv(p, g)
       PROVE  Replaced(p, g)' /\ Listed(p, g)'
  <2>1. Replaced(p, g) /\ Listed(p, g)
    BY <1>14 DEF BuildInv
  <2>2. Replaced(p, g)'
    BY <2>1, <1>1, <1>4, <1>5, ReplacedKept
  <2>3. Listed(p, g)'
    BY <2>1, <1>2, <1>3, <1>4, <1>5, <1>8, <1>12, ListedKept
  <2> QED BY <2>2, <2>3
<1>15. BuildingInv'
  BY <1>1, <1>4, <1>5, <1>13, <1>14, SplitKept, BuildingKept
<1> QED BY <1>6, <1>7, <1>9, <1>10, <1>11, <1>15 DEF IInv

LEMMA CheckoutStep == ASSUME IInv, NEW p \in Builders, Checkout(p) PROVE IInv'
<1> DEFINE c == Arg(p)
           x == <<"upsert", c>>
           s == <<x>>
<1>1. todo[p] # <<>> /\ Head(todo[p])[1] = "checkout"
  BY DEF Checkout, Due
<1>0. named \subseteq UpTo(gen) /\ p \notin writing /\ Head(todo[p])[1] \notin Writers
  BY <1>1 DEF IInv, GenInv, Writers
<1>2. c \in Layers /\ Of(Head(todo[p])) = {c} /\ c \in Imports(todo[p])
  BY <1>1, LayerAtHead DEF OnLayers
<1>3. x \in Steps /\ x[1] = "upsert" /\ x[2] = c /\ Of(x) = {c} /\ Rank(x[1]) = 0
  BY <1>2, MakeStep DEF OnLayers, Of, Rank
<1>4. /\ Onward(p, s)
      /\ UNCHANGED <<file, torn, writing, named, mem, merged, left, parts, made, gen, stale,
                     overlap>>
      /\ dirs' = dirs \cup {c} /\ cut' = cut \ {c} /\ bare' = bare \ {c}
  BY DEF Checkout, list, work
<1> HIDE DEF x, c
<1>5. GoesOn(todo[p], s) /\ s # <<>> /\ s[1] = x /\ Ahead(s) = {x}
  BY <1>1, <1>2, <1>3, AtHead, OneOn
<1> HIDE DEF s
<1>6. /\ todo' \in [Builders -> Seq(Steps)] /\ result' \in [Builders -> Results]
      /\ todo'[p] # <<>> /\ Head(todo'[p]) = x
      /\ Ahead(todo'[p]) = Ahead(s) \cup Ahead(Tail(todo[p]))
      /\ TodoInv'
  BY <1>4, <1>5, Onwards
<1>7. TypeInv'
  BY <1>2, <1>4, <1>6 DEF IInv, TypeInv
<1>8. /\ ~Due(p, "drop")' /\ ~Due(p, "erase")' /\ ~Due(p, "overlay")'
      /\ ~Due(p, "list")' /\ ~Due(p, "sweep")'
      /\ Arg(p)' \in dirs'
  BY <1>3, <1>4, <1>6 DEF Due, Arg
<1>9. GenInv'
  BY <1>0, <1>4, <1>5, <1>8, GenKept
<1>10. LoneInv'
  <2>1. LoneSound /\ ~overlap =>
          file'.layers \subseteq dirs' \cup bare' /\ file'.merged \subseteq merged'
    BY <1>4 DEF LoneSound
  <2>2. named \subseteq dirs \cup cut => named' \subseteq dirs' \cup cut'
    BY <1>4
  <2> QED BY <1>0, <1>4, <1>5, <1>8, <2>1, <2>2, LoneKept
<1>11. PartsInv'
  BY <1>4, <1>5, PartsKept
<1>12. ASSUME NEW q \in Builders \ {p}, NEW g \in 1..gen, BuildInv(q, g)
       PROVE  BuildInv(q, g)'
  BY <1>4, <1>5, <1>8, <1>12, OtherBuilds
<1>13. ASSUME NEW g \in 1..gen, BuildInv(p, g)
       PROVE  Replaced(p, g)' /\ Listed(p, g)'
  <2>1. Replaced(p, g) /\ Listed(p, g)
    BY <1>13 DEF BuildInv
  <2>2. Replaced(p, g)'
    BY <2>1, <1>1, <1>4, <1>5, ReplacedKept
  <2>3. Listed(p, g)'
    BY <2>1, <1>2, <1>3, <1>4, <1>5, <1>8, ListedKept
  <2> QED BY <2>2, <2>3
<1>14. BuildingInv'
  BY <1>1, <1>4, <1>5, <1>12, <1>13, SplitKept, BuildingKept
<1> QED BY <1>6, <1>7, <1>9, <1>10, <1>11, <1>14 DEF IInv

LEMMA EraseStep == ASSUME IInv, NEW p \in Builders, Erase(p) PROVE IInv'
<1> DEFINE c == Arg(p)
<1>1. todo[p] # <<>> /\ Head(todo[p])[1] = "erase" /\ Due(p, "erase")
  BY DEF Erase, Due
<1>0. named \subseteq UpTo(gen) /\ p \notin writing /\ Head(todo[p])[1] \notin Writers
  BY <1>1 DEF IInv, GenInv, Writers
<1>2. c \in Layers /\ Of(Head(todo[p])) = {} /\ c \notin mem[p].layers
  BY <1>1, LayerAtHead DEF OnLayers, IInv, GenInv
<1>3. /\ Onward(p, <<>>)
      /\ UNCHANGED <<file, torn, writing, named, mem, merged, left, parts, made, gen, stale,
                     overlap>>
      /\ dirs' = dirs \ {c} /\ cut' = cut \ {c} /\ bare' = bare \ {c}
  BY DEF Erase, list, work
<1>4. GoesOn(todo[p], <<>>)
  BY <1>1, AtHead
<1>5. /\ todo' \in [Builders -> Seq(Steps)] /\ result' \in [Builders -> Results]
      /\ Ahead(todo'[p]) = Ahead(<<>>) \cup Ahead(Tail(todo[p]))
      /\ TodoInv'
  BY <1>3, <1>4, Onwards
<1>6. TypeInv'
  BY <1>3, <1>5 DEF IInv, TypeInv
<1>7. ~Due(p, "drop")' /\ ~Due(p, "erase")' /\ ~Due(p, "upsert")' /\ ~Due(p, "overlay")'
      /\ ~Due(p, "list")' /\ ~Due(p, "sweep")'
  <2>1. todo'[p] # <<>> => /\ Head(todo'[p])[1] \notin OnLayers \cup {"overlay", "list"}
                           /\ Head(todo'[p])[1] # "sweep"
    BY <1>1, <1>3, <1>4, NextPlanned
  <2> QED BY <2>1 DEF Due, OnLayers
<1> HIDE DEF c
<1>8. GenInv'
  BY <1>0, <1>3, <1>4, <1>7, GenKept
<1>9. LoneInv'
  <2>1. LoneSound /\ ~overlap /\ p \notin stale =>
          file'.layers \subseteq dirs' \cup bare' /\ file'.merged \subseteq merged'
    BY <1>0, <1>2, <1>3 DEF LoneSound, IInv, GenInv
  <2>2. ~overlap => c \notin named
    BY <1>1 DEF IInv, LoneInv, Open, c
  <2>3. ~overlap /\ named \subseteq dirs \cup cut => named' \subseteq dirs' \cup cut'
    BY <1>3, <2>2
  <2> QED BY <1>0, <1>3, <1>4, <1>7, <2>1, <2>3, LoneKept
<1>10. PartsInv'
  BY <1>3, <1>4, PartsKept
<1>11. ASSUME NEW q \in Builders \ {p}, NEW g \in 1..gen, BuildInv(q, g)
       PROVE  BuildInv(q, g)'
  <2>1. q \notin stale => c \notin Packed(q, g)
    BY <1>1, <1>11 DEF BuildInv, Apart, c
  <2> QED BY <1>3, <1>4, <1>7, <1>11, <2>1, OtherBuilds
<1>12. ASSUME NEW g \in 1..gen, BuildInv(p, g)
       PROVE  Replaced(p, g)' /\ Listed(p, g)'
  <2>1. Replaced(p, g) /\ Listed(p, g)
    BY <1>12 DEF BuildInv
  <2>2. Replaced(p, g)'
    BY <2>1, <1>1, <1>3, <1>4, ReplacedKept
  <2>3. \A d \in Packed(p, g) : d \in Imports(todo'[p])
    <3>1. <<"commit", Packed(p, g)>> \in Ahead(todo'[p])
      BY <2>1, <1>1, <1>5, CommitBehind
    <3>2. Of(<<"commit", Packed(p, g)>>) = Packed(p, g)
      BY DEF Of
    <3> QED BY <3>1, <3>2 DEF Imports
  <2>4. Listed(p, g)'
    BY <2>1, <2>3, <1>2, <1>3, <1>4, <1>7, ListedKept
  <2> QED BY <2>2, <2>4
<1>13. BuildingInv'
  BY <1>1, <1>3, <1>4, <1>11, <1>12, SplitKept, BuildingKept
<1> QED BY <1>5, <1>6, <1>8, <1>9, <1>10, <1>13 DEF IInv

\* A step that writes the list.
LEMMA Written ==
    ASSUME IInv, NEW p \in Builders, NEW new \in Copies, Write(p, new)
    PROVE  /\ mem'[p] = new /\ mem' \in [Builders -> Copies]
           /\ \A q \in Builders \ {p} : mem'[q] = mem[q] /\ q \in stale'
           /\ stale \subseteq stale' /\ stale' \subseteq Builders
           /\ p \notin stale' => file' = new /\ ~torn'
           /\ file' = new \/ file' = Empty
           /\ file' \in Copies /\ torn' \in BOOLEAN /\ (torn' => file' = Empty)
           /\ writing' = writing \ {p} /\ writing' \subseteq Builders
           /\ ~overlap => /\ file' = new /\ p \notin stale' /\ p \notin stale
                          /\ new.layers \subseteq dirs \cup bare /\ new.merged \subseteq merged
                             => /\ file'.layers \subseteq dirs \cup bare
                                /\ file'.merged \subseteq merged
<1>1. TypeInv
  BY DEF IInv
<1>2. /\ p \in writing /\ writing' = writing \ {p} /\ mem' = [mem EXCEPT ![p] = new]
      /\ \/ file' = new /\ torn' = FALSE /\ stale' = stale \cup (Builders \ {p})
         \/ ~torn /\ file' = Empty /\ torn' = TRUE /\ stale' = Builders
  BY DEF Write
<1>3. Empty \in Copies
  BY DEF Empty, Copies
<1>4. ~overlap => torn /\ p \notin stale
  BY <1>2 DEF IInv, GenInv, LoneInv, Open
<1> QED BY <1>1, <1>2, <1>3, <1>4 DEF TypeInv

\* What a lone process holds while it writes the list is there.
LEMMA WritesThere ==
    ASSUME IInv, NEW p \in writing, ~overlap
    PROVE  mem[p].layers \subseteq dirs \cup bare /\ mem[p].merged \subseteq merged
BY DEF IInv, TypeInv, GenInv, LoneInv, Open

LEMMA GenWritten ==
    ASSUME IInv, NEW p \in Builders, NEW s, GoesOn(todo[p], s), Onward(p, s),
           UNCHANGED <<gen, named>>,
           NEW new \in Copies, Write(p, new), new.layers \subseteq UpTo(gen),
           ~Due(p, "drop")', Due(p, "erase")' => Arg(p)' \in UpTo(gen) \ new.layers
    PROVE  GenInv'
<1>1. /\ \A r \in Builders \ {p} : todo'[r] = todo[r]
      /\ Imports(todo'[p]) \subseteq Imports(todo[p]) \cup {c \in UpTo(0) : c.ref.id = "base"}
  BY Onwards
<1>2. Imports(todo'[p]) \subseteq UpTo(gen)
  BY <1>1, Earlier DEF IInv, GenInv
<1>3. /\ mem'[p] = new /\ (p \notin stale' => file' = new /\ ~torn')
      /\ \A q \in Builders \ {p} : mem'[q] = mem[q] /\ q \in stale'
      /\ writing' = writing \ {p} /\ (torn' => file' = Empty) /\ (file' = new \/ file' = Empty)
  BY Written
<1>4. file'.layers \subseteq UpTo(gen)
  BY <1>3 DEF Empty
<1>5. named \subseteq UpTo(gen)
  BY DEF IInv, GenInv
<1> SUFFICES ASSUME NEW q \in Builders
             PROVE  /\ mem'[q].layers \subseteq UpTo(gen) /\ Imports(todo'[q]) \subseteq UpTo(gen)
                    /\ Due(q, "drop")' \/ Due(q, "erase")' => Arg(q)' \in UpTo(gen)
                    /\ Due(q, "erase")' => Arg(q)' \notin mem'[q].layers
                    /\ q \in writing' => todo'[q] # <<>> /\ Head(todo'[q])[1] \in Writers
                    /\ q \notin stale' /\ q \notin writing' => ~torn' /\ mem'[q] = file'
  BY <1>3, <1>4, <1>5 DEF GenInv, UpTo, Imports, Ahead, Of, Due, Arg
<1>6. CASE q = p
  BY <1>2, <1>3, <1>6
<1>7. CASE q # p
  BY <1>1, <1>3, <1>7 DEF IInv, GenInv, Due, Arg
<1> QED BY <1>6, <1>7

LEMMA UpsertStep == ASSUME IInv, NEW p \in Builders, Upsert(p) PROVE IInv'
<1> DEFINE c == Arg(p)
           new == [mem[p] EXCEPT !.layers = {d \in @ : ~SameLayer(d, c)} \cup {c}]
           main == c.ref.id = "base" /\ c.module = "binary"
           x == <<"name", BaseLayer(c.ref.version, "develop")>>
           s == IF main THEN <<x>> ELSE <<>>
<1>1. todo[p] # <<>> /\ Head(todo[p])[1] = "upsert" /\ Due(p, "upsert")
  BY DEF Upsert, Due
<1>2. c \in Layers /\ Of(Head(todo[p])) = {c} /\ c \in Imports(todo[p])
  BY <1>1, LayerAtHead DEF OnLayers
<1>3. main => \E v \in Versions : c.ref.version = v
  BY <1>2, BuilderAssumption DEF Layers, Refs, Own, BaseRef
<1>4. main => x \in Steps /\ x[1] = "name" /\ Of(x) \subseteq {d \in UpTo(0) : d.ref.id = "base"}
  BY <1>3, BaseLayers DEF Of
<1>5. /\ Onward(p, s) /\ Write(p, new)
      /\ UNCHANGED <<named, dirs, merged, cut, bare, left, parts, made, gen, overlap>>
  BY DEF Upsert, work
<1>6. /\ new \in Copies /\ new.layers = {d \in mem[p].layers : ~SameLayer(d, c)} \cup {c}
      /\ new.merged = mem[p].merged
  BY <1>2 DEF IInv, TypeInv, Copies
<1> HIDE DEF x, main, new, c
<1>7. GoesOn(todo[p], s) /\ (s # <<>> => s[1] = x /\ x[1] = "name")
  BY <1>1, <1>4, AtHead, OneOn DEF Rank
<1> HIDE DEF s
<1>8. /\ todo' \in [Builders -> Seq(Steps)] /\ result' \in [Builders -> Results]
      /\ s # <<>> => todo'[p] # <<>> /\ Head(todo'[p]) = s[1]
      /\ TodoInv'
  BY <1>5, <1>7, Onwards
<1>9. /\ mem'[p] = new /\ mem' \in [Builders -> Copies]
      /\ \A q \in Builders \ {p} : mem'[q] = mem[q] /\ q \in stale'
      /\ stale \subseteq stale' /\ stale' \subseteq Builders
      /\ file' \in Copies /\ torn' \in BOOLEAN
      /\ p \notin writing' /\ writing' \subseteq Builders
      /\ ~overlap => file' = new /\ p \notin stale'
  BY <1>5, <1>6, Written
<1>10. TypeInv'
  BY <1>5, <1>6, <1>8, <1>9 DEF IInv, TypeInv
<1>11. ~Due(p, "drop")' /\ ~Due(p, "erase")' /\ ~Due(p, "upsert")' /\ ~Due(p, "overlay")'
       /\ ~Due(p, "list")' /\ ~Due(p, "sweep")'
  <2>1. CASE s = <<>>
    <3>1. todo'[p] # <<>> => /\ Head(todo'[p])[1] \notin OnLayers \cup {"overlay", "list"}
                             /\ Head(todo'[p])[1] # "sweep"
      BY <1>1, <1>5, <1>7, <2>1, NextPlanned
    <3> QED BY <3>1 DEF Due, OnLayers
  <2>2. CASE s # <<>>
    BY <1>7, <1>8, <2>2 DEF Due
  <2> QED BY <2>1, <2>2
<1>12. new.layers \subseteq UpTo(gen)
  BY <1>2, <1>6 DEF IInv, GenInv
<1>13. GenInv'
  BY <1>5, <1>6, <1>7, <1>11, <1>12, GenWritten
<1>14. LoneInv'
  <2>1. ~overlap =>
          file'.layers \subseteq dirs' \cup bare' /\ file'.merged \subseteq merged'
    <3> SUFFICES ASSUME ~overlap
                 PROVE  file'.layers \subseteq dirs' \cup bare' /\ file'.merged \subseteq merged'
      OBVIOUS
    <3>1. mem[p].layers \subseteq dirs \cup bare /\ mem[p].merged \subseteq merged
      BY <1>5, WritesThere DEF Write
    <3>2. c \in dirs
      BY <1>1 DEF IInv, LoneInv, Open, c
    <3> QED BY <1>5, <1>6, <1>9, <3>1, <3>2
  <2> QED BY <1>5, <1>7, <1>9, <1>11, <2>1, LoneKept
<1>15. PartsInv'
  BY <1>5, <1>7, PartsKept
<1>16. ASSUME NEW q \in Builders \ {p}, NEW g \in 1..gen, BuildInv(q, g)
       PROVE  BuildInv(q, g)'
  BY <1>5, <1>7, <1>9, <1>16, OtherBuilds
<1>17. ASSUME NEW g \in 1..gen, BuildInv(p, g)
       PROVE  Replaced(p, g)' /\ Listed(p, g)'
  <2>1. Replaced(p, g) /\ Listed(p, g)
    BY <1>17 DEF BuildInv
  <2>2. c.ref.id = "base" \/ c \in Packed(p, g)
    BY <2>1, <1>2 DEF Listed
  <2>3. OfRef(mem'[p].layers, Own(p)) \subseteq OfRef(mem[p].layers, Own(p)) \cup Packed(p, g)
    BY <2>2, <1>6, <1>9, BuilderAssumption DEF OfRef, Own
  <2>4. Replaced(p, g)'
    BY <2>1, <2>3, <1>1, <1>5, <1>7, ReplacedKept
  <2>5. \A d \in Packed(p, g) : d \in mem[p].layers => d \in mem'[p].layers
    <3> SUFFICES ASSUME NEW d \in Packed(p, g), d \in mem[p].layers, SameLayer(d, c)
                 PROVE  d = c
      BY <1>6, <1>9
    <3>1. c \in Packed(p, g)
      BY <2>2, NoBaseBuilt DEF SameLayer
    <3> QED BY <3>1 DEF SameLayer, Packed
  <2>6. c \in mem'[p].layers /\ (c \in Packed(p, g) /\ p \notin stale' => c \in dirs')
    BY <2>1, <1>1, <1>5, <1>6, <1>9 DEF Listed, c
  <2>7. Listed(p, g)'
    BY <2>1, <2>5, <2>6, <1>2, <1>5, <1>7, <1>9, <1>11, ListedKept
  <2> QED BY <2>4, <2>7
<1>18. BuildingInv'
  BY <1>1, <1>5, <1>7, <1>9, <1>16, <1>17, SplitKept, BuildingKept
<1> QED BY <1>8, <1>10, <1>13, <1>14, <1>15, <1>18 DEF IInv

LEMMA DropStep == ASSUME IInv, NEW p \in Builders, Drop(p) PROVE IInv'
<1> DEFINE c == Arg(p)
           new == [mem[p] EXCEPT !.layers = @ \ {c}]
           x == <<"erase", c>>
           s == <<x>>
<1>1. todo[p] # <<>> /\ Head(todo[p])[1] = "drop" /\ Due(p, "drop")
  BY DEF Drop, Due
<1>2. c \in Layers /\ Of(Head(todo[p])) = {} /\ c \in UpTo(gen)
  BY <1>1, LayerAtHead DEF OnLayers, IInv, GenInv
<1>3. x \in Steps /\ x[1] = "erase" /\ x[2] = c /\ Of(x) = {} /\ Rank(x[1]) = 0
  BY <1>2, MakeStep DEF OnLayers, Of, Rank
<1>4. /\ Onward(p, s) /\ Write(p, new)
      /\ UNCHANGED <<named, dirs, merged, cut, bare, left, parts, made, gen, overlap>>
  BY DEF Drop, work
<1>5. /\ new \in Copies /\ new.layers = mem[p].layers \ {c}
      /\ new.merged = mem[p].merged
  BY DEF IInv, TypeInv, Copies
<1> HIDE DEF x, new, c
<1>6. GoesOn(todo[p], s) /\ s # <<>> /\ s[1] = x
  BY <1>1, <1>3, AtHead, OneOn
<1> HIDE DEF s
<1>7. /\ todo' \in [Builders -> Seq(Steps)] /\ result' \in [Builders -> Results]
      /\ todo'[p] # <<>> /\ Head(todo'[p]) = x
      /\ Ahead(todo'[p]) = Ahead(s) \cup Ahead(Tail(todo[p]))
      /\ TodoInv'
  BY <1>4, <1>6, Onwards
<1>8. /\ mem'[p] = new /\ mem' \in [Builders -> Copies]
      /\ \A q \in Builders \ {p} : mem'[q] = mem[q] /\ q \in stale'
      /\ stale \subseteq stale' /\ stale' \subseteq Builders
      /\ file' \in Copies /\ torn' \in BOOLEAN
      /\ p \notin writing' /\ writing' \subseteq Builders
      /\ ~overlap => file' = new /\ p \notin stale'
  BY <1>4, <1>5, Written
<1>9. TypeInv'
  BY <1>4, <1>5, <1>7, <1>8 DEF IInv, TypeInv
<1>10. ~Due(p, "drop")' /\ Arg(p)' = c /\ ~Due(p, "upsert")' /\ ~Due(p, "overlay")'
       /\ ~Due(p, "list")' /\ ~Due(p, "sweep")'
  BY <1>3, <1>7 DEF Due, Arg
<1>11. new.layers \subseteq UpTo(gen)
  BY <1>5 DEF IInv, GenInv
<1>12. GenInv'
  BY <1>2, <1>4, <1>5, <1>6, <1>10, <1>11, GenWritten
<1>13. LoneInv'
  <2>1. ~overlap =>
          file'.layers \subseteq dirs' \cup bare' /\ file'.merged \subseteq merged'
    <3>1. ~overlap => mem[p].layers \subseteq dirs \cup bare /\ mem[p].merged \subseteq merged
      BY <1>4, WritesThere DEF Write
    <3> QED BY <1>4, <1>5, <1>8, <3>1
  <2>2. ~overlap => c \notin named
    BY <1>1 DEF IInv, LoneInv, Open, c
  <2> QED BY <1>4, <1>6, <1>8, <1>10, <2>1, <2>2, LoneKept
<1>14. PartsInv'
  BY <1>4, <1>6, PartsKept
<1>15. ASSUME NEW q \in Builders \ {p}, NEW g \in 1..gen, BuildInv(q, g)
       PROVE  BuildInv(q, g)'
  BY <1>4, <1>6, <1>8, <1>15, OtherBuilds
<1>16. ASSUME NEW g \in 1..gen, BuildInv(p, g)
       PROVE  Replaced(p, g)' /\ Listed(p, g)'
  <2>1. Replaced(p, g) /\ Listed(p, g)
    BY <1>16 DEF BuildInv
  <2>2. Replaced(p, g)'
    BY <2>1, <1>1, <1>4, <1>5, <1>6, <1>8, ReplacedKept DEF OfRef
  <2>3. \A d \in Packed(p, g) : d \in Imports(todo'[p])
    <3>1. <<"commit", Packed(p, g)>> \in Ahead(todo'[p])
      BY <2>1, <1>1, <1>7, CommitBehind
    <3>2. Of(<<"commit", Packed(p, g)>>) = Packed(p, g)
      BY DEF Of
    <3> QED BY <3>1, <3>2 DEF Imports
  <2>4. Listed(p, g)'
    BY <2>1, <2>3, <1>2, <1>4, <1>6, <1>8, <1>10, ListedKept
  <2> QED BY <2>2, <2>4
<1>17. BuildingInv'
  BY <1>1, <1>4, <1>6, <1>8, <1>15, <1>16, SplitKept, BuildingKept
<1> QED BY <1>7, <1>9, <1>12, <1>13, <1>14, <1>17 DEF IInv

LEMMA ListStep == ASSUME IInv, NEW p \in Builders, List(p) PROVE IInv'
<1> DEFINE N == Arg(p)
           new == [mem[p] EXCEPT !.merged = N]
<1>1. todo[p] # <<>> /\ Head(todo[p])[1] = "list" /\ Due(p, "list")
  BY DEF List, Due
<1>2. N \subseteq SUBSET Layers /\ Of(Head(todo[p])) = {}
  BY <1>1, AtHead, StepIs DEF Arg, Of
<1>3. /\ Onward(p, <<>>) /\ Write(p, new)
      /\ UNCHANGED <<named, dirs, merged, cut, bare, left, parts, made, gen, overlap>>
  BY DEF List, work
<1>4. new \in Copies /\ new.layers = mem[p].layers /\ new.merged = N
  BY <1>2 DEF IInv, TypeInv, Copies
<1> HIDE DEF new
<1>5. GoesOn(todo[p], <<>>)
  BY <1>1, AtHead
<1>6. /\ todo' \in [Builders -> Seq(Steps)] /\ result' \in [Builders -> Results]
      /\ TodoInv'
  BY <1>3, <1>5, Onwards
<1>7. /\ mem'[p] = new /\ mem' \in [Builders -> Copies]
      /\ \A q \in Builders \ {p} : mem'[q] = mem[q] /\ q \in stale'
      /\ stale \subseteq stale' /\ stale' \subseteq Builders
      /\ file' \in Copies /\ torn' \in BOOLEAN
      /\ p \notin writing' /\ writing' \subseteq Builders
      /\ ~overlap => file' = new /\ p \notin stale'
  BY <1>3, <1>4, Written
<1>8. TypeInv'
  BY <1>3, <1>4, <1>6, <1>7 DEF IInv, TypeInv
<1>9. /\ ~Due(p, "drop")' /\ ~Due(p, "erase")' /\ ~Due(p, "upsert")' /\ ~Due(p, "overlay")'
      /\ ~Due(p, "list")' /\ (Due(p, "sweep")' => Arg(p)' = N)
  <2>1. todo'[p] # <<>> =>
          /\ Head(todo'[p])[1] \notin OnLayers \cup {"overlay", "list"}
          /\ Head(todo'[p])[1] = "sweep" => Head(todo[p]) = <<"list", Head(todo'[p])[2]>>
    BY <1>1, <1>3, <1>5, NextPlanned
  <2> QED BY <2>1 DEF Due, Arg, OnLayers
<1> HIDE DEF N
<1>10. new.layers \subseteq UpTo(gen)
  BY <1>4 DEF IInv, GenInv
<1>11. GenInv'
  BY <1>3, <1>4, <1>5, <1>9, <1>10, GenWritten
<1>12. LoneInv'
  <2>1. ~overlap =>
          file'.layers \subseteq dirs' \cup bare' /\ file'.merged \subseteq merged'
    <3>1. ~overlap => N \subseteq merged
      BY <1>1 DEF IInv, LoneInv, Open, N
    <3>2. ~overlap => mem[p].layers \subseteq dirs \cup bare
      BY <1>3, WritesThere DEF Write
    <3> QED BY <3>1, <3>2, <1>3, <1>4, <1>7
  <2>2. ~overlap => file'.merged = N
    BY <1>4, <1>7
  <2> QED BY <1>3, <1>5, <1>7, <1>9, <2>1, <2>2, LoneKept
<1>13. PartsInv'
  BY <1>3, <1>5, PartsKept
<1>14. ASSUME NEW q \in Builders \ {p}, NEW g \in 1..gen, BuildInv(q, g)
       PROVE  BuildInv(q, g)'
  BY <1>3, <1>5, <1>7, <1>14, OtherBuilds
<1>15. ASSUME NEW g \in 1..gen, BuildInv(p, g)
       PROVE  Replaced(p, g)' /\ Listed(p, g)'
  <2>1. Replaced(p, g) /\ Listed(p, g)
    BY <1>15 DEF BuildInv
  <2>2. Replaced(p, g)'
    BY <2>1, <1>1, <1>3, <1>4, <1>5, <1>7, ReplacedKept
  <2>3. Listed(p, g)'
    BY <2>1, <1>2, <1>3, <1>4, <1>5, <1>7, <1>9, ListedKept
  <2> QED BY <2>2, <2>3
<1>16. BuildingInv'
  BY <1>1, <1>3, <1>5, <1>7, <1>14, <1>15, SplitKept, BuildingKept
<1> QED BY <1>6, <1>8, <1>11, <1>12, <1>13, <1>16 DEF IInv

\* The list is truncated by a process that is about to write it.
LEMMA TruncateStep == ASSUME IInv, NEW p \in Builders, Truncate(p) PROVE IInv'
<1>1. /\ todo[p] # <<>> /\ Head(todo[p])[1] \in Writers /\ p \notin writing
      /\ writing' = writing \cup {p} /\ file' = Empty /\ torn' = TRUE
      /\ stale' = stale \cup (Builders \ {p})
      /\ UNCHANGED <<named, dirs, merged, cut, bare, mem, todo, left, parts, made, result, gen,
                     overlap>>
  BY DEF Truncate, Due, Writers, work
<1>2. Empty \in Copies /\ Empty.layers = {} /\ Empty.merged = {}
  BY DEF Empty, Copies
<1>3. TypeInv'
  BY <1>1, <1>2 DEF IInv, TypeInv
<1>4. TodoInv' /\ PartsInv' /\ BuildingInv'
  BY <1>1, Stays
<1>5. GenInv'
  <2> SUFFICES ASSUME NEW q \in Builders
               PROVE  /\ mem[q].layers \subseteq UpTo(gen) /\ Imports(todo[q]) \subseteq UpTo(gen)
                      /\ Due(q, "drop") \/ Due(q, "erase") => Arg(q) \in UpTo(gen)
                      /\ Due(q, "erase") => Arg(q) \notin mem[q].layers
                      /\ q \in writing' => todo[q] # <<>> /\ Head(todo[q])[1] \in Writers
                      /\ q \in stale' \/ q \in writing'
    BY <1>1, <1>2 DEF IInv, GenInv, UpTo, Imports, Ahead, Of, Due, Arg
  <2> QED BY <1>1 DEF IInv, GenInv
<1>6. LoneInv'
  <2> SUFFICES ASSUME ~overlap
               PROVE  /\ named \subseteq dirs \cup cut
                      /\ \A q \in Open :
                           /\ q \notin stale' /\ Open = {q}
                           /\ q \in writing' => /\ mem[q].layers \subseteq dirs \cup bare
                                                /\ mem[q].merged \subseteq merged
                           /\ Due(q, "drop") \/ Due(q, "erase") => Arg(q) \notin named
                           /\ Due(q, "upsert") => Arg(q) \in dirs
                           /\ Due(q, "overlay") => todo[q][2][2] \subseteq merged \cup Arg(q)
                           /\ Due(q, "list") => Arg(q) \subseteq merged
                           /\ ~Due(q, "sweep")
    BY <1>1, <1>2 DEF LoneInv, LoneSound, Open, Due, Arg
  <2>1. Open = {p} /\ p \notin stale /\ LoneSound
    BY <1>1 DEF IInv, LoneInv, Open
  <2>2. mem[p] = file
    BY <1>1, <2>1 DEF IInv, GenInv
  <2>3. mem[p].layers \subseteq dirs \cup bare /\ mem[p].merged \subseteq merged
    BY <2>1, <2>2 DEF LoneSound
  <2>4. ~Due(p, "sweep")
    BY <1>1 DEF Due, Writers
  <2> QED BY <1>1, <2>1, <2>3, <2>4 DEF IInv, LoneInv
<1> QED BY <1>3, <1>4, <1>5, <1>6 DEF IInv

\* A list that cannot be read is made anew from the refs.
LEMMA RebuildStep == ASSUME IInv, Rebuild PROVE IInv'
<1>1. PICK S \in SUBSET named :
        /\ file' = [layers |-> S, merged |-> {}] /\ torn' = FALSE
        /\ bare' = bare \cup (S \cap cut)
  BY DEF Rebuild
<1>2. /\ stale' = Builders /\ overlap' = (overlap \/ Open # {}) /\ stale \subseteq stale'
      /\ UNCHANGED <<writing, named, dirs, merged, cut, mem, todo, left, parts, made, result, gen>>
  BY DEF Rebuild, work, IInv, TypeInv
<1>3. file'.layers = S /\ file'.merged = {} /\ S \subseteq Layers
  BY <1>1 DEF IInv, TypeInv
<1>4. TypeInv'
  <2>1. file' \in Copies
    BY <1>1, <1>3 DEF Copies
  <2>2. bare' \subseteq Layers /\ overlap' \in BOOLEAN
    BY <1>1, <1>2, <1>3 DEF IInv, TypeInv
  <2> QED BY <1>1, <1>2, <2>1, <2>2 DEF IInv, TypeInv
<1>5. TodoInv' /\ PartsInv' /\ BuildingInv'
  BY <1>2, Stays
<1>6. GenInv'
  <2>1. S \subseteq UpTo(gen)
    BY DEF IInv, GenInv
  <2> QED BY <1>1, <1>2, <1>3, <2>1 DEF IInv, GenInv, UpTo, Imports, Ahead, Of, Due, Arg
<1>7. LoneInv'
  <2> SUFFICES ASSUME ~overlap, Open = {}
               PROVE  LoneSound' /\ named' \subseteq dirs' \cup cut'
    BY <1>2 DEF LoneInv, Open
  <2>1. named \subseteq dirs \cup cut
    BY DEF IInv, LoneInv
  <2> QED BY <1>1, <1>2, <1>3, <2>1 DEF LoneSound
<1> QED BY <1>4, <1>5, <1>6, <1>7 DEF IInv

LEMMA SweepStep == ASSUME IInv, NEW p \in Builders, Sweep(p) PROVE IInv'
<1> DEFINE N == Arg(p)
<1>1. todo[p] # <<>> /\ Head(todo[p])[1] = "sweep" /\ Due(p, "sweep")
  BY DEF Sweep, Due
<1>0. named \subseteq UpTo(gen) /\ p \notin writing /\ Head(todo[p])[1] \notin Writers
  BY <1>1 DEF IInv, GenInv, Writers
<1>2. Of(Head(todo[p])) = {}
  BY <1>1 DEF Of
<1>3. /\ Onward(p, <<>>) /\ merged' = merged \cap N
      /\ UNCHANGED <<file, torn, writing, named, dirs, cut, bare, mem, left, parts, made, gen, stale,
                     overlap>>
  BY DEF Sweep, list, work
<1>4. GoesOn(todo[p], <<>>)
  BY <1>1, AtHead
<1>5. TodoInv' /\ GenInv' /\ PartsInv' /\ BuildingInv'
  BY <1>0, <1>1, <1>2, <1>3, <1>4, Moves
<1>6. todo' \in [Builders -> Seq(Steps)] /\ result' \in [Builders -> Results]
  BY <1>3, <1>4, Onwards
<1>7. TypeInv'
  BY <1>3, <1>6 DEF IInv, TypeInv
<1>8. /\ ~Due(p, "drop")' /\ ~Due(p, "erase")' /\ ~Due(p, "upsert")'
      /\ ~Due(p, "overlay")' /\ ~Due(p, "list")' /\ ~Due(p, "sweep")'
  <2>1. todo'[p] # <<>> =>
          /\ Head(todo'[p])[1] \notin OnLayers \cup {"overlay", "list"}
          /\ Head(todo'[p])[1] # "sweep"
    BY <1>1, <1>3, <1>4, NextPlanned
  <2> QED BY <2>1 DEF Due, OnLayers
<1>9. ~overlap => file.merged = N
  BY <1>1 DEF IInv, LoneInv, Open
<1> HIDE DEF N
<1>10. LoneInv'
  <2>1. ~overlap /\ LoneSound =>
          file'.layers \subseteq dirs' \cup bare' /\ file'.merged \subseteq merged'
    BY <1>3, <1>9 DEF LoneSound
  <2> QED BY <1>0, <1>3, <1>4, <1>8, <2>1, LoneKept
<1> QED BY <1>5, <1>7, <1>10 DEF IInv

\* Two lists, one after the other.
LEMMA Joined ==
    ASSUME NEW x \in Seq(Steps), NEW y \in Seq(Steps)
    PROVE  /\ x \o y \in Seq(Steps) /\ Len(x \o y) = Len(x) + Len(y)
           /\ \A i \in 1..Len(x) + Len(y) :
                 (x \o y)[i] = IF i <= Len(x) THEN x[i] ELSE y[i - Len(x)]
<1>1. Len(x \o y) = Len(x) + Len(y)
  OBVIOUS
<1>2. \A i \in 1..Len(x \o y) : (x \o y)[i] = IF i <= Len(x) THEN x[i] ELSE y[i - Len(x)]
  OBVIOUS
<1>3. x \o y \in Seq(Steps)
  OBVIOUS
<1> QED BY <1>1, <1>2, <1>3

\* What the merging of modules plans: new directories, then their list.
MergeOn(new, fresh) == (IF fresh = {} THEN <<>> ELSE <<<<"overlay", fresh>>>>) \o MergePlan(new)

Merging(t, new, fresh, s) ==
    /\ GoesOn(t, s) /\ s # <<>> /\ Len(s) >= 2
    /\ \A i \in 1..Len(s) : s[i][1] \in {"overlay", "list", "sweep"}
    /\ s[1][1] = "overlay" => s[1][2] = fresh /\ s[2] = <<"list", new>>
    /\ s[1][1] = "list" => s[1][2] = new /\ fresh = {}
    /\ s[1][1] # "sweep"

LEMMA MergeSteps ==
    ASSUME NEW t \in Seq(Steps), t # <<>>, Head(t)[1] \notin {"overlay", "list"},
           NEW new, new \subseteq SUBSET Layers, NEW fresh, fresh \subseteq new,
           NEW s, s = MergeOn(new, fresh)
    PROVE  Merging(t, new, fresh, s)
<1> DEFINE o == <<"overlay", fresh>>  l == <<"list", new>>  w == <<"sweep", new>>
<1>1. /\ l \in Steps /\ l[1] = "list" /\ l[2] = new
      /\ w \in Steps /\ w[1] = "sweep" /\ w[2] = new
      /\ o[1] = "overlay" /\ o[2] = fresh /\ (fresh # {} => o \in Steps)
  BY MakeStep
<1>2. Rank(l[1]) = 0 /\ Rank(w[1]) = 0 /\ Rank(o[1]) = 0 /\ Of(l) = {} /\ Of(w) = {} /\ Of(o) = {}
  BY DEF Rank, Of
<1>3. s = (IF fresh = {} THEN <<>> ELSE <<o>>) \o <<l, w>>
  BY DEF MergePlan, MergeOn
<1>4. l = <<"list", new>> /\ w = <<"sweep", new>>
  OBVIOUS
<1> HIDE DEF o, l, w
<1>5. /\ <<l, w>> \in Seq(Steps) /\ Len(<<l, w>>) = 2 /\ <<l, w>> # <<>>
      /\ <<l, w>>[1] = l /\ <<l, w>>[2] = w
  BY <1>1
<1>6. /\ s \in Seq(Steps) /\ s # <<>>
      /\ fresh = {} => Len(s) = 2 /\ s[1] = l /\ s[2] = w
      /\ fresh # {} => Len(s) = 3 /\ s[1] = o /\ s[2] = l /\ s[3] = w
  <2>1. CASE fresh = {}
    <3>1. s = <<l, w>>
      BY <2>1, <1>3, <1>5
    <3>2. s \in Seq(Steps) /\ s # <<>> /\ Len(s) = 2 /\ s[1] = l /\ s[2] = w
      BY <3>1, <1>5
    <3> QED BY <2>1, <3>2
  <2>2. CASE fresh # {}
    <3> DEFINE x == <<o>>  y == <<l, w>>
    <3>1. x \in Seq(Steps) /\ Len(x) = 1 /\ x[1] = o
      BY <2>2, <1>1
    <3>2. s = x \o y
      BY <2>2, <1>3
    <3>3. y \in Seq(Steps) /\ Len(y) = 2 /\ y[1] = l /\ y[2] = w
      BY <1>5
    <3> HIDE DEF x, y
    <3>4. /\ x \o y \in Seq(Steps) /\ Len(x \o y) = Len(x) + Len(y)
          /\ \A i \in 1..Len(x) + Len(y) :
                (x \o y)[i] = IF i <= Len(x) THEN x[i] ELSE y[i - Len(x)]
      BY <3>1, <3>3, Joined
    <3> DEFINE z == x \o y
    <3> HIDE DEF z
    <3>5. z \in Seq(Steps) /\ Len(z) = 3 /\ z[1] = o /\ z[2] = l /\ z[3] = w
      <4>1. z \in Seq(Steps) /\ Len(z) = 3
            /\ \A i \in 1..3 : z[i] = IF i <= 1 THEN x[i] ELSE y[i - 1]
        BY <3>1, <3>3, <3>4 DEF z
      <4> QED BY <3>1, <3>3, <4>1
    <3>6. s \in Seq(Steps) /\ Len(s) = 3 /\ s[1] = o /\ s[2] = l /\ s[3] = w /\ s # <<>>
      BY <3>2, <3>5 DEF z
    <3> QED BY <2>2, <3>6
  <2> QED BY <2>1, <2>2
<1>7. Len(s) \in {2, 3} /\ \A i \in 1..Len(s) : s[i] \in {o, l, w}
  BY <1>6
<1>8. Shaped(s)
  <2> SUFFICES ASSUME NEW i \in 1..Len(s)
               PROVE  /\ s[i][1] \in {"overlay", "list", "sweep"}
                      /\ i > 1 => s[i][1] \in {"list", "sweep"}
                      /\ s[i][1] = "list" => i = 1 \/ (i = 2 /\ s[1][1] = "overlay")
                      /\ s[i][1] = "sweep" => i = 1 \/ s[i - 1] = <<"list", s[i][2]>>
                      /\ s[i][1] = "list" => i < Len(s) /\ s[i + 1] = <<"sweep", s[i][2]>>
                      /\ s[i][1] = "overlay" => i < Len(s) /\ s[i + 1][1] = "list"
    BY DEF Shaped
  <2>1. CASE fresh = {}
    <3> i \in 1..2
      BY <2>1, <1>6
    <3>1. i = 1 \/ i = 2
      OBVIOUS
    <3>2. CASE i = 1
      BY <2>1, <3>2, <1>1, <1>4, <1>6
    <3>3. CASE i = 2
      BY <2>1, <3>3, <1>1, <1>4, <1>6
    <3> QED BY <3>1, <3>2, <3>3
  <2>2. CASE fresh # {}
    <3> i \in 1..3
      BY <2>2, <1>6
    <3>1. i = 1 \/ i = 2 \/ i = 3
      OBVIOUS
    <3>2. CASE i = 1
      BY <2>2, <3>2, <1>1, <1>4, <1>6
    <3>3. CASE i = 2
      BY <2>2, <3>3, <1>1, <1>4, <1>6
    <3>4. CASE i = 3
      BY <2>2, <3>4, <1>1, <1>4, <1>6
    <3> QED BY <3>1, <3>2, <3>3, <3>4
  <2> QED BY <2>1, <2>2
<1>9. \A i, j \in 1..Len(s) : i < j => Rank(s[i][1]) = 0 \/ Rank(s[j][1]) = 0
  BY <1>7, <1>2
<1>10. Ahead(s) \subseteq {o, l, w}
  BY <1>7 DEF Ahead
<1>11. GoesOn(t, s)
  BY <1>1, <1>2, <1>6, <1>8, <1>9, <1>10 DEF GoesOn
<1> QED BY <1>1, <1>4, <1>6, <1>7, <1>11 DEF Merging

\* The second step of a list that goes on with two or more.
LEMMA SecondNext ==
    ASSUME IInv, NEW p \in Builders, NEW s, GoesOn(todo[p], s), Onward(p, s), Len(s) >= 2
    PROVE  todo'[p][2] = s[2]
<1>1. todo[p] # <<>> /\ todo[p] \in Seq(Steps) /\ s \in Seq(Steps)
  BY DEF GoesOn
<1>2. todo'[p] = s \o Tail(todo[p])
  BY DEF Onward, Then, IInv, TypeInv
<1>3. 2 \in 1..Len(s)
  BY <1>1
<1> QED BY <1>1, <1>2, <1>3, Places

LEMMA MergeStep == ASSUME IInv, NEW p \in Builders, Merge(p) PROVE IInv'
<1> DEFINE new   == Merges(mem[p].layers)
           fresh == new \ (mem[p].merged \cap merged)
           s == MergeOn(new, fresh)
<1>1. todo[p] # <<>> /\ Head(todo[p])[1] = "merge"
  BY DEF Merge, Due
<1>0. named \subseteq UpTo(gen) /\ p \notin writing /\ Head(todo[p])[1] \notin Writers
  BY <1>1 DEF IInv, GenInv, Writers
<1>2. /\ Onward(p, s)
      /\ UNCHANGED <<file, torn, writing, named, dirs, merged, cut, bare, mem, left, parts, made, gen,
                     stale, overlap>>
  BY DEF Merge, MergeOn, work, disk, list
<1>3. new \subseteq SUBSET Layers
  BY DEF Merges, OfRef, IInv, TypeInv, Copies
<1>4. fresh \subseteq new /\ new \subseteq merged \cup fresh /\ s = MergeOn(new, fresh)
  OBVIOUS
<1> HIDE DEF new, fresh, s
<1>5. /\ GoesOn(todo[p], s) /\ s # <<>> /\ Len(s) >= 2
      /\ \A i \in 1..Len(s) : s[i][1] \in {"overlay", "list", "sweep"}
      /\ s[1][1] = "overlay" => s[1][2] = fresh /\ s[2] = <<"list", new>>
      /\ s[1][1] = "list" => s[1][2] = new /\ fresh = {}
      /\ s[1][1] # "sweep"
  <2>1. todo[p] \in Seq(Steps) /\ Head(todo[p])[1] \notin {"overlay", "list"}
    BY <1>1, AtHead
  <2> DEFINE t == todo[p]
  <2> HIDE DEF t
  <2>2. t \in Seq(Steps) /\ t # <<>> /\ Head(t)[1] \notin {"overlay", "list"}
    BY <1>1, <2>1 DEF t
  <2>3. Merging(t, new, fresh, s)
    BY <2>2, <1>3, <1>4, MergeSteps
  <2> QED BY <2>3 DEF t, Merging
<1>6. /\ todo' \in [Builders -> Seq(Steps)] /\ result' \in [Builders -> Results]
      /\ todo'[p] # <<>> /\ Head(todo'[p]) = s[1]
  BY <1>2, <1>5, Onwards
<1>7. s[1][1] \in {"overlay", "list"} /\ todo'[p][2] = s[2]
  BY <1>2, <1>5, SecondNext DEF GoesOn
<1>8. TypeInv'
  BY <1>2, <1>6 DEF IInv, TypeInv
<1>9. TodoInv' /\ GenInv' /\ PartsInv' /\ BuildingInv'
  <2>1. Of(Head(todo[p])) = {}
    BY <1>1 DEF Of
  <2> QED BY <1>0, <1>1, <1>2, <1>5, <1>7, <2>1, Moves
<1>10. /\ ~Due(p, "drop")' /\ ~Due(p, "erase")' /\ ~Due(p, "upsert")' /\ ~Due(p, "sweep")'
       /\ Due(p, "overlay")' => todo'[p][2][2] \subseteq merged' \cup Arg(p)'
       /\ Due(p, "list")' => Arg(p)' \subseteq merged'
  BY <1>2, <1>4, <1>5, <1>6, <1>7 DEF Due, Arg
<1>11. LoneInv'
  BY <1>0, <1>2, <1>5, <1>10, LoneKept DEF LoneSound
<1> QED BY <1>8, <1>9, <1>11 DEF IInv

\* The second step stays where it is when one goes on with another.
LEMMA SecondStays ==
    ASSUME IInv, NEW p \in Builders, NEW s, GoesOn(todo[p], s), Onward(p, s), Len(s) = 1,
           Head(todo[p])[1] = "overlay"
    PROVE  todo'[p][2] = todo[p][2]
<1>1. todo[p] # <<>> /\ todo[p] \in Seq(Steps) /\ s \in Seq(Steps)
  BY DEF GoesOn
<1>2. todo'[p] = s \o Tail(todo[p])
  BY DEF Onward, Then, IInv, TypeInv
<1>3. Head(todo[p]) = todo[p][1] /\ 1 \in 1..Len(todo[p]) /\ Len(todo[p]) \in Nat
  BY <1>1
<1>4. 1 < Len(todo[p])
  BY <1>3 DEF IInv, TodoInv, Shaped
<1>5. 2 \in 2..Len(todo[p]) /\ 2 + Len(s) - 1 = 2
  BY <1>3, <1>4
<1> DEFINE t == todo[p]
<1>6. \A j \in 2..Len(t) : (s \o Tail(t))[j + Len(s) - 1] = t[j]
  <2> t \in Seq(Steps) /\ t # <<>> /\ s \in Seq(Steps)
    BY <1>1
  <2> HIDE DEF t
  <2> QED BY Places
<1>7. 2 \in 2..Len(t) /\ 2 + Len(s) - 1 = 2
  BY <1>5
<1> DEFINE u == s \o Tail(t)
<1>8. \A j \in 2..Len(t) : u[j + Len(s) - 1] = t[j]
  BY <1>6
<1>9. todo'[p] = u
  BY <1>2
<1> HIDE DEF t, u
<1>10. u[2 + Len(s) - 1] = t[2]
  BY <1>7, <1>8
<1>11. u[2] = t[2]
  BY <1>7, <1>10
<1> QED BY <1>9, <1>11 DEF t

LEMMA OverlayStep == ASSUME IInv, NEW p \in Builders, Overlay(p) PROVE IInv'
<1> DEFINE N == Arg(p)
           S == AnyOf(N)
           others == N \ {S}
           x == <<"overlay", others>>
           s == IF others = {} THEN <<>> ELSE <<x>>
<1>1. todo[p] # <<>> /\ Head(todo[p])[1] = "overlay" /\ Due(p, "overlay")
  BY DEF Overlay, Due
<1>0. named \subseteq UpTo(gen) /\ p \notin writing /\ Head(todo[p])[1] \notin Writers
  BY <1>1 DEF IInv, GenInv, Writers
<1>2. N \subseteq SUBSET Layers /\ N # {} /\ Of(Head(todo[p])) = {}
  BY <1>1, AtHead, StepIs DEF Arg, Of
<1>3. S \in N
  BY <1>2 DEF AnyOf
<1>4. x[1] = "overlay" /\ x[2] = others /\ Of(x) = {} /\ Rank(x[1]) = 0
      /\ (others # {} => x \in Steps)
  BY <1>2, MakeStep DEF Of, Rank
<1>5. \/ Breaks(p)
      \/ /\ Onward(p, s) /\ merged' = merged \cup {S}
         /\ UNCHANGED <<file, torn, writing, named, dirs, cut, bare, mem, left, parts, made, gen,
                        stale, overlap>>
  BY DEF Overlay, list, work
<1> HIDE DEF x, S
<1>6. ~overlap => todo[p][2][2] \subseteq merged \cup N
  BY <1>1 DEF IInv, LoneInv, Open
<1> HIDE DEF N
<1>7. GoesOn(todo[p], s) /\ (others = {} => s = <<>>)
      /\ (others # {} => s # <<>> /\ Len(s) = 1 /\ s[1] = x)
  <2>1. CASE others = {}
    BY <2>1, <1>1, AtHead
  <2>2. CASE others # {}
    <3>1. GoesOn(todo[p], <<x>>)
      BY <2>2, <1>1, <1>4, AtHead, OneOn
    <3> QED BY <2>2, <3>1
  <2> QED BY <2>1, <2>2
<1> HIDE DEF s
<1>8. CASE Breaks(p)
  BY <1>0, <1>1, <1>8, FailsStep
<1>9. CASE /\ Onward(p, s) /\ merged' = merged \cup {S}
           /\ UNCHANGED <<file, torn, writing, named, dirs, cut, bare, mem, left, parts, made, gen,
                        stale, overlap>>
  <2>1. /\ todo' \in [Builders -> Seq(Steps)] /\ result' \in [Builders -> Results]
        /\ s # <<>> => todo'[p] # <<>> /\ Head(todo'[p]) = s[1]
    BY <1>7, <1>9, Onwards
  <2>2. TypeInv'
    BY <1>2, <1>3, <1>9, <2>1 DEF IInv, TypeInv
  <2>3. TodoInv' /\ GenInv' /\ PartsInv' /\ BuildingInv'
    BY <1>0, <1>1, <1>2, <1>4, <1>7, <1>9, Moves
  <2>4. /\ ~Due(p, "drop")' /\ ~Due(p, "erase")' /\ ~Due(p, "upsert")' /\ ~Due(p, "sweep")'
        /\ ~overlap /\ Due(p, "overlay")' => todo'[p][2][2] \subseteq merged' \cup Arg(p)'
        /\ ~overlap /\ Due(p, "list")' => Arg(p)' \subseteq merged'
    <3>1. CASE others = {}
      <4>1. todo'[p] # <<>> =>
              /\ Head(todo'[p])[1] \notin OnLayers \cup {"overlay"}
              /\ Head(todo'[p])[1] = "list" => Head(todo'[p]) = todo[p][2]
              /\ Head(todo'[p])[1] = "sweep" => Head(todo[p]) = <<"list", Head(todo'[p])[2]>>
        BY <3>1, <1>7, <1>9, NextPlanned
      <4>2. Due(p, "list")' => Arg(p)' = todo[p][2][2]
        BY <4>1 DEF Due, Arg
      <4>3. ~overlap => todo[p][2][2] \subseteq merged'
        BY <3>1, <1>3, <1>6, <1>9
      <4>4. ~Due(p, "drop")' /\ ~Due(p, "erase")' /\ ~Due(p, "upsert")' /\ ~Due(p, "overlay")'
            /\ ~Due(p, "sweep")'
        BY <4>1, <1>1 DEF Due, OnLayers
      <4> QED BY <4>2, <4>3, <4>4
    <3>2. CASE others # {}
      <4>1. todo'[p] # <<>> /\ Head(todo'[p]) = x
        BY <3>2, <1>7, <2>1
      <4>2. todo'[p][2] = todo[p][2]
        BY <3>2, <1>1, <1>7, <1>9, SecondStays
      <4>3. ~overlap => todo[p][2][2] \subseteq merged' \cup others
        BY <1>3, <1>6, <1>9
      <4>4. ~Due(p, "drop")' /\ ~Due(p, "erase")' /\ ~Due(p, "upsert")' /\ ~Due(p, "sweep")'
            /\ ~Due(p, "list")' /\ Arg(p)' = others
        BY <4>1, <1>4 DEF Due, Arg
      <4> QED BY <4>2, <4>3, <4>4
    <3> QED BY <3>1, <3>2
  <2>5. LoneInv'
    <3>1. ~overlap /\ LoneSound => /\ file'.layers \subseteq dirs' \cup bare'
                                   /\ file'.merged \subseteq merged'
      BY <1>9 DEF LoneSound
    <3> QED BY <1>0, <1>7, <1>9, <2>4, <3>1, LoneKept
  <2> QED BY <2>2, <2>3, <2>5 DEF IInv
<1> QED BY <1>5, <1>8, <1>9

\* A step that works on the output of a build, and on nothing of the repository.
LEMMA OnOutput ==
    ASSUME IInv, NEW p \in Builders, NEW s, GoesOn(todo[p], s), Onward(p, s),
           UNCHANGED <<disk, mem, gen, stale, overlap>>,
           Head(todo[p])[1] \in {"container", "copy", "split"},
           s # <<>> => s[1][1] = "split",
           left' \in [Builders -> [there : BOOLEAN, files : SUBSET Files]],
           parts' \in [Builders -> [Modules -> SUBSET Files]],
           made' \in [Builders -> SUBSET Files],
           \A q \in Builders \ {p} : left'[q] = left[q] /\ parts'[q] = parts[q] /\ made'[q] = made[q],
           "check" \in Kinds(todo'[p]) => "split" \in Kinds(todo'[p]) \/ left'[p].files = {},
           Kinds(todo'[p]) \cap {"container", "copy"} # {} => \A m \in Modules : parts'[p][m] = {},
           Parted(p)'
    PROVE  IInv'
<1>0. named \subseteq UpTo(gen) /\ p \notin writing /\ Head(todo[p])[1] \notin Writers
  BY DEF IInv, GenInv, Writers
<1>1. /\ s # <<>> => todo'[p] # <<>> /\ Head(todo'[p]) = s[1]
      /\ \A q \in Builders \ {p} : todo'[q] = todo[q]
      /\ todo' \in [Builders -> Seq(Steps)] /\ result' \in [Builders -> Results]
      /\ TodoInv'
  BY Onwards
<1>2. UNCHANGED <<file, torn, writing, named, mem, dirs, merged, cut, bare, gen, stale, overlap>>
  BY DEF disk, list
<1>3. TypeInv'
  BY <1>1, <1>2 DEF IInv, TypeInv
<1>4. ~Due(p, "drop")' /\ ~Due(p, "erase")' /\ ~Due(p, "upsert")'
  <2>1. CASE s = <<>>
    <3>1. todo'[p] # <<>> => Head(todo'[p])[1] \notin OnLayers
      BY <2>1, NextPlanned
    <3> QED BY <3>1 DEF Due, OnLayers
  <2>2. CASE s # <<>>
    BY <2>2, <1>1 DEF Due
  <2> QED BY <2>1, <2>2
<1>5. GenInv'
  BY <1>0, <1>2, <1>4, GenKept
<1>6. LoneInv'
  BY <1>0, <1>2, LoneMoves
<1>7. PartsInv'
  <2> SUFFICES ASSUME NEW q \in Builders
               PROVE  /\ Parted(q)'
                      /\ Kinds(todo'[q]) \cap {"container", "copy"} # {} =>
                           \A m \in Modules : parts'[q][m] = {}
    BY DEF PartsInv, Kinds, Ahead
  <2>1. CASE q = p
    BY <2>1
  <2>2. CASE q # p
    <3>1. /\ todo'[q] = todo[q] /\ left'[q] = left[q]
          /\ parts'[q] = parts[q] /\ made'[q] = made[q]
      BY <2>2, <1>1
    <3>2. /\ Parted(q)
          /\ Kinds(todo[q]) \cap {"container", "copy"} # {} =>
               \A m \in Modules : parts[q][m] = {}
      BY DEF IInv, PartsInv
    <3>3. Parted(q)'
      BY <3>1, <3>2 DEF Parted
    <3> QED BY <3>1, <3>2, <3>3
  <2> QED BY <2>1, <2>2
<1>8. ASSUME NEW q \in Builders \ {p}, NEW g \in 1..gen, BuildInv(q, g)
      PROVE  BuildInv(q, g)'
  BY <1>2, <1>4, <1>8, OtherBuilds
<1>9. ASSUME NEW g \in 1..gen, BuildInv(p, g)
      PROVE  Replaced(p, g)' /\ Listed(p, g)'
  <2>1. Replaced(p, g) /\ Listed(p, g)
    BY <1>9 DEF BuildInv
  <2>2. Of(Head(todo[p])) = {}
    BY DEF Of
  <2>3. Replaced(p, g)'
    BY <1>2, <2>1, ReplacedKept
  <2>4. Listed(p, g)'
    BY <1>2, <1>4, <2>1, <2>2, ListedKept
  <2> QED BY <2>3, <2>4
<1>10. BuildingInv'
  BY <1>2, <1>8, <1>9, BuildingKept
<1> QED BY <1>1, <1>3, <1>5, <1>6, <1>7, <1>10 DEF IInv

\* What is behind the steps that work on an output.
LEMMA BehindOutput ==
    ASSUME IInv, NEW p \in Builders, NEW s, GoesOn(todo[p], s), Onward(p, s),
           Head(todo[p])[1] \in {"container", "copy", "split"}
    PROVE  /\ Head(todo[p])[1] \in {"container", "copy"} => "split" \in Kinds(todo'[p])
           /\ Head(todo[p])[1] \in {"copy", "split"} =>
                Kinds(todo'[p]) \cap {"container", "copy"} = {}
<1>1. /\ Ahead(todo'[p]) = Ahead(s) \cup Ahead(Tail(todo[p]))
      /\ Ahead(todo[p]) = {Head(todo[p])} \cup Ahead(Tail(todo[p]))
      /\ todo[p] \in Seq(Steps) /\ todo[p] # <<>>
      /\ \A x \in Ahead(s) : x[1] \notin {"container", "copy"}
  BY Onwards DEF GoesOn
<1>2. ASSUME Head(todo[p])[1] \in {"container", "copy"}  PROVE "split" \in Kinds(todo'[p])
  <2>1. "split" \in Kinds(todo[p])
    BY <1>1, <1>2 DEF Kinds, IInv, TodoInv
  <2> QED BY <2>1, <1>1, <1>2 DEF Kinds
<1>3. ASSUME Head(todo[p])[1] \in {"copy", "split"},
             NEW x \in Ahead(todo'[p]), x[1] \in {"container", "copy"}
      PROVE  FALSE
  <2>1. x \in Ahead(Tail(todo[p]))
    BY <1>1, <1>3
  <2>2. Rank(x[1]) \in {1, 2} /\ Rank(Head(todo[p])[1]) \in {2, 3}
    BY <1>3 DEF Rank
  <2>3. Ordered(todo[p])
    BY DEF IInv, TodoInv
  <2>4. Rank(Head(todo[p])[1]) < Rank(x[1])
    BY <1>1, <2>1, <2>2, <2>3, OrderedBehind
  <2> QED BY <2>2, <2>4
<1> QED BY <1>2, <1>3 DEF Kinds

LEMMA ContainerStep == ASSUME IInv, NEW p \in Builders, Container(p) PROVE IInv'
<1>1. todo[p] # <<>> /\ Head(todo[p])[1] = "container"
  BY DEF Container, Due
<1>2. CASE Breaks(p) \/ Fails(p)
  BY <1>1, <1>2, FailsStep DEF Writers
<1>3. CASE \E F \in SUBSET Files :
             /\ made' = [made EXCEPT ![p] = F]
             /\ left' = [left EXCEPT ![p] = [there |-> TRUE, files |-> F]]
             /\ Onward(p, <<>>)
             /\ UNCHANGED <<disk, mem, base, parts, gen, stale, overlap>>
  <2> PICK F \in SUBSET Files :
             /\ made' = [made EXCEPT ![p] = F]
             /\ left' = [left EXCEPT ![p] = [there |-> TRUE, files |-> F]]
             /\ Onward(p, <<>>)
             /\ UNCHANGED <<disk, mem, base, parts, gen, stale, overlap>>
    BY <1>3
  <2>1. GoesOn(todo[p], <<>>)
    BY <1>1, AtHead
  <2>2. /\ left' \in [Builders -> [there : BOOLEAN, files : SUBSET Files]]
        /\ parts' \in [Builders -> [Modules -> SUBSET Files]]
        /\ made' \in [Builders -> SUBSET Files]
        /\ \A q \in Builders \ {p} :
             left'[q] = left[q] /\ parts'[q] = parts[q] /\ made'[q] = made[q]
        /\ left'[p].files = F /\ made'[p] = F
    BY DEF IInv, TypeInv
  <2>3. \A m \in Modules : parts'[p][m] = {}
    <3>1. "container" \in Kinds(todo[p])
      BY <1>1, AtHead DEF Kinds
    <3> QED BY <3>1 DEF IInv, PartsInv
  <2>4. Parted(p)'
    BY <2>2, <2>3 DEF Parted
  <2>5. "split" \in Kinds(todo'[p])
    BY <1>1, <2>1, BehindOutput
  <2> QED BY <1>1, <2>1, <2>2, <2>3, <2>4, <2>5, OnOutput
<1> QED BY <1>2, <1>3 DEF Container

LEMMA CopyAllStep == ASSUME IInv, NEW p \in Builders, CopyAll(p) PROVE IInv'
<1>1. todo[p] # <<>> /\ Head(todo[p])[1] = "copy"
  BY DEF CopyAll, Due
<1>2. /\ Onward(p, <<>>) /\ UNCHANGED <<disk, mem, left, made, gen, stale, overlap>>
      /\ parts' = [parts EXCEPT ![p]["develop"] = left[p].files]
  BY DEF CopyAll
<1>3. GoesOn(todo[p], <<>>)
  BY <1>1, AtHead
<1>4. \A m \in Modules : parts[p][m] = {}
  <2>1. "copy" \in Kinds(todo[p])
    BY <1>1, AtHead DEF Kinds
  <2> QED BY <2>1 DEF IInv, PartsInv
<1>5. left[p].files = made[p] /\ "develop" \in Modules
  <2>1. left[p].files \cup UNION {parts[p][m] : m \in Modules} = made[p]
    BY DEF IInv, PartsInv, Parted
  <2>2. UNION {parts[p][m] : m \in Modules} = {}
    BY <1>4
  <2> QED BY <2>1, <2>2 DEF Modules
<1>6. /\ parts[p] \in [Modules -> SUBSET Files] /\ left[p].files \in SUBSET Files
      /\ left \in [Builders -> [there : BOOLEAN, files : SUBSET Files]]
      /\ parts \in [Builders -> [Modules -> SUBSET Files]]
      /\ made \in [Builders -> SUBSET Files]
  BY DEF IInv, TypeInv
<1>7. /\ parts' \in [Builders -> [Modules -> SUBSET Files]]
      /\ \A q \in Builders \ {p} : parts'[q] = parts[q]
      /\ parts'[p]["develop"] = made[p]
      /\ \A m \in Modules \ {"develop"} : parts'[p][m] = {}
  BY <1>2, <1>4, <1>5, <1>6
<1>8. Parted(p)'
  <2>1. UNION {parts'[p][m] : m \in Modules} = made[p]
    BY <1>5, <1>7
  <2> QED BY <2>1, <1>2, <1>5, <1>7 DEF Parted
<1>9. "split" \in Kinds(todo'[p]) /\ Kinds(todo'[p]) \cap {"container", "copy"} = {}
  BY <1>1, <1>2, <1>3, BehindOutput
<1>10. /\ left' \in [Builders -> [there : BOOLEAN, files : SUBSET Files]]
       /\ made' \in [Builders -> SUBSET Files]
       /\ \A q \in Builders \ {p} :
            left'[q] = left[q] /\ parts'[q] = parts[q] /\ made'[q] = made[q]
  BY <1>2, <1>6, <1>7
<1>11. UNCHANGED <<disk, mem, gen, stale, overlap>>
  BY <1>2
<1> QED BY <1>1, <1>2, <1>3, <1>7, <1>8, <1>9, <1>10, <1>11, OnOutput

\* The first rule of a list, and the rules after it.
LEMMA FirstRule ==
    ASSUME NEW l \in Lists
    PROVE  /\ Head(l).name \in Modules
           /\ Len(l) = 1 => Head(l).files = Files
           /\ Len(l) # 1 => Tail(l) \in Lists
<1>1. l \in Seq(AllRules) /\ l # <<>> /\ l[Len(l)] = [name |-> "binary", files |-> Files]
  BY DEF Lists
<1>2. Head(l) = l[1] /\ Head(l) \in AllRules /\ Len(l) \in Nat /\ Len(l) >= 1
  BY <1>1
<1>3. Head(l).name \in Modules
  BY <1>2 DEF AllRules, Modules
<1>4. ASSUME Len(l) = 1  PROVE Head(l).files = Files
  <2>1. Head(l) = [name |-> "binary", files |-> Files]
    BY <1>1, <1>2, <1>4
  <2> QED BY <2>1
<1>5. ASSUME Len(l) # 1  PROVE Tail(l) \in Lists
  <2>1. Tail(l) \in Seq(AllRules) /\ Len(Tail(l)) = Len(l) - 1
        /\ \A i \in 1..Len(l) - 1 : Tail(l)[i] = l[i + 1]
    BY <1>1
  <2> DEFINE k == Len(l)
  <2>2. k - 1 \in 1..k - 1 /\ (k - 1) + 1 = k
    <3> k \in Nat /\ k >= 1 /\ k # 1
      BY <1>2, <1>5
    <3> HIDE DEF k
    <3> QED OBVIOUS
  <2>3. Tail(l)[Len(Tail(l))] = l[Len(l)]
    BY <2>1, <2>2
  <2>4. Tail(l) # <<>>
    <3> DEFINE r == Tail(l)
    <3>1. r \in Seq(AllRules) /\ Len(r) # 0
      BY <1>2, <1>5, <2>1
    <3> HIDE DEF r
    <3>2. r # <<>>
      BY <3>1
    <3> QED BY <3>2 DEF r
  <2> QED BY <1>1, <2>1, <2>3, <2>4 DEF Lists
<1> QED BY <1>3, <1>4, <1>5

\* What a rule takes goes from the output to its module.
LEMMA PartedAfter ==
    ASSUME NEW p \in Builders, Parted(p), NEW n \in Modules, NEW taken,
           taken \subseteq left[p].files,
           left'[p].files = left[p].files \ taken, made'[p] = made[p],
           parts'[p][n] = parts[p][n] \cup taken,
           \A m \in Modules \ {n} : parts'[p][m] = parts[p][m]
    PROVE  Parted(p)'
<1> DEFINE P(m) == parts[p][m]  L == left[p].files  M == made[p]
           Q(m) == parts'[p][m]  K == left'[p].files
<1>1. /\ L \cup UNION {P(m) : m \in Modules} = M
      /\ \A m \in Modules : P(m) \cap L # {} => m = "develop" /\ P(m) = M
      /\ \A m, k \in Modules : m # k /\ P(m) \cap P(k) # {} =>
            \E d \in {m, k} : d = "develop" /\ P(d) = M
  BY DEF Parted
<1>2. K = L \ taken /\ taken \subseteq L /\ Q(n) = P(n) \cup taken
      /\ \A m \in Modules \ {n} : Q(m) = P(m)
  OBVIOUS
<1>3. made'[p] = M
  OBVIOUS
<1> HIDE DEF P, Q, L, K, M
<1>4. UNION {Q(m) : m \in Modules} = taken \cup UNION {P(m) : m \in Modules}
  <2>1. \A m \in Modules : P(m) \subseteq Q(m) /\ Q(m) \subseteq P(m) \cup taken
    BY <1>2
  <2> QED BY <1>2, <2>1
<1>5. K \cup UNION {Q(m) : m \in Modules} = M
  BY <1>1, <1>2, <1>4
<1>6. P(n) = M => Q(n) = M
  BY <1>1, <1>2
<1>7. \A m \in Modules : P(m) = M => Q(m) = M
  BY <1>2, <1>6
<1>8. ASSUME NEW m \in Modules, Q(m) \cap K # {}
      PROVE  m = "develop" /\ Q(m) = M
  <2>1. P(m) \cap L # {}
    BY <1>2, <1>8
  <2> QED BY <2>1, <1>1, <1>7
<1>9. ASSUME NEW m \in Modules, NEW k \in Modules, m # k, Q(m) \cap Q(k) # {}
      PROVE  \E d \in {m, k} : d = "develop" /\ Q(d) = M
  <2>1. CASE P(m) \cap P(k) # {}
    BY <2>1, <1>1, <1>7, <1>9
  <2>2. CASE P(m) \cap P(k) = {}
    <3>1. \/ m = n /\ P(k) \cap L # {}
          \/ k = n /\ P(m) \cap L # {}
      BY <2>2, <1>2, <1>9
    <3> QED BY <3>1, <1>1, <1>7
  <2> QED BY <2>1, <2>2
<1> QED BY <1>3, <1>5, <1>8, <1>9 DEF Parted, Q, K

LEMMA SplitStep == ASSUME IInv, NEW p \in Builders, Split(p) PROVE IInv'
<1> DEFINE l == Arg(p)
           rule == Head(l)
           taken == left[p].files \cap rule.files
           x == <<"split", Tail(l)>>
           s == IF Len(l) = 1 THEN <<>> ELSE <<x>>
<1>1. todo[p] # <<>> /\ Head(todo[p])[1] = "split"
  BY DEF Split, Due
<1>2. l \in Lists
  BY <1>1, AtHead, StepIs DEF Arg
<1>3. /\ Onward(p, s) /\ UNCHANGED <<disk, mem, made, gen, stale, overlap>>
      /\ parts' = [parts EXCEPT ![p][rule.name] = @ \cup taken]
      /\ left' = [left EXCEPT ![p] = [there |-> left[p].files # taken,
                                      files |-> left[p].files \ taken]]
  BY DEF Split
<1>4. rule.name \in Modules /\ (Len(l) = 1 => rule.files = Files) /\ (Len(l) # 1 => Tail(l) \in Lists)
  BY <1>2, FirstRule
<1>5. x[1] = "split" /\ Of(x) = {} /\ (Len(l) # 1 => x \in Steps)
  BY <1>4, MakeStep DEF Of
<1>6. taken \subseteq left[p].files /\ (Len(l) = 1 => taken = left[p].files)
  BY <1>4 DEF IInv, TypeInv
<1> HIDE DEF l, rule, taken, x
<1>7. GoesOn(todo[p], s) /\ (s # <<>> => s[1] = x) /\ (Len(l) # 1 => Ahead(s) = {x})
  <2>1. CASE Len(l) = 1
    BY <2>1, <1>1, AtHead
  <2>2. CASE Len(l) # 1
    <3>1. GoesOn(todo[p], <<x>>) /\ Ahead(<<x>>) = {x}
      BY <2>2, <1>1, <1>5, AtHead, OneOn
    <3> QED BY <2>2, <3>1
  <2> QED BY <2>1, <2>2
<1> HIDE DEF s
<1>8. /\ left \in [Builders -> [there : BOOLEAN, files : SUBSET Files]]
      /\ parts \in [Builders -> [Modules -> SUBSET Files]]
      /\ made \in [Builders -> SUBSET Files]
      /\ left[p].files \in SUBSET Files /\ parts[p] \in [Modules -> SUBSET Files]
  BY DEF IInv, TypeInv
<1>9. /\ left' \in [Builders -> [there : BOOLEAN, files : SUBSET Files]]
      /\ \A q \in Builders \ {p} : left'[q] = left[q]
      /\ left'[p].files = left[p].files \ taken
  <2>1. left[p].files \ taken \in SUBSET Files
    BY <1>8
  <2> QED BY <2>1, <1>3, <1>8
<1>10. /\ parts' \in [Builders -> [Modules -> SUBSET Files]]
       /\ \A q \in Builders \ {p} : parts'[q] = parts[q]
       /\ parts'[p][rule.name] = parts[p][rule.name] \cup taken
       /\ \A m \in Modules \ {rule.name} : parts'[p][m] = parts[p][m]
  <2>1. parts[p][rule.name] \cup taken \in SUBSET Files
    BY <1>4, <1>6, <1>8
  <2> QED BY <2>1, <1>3, <1>4, <1>8
<1>11. /\ made' \in [Builders -> SUBSET Files] /\ made' = made
       /\ \A q \in Builders \ {p} :
            left'[q] = left[q] /\ parts'[q] = parts[q] /\ made'[q] = made[q]
  BY <1>3, <1>8, <1>9, <1>10
<1>12. Parted(p)'
  BY <1>4, <1>6, <1>9, <1>10, <1>11, PartedAfter DEF IInv, PartsInv
<1>13. Kinds(todo'[p]) \cap {"container", "copy"} = {}
  BY <1>1, <1>3, <1>7, BehindOutput
<1>14. "split" \in Kinds(todo'[p]) \/ left'[p].files = {}
  <2>1. CASE Len(l) = 1
    BY <2>1, <1>6, <1>9
  <2>2. CASE Len(l) # 1
    <3>1. Ahead(todo'[p]) = Ahead(s) \cup Ahead(Tail(todo[p]))
      BY <1>3, <1>7, Onwards
    <3>2. x \in Ahead(todo'[p])
      BY <2>2, <3>1, <1>7
    <3> QED BY <3>2, <1>5 DEF Kinds
  <2> QED BY <2>1, <2>2
<1>15. UNCHANGED <<disk, mem, gen, stale, overlap>>
  BY <1>3
<1> QED BY <1>1, <1>3, <1>5, <1>7, <1>9, <1>10, <1>11, <1>12, <1>13, <1>14, <1>15, OnOutput

\* When the output of a build is checked nothing of the build is left to do.
LEMMA CheckLast ==
    ASSUME IInv, NEW p \in Builders, todo[p] # <<>>, Head(todo[p])[1] = "check"
    PROVE  "split" \notin Kinds(todo[p]) /\ ~Removes(todo[p]) /\ Imports(todo[p]) = {}
<1> DEFINE t == todo[p]
<1>1. t \in Seq(Steps) /\ t # <<>> /\ Shaped(t) /\ Ordered(t)
      /\ Ahead(t) = {Head(t)} \cup Ahead(Tail(t))
  BY AtHead, AheadAfter DEF IInv, TodoInv
<1>2. Rank(Head(t)[1]) = 6 /\ Of(Head(t)) = {}
  BY DEF Rank, Of
<1> HIDE DEF t
<1>3. ASSUME NEW x \in Ahead(Tail(t))  PROVE x[1] \in Planned /\ Rank(x[1]) = 0
  <2>1. Rank(x[1]) = 0
    <3>1. Rank(x[1]) # 0 => 6 < Rank(x[1])
      BY <1>1, <1>2, OrderedBehind
    <3>2. Rank(x[1]) \in 0..6
      BY DEF Rank
    <3> QED BY <3>1, <3>2
  <2>2. PICK i \in 1..Len(Tail(t)) : x = Tail(t)[i]
    BY DEF Ahead
  <2>3. i + 1 \in 2..Len(t) /\ x = t[i + 1]
    BY <1>1, <2>2
  <2>4. x[1] \in Planned
    BY <1>1, <2>3, BehindPlanned DEF t
  <2> QED BY <2>1, <2>4
<1>4. \A x \in Ahead(t) : x[1] \notin {"split", "replace", "remove"} /\ Of(x) = {}
  <2>1. ASSUME NEW x \in Ahead(Tail(t))
        PROVE  x[1] \notin {"split", "replace", "remove"} /\ Of(x) = {}
    <3>1. x[1] \in Planned /\ Rank(x[1]) = 0
      BY <1>3
    <3>2. x[1] \notin {"split", "replace", "remove", "commit"}
      BY <3>1 DEF Rank
    <3> QED BY <3>1, <3>2 DEF Of, Planned
  <2> QED BY <1>1, <1>2, <2>1 DEF t
<1> QED BY <1>4 DEF Kinds, Removes, Imports, t

LEMMA CheckStep == ASSUME IInv, NEW p \in Builders, Check(p) PROVE IInv'
<1>1. todo[p] # <<>> /\ Head(todo[p])[1] = "check"
  BY DEF Check, Due
<1>2. CASE Breaks(p) \/ Fails(p)
  BY <1>1, <1>2, FailsStep DEF Writers
<1>3. CASE End(p, "built")
  <2>1. "split" \notin Kinds(todo[p]) /\ ~Removes(todo[p]) /\ Imports(todo[p]) = {}
    BY <1>1, CheckLast
  <2>2. Building(p)
    BY <1>1, AtHead DEF Building, Kinds
  <2>3. left[p].files = {}
    BY <2>1, <2>2 DEF IInv, BuildingInv
  <2>4. PICK g \in 1..gen : BuildInv(p, g)
    BY <2>2 DEF IInv, BuildingInv
  <2>5. /\ todo'[p] = <<>> /\ \A q \in Builders \ {p} : todo'[q] = todo[q]
        /\ UNCHANGED <<file, mem, dirs, gen, stale>>
    BY <1>3 DEF End, IInv, TypeInv, disk, list
  <2>6. Ahead(<<>>) = {} /\ Kinds(<<>>) = {} /\ Imports(<<>>) = {}
    BY DEF Ahead, Kinds, Imports
  <2>7. Apart(p, g)'
    <3> SUFFICES ASSUME NEW q \in Builders \ {p}
                 PROVE  /\ Imports(todo'[q]) \cap Packed(p, g) = {}
                        /\ p \notin stale' /\ Due(q, "erase")' => Arg(q)' \notin Packed(p, g)
      BY DEF Apart, Packed, Imports, Ahead, Of, Due, Arg
    <3> QED BY <2>4, <2>5 DEF BuildInv, Apart, Due, Arg
  <2>8. Replaced(p, g)'
    <3>1. OfRef(mem[p].layers, Own(p)) \subseteq Packed(p, g)
      BY <2>1, <2>4 DEF BuildInv, Replaced
    <3> SUFFICES /\ \A s \in Ahead(todo'[p]) : s[1] = "remove" => s[2] = Own(p)
                 /\ Removes(todo'[p]) => <<"commit", Packed(p, g)>> \in Ahead(todo'[p])
                 /\ ~Removes(todo'[p]) => OfRef(mem'[p].layers, Own(p)) \subseteq Packed(p, g)
      BY DEF Replaced, Removes, Kinds, Ahead, OfRef, Own, Packed
    <3> QED BY <2>5, <2>6, <3>1 DEF Removes
  <2>9. Listed(p, g)'
    <3>1. \A c \in Packed(p, g) : c \in mem[p].layers /\ (p \notin stale => c \in dirs)
      BY <2>1, <2>4 DEF BuildInv, Listed
    <3>2. ~Due(p, "upsert")'
      BY <2>5 DEF Due
    <3> SUFFICES /\ \A c \in Imports(todo'[p]) : c.ref.id = "base" \/ c \in Packed(p, g)
                 /\ \A c \in Packed(p, g) : c \in Imports(todo'[p]) \/
                      (c \in mem'[p].layers /\ (p \notin stale' => c \in dirs'))
      BY <3>2 DEF Listed, Imports, Ahead, Of, Packed
    <3> QED BY <2>5, <2>6, <3>1
  <2>10. BuildInv(p, g)'
    BY <2>7, <2>8, <2>9 DEF BuildInv
  <2> QED BY <1>1, <1>3, <2>3, <2>10, Ending DEF Results, Writers
<1> QED BY <1>2, <1>3 DEF Check

\* What a step of a builder leaves.
LEMMA StepKept == ASSUME IInv, NEW p \in Builders, Step(p) PROVE IInv'
BY SourcesStep, ResolveLocalStep, ResolveRemoteStep, NameStep, ClearStep, CheckoutStep,
   PullFailsStep, ImportFailsStep, TruncateStep, UpsertStep, DropStep, EraseStep, RemoveRefStep,
   MergeStep, OverlayStep, ListStep, SweepStep, ContainerStep, StartStep, CopyAllStep, SplitStep,
   SplitBreaksStep,
   ReplaceStep, CommitStep, CheckStep, ReadStep DEF Step

\* What the start of a command leaves.
LEMMA Started ==
    ASSUME IInv, NEW p \in Builders, NEW plan \in Seq(Steps), Run(p, plan), plan # <<>>,
           Shaped(plan), Ordered(plan),
           plan[1][1] \notin {"drop", "erase", "upsert", "overlay", "list", "sweep"},
           Kinds(plan) \cap {"container", "copy"} # {} => "split" \in Kinds(plan),
           \A c \in Imports(plan) : c \in Layers /\ c.gen = gen + 1,
           "check" \in Kinds(plan) =>
             /\ "split" \in Kinds(plan) /\ Removes(plan) /\ Imports(plan) = Packed(p, gen + 1)
             /\ <<"commit", Packed(p, gen + 1)>> \in Ahead(plan)
             /\ "remove" \notin Kinds(plan)
    PROVE  IInv'
<1>1. /\ todo' = [todo EXCEPT ![p] = plan] /\ result' = [result EXCEPT ![p] = "none"]
      /\ todo[p] = <<>> /\ gen < MaxRuns /\ ~torn /\ gen' = gen + 1
      /\ mem' = [mem EXCEPT ![p] = file] /\ stale' = stale \ {p}
      /\ overlap' = (overlap \/ Open # {})
      /\ left' = [left EXCEPT ![p] = Nothing]
      /\ parts' = [parts EXCEPT ![p] = [m \in Modules |-> {}]]
      /\ made' = [made EXCEPT ![p] = {}]
      /\ UNCHANGED <<file, torn, writing, named, dirs, merged, cut, bare>>
  BY DEF Run, disk, list
<1>2. TypeInv /\ TodoInv /\ GenInv /\ LoneInv /\ PartsInv /\ BuildingInv
  BY DEF IInv
<1>3. /\ todo'[p] = plan /\ result'[p] = "none" /\ mem'[p] = file
      /\ left'[p] = Nothing /\ made'[p] = {} /\ \A m \in Modules : parts'[p][m] = {}
      /\ \A q \in Builders \ {p} :
           /\ todo'[q] = todo[q] /\ result'[q] = result[q] /\ mem'[q] = mem[q]
           /\ left'[q] = left[q] /\ parts'[q] = parts[q] /\ made'[q] = made[q]
  BY <1>1, <1>2 DEF TypeInv
<1>4. gen \in Nat /\ gen + 1 \in 0..MaxRuns
  BY <1>1, <1>2, BuilderAssumption DEF TypeInv
<1>5. UpTo(gen) \subseteq UpTo(gen + 1) /\ \A c \in UpTo(gen) : c.gen # gen + 1
  BY <1>4, BuilderAssumption DEF UpTo, Layers
<1>6. Head(plan) = plan[1]
  OBVIOUS
<1>7. ~Due(p, "drop")' /\ ~Due(p, "erase")' /\ ~Due(p, "upsert")' /\ ~Due(p, "overlay")'
      /\ ~Due(p, "list")' /\ ~Due(p, "sweep")'
  BY <1>3, <1>6 DEF Due
<1>8. TypeInv'
  <2>1. [m \in Modules |-> {}] \in [Modules -> SUBSET Files]
        /\ Nothing \in [there : BOOLEAN, files : SUBSET Files]
    BY DEF Nothing
  <2>2. overlap' \in BOOLEAN
    BY <1>1
  <2>3. "none" \in Results
    BY DEF Results
  <2> QED BY <2>1, <2>2, <2>3, <1>1, <1>2, <1>4 DEF TypeInv
<1>9. TodoInv'
  <2> SUFFICES ASSUME NEW q \in Builders
               PROVE  /\ Shaped(todo'[q]) /\ Ordered(todo'[q])
                      /\ Kinds(todo'[q]) \cap {"container", "copy"} # {} =>
                           "split" \in Kinds(todo'[q])
                      /\ todo'[q] # <<>> => result'[q] = "none"
    BY DEF TodoInv, Shaped, Ordered, Kinds, Ahead
  <2>1. CASE q = p
    BY <2>1, <1>3
  <2>2. CASE q # p
    BY <2>2, <1>2, <1>3 DEF TodoInv
  <2> QED BY <2>1, <2>2
<1>10. GenInv'
  <2> SUFFICES ASSUME NEW q \in Builders
               PROVE  /\ file.layers \subseteq UpTo(gen + 1) /\ named \subseteq UpTo(gen + 1)
                      /\ mem'[q].layers \subseteq UpTo(gen + 1)
                      /\ Imports(todo'[q]) \subseteq UpTo(gen + 1)
                      /\ Due(q, "drop")' \/ Due(q, "erase")' => Arg(q)' \in UpTo(gen + 1)
                      /\ Due(q, "erase")' => Arg(q)' \notin mem'[q].layers
                      /\ q \in writing => todo'[q] # <<>> /\ Head(todo'[q])[1] \in Writers
                      /\ q \notin stale' /\ q \notin writing => mem'[q] = file
    <3>1. file.layers \subseteq UpTo(gen + 1) /\ named \subseteq UpTo(gen + 1)
      BY <1>2, <1>5 DEF GenInv
    <3> QED BY <1>1, <3>1 DEF GenInv, UpTo, Imports, Ahead, Of, Due, Arg
  <2>1. file.layers \subseteq UpTo(gen + 1) /\ named \subseteq UpTo(gen + 1)
    BY <1>2, <1>5 DEF GenInv
  <2>2. p \notin writing
    BY <1>1, <1>2 DEF GenInv
  <2>3. CASE q = p
    <3>1. Imports(plan) \subseteq UpTo(gen + 1)
      BY <1>4 DEF UpTo
    <3> QED BY <2>1, <2>2, <2>3, <3>1, <1>3, <1>7
  <2>4. CASE q # p
    BY <2>1, <2>4, <1>1, <1>2, <1>3, <1>5 DEF GenInv, Due, Arg
  <2> QED BY <2>3, <2>4
<1>11. LoneInv'
  <2>1. ~overlap' => ~overlap /\ Open = {}
    BY <1>1
  <2>2. Open' = Open \cup {p}
    BY <1>3 DEF Open
  <2>3. ~overlap' => LoneSound'
    BY <2>1, <1>1, <1>2 DEF LoneInv, LoneSound
  <2>4. ~overlap' => named' \subseteq dirs' \cup cut'
    BY <2>1, <1>1, <1>2 DEF LoneInv
  <2>5. p \notin writing' /\ p \notin stale'
    BY <1>1, <1>2 DEF GenInv
  <2> QED BY <2>1, <2>2, <2>3, <2>4, <2>5, <1>1, <1>7 DEF LoneInv
<1>12. PartsInv'
  <2> SUFFICES ASSUME NEW q \in Builders
               PROVE  /\ Parted(q)'
                      /\ Kinds(todo'[q]) \cap {"container", "copy"} # {} =>
                           \A m \in Modules : parts'[q][m] = {}
    BY DEF PartsInv, Kinds, Ahead
  <2>1. CASE q = p
    <3>1. left'[p].files = {} /\ made'[p] = {} /\ \A m \in Modules : parts'[p][m] = {}
      BY <1>3 DEF Nothing
    <3>2. Parted(p)'
      BY <3>1 DEF Parted
    <3> QED BY <2>1, <3>1, <3>2
  <2>2. CASE q # p
    <3>1. /\ todo'[q] = todo[q] /\ left'[q] = left[q]
          /\ parts'[q] = parts[q] /\ made'[q] = made[q]
      BY <2>2, <1>3
    <3>2. /\ Parted(q)
          /\ Kinds(todo[q]) \cap {"container", "copy"} # {} =>
               \A m \in Modules : parts[q][m] = {}
      BY <1>2 DEF PartsInv
    <3>3. Parted(q)'
      BY <3>1, <3>2 DEF Parted
    <3> QED BY <3>1, <3>2, <3>3
  <2> QED BY <2>1, <2>2
<1>13. BuildingInv'
  <2> SUFFICES ASSUME NEW q \in Builders, result'[q] = "built" \/ "check" \in Kinds(todo'[q])
               PROVE  /\ result'[q] = "built" => todo'[q] = <<>>
                      /\ "split" \in Kinds(todo'[q]) \/ left'[q].files = {}
                      /\ \E g \in 1..gen + 1 : BuildInv(q, g)'
    BY <1>1 DEF BuildingInv, Building, Kinds, Ahead
  <2>1. CASE q = p
    <3> PICK g \in 1..gen + 1 : g = gen + 1
      BY <1>4
    <3>1. "check" \in Kinds(plan)
      BY <2>1, <1>3
    <3>3. /\ \A c \in UpTo(gen) : c \notin Packed(p, g)
      BY <1>5 DEF Packed
    <3>4. Apart(p, g)'
      <4> SUFFICES ASSUME NEW r \in Builders \ {p}
                   PROVE  /\ Imports(todo'[r]) \cap Packed(p, g) = {}
                          /\ p \notin stale' /\ Due(r, "erase")' => Arg(r)' \notin Packed(p, g)
        BY DEF Apart, Packed, Imports, Ahead, Of, Due, Arg
      <4> QED BY <3>3, <1>2, <1>3 DEF GenInv, Due, Arg
    <3>5. /\ "split" \in Kinds(plan) /\ Removes(plan) /\ Imports(plan) = Packed(p, g)
          /\ <<"commit", Packed(p, g)>> \in Ahead(plan) /\ "remove" \notin Kinds(plan)
      BY <3>1
    <3>6. Replaced(p, g)'
      <4> SUFFICES /\ \A s \in Ahead(todo'[p]) : s[1] = "remove" => s[2] = Own(p)
                   /\ Removes(todo'[p]) => <<"commit", Packed(p, g)>> \in Ahead(todo'[p])
                   /\ ~Removes(todo'[p]) => OfRef(mem'[p].layers, Own(p)) \subseteq Packed(p, g)
        BY DEF Replaced, Removes, Kinds, Ahead, OfRef, Own, Packed
      <4>1. \A s \in Ahead(plan) : s[1] # "remove"
        BY <3>5 DEF Kinds
      <4> QED BY <3>5, <4>1, <1>3
    <3>7. Listed(p, g)'
      <4> SUFFICES /\ \A c \in Imports(todo'[p]) : c.ref.id = "base" \/ c \in Packed(p, g)
                   /\ \A c \in Packed(p, g) : c \in Imports(todo'[p]) \/
                        (c \in mem'[p].layers /\ (p \notin stale' => c \in dirs'))
        BY <1>7 DEF Listed, Imports, Ahead, Of, Packed
      <4> QED BY <3>5, <1>3
    <3>8. BuildInv(p, g)'
      BY <3>4, <3>6, <3>7 DEF BuildInv
    <3> QED BY <2>1, <3>5, <3>8, <1>3
  <2>2. CASE q # p
    <3>1. Building(q)
      BY <2>2, <1>3 DEF Building
    <3>2. PICK g \in 1..gen : BuildInv(q, g)
      BY <3>1, <1>2 DEF BuildingInv
    <3>3. g \in 1..gen + 1 /\ \A c : c.gen = gen + 1 => c \notin Packed(q, g)
      BY <1>4 DEF Packed
    <3>4. Apart(q, g)'
      <4> SUFFICES ASSUME NEW r \in Builders \ {q}
                   PROVE  /\ Imports(todo'[r]) \cap Packed(q, g) = {}
                          /\ q \notin stale' /\ Due(r, "erase")' => Arg(r)' \notin Packed(q, g)
        BY DEF Apart, Packed, Imports, Ahead, Of, Due, Arg
      <4>1. CASE r = p
        BY <4>1, <3>3, <1>3, <1>7
      <4>2. CASE r # p
        BY <4>2, <2>2, <3>2, <1>1, <1>3 DEF BuildInv, Apart, Due, Arg
      <4> QED BY <4>1, <4>2
    <3>5. Replaced(q, g)'
      <4> SUFFICES /\ \A s \in Ahead(todo'[q]) : s[1] = "remove" => s[2] = Own(q)
                   /\ Removes(todo'[q]) => <<"commit", Packed(q, g)>> \in Ahead(todo'[q])
                   /\ ~Removes(todo'[q]) => OfRef(mem'[q].layers, Own(q)) \subseteq Packed(q, g)
        BY DEF Replaced, Removes, Kinds, Ahead, OfRef, Own, Packed
      <4> QED BY <2>2, <3>2, <1>3 DEF BuildInv, Replaced
    <3>6. Listed(q, g)'
      <4> SUFFICES /\ \A c \in Imports(todo'[q]) : c.ref.id = "base" \/ c \in Packed(q, g)
                   /\ \A c \in Packed(q, g) : c \in Imports(todo'[q]) \/
                        (c \in mem'[q].layers /\ (q \notin stale' => c \in dirs'))
                   /\ Due(q, "upsert")' /\ Arg(q)' \in Packed(q, g) /\ q \notin stale' =>
                        Arg(q)' \in dirs'
        BY DEF Listed, Imports, Ahead, Of, Packed, Due, Arg
      <4> QED BY <2>2, <3>2, <1>1, <1>3 DEF BuildInv, Listed, Due, Arg
    <3>7. BuildInv(q, g)'
      BY <3>4, <3>5, <3>6 DEF BuildInv
    <3> QED BY <2>2, <3>1, <3>3, <3>7, <1>2, <1>3 DEF BuildingInv
  <2> QED BY <2>1, <2>2
<1> QED BY <1>8, <1>9, <1>10, <1>11, <1>12, <1>13 DEF IInv

\* A plan without a step of a build, the first perhaps on a layer.
LEMMA PlainPlan ==
    ASSUME NEW plan \in Seq(Steps),
           \A i \in 1..Len(plan) : i > 1 => plan[i][1] \in Planned,
           \A i \in 1..Len(plan) : plan[i][1] \notin {"list", "sweep", "overlay", "drop", "erase"}
    PROVE  Shaped(plan)
BY DEF Shaped

LEMMA OneRank ==
    ASSUME NEW plan \in Seq(Steps), \A i \in 2..Len(plan) : Rank(plan[i][1]) = 0
    PROVE  Ordered(plan)
<1> SUFFICES ASSUME NEW i \in 1..Len(plan), NEW j \in 1..Len(plan), i < j
             PROVE  Rank(plan[j][1]) = 0
  BY DEF Ordered
<1>1. j \in 2..Len(plan)
  OBVIOUS
<1> QED BY <1>1

LEMMA ImportStep ==
    ASSUME IInv, NEW p \in Builders, NEW m \in {"binary", "develop"}, ImportPath(p, m)
    PROVE  IInv'
<1> DEFINE c == [ref |-> Own(p), module |-> m, gen |-> gen + 1]
           x == <<"name", c>>
           y == <<"merge">>
           plan == <<x, y>>
<1>1. Run(p, plan)
  BY DEF ImportPath
<1>2. c \in Layers /\ c.gen = gen + 1
  <2>1. gen + 1 \in 0..MaxRuns
    BY <1>1, BuilderAssumption DEF Run, IInv, TypeInv
  <2> QED BY <2>1 DEF Layers, Refs, Modules
<1> HIDE DEF c
<1>3. x \in Steps /\ x[1] = "name" /\ Of(x) = {c} /\ y \in Steps /\ y[1] = "merge" /\ Of(y) = {}
  BY <1>2, MakeStep DEF Of, OnLayers, Planned
<1> HIDE DEF x, y
<1>4. plan \in Seq(Steps) /\ Len(plan) = 2 /\ plan[1] = x /\ plan[2] = y /\ plan # <<>>
  BY <1>3
<1> HIDE DEF plan
<1>5. \A i \in 1..Len(plan) : plan[i] = x \/ (plan[i] = y /\ i = 2)
  BY <1>4
<1>6. Ahead(plan) = {x, y}
  BY <1>4, <1>5 DEF Ahead
<1>7. Shaped(plan)
  <2>1. \A i \in 1..Len(plan) : i > 1 => plan[i] = y
    BY <1>4
  <2> QED BY <1>3, <1>4, <1>5, <2>1, PlainPlan DEF Planned
<1>8. Ordered(plan)
  <2>1. \A i \in 2..Len(plan) : plan[i] = y
    BY <1>4
  <2> QED BY <1>3, <1>4, <2>1, OneRank DEF Rank
<1>9. Imports(plan) = {c} /\ Kinds(plan) = {"name", "merge"}
  BY <1>3, <1>6 DEF Imports, Kinds
<1> QED BY <1>1, <1>2, <1>3, <1>4, <1>7, <1>8, <1>9, Started

LEMMA RemoveAppStep ==
    ASSUME IInv, NEW p \in Builders, NEW r \in Refs, RemoveApp(p, r)
    PROVE  IInv'
<1> DEFINE x == <<"remove", r>>
           y == <<"merge">>
           plan == <<x, y>>
<1>1. Run(p, plan)
  BY DEF RemoveApp
<1>2. x \in Steps /\ x[1] = "remove" /\ Of(x) = {} /\ y \in Steps /\ y[1] = "merge" /\ Of(y) = {}
  BY MakeStep DEF Of, Planned
<1> HIDE DEF x, y
<1>3. plan \in Seq(Steps) /\ Len(plan) = 2 /\ plan[1] = x /\ plan[2] = y /\ plan # <<>>
  BY <1>2
<1> HIDE DEF plan
<1>4. \A i \in 1..Len(plan) : plan[i] = x \/ (plan[i] = y /\ i = 2)
  BY <1>3
<1>5. Ahead(plan) = {x, y}
  BY <1>3, <1>4 DEF Ahead
<1>6. Shaped(plan)
  <2>1. \A i \in 1..Len(plan) : i > 1 => plan[i] = y
    BY <1>3
  <2> QED BY <1>2, <1>3, <1>4, <2>1, PlainPlan DEF Planned
<1>7. Ordered(plan)
  <2>1. \A i \in 2..Len(plan) : plan[i] = y
    BY <1>3
  <2> QED BY <1>2, <1>3, <2>1, OneRank DEF Rank
<1>8. Imports(plan) = {} /\ Kinds(plan) = {"remove", "merge"}
  BY <1>2, <1>5 DEF Imports, Kinds
<1> QED BY <1>1, <1>2, <1>3, <1>6, <1>7, <1>8, Started

LEMMA RunStep ==
    ASSUME IInv, NEW p \in Builders, RunBuilt(p) \/ Push(p)
    PROVE  IInv'
<1> DEFINE K == {"local", "merge", "read", "start"}
<1>1. ASSUME NEW plan \in Seq(Steps), Run(p, plan), plan # <<>>,
             \A i \in 1..Len(plan) : plan[i][1] \in K
      PROVE  IInv'
  <2>1. Shaped(plan)
    BY <1>1, PlainPlan DEF Planned
  <2>2. Ordered(plan)
    BY <1>1, OneRank DEF Rank
  <2>3. Kinds(plan) \subseteq K
    BY <1>1 DEF Kinds, Ahead
  <2>4. \A s \in Ahead(plan) : Of(s) = {}
    BY <1>1 DEF Ahead, Of
  <2>5. Imports(plan) = {}
    BY <2>4 DEF Imports
  <2>6. plan[1][1] \in K
    BY <1>1
  <2>7. /\ plan[1][1] \notin {"drop", "erase", "upsert", "overlay", "list", "sweep"}
        /\ Kinds(plan) \cap {"container", "copy"} = {} /\ "check" \notin Kinds(plan)
    BY <2>3, <2>6
  <2> HIDE DEF K
  <2> QED BY <1>1, <2>1, <2>2, <2>5, <2>7, Started
<1>2. \A do \in K : <<do>> \in Steps /\ <<do>>[1] \in K
  <2> SUFFICES ASSUME NEW do \in K  PROVE <<do>> \in Steps /\ <<do>>[1] = do
    OBVIOUS
  <2>1. do \in Planned \ {"split", "remove", "commit"}
    BY DEF Planned
  <2> HIDE DEF K
  <2>2. <<do>> \in Steps
    BY <2>1, MakeStep
  <2> QED BY <2>2
<1>3. CASE RunBuilt(p)
  <2> DEFINE a == <<"local">>  b == <<"merge">>  c == <<"read">>  d == <<"start">>
             plan == <<a, b, c, d>>
  <2>1. Run(p, plan)
    BY <1>3 DEF RunBuilt
  <2>2. a \in Steps /\ b \in Steps /\ c \in Steps /\ d \in Steps
        /\ a[1] \in K /\ b[1] \in K /\ c[1] \in K /\ d[1] \in K
    BY <1>2
  <2> HIDE DEF a, b, c, d, K
  <2>3. plan \in Seq(Steps) /\ Len(plan) = 4 /\ plan # <<>>
        /\ plan[1] = a /\ plan[2] = b /\ plan[3] = c /\ plan[4] = d
    BY <2>2
  <2> HIDE DEF plan
  <2>4. \A i \in 1..Len(plan) : plan[i] \in {a, b, c, d}
    BY <2>3
  <2> QED BY <1>1, <2>1, <2>2, <2>3, <2>4
<1>4. CASE Push(p)
  <2> DEFINE c == <<"read">>
             plan == <<c>>
  <2>1. Run(p, plan)
    BY <1>4 DEF Push
  <2>2. c \in Steps /\ c[1] \in K
    BY <1>2
  <2> HIDE DEF c, K
  <2>3. plan \in Seq(Steps) /\ Len(plan) = 1 /\ plan # <<>> /\ plan[1] = c
    BY <2>2
  <2> HIDE DEF plan
  <2>4. \A i \in 1..Len(plan) : plan[i] \in {c}
    BY <2>3
  <2> QED BY <1>1, <2>1, <2>2, <2>3, <2>4
<1> QED BY <1>3, <1>4

\* What is taken from an output comes as a list that ends with the main module.
LEMMA SplitsList == ASSUME NEW full \in BOOLEAN PROVE Splits(full) \in Lists
<1> DEFINE b == [name |-> "binary", files |-> Files]
           d == [name |-> "develop", files |-> {"header"}]
           D == IF RuleForDevelop \/ full THEN <<>> ELSE <<d>>
           u == Rules \o D
           v == u \o <<b>>
<1>1. Splits(full) = v
  BY DEF Splits
<1>2. b \in AllRules /\ d \in AllRules /\ {Rules[i] : i \in 1..Len(Rules)} \subseteq AllRules
  BY DEF AllRules
<1>3. b = [name |-> "binary", files |-> Files]
  OBVIOUS
<1> HIDE DEF b, d
<1>4. Rules \in Seq(AllRules)
  <2> DEFINE rules == {Rules[i] : i \in 1..Len(Rules)}
  <2>1. Rules \in Seq(rules) /\ rules \subseteq AllRules
    BY <1>2, BuilderAssumption
  <2> HIDE DEF rules
  <2> QED BY <2>1
<1>5. D \in Seq(AllRules)
  BY <1>2
<1> HIDE DEF D
<1>6. u \in Seq(AllRules)
  BY <1>4, <1>5
<1> HIDE DEF u
<1>7. <<b>> \in Seq(AllRules) /\ Len(<<b>>) = 1 /\ <<b>>[1] = b
  BY <1>2
<1>8. v \in Seq(AllRules) /\ Len(v) = Len(u) + 1 /\ v[Len(u) + 1] = b
  BY <1>6, <1>7
<1> HIDE DEF v
<1>9. v # <<>>
  BY <1>6, <1>8
<1> QED BY <1>1, <1>3, <1>8, <1>9 DEF Lists

\* The modules of a build that starts.
LEMMA PackedLayers ==
    ASSUME NEW p \in Builders, NEW g \in 0..MaxRuns
    PROVE  Packed(p, g) \subseteq Layers /\ Packed(p, g) # {} /\ \A c \in Packed(p, g) : c.gen = g
<1>1. \A m \in Modules : [ref |-> Own(p), module |-> m, gen |-> g] \in Layers
  BY DEF Layers, Refs
<1>2. "binary" \in Modules
  BY DEF Modules
<1>3. Packed(p, g) \subseteq Layers
  BY <1>1 DEF Packed
<1>4. [ref |-> Own(p), module |-> "binary", gen |-> g] \in Packed(p, g)
  BY <1>2 DEF Packed
<1>5. \A c \in Packed(p, g) : c.gen = g
  BY DEF Packed
<1> QED BY <1>3, <1>4, <1>5

\* What a build plans, by its places; n is where its output is there.
LEMMA BuildPlaces ==
    ASSUME NEW p \in Builders, NEW full \in BOOLEAN, gen + 1 \in 0..MaxRuns
    PROVE  LET plan == BuildPlan(p, full) IN
           \E n \in {4, 5} :
             /\ plan \in Seq(Steps) /\ Len(plan) = n + 5
             /\ plan[1] = <<"sources">> /\ plan[2] = <<"resolve">> /\ plan[3] = <<"merge">>
             /\ plan[4] = <<"container">> /\ (n = 5 => plan[5] = <<"copy">>)
             /\ plan[n + 1] = <<"split", Splits(full)>> /\ plan[n + 2] = <<"replace">>
             /\ plan[n + 3] = <<"commit", Packed(p, gen + 1)>> /\ plan[n + 4] = <<"merge">>
             /\ plan[n + 5] = <<"check">>
<1> DEFINE a1 == <<"sources">>  a2 == <<"resolve">>  a3 == <<"merge">>  a4 == <<"container">>
           k == <<"copy">>
           b1 == <<"split", Splits(full)>>  b2 == <<"replace">>
           b3 == <<"commit", Packed(p, gen + 1)>>  b4 == <<"merge">>  b5 == <<"check">>
           A == <<a1, a2, a3, a4>>
           C == IF full /\ ~RuleForDevelop THEN <<k>> ELSE <<>>
           B == <<b1, b2, b3, b4, b5>>
           D == A \o C
           plan == D \o B
<1>1. BuildPlan(p, full) = plan
  BY DEF BuildPlan
<1>2. a1 \in Steps /\ a2 \in Steps /\ a3 \in Steps /\ a4 \in Steps /\ k \in Steps
      /\ b2 \in Steps /\ b4 \in Steps /\ b5 \in Steps
  BY MakeStep DEF Planned
<1>3. b1 \in Steps /\ b3 \in Steps
  BY SplitsList, PackedLayers, MakeStep
<1> DEFINE Goal(n) ==
             /\ plan \in Seq(Steps) /\ Len(plan) = n + 5
             /\ plan[1] = a1 /\ plan[2] = a2 /\ plan[3] = a3
             /\ plan[4] = a4 /\ (n = 5 => plan[5] = k)
             /\ plan[n + 1] = b1 /\ plan[n + 2] = b2
             /\ plan[n + 3] = b3 /\ plan[n + 4] = b4
             /\ plan[n + 5] = b5
<1> SUFFICES \E n \in {4, 5} : Goal(n)
  BY <1>1
<1> HIDE DEF a1, a2, a3, a4, k, b1, b2, b3, b4, b5
<1>4. A \in Seq(Steps) /\ Len(A) = 4 /\ A[1] = a1 /\ A[2] = a2 /\ A[3] = a3 /\ A[4] = a4
  BY <1>2
<1>5. B \in Seq(Steps) /\ Len(B) = 5 /\ B[1] = b1 /\ B[2] = b2 /\ B[3] = b3 /\ B[4] = b4 /\ B[5] = b5
  BY <1>2, <1>3
<1>6. C \in Seq(Steps) /\ (Len(C) = 0 \/ (Len(C) = 1 /\ C[1] = k))
  BY <1>2
<1> HIDE DEF A, B, C
<1> DEFINE n == Len(A) + Len(C)
<1>7. n \in {4, 5} /\ n = 4 + Len(C)
  <2>1. CASE Len(C) = 0
    BY <2>1, <1>4
  <2>2. CASE Len(C) = 1
    BY <2>2, <1>4
  <2> QED BY <2>1, <2>2, <1>6
<1>8. D \in Seq(Steps) /\ Len(D) = n
      /\ \A i \in 1..n : D[i] = IF i <= Len(A) THEN A[i] ELSE C[i - Len(A)]
  BY <1>4, <1>6, Joined
<1> HIDE DEF D, n
<1>9. D[1] = a1 /\ D[2] = a2 /\ D[3] = a3 /\ D[4] = a4 /\ (n = 5 => D[5] = k)
  BY <1>4, <1>6, <1>7, <1>8
<1>10. plan \in Seq(Steps) /\ Len(plan) = n + 5
       /\ \A i \in 1..n + 5 : plan[i] = IF i <= n THEN D[i] ELSE B[i - n]
  <2>1. plan \in Seq(Steps) /\ Len(plan) = Len(D) + Len(B)
        /\ \A i \in 1..Len(D) + Len(B) : plan[i] = IF i <= Len(D) THEN D[i] ELSE B[i - Len(D)]
    BY <1>5, <1>8, Joined
  <2> QED BY <2>1, <1>5, <1>8
<1> HIDE DEF plan
<1>11. plan[1] = a1 /\ plan[2] = a2 /\ plan[3] = a3 /\ plan[4] = a4 /\ (n = 5 => plan[5] = k)
  BY <1>7, <1>9, <1>10
<1>12. plan[n + 1] = b1 /\ plan[n + 2] = b2 /\ plan[n + 3] = b3 /\ plan[n + 4] = b4 /\ plan[n + 5] = b5
  <2>1. n \in Nat
    BY <1>7
  <2>2. \A i \in 1..5 : n + i \in 1..n + 5 /\ ~(n + i <= n) /\ (n + i) - n = i
    BY <2>1
  <2>3. \A i \in 1..5 : plan[n + i] = B[i]
    BY <2>2, <1>10
  <2> QED BY <2>3, <1>5
<1>13. Goal(n)
  BY <1>10, <1>11, <1>12
<1> QED BY <1>7, <1>13

LEMMA BuildStep == ASSUME IInv, NEW p \in Builders, Build(p) PROVE IInv'
<1> PICK full \in BOOLEAN : Run(p, BuildPlan(p, full))
  BY DEF Build
<1>1. gen + 1 \in 0..MaxRuns
  BY BuilderAssumption DEF Run, IInv, TypeInv
<1> DEFINE P == Packed(p, gen + 1)
           plan == BuildPlan(p, full)
<1>2. P \subseteq Layers /\ \A c \in P : c.gen = gen + 1
  BY <1>1, PackedLayers
<1>3. PICK n \in {4, 5} :
        /\ plan \in Seq(Steps) /\ Len(plan) = n + 5
        /\ plan[1] = <<"sources">> /\ plan[2] = <<"resolve">> /\ plan[3] = <<"merge">>
        /\ plan[4] = <<"container">> /\ (n = 5 => plan[5] = <<"copy">>)
        /\ plan[n + 1] = <<"split", Splits(full)>> /\ plan[n + 2] = <<"replace">>
        /\ plan[n + 3] = <<"commit", P>> /\ plan[n + 4] = <<"merge">>
        /\ plan[n + 5] = <<"check">>
  BY <1>1, BuildPlaces
<1> HIDE DEF P, plan
<1> DEFINE K(i) == plan[i][1]
<1>4. /\ K(1) = "sources" /\ K(2) = "resolve" /\ K(3) = "merge" /\ K(4) = "container"
      /\ (n = 5 => K(5) = "copy")
      /\ K(n + 1) = "split" /\ K(n + 2) = "replace" /\ K(n + 3) = "commit" /\ K(n + 4) = "merge"
      /\ K(n + 5) = "check"
  BY <1>3
<1>5. \A i \in 1..Len(plan) : i \in {1, 2, 3, 4} \/ (i = 5 /\ n = 5)
                                \/ i \in {n + 1, n + 2, n + 3, n + 4, n + 5}
  BY <1>3
<1> HIDE DEF K
<1>6. \A i \in 1..Len(plan) : K(i) \in Planned \ {"remove"}
  BY <1>4, <1>5 DEF Planned
<1>7. Shaped(plan)
  BY <1>3, <1>6, PlainPlan DEF K, Planned
<1>8. Ordered(plan)
  <2> DEFINE R(i) == Rank(K(i))
  <2>1. /\ R(1) = 0 /\ R(2) = 0 /\ R(3) = 0 /\ R(4) = 1 /\ (n = 5 => R(5) = 2)
        /\ R(n + 1) = 3 /\ R(n + 2) = 4 /\ R(n + 3) = 5 /\ R(n + 4) = 0 /\ R(n + 5) = 6
    BY <1>4 DEF Rank
  <2> HIDE DEF R
  <2>2. \A i \in 1..Len(plan) :
          \/ R(i) = 0 \/ (i = 4 /\ R(i) = 1) \/ (i = 5 /\ n = 5 /\ R(i) = 2)
          \/ (i \in {n + 1, n + 2, n + 3} /\ R(i) = i - n + 2) \/ (i = n + 5 /\ R(i) = 6)
    BY <1>5, <2>1
  <2>3. ASSUME NEW i \in 1..Len(plan), NEW j \in 1..Len(plan), i < j, R(i) # 0, R(j) # 0
        PROVE  R(i) < R(j)
    <3>1. n = 4 \/ n = 5
      OBVIOUS
    <3>2. CASE n = 4
      BY <2>2, <2>3, <3>2
    <3>3. CASE n = 5
      BY <2>2, <2>3, <3>3
    <3> QED BY <3>1, <3>2, <3>3
  <2> QED BY <2>3 DEF R, K, Ordered
<1>9. Imports(plan) = P
  <2>1. \A i \in 1..Len(plan) : K(i) \in {"name", "clear", "checkout", "upsert"} => FALSE
    BY <1>6 DEF Planned
  <2>2. \A i \in 1..Len(plan) : K(i) = "commit" => i = n + 3
    BY <1>4, <1>5
  <2>3. n + 3 \in 1..Len(plan)
    BY <1>3
  <2>4. \A i \in 1..Len(plan) : i # n + 3 => Of(plan[i]) = {}
    BY <2>1, <2>2 DEF Of, K
  <2>5. Of(plan[n + 3]) = P
    BY <1>3 DEF Of
  <2> QED BY <2>3, <2>4, <2>5 DEF Imports, Ahead
<1>10. \A i \in 1..Len(plan) : plan[i] \in Ahead(plan) /\ K(i) \in Kinds(plan)
  BY DEF Ahead, Kinds, K
<1>11. n + 1 \in 1..Len(plan) /\ n + 2 \in 1..Len(plan) /\ n + 3 \in 1..Len(plan) /\ 1 \in 1..Len(plan)
  BY <1>3
<1>12. /\ "split" \in Kinds(plan) /\ Removes(plan)
       /\ <<"commit", P>> \in Ahead(plan)
       /\ "remove" \notin Kinds(plan)
  <2>1. "split" \in Kinds(plan) /\ "replace" \in Kinds(plan) /\ <<"commit", P>> \in Ahead(plan)
    BY <1>3, <1>4, <1>10, <1>11
  <2>2. "remove" \notin Kinds(plan)
    BY <1>6 DEF Kinds, Ahead, K
  <2> QED BY <2>1, <2>2 DEF Removes
<1>13. plan # <<>>
  BY <1>3
<1>14. plan[1][1] \notin {"drop", "erase", "upsert", "overlay", "list", "sweep"}
  BY <1>4 DEF K
<1>15. Run(p, plan) /\ Imports(plan) = Packed(p, gen + 1)
       /\ <<"commit", Packed(p, gen + 1)>> \in Ahead(plan)
  BY <1>9, <1>12 DEF plan, P
<1> QED BY <1>2, <1>3, <1>7, <1>8, <1>9, <1>12, <1>13, <1>14, <1>15, Started

\* The steps, together.
LEMMA NextKept == ASSUME IInv, [Next]_vars PROVE IInv'
<1>1. CASE UNCHANGED vars
  <2>1. TypeInv'
    BY <1>1 DEF vars, disk, list, work, IInv, TypeInv
  <2>2. TodoInv' /\ PartsInv' /\ BuildingInv'
    BY <1>1, Stays DEF vars, disk, work
  <2>3. GenInv'
    BY <1>1 DEF vars, disk, list, IInv, GenInv, UpTo, Imports, Ahead, Of, Due, Arg
  <2>4. LoneInv'
    BY <1>1 DEF vars, disk, list, IInv, LoneInv, LoneSound, Open, Due, Arg
  <2> QED BY <2>1, <2>2, <2>3, <2>4 DEF IInv
<1>2. ASSUME NEW p \in Builders, Command(p)  PROVE IInv'
  BY <1>2, BuildStep, RunStep, ImportStep, RemoveAppStep DEF Command
<1> QED BY <1>1, <1>2, StepKept, KillStep, RebuildStep DEF Next

LEMMA InitKept == Init => IInv
<1> SUFFICES ASSUME Init PROVE IInv
  OBVIOUS
<1>1. Ahead(<<>>) = {} /\ Kinds(<<>>) = {} /\ Imports(<<>>) = {}
  BY DEF Ahead, Kinds, Imports
<1>2. \A p \in Builders : todo[p] = <<>> /\ result[p] = "none" /\ mem[p] = Empty
        /\ left[p] = Nothing /\ made[p] = {} /\ \A m \in Modules : parts[p][m] = {}
  BY DEF Init
<1>3. Empty \in Copies /\ Nothing \in [there : BOOLEAN, files : SUBSET Files]
  BY DEF Empty, Nothing, Copies
<1>4. TypeInv
  <2>1. gen \in 0..MaxRuns /\ "none" \in Results
    BY BuilderAssumption DEF Init, Results
  <2>2. [m \in Modules |-> {}] \in [Modules -> SUBSET Files]
    OBVIOUS
  <2>3. todo \in [Builders -> Seq(Steps)]
    <3>1. <<>> \in Seq(Steps)
      OBVIOUS
    <3> QED BY <3>1 DEF Init
  <2>4. parts \in [Builders -> [Modules -> SUBSET Files]] /\ made \in [Builders -> SUBSET Files]
    BY <2>2 DEF Init
  <2>5. /\ mem \in [Builders -> Copies] /\ result \in [Builders -> Results]
        /\ left \in [Builders -> [there : BOOLEAN, files : SUBSET Files]]
    BY <1>3, <2>1 DEF Init
  <2> QED BY <1>3, <2>1, <2>3, <2>4, <2>5 DEF Init, TypeInv
<1>5. TodoInv
  BY <1>1, <1>2 DEF TodoInv, Shaped, Ordered
<1>6. GenInv
  BY <1>1, <1>2 DEF Init, GenInv, Empty, Due
<1>7. LoneInv
  BY <1>2 DEF Init, LoneInv, LoneSound, Open, Empty
<1>8. PartsInv
  BY <1>1, <1>2 DEF PartsInv, Parted, Nothing
<1>9. BuildingInv
  BY <1>1, <1>2 DEF BuildingInv, Building
<1> QED BY <1>4, <1>5, <1>6, <1>7, <1>8, <1>9 DEF IInv

\* What has been built is listed.
LEMMA BuiltListed == IInv => BuildListed
<1> SUFFICES ASSUME IInv, NEW p \in Builders, result[p] = "built", p \notin stale
             PROVE  /\ OfRef(file.layers, Own(p)) \subseteq dirs
                    /\ \E g \in 1..gen : OfRef(file.layers, Own(p)) = Packed(p, g)
                    /\ UNION {parts[p][m] : m \in Modules} = made[p]
                    /\ \A m, n \in Modules : m # n /\ parts[p][m] \cap parts[p][n] # {} =>
                          \E d \in {m, n} : d = "develop" /\ parts[p][d] = made[p]
  BY DEF BuildListed
<1>1. todo[p] = <<>>
  BY DEF IInv, BuildingInv, Building
<1>2. Ahead(<<>>) = {} /\ Kinds(<<>>) = {} /\ Imports(<<>>) = {} /\ ~Removes(<<>>)
  BY DEF Ahead, Kinds, Imports, Removes
<1>3. left[p].files = {} /\ p \notin writing /\ mem[p] = file
  BY <1>1, <1>2 DEF IInv, BuildingInv, Building, GenInv
<1>4. PICK g \in 1..gen : BuildInv(p, g)
  BY DEF IInv, BuildingInv, Building
<1>5. OfRef(file.layers, Own(p)) \subseteq Packed(p, g)
  BY <1>1, <1>2, <1>3, <1>4 DEF BuildInv, Replaced
<1>6. \A c \in Packed(p, g) : c \in file.layers /\ c \in dirs
  BY <1>1, <1>2, <1>3, <1>4 DEF BuildInv, Listed
<1>7. OfRef(file.layers, Own(p)) = Packed(p, g)
  BY <1>5, <1>6, NoBaseBuilt DEF OfRef
<1>8. /\ left[p].files \cup UNION {parts[p][m] : m \in Modules} = made[p]
      /\ \A m, n \in Modules : m # n /\ parts[p][m] \cap parts[p][n] # {} =>
            \E d \in {m, n} : d = "develop" /\ parts[p][d] = made[p]
  BY DEF IInv, PartsInv, Parted
<1> QED BY <1>3, <1>6, <1>7, <1>8

\* One builder at a time, whatever is killed or fails, and its writing of
\* states.json with it, leaves every listed layer and merged directory there
\* (but for a layer that was being pulled again, and where the list had to be
\* made anew from the refs, for one that had not been checked out behind its);
\* and a build that ended well has listed its modules and no other of its
\* reference, with every file of the container in one of them: checkout_layer,
\* upsert_layer and merge_modules of local.rs under the commands of build.rs.
THEOREM BuildsSoundHolds == Spec => []BuildsSound
<1>1. IInv => BuildsSound
  BY BuiltListed DEF IInv, LoneInv, BuildsSound, LoneSound
<1>2. Spec => []IInv
  BY InitKept, NextKept, PTL DEF Spec
<1> QED BY <1>1, <1>2, PTL

=============================================================================
