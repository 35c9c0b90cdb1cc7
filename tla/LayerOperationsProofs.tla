----------------------- MODULE LayerOperationsProofs -----------------------
(***************************************************************************)
(* What operations of LayerStore leave behind, for any packages, versions, *)
(* modules and containers: the merged directories, and the bases of        *)
(* installed apps.                                                         *)
(***************************************************************************)
EXTENDS LayerStoreProofs

-----------------------------------------------------------------------------
(* The merged directories.                                                 *)

\* What can fail, or goes on with something else; the pull of a base only fails
\* for the base.
May == {"install", "import", "checkout", "export", "unexport", "retire", "update", "updated", "next"}
Calm(e, r) == e[1] \notin May \/ (r \notin Apps /\ e[1] \in {"install", "checkout"} /\ e[2].ref = r)

MergeSoon(s, i, r) == \E m \in i..Len(s) : s[m] = <<"merge">> /\ \A k \in i..(m - 1) : Calm(s[k], r)
Merges(s, i)       == \E m \in i..Len(s) : s[m] = <<"merge">>

Bring(e)       == e[1] \in {"install", "import", "upsert"}
Restored(s, r) == <<"merge">> \in Items(s) \/ <<"retire", r>> \in Items(s)

\* Every module that comes is merged, or taken back and merged.
Joined(s, back) == \A i \in 1..Len(s) : Bring(s[i]) =>
    MergeSoon(s, i + 1, s[i][2].ref) \/ (Restored(back, s[i][2].ref) /\ Merges(s, i + 1))

LEMMA SoonFirst ==
    ASSUME NEW s, NEW t, IsSeq(s), IsSeq(t), NEW i \in Nat \ {0}
    PROVE  /\ \A r : MergeSoon(s, i, r) => MergeSoon(s \o t, i, r)
           /\ Merges(s, i) => Merges(s \o t, i)
<1>1. /\ Len(s) \in Nat /\ Len(t) \in Nat /\ Len(s \o t) = Len(s) + Len(t)
      /\ \A k \in 1..Len(s) : (s \o t)[k] = s[k]
  BY Concat
<1> DEFINE u == s \o t
           n == Len(s)
<1>2. n \in Nat /\ n <= Len(u) /\ Len(u) \in Nat /\ \A k \in 1..n : u[k] = s[k]
  BY <1>1
<1> HIDE DEF u
<1>3. ASSUME NEW r, MergeSoon(s, i, r) PROVE MergeSoon(u, i, r)
  <2>1. PICK m \in i..n : s[m] = <<"merge">> /\ \A k \in i..(m - 1) : Calm(s[k], r)
    BY <1>3 DEF MergeSoon
  <2> HIDE DEF n
  <2>2. m \in i..Len(u) /\ u[m] = <<"merge">> /\ \A k \in i..(m - 1) : u[k] = s[k]
    BY <1>2, <2>1
  <2> QED BY <2>1, <2>2 DEF MergeSoon
<1>4. ASSUME Merges(s, i) PROVE Merges(u, i)
  <2>1. PICK m \in i..n : s[m] = <<"merge">>
    BY <1>4 DEF Merges
  <2> HIDE DEF n
  <2>2. m \in i..Len(u) /\ u[m] = <<"merge">>
    BY <1>2, <2>1
  <2> QED BY <2>2 DEF Merges
<1> QED BY <1>3, <1>4 DEF u

LEMMA SoonLast ==
    ASSUME NEW s, NEW t, IsSeq(s), IsSeq(t), NEW i \in Nat \ {0}
    PROVE  /\ \A r : MergeSoon(t, i, r) => MergeSoon(s \o t, i + Len(s), r)
           /\ Merges(t, i) => Merges(s \o t, i + Len(s))
<1> DEFINE u == s \o t
           n == Len(s)
           l == Len(t)
<1>1. /\ n \in Nat /\ l \in Nat /\ Len(u) = n + l
      /\ \A k \in (n + 1)..(n + l) : u[k] = t[k - n]
  BY Concat
<1> HIDE DEF u, n, l
<1>2. \A k \in i..l : k + n \in (i + n)..(n + l) /\ k + n \in (n + 1)..(n + l) /\ k + n - n = k
  BY <1>1
<1>3. \A k \in i..l : u[k + n] = t[k]
  BY <1>1, <1>2
<1>4. ASSUME NEW r, MergeSoon(t, i, r) PROVE MergeSoon(u, i + n, r)
  <2>1. PICK m \in i..l : t[m] = <<"merge">> /\ \A k \in i..(m - 1) : Calm(t[k], r)
    BY <1>4 DEF MergeSoon, l
  <2>2. u[m + n] = <<"merge">> /\ m + n \in (i + n)..Len(u)
    BY <1>1, <1>2, <1>3, <2>1
  <2>3. ASSUME NEW k \in (i + n)..(m + n - 1) PROVE Calm(u[k], r)
    <3>1. k - n \in i..(m - 1) /\ k - n \in i..l /\ k - n + n = k
      BY <1>1, <2>1
    <3>2. u[k] = t[k - n]
      BY <1>3, <3>1
    <3> QED BY <2>1, <3>1, <3>2
  <2> DEFINE m2 == m + n
             i2 == i + n
  <2>4. m2 \in i2..Len(u) /\ u[m2] = <<"merge">>
    BY <2>2
  <2>4b. ASSUME NEW k \in i2..(m2 - 1) PROVE Calm(u[k], r)
    <3>1. k \in (i + n)..(m + n - 1)
      BY <1>1, <2>1
    <3> QED BY <2>3, <3>1
  <2> HIDE DEF m2, i2
  <2>5. MergeSoon(u, i2, r)
    BY <2>4, <2>4b DEF MergeSoon
  <2> QED BY <2>5 DEF i2
<1>5. ASSUME Merges(t, i) PROVE Merges(u, i + n)
  <2>1. PICK m \in i..l : t[m] = <<"merge">>
    BY <1>5 DEF Merges, l
  <2>2. u[m + n] = <<"merge">> /\ m + n \in (i + n)..Len(u)
    BY <1>1, <1>2, <1>3, <2>1
  <2> QED BY <2>2 DEF Merges
<1> QED BY <1>4, <1>5 DEF u, n

\* It is no later for what comes before.
LEMMA SoonBefore ==
    ASSUME NEW s, NEW i \in Nat \ {0}, NEW j \in Nat \ {0}, i <= j, Len(s) \in Nat
    PROVE  /\ \A r : MergeSoon(s, j, r) /\ (\A k \in i..(j - 1) : Calm(s[k], r)) => MergeSoon(s, i, r)
           /\ Merges(s, j) => Merges(s, i)
<1>1. ASSUME NEW r, MergeSoon(s, j, r), \A k \in i..(j - 1) : Calm(s[k], r) PROVE MergeSoon(s, i, r)
  <2>1. PICK m \in j..Len(s) : s[m] = <<"merge">> /\ \A k \in j..(m - 1) : Calm(s[k], r)
    BY <1>1 DEF MergeSoon
  <2>2. m \in i..Len(s) /\ \A k \in i..(m - 1) : k \in i..(j - 1) \/ k \in j..(m - 1)
    BY <2>1
  <2> QED BY <1>1, <2>1, <2>2 DEF MergeSoon
<1>2. Merges(s, j) => Merges(s, i)
  BY DEF Merges
<1> QED BY <1>1, <1>2

LEMMA SoonNext ==
    ASSUME NEW s, NEW i \in Nat \ {0}, Len(s) \in Nat, s[i] # <<"merge">>
    PROVE  /\ \A r : MergeSoon(s, i, r) => MergeSoon(s, i + 1, r) /\ Calm(s[i], r)
           /\ Merges(s, i) => Merges(s, i + 1)
<1>1. ASSUME NEW r, MergeSoon(s, i, r) PROVE MergeSoon(s, i + 1, r) /\ Calm(s[i], r)
  <2>1. PICK m \in i..Len(s) : s[m] = <<"merge">> /\ \A k \in i..(m - 1) : Calm(s[k], r)
    BY <1>1 DEF MergeSoon
  <2>2. m \in (i + 1)..Len(s) /\ i \in i..(m - 1) /\ \A k \in (i + 1)..(m - 1) : k \in i..(m - 1)
    BY <2>1
  <2> QED BY <2>1, <2>2 DEF MergeSoon
<1>2. Merges(s, i) => Merges(s, i + 1)
  <2> SUFFICES ASSUME NEW m \in i..Len(s), s[m] = <<"merge">> PROVE Merges(s, i + 1)
    BY DEF Merges
  <2>1. m \in (i + 1)..Len(s)
    OBVIOUS
  <2> QED BY <2>1 DEF Merges
<1> QED BY <1>1, <1>2

LEMMA JoinedConcat ==
    ASSUME NEW s, NEW t, NEW back, IsSeq(s), IsSeq(t), Joined(s, back), Joined(t, back)
    PROVE  Joined(s \o t, back)
<1> DEFINE u == s \o t
           n == Len(s)
           l == Len(t)
<1>1. /\ n \in Nat /\ l \in Nat /\ Len(u) = n + l
      /\ \A k \in 1..n : u[k] = s[k]
      /\ \A k \in (n + 1)..(n + l) : u[k] = t[k - n]
  BY Concat
<1>2. ASSUME NEW i \in 1..n, Bring(u[i])
      PROVE  MergeSoon(u, i + 1, u[i][2].ref) \/ (Restored(back, u[i][2].ref) /\ Merges(u, i + 1))
  <2>1. u[i] = s[i] /\ i + 1 \in Nat \ {0}
    BY <1>1
  <2>2. MergeSoon(s, i + 1, s[i][2].ref) \/ (Restored(back, s[i][2].ref) /\ Merges(s, i + 1))
    BY <1>2, <2>1 DEF Joined
  <2> HIDE DEF u
  <2> QED BY <2>1, <2>2, SoonFirst DEF u
<1>3. ASSUME NEW i \in (n + 1)..(n + l), Bring(u[i])
      PROVE  MergeSoon(u, i + 1, u[i][2].ref) \/ (Restored(back, u[i][2].ref) /\ Merges(u, i + 1))
  <2>1. u[i] = t[i - n] /\ i - n \in 1..l /\ i - n + 1 \in Nat \ {0} /\ (i - n + 1) + n = i + 1
    BY <1>1
  <2>2. MergeSoon(t, i - n + 1, t[i - n][2].ref) \/ (Restored(back, t[i - n][2].ref) /\ Merges(t, i - n + 1))
    BY <1>3, <2>1 DEF Joined
  <2>3. MergeSoon(u, (i - n + 1) + n, t[i - n][2].ref) \/ (Restored(back, t[i - n][2].ref) /\ Merges(u, (i - n + 1) + n))
    BY <2>1, <2>2, SoonLast
  <2> QED BY <2>1, <2>3
<1> HIDE DEF u, n, l
<1>4. \A i \in 1..Len(u) : i \in 1..n \/ i \in (n + 1)..(n + l)
  BY <1>1
<1>5. Joined(u, back)
  BY <1>2, <1>3, <1>4 DEF Joined
<1> QED BY <1>5 DEF u

LEMMA JoinedFree ==
    ASSUME NEW s, NEW back, \A e \in Items(s) : ~Bring(e)
    PROVE  Joined(s, back)
BY DEF Joined, Items

\* A merge that follows.
LEMMA JoinedMerge ==
    ASSUME NEW s, NEW back, IsSeq(s),
           \A i \in 1..Len(s) : Bring(s[i]) => \/ Restored(back, s[i][2].ref)
                                              \/ MergeSoon(s, i + 1, s[i][2].ref)
                                              \/ \A k \in (i + 1)..Len(s) : Calm(s[k], s[i][2].ref)
    PROVE  Joined(s \o Merging, back)
<1> DEFINE u == s \o Merging
           n == Len(s)
           e == <<"merge">>
<1>1. IsSeq(Merging) /\ Len(Merging) = 1 /\ Merging[1] = e
  BY ItemsOne DEF Merging
<1>2. n \in Nat /\ Len(u) = n + 1 /\ (\A k \in 1..n : u[k] = s[k]) /\ u[n + 1] = e
  <2> DEFINE l == Len(Merging)
  <2>0. /\ n \in Nat /\ Len(u) = n + l /\ (\A k \in 1..n : u[k] = s[k])
        /\ \A k \in (n + 1)..(n + l) : u[k] = Merging[k - n]
    BY <1>1, Concat
  <2>00. l = 1
    BY <1>1
  <2> HIDE DEF l, u, n
  <2>1. /\ n \in Nat /\ Len(u) = n + 1 /\ (\A k \in 1..n : u[k] = s[k])
        /\ \A k \in (n + 1)..(n + 1) : u[k] = Merging[k - n]
    BY <2>0, <2>00
  <2>2. n + 1 \in (n + 1)..(n + 1) /\ n + 1 - n = 1
    BY <2>1
  <2> QED BY <1>1, <2>1, <2>2
<1> HIDE DEF u, n, e
<1> SUFFICES ASSUME NEW i \in 1..(n + 1), Bring(u[i])
             PROVE  MergeSoon(u, i + 1, u[i][2].ref) \/ (Restored(back, u[i][2].ref) /\ Merges(u, i + 1))
  BY <1>2 DEF Joined, u
<1>3. i \in 1..n /\ u[i] = s[i]
  <2>1. ~Bring(e)
    BY DEF e, Bring
  <2> QED BY <1>2, <2>1
<1>4. n + 1 \in (i + 1)..Len(u) /\ u[n + 1] = <<"merge">>
  BY <1>2, <1>3 DEF e
<1>5. CASE Restored(back, s[i][2].ref)
  BY <1>3, <1>4, <1>5 DEF Merges
<1>6. CASE MergeSoon(s, i + 1, s[i][2].ref)
  <2>1. i + 1 \in Nat \ {0}
    BY <1>3, <1>2
  <2>2. MergeSoon(u, i + 1, s[i][2].ref)
    BY <1>1, <1>6, <2>1, SoonFirst DEF u
  <2> QED BY <1>3, <2>2
<1>7. CASE \A k \in (i + 1)..n : Calm(s[k], s[i][2].ref)
  <2>1. \A k \in (i + 1)..(n + 1 - 1) : k \in 1..n /\ Calm(u[k], u[i][2].ref)
    BY <1>2, <1>3, <1>7
  <2> DEFINE r == u[i][2].ref
             m == n + 1
  <2>2. ASSUME NEW k \in (i + 1)..(m - 1) PROVE Calm(u[k], r)
    <3>1. k \in (i + 1)..(n + 1 - 1)
      BY <1>2
    <3> QED BY <2>1, <3>1
  <2>3. m \in (i + 1)..Len(u) /\ u[m] = <<"merge">>
    BY <1>4
  <2> HIDE DEF r, m
  <2>4. MergeSoon(u, i + 1, r)
    BY <2>2, <2>3 DEF MergeSoon
  <2> QED BY <2>4 DEF r
<1> QED BY <1>3, <1>5, <1>6, <1>7 DEF n


\* What can take an extra module away is followed by a merge.
Takeaway  == {"mark", "remove", "drop", "unimport"}
Extras(s) == \A i \in 1..Len(s) : s[i][1] \in Takeaway => \A r : MergeSoon(s, i + 1, r)

Tidy(s, back) == IsSeq(s) /\ Joined(s, back) /\ Extras(s)
\* It brings nothing and takes no extra module away.
Free(s) == IsSeq(s) /\ \A e \in Items(s) : ~Bring(e) /\ e[1] \notin Takeaway

LEMMA ExtrasConcat ==
    ASSUME NEW s, NEW t, IsSeq(s), IsSeq(t), Extras(s), Extras(t)
    PROVE  Extras(s \o t)
<1> DEFINE u == s \o t
           n == Len(s)
           l == Len(t)
<1>1. /\ n \in Nat /\ l \in Nat /\ Len(u) = n + l
      /\ \A k \in 1..n : u[k] = s[k]
      /\ \A k \in (n + 1)..(n + l) : u[k] = t[k - n]
  BY Concat
<1>2. ASSUME NEW i \in 1..n, u[i][1] \in Takeaway, NEW r PROVE MergeSoon(u, i + 1, r)
  <2>1. u[i] = s[i] /\ i + 1 \in Nat \ {0}
    BY <1>1
  <2>2. MergeSoon(s, i + 1, r)
    BY <1>2, <2>1 DEF Extras
  <2> QED BY <2>1, <2>2, SoonFirst
<1>3. ASSUME NEW i \in (n + 1)..(n + l), u[i][1] \in Takeaway, NEW r PROVE MergeSoon(u, i + 1, r)
  <2>1. u[i] = t[i - n] /\ i - n \in 1..l /\ i - n + 1 \in Nat \ {0} /\ (i - n + 1) + n = i + 1
    BY <1>1
  <2>2. MergeSoon(t, i - n + 1, r)
    BY <1>3, <2>1 DEF Extras
  <2>3. MergeSoon(u, (i - n + 1) + n, r)
    BY <2>1, <2>2, SoonLast
  <2> QED BY <2>1, <2>3
<1> HIDE DEF u, n, l
<1>4. \A i \in 1..Len(u) : i \in 1..n \/ i \in (n + 1)..(n + l)
  BY <1>1
<1>5. Extras(u)
  BY <1>2, <1>3, <1>4 DEF Extras
<1> QED BY <1>5 DEF u

LEMMA TidyConcat ==
    ASSUME NEW s, NEW t, NEW back, Tidy(s, back), Tidy(t, back)
    PROVE  Tidy(s \o t, back)
BY Concat, JoinedConcat, ExtrasConcat DEF Tidy

LEMMA TidyFree ==
    ASSUME NEW s, NEW back, Free(s)
    PROVE  Tidy(s, back)
BY DEF Tidy, Free, Joined, Extras, Items

LEMMA FreeConcat ==
    ASSUME NEW s, NEW t, Free(s), Free(t)
    PROVE  Free(s \o t)
BY Concat, ItemsConcat DEF Free

LEMMA FreeOne ==
    ASSUME NEW e, ~Bring(e), e[1] \notin Takeaway
    PROVE  Free(<<e>>)
BY ItemsOne DEF Free

LEMMA FreeLists ==
    /\ Free(<<>>) /\ Free(Merging) /\ Free(PruneAfter) /\ Free(<<<<"prune">>>>)
    /\ \A r, M : Free(<<<<"export", r, M>>>>) /\ Free(<<<<"unexport", r, M>>>>)
    /\ \A r : Free(<<<<"retire", r>>>>) /\ Free(<<<<"remove_all", r>>>>)
    /\ \A r, M : Free(<<<<"unexport", r, M>>, <<"retire", r>>>>)
    /\ \A a : Free(<<<<"updated", a>>>>) /\ Free(<<<<"next", a>>>>)
<1> USE DEF Bring, Takeaway
<1>1. Free(<<>>)
  BY ItemsNone DEF Free
<1>2. Free(Merging) /\ Free(PruneAfter) /\ Free(<<<<"prune">>>>)
  BY FreeOne DEF Merging, PruneAfter
<1>3. ASSUME NEW r, NEW M PROVE Free(<<<<"export", r, M>>>>) /\ Free(<<<<"unexport", r, M>>>>)
  BY FreeOne
<1>4. ASSUME NEW r PROVE Free(<<<<"retire", r>>>>) /\ Free(<<<<"remove_all", r>>>>)
  BY FreeOne
<1>5. ASSUME NEW r, NEW M PROVE Free(<<<<"unexport", r, M>>, <<"retire", r>>>>)
  <2> DEFINE e == <<"unexport", r, M>>
             f == <<"retire", r>>
  <2>1. e[1] = "unexport" /\ f[1] = "retire"
    OBVIOUS
  <2> HIDE DEF e, f
  <2>2. IsSeq(<<e, f>>) /\ Items(<<e, f>>) = {e, f}
    BY ItemsTwo
  <2>3. Free(<<e, f>>)
    BY <2>1, <2>2 DEF Free
  <2> QED BY <2>3 DEF e, f
<1>6. ASSUME NEW a PROVE Free(<<<<"updated", a>>>>) /\ Free(<<<<"next", a>>>>)
  BY FreeOne
<1> QED BY <1>1, <1>2, <1>3, <1>4, <1>5, <1>6

LEMMA FreeReplace ==
    ASSUME NEW r, NEW old, NEW after, Free(after)
    PROVE  Free(Replace(r, old, after))
<1> DEFINE x == <<<<"export", r, {"binary", "develop"}>>>>
           v == <<<<"unexport", Newest(old), {"binary", "develop"}>>, <<"retire", Newest(old)>>>>
<1>1. Free(x) /\ Free(v) /\ Free(<<>>)
  BY FreeLists
<1> HIDE DEF x, v
<1>2. Free(x \o (IF old = {} THEN <<>> ELSE v \o after))
  BY <1>1, FreeConcat
<1> QED BY <1>2 DEF x, v, Replace

\* What is pulled is taken back, or merged at once.
LEMMA JoinedBack ==
    ASSUME NEW s, NEW back, IsSeq(s), \A e \in Items(s) : e[1] \notin Takeaway,
           \A e \in Items(s) : Bring(e) => Restored(back, e[2].ref)
    PROVE  Tidy(s \o Merging, back)
<1>1. Joined(s \o Merging, back)
  BY JoinedMerge DEF Items
<1>2. Extras(s) /\ IsSeq(Merging) /\ Extras(Merging)
  BY TidyFree, FreeLists DEF Extras, Items, Tidy
<1> QED BY <1>1, <1>2, ExtrasConcat, Concat DEF Tidy

\* The pull of one base.
Based(s) == IsSeq(s) /\ (\E b : b \notin Apps /\ \A e \in Items(s) : e[1] = "install" /\ e[2].ref = b)

LEMMA JoinedBase ==
    ASSUME NEW s, NEW t, NEW back, IsSeq(s), Based(t), \A e \in Items(s) : e[1] \notin Takeaway,
           \A e \in Items(s) : Bring(e) => Restored(back, e[2].ref)
    PROVE  Tidy((s \o t) \o Merging, back)
<1> DEFINE u == s \o t
           n == Len(s)
           l == Len(t)
<1>1. PICK b : b \notin Apps /\ \A e \in Items(t) : e[1] = "install" /\ e[2].ref = b
  BY DEF Based
<1>2. /\ n \in Nat /\ l \in Nat /\ Len(u) = n + l /\ IsSeq(u)
      /\ \A k \in 1..n : u[k] = s[k]
      /\ \A k \in (n + 1)..(n + l) : u[k] = t[k - n]
  BY Concat DEF Based
<1> HIDE DEF u, n, l
<1>3. \A k \in 1..n : u[k] \in Items(s)
  BY <1>2 DEF Items, n
<1>4. ASSUME NEW k \in (n + 1)..(n + l) PROVE u[k] \in Items(t)
  <2>1. u[k] = t[k - n] /\ k - n \in 1..l
    BY <1>2
  <2> QED BY <2>1 DEF Items, l
<1>5. ASSUME NEW i \in 1..Len(u), Bring(u[i])
      PROVE  Restored(back, u[i][2].ref) \/ \A k \in (i + 1)..Len(u) : Calm(u[k], u[i][2].ref)
  <2>1. CASE i \in 1..n
    BY <1>3, <1>5, <2>1
  <2>2. CASE i \in (n + 1)..(n + l)
    <3>1. u[i][2].ref = b
      BY <1>1, <1>4, <2>2
    <3>2. ASSUME NEW k \in (i + 1)..Len(u) PROVE Calm(u[k], b)
      <4>1. k \in (n + 1)..(n + l)
        BY <1>2, <2>2
      <4> QED BY <1>1, <1>4, <4>1 DEF Calm
    <3> QED BY <3>1, <3>2
  <2> QED BY <1>2, <2>1, <2>2
<1>6. Joined(u \o Merging, back)
  BY <1>2, <1>5, JoinedMerge
<1>7. \A e \in Items(u) : e[1] \notin Takeaway
  <2>1. \A e \in Items(s) \cup Items(t) : e[1] \notin Takeaway
    BY <1>1 DEF Takeaway
  <2> QED BY <2>1, ItemsConcat DEF Based, u
<1>8. Extras(u) /\ IsSeq(Merging) /\ Extras(Merging)
  BY <1>7, TidyFree, FreeLists DEF Extras, Items, Tidy
<1>9. Tidy(u \o Merging, back)
  BY <1>2, <1>6, <1>8, ExtrasConcat, Concat DEF Tidy
<1> QED BY <1>9 DEF u

LEMMA PlanBased == ASSUME NEW r, r \notin Apps, NEW M PROVE Based(Plan(r, M))
<1>1. \A e \in Items(Plan(r, M)) : e[1] = "install" /\ e[2].ref = r
  BY ItemsPlan
<1> QED BY <1>1, ItemsPlan DEF Based

\* The base chosen for an app is no app.
LEMMA NewestBase ==
    ASSUME NEW r \in Apps, Offers(BaseOf[r]) # {}
    PROVE  Newest(Offers(BaseOf[r])) \in Offers(BaseOf[r]) /\ Newest(Offers(BaseOf[r])) \in Refs \ Apps
<1> DEFINE id == BaseOf[r]
<1>1. Offers(id) \subseteq Refs /\ \A b \in Offers(id) : b.id = id
  BY References
<1>2. id \notin AppIds
  BY KindAssumption
<1>3. \A b \in Offers(id) : b \notin Apps
  BY <1>1, <1>2, References
<1> QED BY <1>1, <1>3, Latest

LEMMA MissingBased ==
    ASSUME NEW r \in Apps, HasBase(r)
    PROVE  /\ Based(MissingBase(r)) /\ \A back : Tidy(EnsureBase(r), back)
           /\ \A e \in Items(EnsureBase(r)) : e[1] \notin Takeaway
<1>1. CASE OfId(BaseOf[r]) # {}
  <2>1. MissingBase(r) = <<>> /\ EnsureBase(r) = <<>>
    BY <1>1 DEF MissingBase, EnsureBase
  <2>2. \E b : b \notin Apps
    BY NoSetContainsEverything
  <2> QED BY <2>1, <2>2, ItemsNone, FreeLists, TidyFree DEF Based
<1>2. CASE OfId(BaseOf[r]) = {}
  <2>1. MissingBase(r) = Plan(Newest(Offers(BaseOf[r])), {"binary"}) /\ EnsureBase(r) = MissingBase(r) \o Merging
    BY <1>2 DEF MissingBase, EnsureBase
  <2>2. Based(MissingBase(r))
    BY <1>2, <2>1, NewestBase, PlanBased DEF HasBase
  <2>3. ASSUME NEW back PROVE Tidy(MissingBase(r) \o Merging, back)
    <3>1. IsSeq(<<>>) /\ Items(<<>>) = {} /\ <<>> \o MissingBase(r) = MissingBase(r)
      BY <2>2, ItemsNone DEF Based, IsSeq
    <3>2. Tidy((<<>> \o MissingBase(r)) \o Merging, back)
      BY <2>2, <3>1, JoinedBase
    <3> QED BY <3>1, <3>2
  <2>4. \A e \in Items(MissingBase(r) \o Merging) : e[1] \notin Takeaway
    <3>1. \A e \in Items(MissingBase(r)) \cup Items(Merging) : e[1] \notin Takeaway
      BY <2>2, FreeLists DEF Based, Free, Takeaway
    <3> QED BY <2>2, <3>1, FreeLists, ItemsConcat DEF Based, Free
  <2> QED BY <2>1, <2>2, <2>3, <2>4
<1> QED BY <1>1, <1>2


\* What is taken away is followed by nothing that can fail before the merge.
LEMMA ExtrasMerge ==
    ASSUME NEW s, IsSeq(s),
           \A i \in 1..Len(s) : s[i][1] \in Takeaway => \A k \in (i + 1)..Len(s) : s[k][1] \notin May
    PROVE  Extras(s \o Merging)
<1> DEFINE u == s \o Merging
           n == Len(s)
           e == <<"merge">>
<1>1. IsSeq(Merging) /\ Len(Merging) = 1 /\ Merging[1] = e
  BY ItemsOne DEF Merging
<1>2. n \in Nat /\ Len(u) = n + 1 /\ (\A k \in 1..n : u[k] = s[k]) /\ u[n + 1] = e
  <2> DEFINE l == Len(Merging)
  <2>0. /\ n \in Nat /\ Len(u) = n + l /\ (\A k \in 1..n : u[k] = s[k])
        /\ \A k \in (n + 1)..(n + l) : u[k] = Merging[k - n]
    BY <1>1, Concat
  <2>00. l = 1
    BY <1>1
  <2> HIDE DEF l, u, n
  <2>1. /\ n \in Nat /\ Len(u) = n + 1 /\ (\A k \in 1..n : u[k] = s[k])
        /\ \A k \in (n + 1)..(n + 1) : u[k] = Merging[k - n]
    BY <2>0, <2>00
  <2>2. n + 1 \in (n + 1)..(n + 1) /\ n + 1 - n = 1
    BY <2>1
  <2> QED BY <1>1, <2>1, <2>2
<1> HIDE DEF u, n, e
<1> SUFFICES ASSUME NEW i \in 1..(n + 1), u[i][1] \in Takeaway, NEW r
             PROVE  MergeSoon(u, i + 1, r)
  BY <1>2 DEF Extras, u
<1>3. i \in 1..n /\ u[i] = s[i]
  <2>1. e[1] \notin Takeaway
    BY DEF e, Takeaway
  <2> QED BY <1>2, <2>1
<1>4. n + 1 \in (i + 1)..Len(u) /\ u[n + 1] = <<"merge">>
  BY <1>2, <1>3 DEF e
<1>5. ASSUME NEW k \in (i + 1)..(n + 1 - 1) PROVE Calm(u[k], r)
  <2>1. k \in (i + 1)..n /\ k \in 1..n
    BY <1>2, <1>3
  <2>2. s[k][1] \notin May
    BY <1>3, <2>1 DEF n
  <2> QED BY <1>2, <2>1, <2>2 DEF Calm
<1> DEFINE m == n + 1
<1>7. m \in (i + 1)..Len(u) /\ u[m] = <<"merge">>
  BY <1>4
<1>8. ASSUME NEW k \in (i + 1)..(m - 1) PROVE Calm(u[k], r)
  <2>1. k \in (i + 1)..(n + 1 - 1)
    BY <1>2
  <2> QED BY <1>5, <2>1
<1> HIDE DEF m
<1> QED BY <1>7, <1>8 DEF MergeSoon

\* The last of them is merged, the ones before are already.
LEMMA JoinedLast ==
    ASSUME NEW s, NEW e, Tidy(s, <<>>), e[1] \notin Takeaway
    PROVE  Tidy((s \o <<e>>) \o Merging, <<>>)
<1> DEFINE u == s \o <<e>>
           n == Len(s)
<1>1. n \in Nat /\ Len(u) = n + 1 /\ IsSeq(u) /\ \A k \in 1..n : u[k] = s[k]
  BY Concat, ItemsOne DEF Tidy
<1>2. Free(<<>>) /\ ~ \E r : Restored(<<>>, r)
  BY FreeLists, ItemsNone DEF Restored
<1>3. ASSUME NEW i \in 1..Len(u), Bring(u[i])
      PROVE  MergeSoon(u, i + 1, u[i][2].ref) \/ \A k \in (i + 1)..Len(u) : Calm(u[k], u[i][2].ref)
  <2> DEFINE r == u[i][2].ref
  <2>1. CASE i \in 1..n
    <3>1. MergeSoon(s, i + 1, r) /\ i + 1 \in Nat \ {0}
      BY <1>1, <1>2, <1>3, <2>1 DEF Tidy, Joined
    <3> HIDE DEF r
    <3>2. MergeSoon(u, i + 1, r)
      BY <3>1, ItemsOne, SoonFirst DEF Tidy
    <3> QED BY <3>2 DEF r
  <2>2. CASE i = n + 1
    <3> HIDE DEF u, n
    <3>1. \A k \in (i + 1)..Len(u) : FALSE
      BY <1>1, <2>2
    <3> QED BY <3>1
  <2> HIDE DEF u, n
  <2> QED BY <1>1, <2>1, <2>2
<1> HIDE DEF u
<1>4. Joined(u \o Merging, <<>>)
  BY <1>1, <1>3, JoinedMerge
<1>5. Extras(u \o Merging)
  <2>1. IsSeq(<<e>>) /\ Len(<<e>>) = 1 /\ <<e>>[1] = e
    BY ItemsOne
  <2> DEFINE t == <<e>>
  <2> HIDE DEF t
  <2>2. Extras(t)
    BY <2>1 DEF Extras, t
  <2>3. Extras(u)
    BY <2>1, <2>2, ExtrasConcat DEF Tidy, t, u
  <2>4. Extras(Merging) /\ IsSeq(Merging)
    BY FreeLists, TidyFree DEF Tidy
  <2> QED BY <1>1, <2>3, <2>4, ExtrasConcat
<1>6. IsSeq(u \o Merging)
  BY <1>1, FreeLists, Concat DEF Free
<1> QED BY <1>4, <1>5, <1>6 DEF Tidy, u

\* The rollback of a bundle.
LEMMA BundleExtras ==
    ASSUME FiniteInv, NEW L \in SUBSET Files, NEW r, NEW all, all = SetToSeq(L), NEW back,
           back = IF L \cap Mains # {} THEN <<<<"unexport", r, {"binary", "develop"}>>>>
                  ELSE [i \in DOMAIN all |-> <<"unexport", r, {all[i].module}>>]
    PROVE  /\ Extras(back \o Each("unimport", Reverse(all)) \o Merging)
           /\ IsSeq(back \o Each("unimport", Reverse(all)) \o Merging)
           /\ \A x : Restored(back \o Each("unimport", Reverse(all)) \o Merging, x)
<1> DEFINE rev == Reverse(all)
           imp == Each("unimport", rev)
           u   == back \o imp
<1>0. all \in Seq(L) /\ Len(all) \in Nat /\ DOMAIN all = 1..Len(all)
  BY Finite, Listed
<1>1. rev \in Seq(L)
  BY <1>0 DEF Reverse
<1>2. IsSeq(imp) /\ \A e \in Items(imp) : e[1] = "unimport"
  BY <1>1, EachIs DEF IsSeq
<1>3. IsSeq(back) /\ \A e \in Items(back) : e[1] = "unexport"
  <2>1. CASE L \cap Mains # {}
    <3>1. back = <<<<"unexport", r, {"binary", "develop"}>>>>
      BY <2>1
    <3> DEFINE e == <<"unexport", r, {"binary", "develop"}>>
    <3>2. e[1] = "unexport" /\ back = <<e>>
      BY <3>1
    <3> HIDE DEF e
    <3> QED BY <3>2, ItemsOne
  <2>2. CASE L \cap Mains = {}
    <3>1. back = [i \in 1..Len(all) |-> <<"unexport", r, {all[i].module}>>]
      BY <1>0, <2>2
    <3> DEFINE n == Len(all)
    <3>2. n \in Nat /\ back = [i \in 1..n |-> back[i]]
      BY <1>0, <3>1
    <3>3. \A i \in 1..n : back[i][1] = "unexport"
      BY <3>1
    <3> HIDE DEF n
    <3>4. Table(back, n)
      BY <3>2, Tabled
    <3>5. ASSUME NEW e \in Items(back) PROVE e[1] = "unexport"
      <4>1. PICK i \in 1..n : e = back[i]
        BY <3>4 DEF Table
      <4> QED BY <3>3, <4>1
    <3> QED BY <3>4, <3>5 DEF Table
  <2> QED BY <2>1, <2>2
<1> HIDE DEF imp, rev
<1>4. IsSeq(u) /\ Len(u) \in Nat /\ \A k \in 1..Len(u) : u[k] \in Items(back) \cup Items(imp)
  <2>1. IsSeq(u) /\ Len(u) \in Nat /\ Items(u) = Items(back) \cup Items(imp)
    BY <1>2, <1>3, Concat, ItemsConcat
  <2> HIDE DEF u
  <2>2. \A k \in 1..Len(u) : u[k] \in Items(u)
    BY DEF Items
  <2> QED BY <2>1, <2>2
<1>5. \A i \in 1..Len(u) : u[i][1] \in Takeaway => \A k \in (i + 1)..Len(u) : u[k][1] \notin May
  <2> DEFINE n == Len(back)
             l == Len(imp)
  <2>1. /\ n \in Nat /\ l \in Nat /\ Len(u) = n + l
        /\ \A k \in 1..n : u[k] = back[k]
        /\ \A k \in (n + 1)..(n + l) : u[k] = imp[k - n]
    BY <1>2, <1>3, Concat
  <2>2. \A k \in 1..n : u[k][1] = "unexport"
    BY <1>3, <2>1 DEF Items
  <2> HIDE DEF u, n, l
  <2>3. ASSUME NEW k \in (n + 1)..(n + l) PROVE u[k][1] = "unimport"
    <3>1. u[k] = imp[k - n] /\ k - n \in 1..l
      BY <2>1
    <3> QED BY <1>2, <3>1 DEF Items, l
  <2> QED BY <2>1, <2>2, <2>3 DEF Takeaway, May
<1> HIDE DEF u
<1>6. IsSeq(Merging) /\ <<"merge">> \in Items(Merging)
  BY ItemsOne DEF Merging
<1>7. <<"merge">> \in Items(u \o Merging)
  BY <1>4, <1>6, ItemsConcat
<1> QED BY <1>4, <1>5, <1>6, <1>7, ExtrasMerge, Concat DEF Restored, u, imp, rev


LEMMA RestoredPair ==
    ASSUME NEW r, NEW M
    PROVE  Restored(<<<<"retire", r>>>>, r) /\ Restored(<<<<"unexport", r, M>>, <<"retire", r>>>>, r)
<1> DEFINE e == <<"unexport", r, M>>
           f == <<"retire", r>>
<1> HIDE DEF e
<1>1. f \in Items(<<f>>) /\ f \in Items(<<e, f>>)
  BY ItemsOne, ItemsTwo
<1> QED BY <1>1 DEF Restored, e

LEMMA PlanTidy ==
    ASSUME NEW r, NEW M
    PROVE  /\ IsSeq(Plan(r, M)) /\ \A e \in Items(Plan(r, M)) : e[1] \notin Takeaway /\ e[2].ref = r
           /\ Items(Plan(r, M)) \cap Items(<<>>) = {}
<1>1. \A e \in Items(Plan(r, M)) : e[1] = "install" /\ e[2].ref = r
  BY ItemsPlan
<1> QED BY <1>1, ItemsPlan, ItemsNone DEF Takeaway

\* What a job begins with is merged; in its rollback, too.
BegunTidy == Tidy(todo', undo') /\ IsSeq(undo') /\ Extras(undo')

LEMMA Undone == ASSUME NEW s, Free(s) PROVE IsSeq(s) /\ Extras(s)
BY TidyFree DEF Free, Tidy

LEMMA JobInstalls ==
    ASSUME \/ \E r \in Apps, M \in SUBSET {"binary", "develop"}, b \in BOOLEAN : Install(r, M, b)
           \/ \E r \in Refs, b \in BOOLEAN : InstallBase(r, b)
           \/ \E r \in Apps : InstallExtra(r, "develop")
    PROVE  BegunTidy
<1>1. ASSUME NEW r \in Apps, NEW M \in SUBSET {"binary", "develop"}, NEW b \in BOOLEAN, Install(r, M, b)
      PROVE  BegunTidy
  <2> DEFINE old  == Old(r, b)
             more == IF old = {} THEN {} ELSE ModulesOf(Newest(old))
             one  == Plan(r, M \cup more)
             back == <<<<"unexport", r, {"binary", "develop"}>>, <<"retire", r>>>>
  <2>1. Begin(one \o MissingBase(r) \o Merging \o Replace(r, old, PruneAfter), back) /\ HasBase(r)
    BY <1>1 DEF Install
  <2>2. Restored(back, r) /\ Free(back)
    BY RestoredPair, FreeLists
  <2>3. IsSeq(one) /\ \A e \in Items(one) : e[1] \notin Takeaway /\ e[2].ref = r
    BY PlanTidy
  <2>4. Free(Replace(r, old, PruneAfter))
    BY FreeReplace, FreeLists
  <2> HIDE DEF old, one, back
  <2>5. Tidy((one \o MissingBase(r)) \o Merging, back)
    BY <2>1, <2>2, <2>3, MissingBased, JoinedBase
  <2>6. Tidy(one \o MissingBase(r) \o Merging \o Replace(r, old, PruneAfter), back)
    BY <2>4, <2>5, TidyFree, TidyConcat
  <2> QED BY <2>1, <2>2, <2>6, BeginIs, Undone DEF BegunTidy
<1>2. ASSUME NEW r \in Refs, NEW b \in BOOLEAN, InstallBase(r, b)
      PROVE  BegunTidy
  <2> DEFINE one  == Plan(r, {"binary"})
             back == <<<<"retire", r>>>>
  <2>1. Begin(one \o Merging, back)
    BY <1>2 DEF InstallBase
  <2>2. Restored(back, r) /\ Free(back)
    BY RestoredPair, FreeLists
  <2>3. IsSeq(one) /\ \A e \in Items(one) : e[1] \notin Takeaway /\ e[2].ref = r
    BY PlanTidy
  <2> HIDE DEF one, back
  <2>4. Tidy(one \o Merging, back)
    BY <2>2, <2>3, JoinedBack
  <2> QED BY <2>1, <2>2, <2>4, BeginIs, Undone DEF BegunTidy
<1>3. ASSUME NEW r \in Apps, InstallExtra(r, "develop")
      PROVE  BegunTidy
  <2> DEFINE one  == Plan(r, {"develop"})
             back == <<<<"unexport", r, {"develop"}>>, <<"retire", r>>>>
             last == <<<<"export", r, {"develop"}>>>>
  <2>1. Begin(one \o Merging \o last, back)
    BY <1>3 DEF InstallExtra, BackExtra
  <2>2. Restored(back, r) /\ Free(back) /\ Free(last)
    BY RestoredPair, FreeLists
  <2>3. IsSeq(one) /\ \A e \in Items(one) : e[1] \notin Takeaway /\ e[2].ref = r
    BY PlanTidy
  <2> HIDE DEF one, back, last
  <2>4. Tidy(one \o Merging, back)
    BY <2>2, <2>3, JoinedBack
  <2>5. Tidy(one \o Merging \o last, back)
    BY <2>2, <2>4, TidyFree, TidyConcat
  <2> QED BY <2>1, <2>2, <2>5, BeginIs, Undone DEF BegunTidy
<1> QED BY <1>1, <1>2, <1>3

LEMMA EachOne ==
    ASSUME NEW c
    PROVE  Each("import", <<c>>) = <<<<"import", c>>>>
<1> DEFINE s == <<c>>
           e == <<"import", c>>
<1>1. IsSeq(s) /\ Len(s) = 1 /\ s[1] = c
  BY ItemsOne
<1> HIDE DEF s
<1>2. Each("import", s) = [i \in 1..1 |-> <<"import", s[i]>>]
  BY <1>1 DEF Each
<1>3. [i \in 1..1 |-> <<"import", s[i]>>] = [i \in 1..1 |-> e]
  BY <1>1
<1> HIDE DEF e
<1>4. [i \in 1..1 |-> e] = <<e>>
  OBVIOUS
<1> QED BY <1>2, <1>3, <1>4 DEF s, e

LEMMA JobFiles ==
    ASSUME FiniteInv, \/ \E c \in Files : InstallLayer(c)
                      \/ \E L \in SUBSET Files : InstallUab(L)
    PROVE  BegunTidy
<1>1. ASSUME NEW c \in Files, InstallLayer(c)
      PROVE  BegunTidy
  <2> DEFINE r == c.ref
             e == <<"import", c>>
             old == OfId(r.id)
             after == Merging \o PruneAfter
             last == <<<<"export", r, {c.module}>>>>
             one == EnsureBase(r) \o <<e>> \o Merging \o Replace(r, old, after)
             two == <<e>> \o Merging \o last
  <2>1. r \in Apps /\ ((HasBase(r) /\ Begin(one, <<>>)) \/ Begin(two, <<>>))
    BY <1>1, EachOne DEF InstallLayer
  <2>2. e[1] \notin Takeaway
    BY DEF Takeaway
  <2>3. Free(Replace(r, old, after)) /\ Free(last) /\ Free(<<>>)
    BY FreeReplace, FreeLists, FreeConcat
  <2> HIDE DEF e, last, old, after, r
  <2>4. ASSUME HasBase(r) PROVE Tidy(one, <<>>)
    <3>1. Tidy((EnsureBase(r) \o <<e>>) \o Merging, <<>>)
      BY <2>1, <2>2, <2>4, MissingBased, JoinedLast
    <3> QED BY <2>3, <3>1, TidyFree, TidyConcat
  <2>5. Tidy(two, <<>>)
    <3>1. Tidy((<<>> \o <<e>>) \o Merging, <<>>)
      BY <2>2, <2>3, TidyFree, JoinedLast
    <3>2. <<>> \o <<e>> = <<e>>
      <4>1. IsSeq(<<e>>)
        BY ItemsOne
      <4> DEFINE t == <<e>>
      <4> HIDE DEF t
      <4> QED BY <4>1 DEF IsSeq, t
    <3>3. Tidy(<<e>> \o Merging, <<>>)
      BY <3>1, <3>2
    <3> QED BY <2>3, <3>3, TidyFree, TidyConcat
  <2> HIDE DEF one, two
  <2> QED BY <2>1, <2>3, <2>4, <2>5, BeginIs, Undone DEF BegunTidy
<1>2. ASSUME NEW L \in SUBSET Files, InstallUab(L)
      PROVE  BegunTidy
  <2> DEFINE r    == (CHOOSE c \in L : TRUE).ref
             all  == SetToSeq(L)
             old  == OfId(r.id)
             link == IF L \cap Mains # {} THEN Replace(r, old, PruneAfter)
                     ELSE [i \in DOMAIN all |-> <<"export", r, {all[i].module}>>]
             back == IF L \cap Mains # {} THEN <<<<"unexport", r, {"binary", "develop"}>>>>
                     ELSE [i \in DOMAIN all |-> <<"unexport", r, {all[i].module}>>]
             imp  == Each("import", all)
             undone == back \o Each("unimport", Reverse(all)) \o Merging
  <2>1. r \in Apps /\ HasBase(r) /\ Begin(EnsureBase(r) \o imp \o Merging \o link, undone)
    BY <1>2 DEF InstallUab
  <2>2. all = SetToSeq(L) /\ all \in Seq(L) /\ Len(all) \in Nat /\ DOMAIN all = 1..Len(all)
    BY Finite, Listed
  <2> HIDE DEF r, all
  <2>3. Extras(undone) /\ IsSeq(undone) /\ \A x : Restored(undone, x)
    BY <2>2, BundleExtras
  <2>4. Free(link)
    <3>1. CASE L \cap Mains # {}
      BY <3>1, FreeReplace, FreeLists
    <3>2. CASE L \cap Mains = {}
      <4>1. link = [i \in 1..Len(all) |-> <<"export", r, {all[i].module}>>]
        BY <2>2, <3>2
      <4> DEFINE n == Len(all)
      <4>2. n \in Nat /\ link = [i \in 1..n |-> link[i]]
        BY <2>2, <4>1
      <4>3. \A i \in 1..n : link[i][1] = "export"
        BY <4>1
      <4> HIDE DEF n, link
      <4>4. Table(link, n)
        BY <4>2, Tabled
      <4>5. ASSUME NEW e \in Items(link) PROVE e[1] = "export"
        <5>1. PICK i \in 1..n : e = link[i]
          BY <4>4 DEF Table
        <5> QED BY <4>3, <5>1
      <4> QED BY <4>4, <4>5 DEF Table, Free, Bring, Takeaway
    <3> QED BY <3>1, <3>2
  <2>5. IsSeq(imp) /\ \A e \in Items(imp) : e[1] = "import"
    <3>1. IsSeq(all)
      BY <2>2 DEF IsSeq
    <3> QED BY <3>1, EachIs
  <2> HIDE DEF link, undone, imp
  <2> DEFINE s == EnsureBase(r) \o imp
  <2>6. IsSeq(s) /\ \A e \in Items(s) : e[1] \notin Takeaway
    <3>1. IsSeq(EnsureBase(r)) /\ \A e \in Items(EnsureBase(r)) \cup Items(imp) : e[1] \notin Takeaway
      BY <2>1, <2>5, MissingBased DEF Tidy, Takeaway
    <3> QED BY <2>5, <3>1, Concat, ItemsConcat
  <2> HIDE DEF s
  <2>7. Tidy(s \o Merging, undone)
    BY <2>3, <2>6, JoinedBack
  <2>8. Tidy(s \o Merging \o link, undone)
    BY <2>4, <2>7, TidyFree, TidyConcat
  <2> QED BY <2>1, <2>3, <2>8, BeginIs DEF BegunTidy, s
<1> QED BY <1>1, <1>2

LEMMA JobOthers ==
    ASSUME FiniteInv, \/ \E r \in Apps : UninstallExtra(r, "develop")
                      \/ \E ids \in SUBSET {r.id : r \in Apps}, b \in BOOLEAN : Update(ids, b)
                      \/ \E r \in Refs : Uninstall(r)
                      \/ Prune
    PROVE  BegunTidy
<1>0. Free(<<>>)
  BY FreeLists
<1>1. ASSUME NEW r \in Apps, UninstallExtra(r, "develop") PROVE BegunTidy
  <2> DEFINE e == <<"unexport", r, {"develop"}>>
             f == <<"remove", r, "develop">>
             s == <<e, f>>
  <2>1. Begin(s \o Merging, <<>>)
    BY <1>1 DEF UninstallExtra
  <2>2. e[1] = "unexport" /\ f[1] = "remove"
    OBVIOUS
  <2> HIDE DEF e, f
  <2>3. IsSeq(s) /\ Len(s) = 2 /\ s[1] = e /\ s[2] = f
    BY ItemsTwo
  <2> HIDE DEF s
  <2>4. Extras(s \o Merging)
    <3>1. \A i \in 1..Len(s) : s[i][1] \in Takeaway => \A k \in (i + 1)..Len(s) : s[k][1] \notin May
      BY <2>2, <2>3 DEF Takeaway
    <3> QED BY <2>3, <3>1, ExtrasMerge
  <2>5. Joined(s \o Merging, <<>>)
    <3>1. \A i \in 1..Len(s) : ~Bring(s[i])
      BY <2>2, <2>3 DEF Bring
    <3> QED BY <2>3, <3>1, JoinedMerge
  <2>6. IsSeq(s \o Merging)
    BY <2>3, FreeLists, Concat DEF Free
  <2> QED BY <1>0, <2>1, <2>4, <2>5, <2>6, BeginIs, Undone DEF BegunTidy, Tidy
<1>2. ASSUME NEW ids \in SUBSET {r.id : r \in Apps}, NEW b \in BOOLEAN, Update(ids, b) PROVE BegunTidy
  <2>1. PICK plan, back : Made(plan, Asks) /\ Begin(plan, back)
    BY <1>2, UpdatePlans
  <2>2. undo' = <<>>
    BY <1>2 DEF Update, Begin, BeginAs
  <2>3. Free(plan)
    BY <2>1 DEF Made, Free, Asks, Items, Bring, Takeaway
  <2> QED BY <1>0, <2>1, <2>2, <2>3, BeginIs, TidyFree, Undone DEF BegunTidy
<1>3. ASSUME NEW r \in Refs, Uninstall(r) PROVE BegunTidy
  <2> DEFINE one == IF r \in Apps THEN <<<<"unexport", r, {"binary", "develop"}>>>> ELSE <<>>
             two == IF r \in Apps THEN PruneAfter ELSE <<>>
             all == one \o <<<<"remove_all", r>>>> \o two \o Merging
  <2>1. todo' = all /\ undo' = <<>>
    BY <1>3 DEF Uninstall, BeginAs
  <2>2. Free(one) /\ Free(two)
    BY FreeLists
  <2> HIDE DEF one, two
  <2>3. Free(all)
    BY <2>2, FreeLists, FreeConcat
  <2> HIDE DEF all
  <2> QED BY <1>0, <2>1, <2>3, TidyFree, Undone DEF BegunTidy
<1>4. CASE Prune
  <2>1. Begin(<<<<"prune">>>>, <<>>)
    BY <1>4 DEF Prune
  <2> QED BY <1>0, <2>1, FreeLists, BeginIs, TidyFree, Undone DEF BegunTidy
<1> QED BY <1>1, <1>2, <1>3, <1>4

LEMMA JobTidy ==
    ASSUME FiniteInv, Job
    PROVE  BegunTidy
BY JobInstalls, JobFiles, JobOthers DEF Job


LEMMA BasesBased ==
    ASSUME NEW n \in Apps, Offers(BaseOf[n]) # {}
    PROVE  Based(Bases(n)) /\ \A e \in Items(Bases(n)) : e[1] \notin Takeaway
<1> DEFINE b == Newest(Offers(BaseOf[n]))
<1>1. b \notin Apps
  BY NewestBase
<1>2. \A M : Based(Plan(b, M)) /\ \A e \in Items(Plan(b, M)) : e[1] \notin Takeaway
  BY <1>1, PlanBased, PlanTidy
<1>3. Based(<<>>) /\ Items(<<>>) = {}
  <2>1. \E x : x \notin Apps
    BY NoSetContainsEverything
  <2> QED BY <2>1, ItemsNone DEF Based
<1> QED BY <1>2, <1>3 DEF Bases

LEMMA UpdateTidy ==
    ASSUME TodoInv, ArgsInv, UpdateApp
    PROVE  BegunTidy
<1> USE DEF Kind, This
<1> DEFINE r    == This
           new  == Newer(r, todo[1][3])
           n    == Becomes(r, todo[1][3])
           own  == IF new THEN Plan(n, ModulesOf(r)) ELSE <<>>
           plan == own \o Bases(n)
           join == IF plan = <<>> THEN <<>> ELSE Merging
           link == IF new THEN Renewal(n, r) ELSE <<>>
           e0   == <<"next", IF plan = <<>> THEN "same" ELSE "changed">>
           mark == <<e0>>
           back == IF new THEN <<<<"unexport", n, Both>>, <<"retire", n>>>> ELSE <<>>
<1>1. /\ n \in Apps /\ todo' = plan \o join \o link \o mark \o Tail(todo) /\ undo' = back
      /\ Updatable(r, todo[1][3])
      /\ IsSeq(Tail(todo)) /\ \A e \in Items(Tail(todo)) : e[1] \in Asks
  BY UpdateIs
<1>2. Based(Bases(n)) /\ \A e \in Items(Bases(n)) : e[1] \notin Takeaway
  BY <1>1, BasesBased DEF Updatable
<1>3. IsSeq(own) /\ \A e \in Items(own) : e[1] \notin Takeaway /\ (Bring(e) => Restored(back, e[2].ref))
  <2>1. CASE new
    <3>1. Restored(back, n)
      BY <2>1, RestoredPair
    <3> QED BY <2>1, <3>1, PlanTidy
  <2>2. CASE ~new
    BY <2>2, ItemsNone
  <2> QED BY <2>1, <2>2
<1>4. Free(back) /\ Free(link) /\ Free(mark) /\ Free(Tail(todo))
  <2>1. Free(back)
    BY FreeLists
  <2>2. Free(Renewal(n, r))
    <3> DEFINE x == <<"export", n, Both>>
               y == <<"unexport", r, Both>>
               z == <<"retire", r>>
    <3>1. x[1] = "export" /\ y[1] = "unexport" /\ z[1] = "retire"
      OBVIOUS
    <3> HIDE DEF x, y, z
    <3>2. IsSeq(<<x, y, z>>) /\ Items(<<x, y, z>>) = {x, y, z}
      BY ItemsThree
    <3>3. Free(<<x, y, z>>)
      BY <3>1, <3>2 DEF Free, Bring, Takeaway
    <3> QED BY <3>3 DEF x, y, z, Renewal
  <2>3. Free(mark)
    <3>1. e0[1] = "next"
      OBVIOUS
    <3> HIDE DEF e0
    <3> QED BY <3>1, FreeOne DEF Bring, Takeaway
  <2>4. Free(Tail(todo))
    BY <1>1 DEF Free, Bring, Takeaway, Asks
  <2> QED BY <2>1, <2>2, <2>3, <2>4, FreeLists
<1> DEFINE t == Tail(todo)
<1> HIDE DEF own, back, link, mark, r, new, n, t
<1>5. Tidy(plan \o join, back)
  <2>1. CASE plan = <<>>
    <3>1. Free(<<>>) /\ plan \o join = <<>> \o <<>>
      BY <2>1, FreeLists
    <3> QED BY <3>1, FreeConcat, TidyFree
  <2>2. CASE plan # <<>>
    <3>1. Tidy((own \o Bases(n)) \o Merging, back)
      BY <1>2, <1>3, JoinedBase
    <3> QED BY <2>2, <3>1
  <2> QED BY <2>1, <2>2
<1> HIDE DEF plan, join
<1>6. Tidy(plan \o join \o link \o mark \o t, back)
  BY <1>4, <1>5, TidyFree, TidyConcat DEF t
<1> QED BY <1>1, <1>4, <1>6, Undone DEF BegunTidy, t

-----------------------------------------------------------------------------
\* A merge that comes comes after what takes the place of the first update.
LEMMA SoonGoes ==
    ASSUME IsSeq(todo), NEW s, Turn(s), NEW i \in Nat \ {0, 1}
    PROVE  /\ \A r : MergeSoon(todo, i, r) => MergeSoon(todo', i - 1 + Len(s), r)
           /\ Merges(todo, i) => Merges(todo', i - 1 + Len(s))
<1> DEFINE t == Tail(todo)
           m == Len(todo)
           j == i - 1
<1>1. IsSeq(t) /\ IsSeq(s) /\ m \in Nat \ {0} /\ Len(t) = m - 1 /\ todo' = s \o t
      /\ \A k \in 1..(m - 1) : t[k] = todo[k + 1]
  BY Rests DEF Turn
<1> HIDE DEF t, m
<1>2. j \in Nat \ {0} /\ \A k \in i..m : k - 1 \in j..(m - 1) /\ k - 1 \in 1..(m - 1) /\ k - 1 + 1 = k
  BY <1>1
<1>3. \A k \in i..m : t[k - 1] = todo[k]
  <2>1. ASSUME NEW k \in i..m PROVE t[k - 1] = todo[k]
    <3>1. k - 1 \in 1..(m - 1) /\ k - 1 + 1 = k
      BY <1>2
    <3>2. t[k - 1] = todo[k - 1 + 1]
      BY <1>1, <3>1
    <3> QED BY <3>1, <3>2
  <2> QED BY <2>1
<1>4. ASSUME NEW r, MergeSoon(todo, i, r) PROVE MergeSoon(t, j, r)
  <2>1. PICK x \in i..m : todo[x] = <<"merge">> /\ \A k \in i..(x - 1) : Calm(todo[k], r)
    BY <1>4 DEF MergeSoon, m
  <2> DEFINE y == x - 1
  <2>2. y \in j..Len(t) /\ t[y] = <<"merge">>
    BY <1>1, <1>2, <1>3, <2>1
  <2>3. ASSUME NEW k \in j..(y - 1) PROVE Calm(t[k], r)
    <3>1. k + 1 \in i..(x - 1) /\ k + 1 \in i..m /\ k + 1 - 1 = k
      BY <1>1, <1>2, <2>1
    <3>2. t[k + 1 - 1] = todo[k + 1]
      BY <1>3, <3>1
    <3> QED BY <2>1, <3>1, <3>2
  <2> HIDE DEF y, j
  <2> QED BY <2>2, <2>3 DEF MergeSoon
<1>5. ASSUME Merges(todo, i) PROVE Merges(t, j)
  <2>1. PICK x \in i..m : todo[x] = <<"merge">>
    BY <1>5 DEF Merges, m
  <2>2. x - 1 \in j..Len(t) /\ t[x - 1] = <<"merge">>
    BY <1>1, <1>2, <1>3, <2>1
  <2> HIDE DEF j
  <2> QED BY <2>2 DEF Merges
<1> HIDE DEF j
<1>6. /\ \A r : MergeSoon(t, j, r) => MergeSoon(s \o t, j + Len(s), r)
      /\ Merges(t, j) => Merges(s \o t, j + Len(s))
  BY <1>1, <1>2, SoonLast
<1> QED BY <1>1, <1>4, <1>5, <1>6 DEF j

\* So does one that comes from the first update on.
LEMMA SoonGoesOn ==
    ASSUME IsSeq(todo), NEW s, Turn(s), todo[1] # <<"merge">>
    PROVE  /\ \A r : MergeSoon(todo, 1, r) /\ (\A e \in Items(s) : Calm(e, r)) => MergeSoon(todo', 1, r)
           /\ Merges(todo, 1) => Merges(todo', 1)
<1> DEFINE l == Len(s)
<1>0. /\ IsSeq(todo') /\ l \in Nat /\ Len(todo) \in Nat \ {0} /\ Len(todo') \in Nat
      /\ \A k \in 1..l : todo'[k] = s[k] /\ s[k] \in Items(s)
  BY Turned
<1>1. /\ \A r : MergeSoon(todo, 1, r) => MergeSoon(todo, 2, r)
      /\ Merges(todo, 1) => Merges(todo, 2)
  <2>1. 1 \in Nat \ {0} /\ 1 + 1 = 2
    OBVIOUS
  <2> QED BY <1>0, <2>1, SoonNext
<1>2. /\ \A r : MergeSoon(todo, 2, r) => MergeSoon(todo', 1 + l, r)
      /\ Merges(todo, 2) => Merges(todo', 1 + l)
  <2>1. 2 \in Nat \ {0, 1} /\ 2 - 1 = 1
    OBVIOUS
  <2>2. /\ \A r : MergeSoon(todo, 2, r) => MergeSoon(todo', 2 - 1 + l, r)
        /\ Merges(todo, 2) => Merges(todo', 2 - 1 + l)
    BY <2>1, SoonGoes
  <2> QED BY <2>1, <2>2
<1> DEFINE u == todo'
           j == 1 + l
<1>3. j \in Nat \ {0} /\ 1 <= j /\ 1 \in Nat \ {0} /\ Len(u) \in Nat /\ \A k \in 1..(j - 1) : k \in 1..l
  BY <1>0
<1>4. /\ \A r : MergeSoon(todo, 2, r) => MergeSoon(u, j, r)
      /\ Merges(todo, 2) => Merges(u, j)
  BY <1>2
<1>5. \A k \in 1..l : u[k] \in Items(s)
  BY <1>0
<1> HIDE DEF l, u, j
<1>6. /\ \A r : MergeSoon(u, j, r) /\ (\A k \in 1..(j - 1) : Calm(u[k], r)) => MergeSoon(u, 1, r)
      /\ Merges(u, j) => Merges(u, 1)
  BY <1>3, SoonBefore
<1>7. ASSUME NEW r, \A e \in Items(s) : Calm(e, r) PROVE \A k \in 1..(j - 1) : Calm(u[k], r)
  BY <1>3, <1>5, <1>7
<1>8. /\ \A r : MergeSoon(todo, 1, r) /\ (\A e \in Items(s) : Calm(e, r)) => MergeSoon(u, 1, r)
      /\ Merges(todo, 1) => Merges(u, 1)
  BY <1>1, <1>4, <1>6, <1>7
<1> QED BY <1>8 DEF u


\* What comes in the place of an update.
Quiet == {"mark", "remove", "unref", "drop", "clear", "merge", "prune_after", "prune", "remove_all",
          "clean", "sweep", "discard"}
Brief(e) == \/ Kind(1) \in {"install", "import"} /\ e[1] \in {"ref", "clear", "checkout", "upsert"} /\ e[2] = This
            \/ e[1] \in Quiet

LEMMA PruneItems ==
    ASSUME TodoInv, FiniteInv, NEW s, Turns(s), Kind(1) = "prune"
    PROVE  \A e \in Items(s) : e[1] \in {"remove_all", "merge", "clean"}
<1> DEFINE X == Installed \ Kept
           p == Each("remove_all", SetToSeq(X))
           S == {c \in live : c.ref \in Kept}
           q == <<<<"clean", S>>>>
<1>1. s = p \o Merging \o q \/ s = <<>>
  BY DEF Turns
<1>2. IsSeq(p) /\ \A e \in Items(p) : \E x \in X : e = <<"remove_all", x>>
  <2>1. IsFiniteSet(X)
    BY Finite, FS_Subset
  <2> HIDE DEF X
  <2> QED BY <2>1, ItemsEach
<1>3. Items(Merging) = {<<"merge">>} /\ IsSeq(Merging) /\ Items(q) = {<<"clean", S>>} /\ IsSeq(q)
  BY ItemsOne DEF Merging
<1> HIDE DEF p, q, S, X
<1>4. Items(p \o Merging \o q) = Items(p) \cup Items(Merging) \cup Items(q)
  BY <1>2, <1>3, ItemsConcat, Concat
<1>5. \A e \in Items(p \o Merging \o q) : e[1] \in {"remove_all", "merge", "clean"}
  BY <1>2, <1>3, <1>4
<1> QED BY <1>1, <1>5, ItemsNone

LEMMA TurnKinds ==
    ASSUME TodoInv, FiniteInv, NEW s, Turn(s), Turns(s)
    PROVE  \A e \in Items(s) : Brief(e)
<1>1. CASE s = <<>>
  BY <1>1, ItemsNone
<1>2. CASE s = Import(This) /\ Kind(1) \in {"install", "import"}
  <2>1. Items(s) = {<<"ref", This>>, <<"clear", This>>, <<"checkout", This>>, <<"upsert", This>>}
    BY <1>2, ItemsFour DEF Import
  <2>2. \A do \in {"ref", "clear", "checkout", "upsert"} : Brief(<<do, This>>)
    BY <1>2 DEF Brief
  <2> QED BY <2>1, <2>2
<1>3. ASSUME NEW c, s = Removed(c) PROVE \A e \in Items(s) : Brief(e)
  <2>1. Items(s) = {<<"unref", c>>, <<"drop", c>>, <<"clear", c>>}
    BY <1>3, ItemsThree DEF Removed
  <2>2. \A do \in {"unref", "drop", "clear"} : Brief(<<do, c>>)
    BY DEF Brief, Quiet
  <2> QED BY <2>1, <2>2
<1>4. CASE s = Removed(This) /\ Kind(1) \in {"unimport", "discard"}
  BY <1>3, <1>4
<1>5. CASE Kind(1) = "remove" /\ \E c \in Found(live, This, todo[1][3]) : s = Removed(c)
  BY <1>3, <1>5
<1>6. CASE Kind(1) \in {"retire", "remove_all"} /\ \E do \in {"mark", "remove"} : s = Entire(do, This)
  <2>1. PICK do \in {"mark", "remove"} : s = Entire(do, This)
    BY <1>6
  <2>2. \A m : Brief(<<do, This, m>>)
    BY DEF Brief, Quiet
  <2> QED BY <2>1, <2>2, EntireIs
<1>7. CASE Kind(1) = "updated" /\ s \in {Merging, Merging \o PruneAfter}
  <2>1. Items(Merging) = {<<"merge">>} /\ Items(PruneAfter) = {<<"prune_after">>} /\ IsSeq(Merging) /\ IsSeq(PruneAfter)
    BY ItemsOne DEF Merging, PruneAfter
  <2>2. Items(s) \subseteq {<<"merge">>, <<"prune_after">>}
    <3>1. Items(Merging \o PruneAfter) = {<<"merge">>} \cup {<<"prune_after">>}
      BY <2>1, ItemsConcat
    <3> QED BY <1>7, <2>1, <3>1
  <2>3. Brief(<<"merge">>) /\ Brief(<<"prune_after">>)
    BY DEF Brief, Quiet
  <2> QED BY <2>2, <2>3
<1>8. CASE Kind(1) = "prune_after" /\ s = <<<<"prune">>>>
  <2>1. Items(s) = {<<"prune">>}
    BY <1>8, ItemsOne
  <2>2. Brief(<<"prune">>)
    BY DEF Brief, Quiet
  <2> QED BY <2>1, <2>2
<1>9. CASE Kind(1) = "prune" /\ s = Each("remove_all", SetToSeq(Installed \ Kept))
                              \o Merging \o <<<<"clean", {c \in live : c.ref \in Kept}>>>>
  <2>1. \A e \in Items(s) : e[1] \in {"remove_all", "merge", "clean"}
    BY <1>9, PruneItems
  <2> QED BY <2>1 DEF Brief, Quiet
<1>10. CASE Kind(1) = "clean" /\ \A e \in Items(s) : e[1] = "sweep"
  BY <1>10 DEF Brief, Quiet
<1>11. CASE Kind(1) = "sweep" /\ s = <<<<"clear", This>>, <<"unref", This>>>>
  <2>1. Items(s) = {<<"clear", This>>, <<"unref", This>>}
    BY <1>11, ItemsTwo
  <2>2. \A c : Brief(<<"clear", c>>) /\ Brief(<<"unref", c>>)
    BY DEF Brief, Quiet
  <2> QED BY <2>1, <2>2
<1>12. CASE Kind(1) = "collect" /\ \A e \in Items(s) : e[1] = "discard" /\ e[2] \in deferred
  BY <1>12 DEF Brief, Quiet
<1> QED BY <1>1, <1>2, <1>4, <1>5, <1>6, <1>7, <1>8, <1>9, <1>10, <1>11, <1>12 DEF Turns

LEMMA TurnCalm ==
    ASSUME TodoInv, FiniteInv, NEW s, Turn(s), Turns(s), NEW r, Calm(todo[1], r)
    PROVE  \A e \in Items(s) : Calm(e, r)
BY TurnKinds DEF Brief, Quiet, Calm, May, Kind, This

\* What a job brings, it merges or takes back.
BringInv == who = "job" => Joined(todo, undo)

LEMMA BringTurn ==
    ASSUME TodoInv, FiniteInv, NEW s, Turn(s), Turns(s), Joined(todo, undo)
    PROVE  Joined(todo', undo')
<1> DEFINE l == Len(s)
           u == todo'
<1>0. /\ IsSeq(todo) /\ l \in Nat /\ Len(todo) \in Nat \ {0} /\ Len(u) = l + Len(todo) - 1 /\ undo' = undo
      /\ \A k \in 1..l : u[k] = s[k] /\ s[k] \in Items(s)
      /\ \A i \in (l + 1)..Len(u) : i - l + 1 \in 2..Len(todo) /\ u[i] = todo[i - l + 1]
  BY Turned DEF TodoInv, Turn
<1>1. /\ \A i \in Nat \ {0, 1} : \A r : MergeSoon(todo, i, r) => MergeSoon(u, i - 1 + l, r)
      /\ \A i \in Nat \ {0, 1} : Merges(todo, i) => Merges(u, i - 1 + l)
  BY <1>0, SoonGoes
<1>2. ASSUME NEW i \in 1..l, Bring(u[i])
      PROVE  i = l /\ u[i][2].ref = This.ref /\ Bring(todo[1])
  <2>1. Brief(u[i])
    BY <1>0, TurnKinds
  <2>2. Kind(1) \in {"install", "import"} /\ u[i][2] = This /\ u[i][1] = "upsert"
    BY <1>2, <2>1 DEF Brief, Quiet, Bring
  <2>3. s = Import(This)
    <3>1. s # <<>>
      BY <1>0, ItemsNone
    <3> QED BY <2>2, <3>1 DEF Turns, Kind
  <2>4. l = 4 /\ s[1][1] = "ref" /\ s[2][1] = "clear" /\ s[3][1] = "checkout"
    <3> DEFINE e1 == <<"ref", This>>
               e2 == <<"clear", This>>
               e3 == <<"checkout", This>>
               e4 == <<"upsert", This>>
    <3>1. s = <<e1, e2, e3, e4>> /\ e1[1] = "ref" /\ e2[1] = "clear" /\ e3[1] = "checkout"
      BY <2>3 DEF Import
    <3> HIDE DEF e1, e2, e3, e4
    <3> QED BY <3>1, ItemsFour
  <2> QED BY <1>0, <2>2, <2>4 DEF Bring, Kind
<1> HIDE DEF l, u
<1>3. ASSUME NEW i \in 1..Len(u), Bring(u[i])
      PROVE  MergeSoon(u, i + 1, u[i][2].ref) \/ (Restored(undo, u[i][2].ref) /\ Merges(u, i + 1))
  <2>1. CASE i \in 1..l
    <3>1. i = l /\ u[i][2].ref = This.ref /\ Bring(todo[1])
      BY <1>2, <1>3, <2>1
    <3>2. MergeSoon(todo, 1 + 1, This.ref) \/ (Restored(undo, This.ref) /\ Merges(todo, 1 + 1))
      BY <1>0, <3>1 DEF Joined, This
    <3>3. 1 + 1 \in Nat \ {0, 1} /\ 1 + 1 - 1 + l = i + 1
      BY <1>0, <3>1
    <3>4. MergeSoon(u, 1 + 1 - 1 + l, This.ref) \/ (Restored(undo, This.ref) /\ Merges(u, 1 + 1 - 1 + l))
      BY <1>1, <3>2, <3>3
    <3> QED BY <3>1, <3>3, <3>4
  <2>2. CASE i \in (l + 1)..Len(u)
    <3> DEFINE j == i - l + 1
    <3>1. j \in 2..Len(todo) /\ j \in 1..Len(todo) /\ u[i] = todo[j] /\ j + 1 \in Nat \ {0, 1} /\ j + 1 - 1 + l = i + 1
      BY <1>0, <2>2
    <3> HIDE DEF j
    <3>2. MergeSoon(todo, j + 1, todo[j][2].ref) \/ (Restored(undo, todo[j][2].ref) /\ Merges(todo, j + 1))
      BY <1>3, <3>1 DEF Joined
    <3>3. MergeSoon(u, j + 1 - 1 + l, todo[j][2].ref) \/ (Restored(undo, todo[j][2].ref) /\ Merges(u, j + 1 - 1 + l))
      BY <1>1, <3>1, <3>2
    <3> QED BY <3>1, <3>3
  <2> QED BY <1>0, <2>1, <2>2
<1>4. Joined(u, undo)
  BY <1>3 DEF Joined
<1> QED BY <1>0, <1>4 DEF u

LEMMA BringStep == TodoInv /\ FiniteInv /\ ArgsInv /\ BringInv /\ [Next]_vars => BringInv'
<1> SUFFICES ASSUME TodoInv, FiniteInv, ArgsInv, BringInv, [Next]_vars, who' = "job"
             PROVE  Joined(todo', undo')
  BY DEF BringInv
<1>1. CASE Plain
  <2>1. PICK s : Turn(s) /\ Turns(s)
    BY <1>1, Turning DEF Plain
  <2> QED BY <2>1, BringTurn DEF BringInv, Turn
<1>2. CASE Job
  BY <1>2, JobTidy DEF BegunTidy, Tidy
<1>3. CASE UpdateApp
  BY <1>3, UpdateTidy DEF BegunTidy, Tidy
<1>4. CASE NextApp
  BY <1>4, NextIs, JoinedFree DEF Asks, Bring
<1>5. CASE StepFails /\ who = "job"
  BY <1>5, FailIs
<1>6. CASE GcBegin
  BY <1>6 DEF GcBegin
<1>7. CASE Stopping
  <2>1. todo' = <<>>
    BY <1>7, StopIs
  <2> QED BY <2>1, ItemsNone, JoinedFree
<1>8. CASE Resting
  BY <1>8, RestIs DEF BringInv
<1> QED BY <1>1, <1>2, <1>3, <1>4, <1>5, <1>6, <1>7, <1>8, StepForms


\* What the steps do to the entries and the merged directories.
LEMMA LiveIs ==
    ASSUME TodoInv, Plain
    PROVE  \/ UNCHANGED live
           \/ /\ todo # <<>> /\ Kind(1) \in {"install", "upsert"} /\ who = "job" /\ Turn(<<>>)
              /\ \A c : c.ref # This.ref => (c \in live' <=> c \in live)
           \/ todo # <<>> /\ Kind(1) = "mark" /\ \E c \in Found(live, This, todo[1][3]) : live' = live \ {c}
           \/ todo # <<>> /\ Kind(1) = "drop" /\ live' = live \ {This}
<1>0. ASSUME Due("install") \/ Due("upsert")
      PROVE  todo # <<>> /\ Kind(1) \in {"install", "upsert"} /\ who = "job" /\ Arg = This
  <2>1. todo # <<>> /\ Kind(1) \in {"install", "upsert"} /\ Arg = This /\ Len(todo) \in Nat \ {0}
    BY <1>0, HeadIs
  <2>2. who # "none" /\ who # "gc"
    BY <2>1 DEF TodoInv, HolderInv, GcInv, Collects
  <2>3. who # "rollback"
    BY <2>1 DEF TodoInv, HolderInv, Forward
  <2> QED BY <2>1, <2>2, <2>3 DEF TodoInv, HolderInv
<1>0b. ASSUME todo # <<>>, Proceed(<<>>) PROVE Turn(<<>>)
  BY <1>0b, IsSeqs DEF Turn, Proceed
<1>1. CASE Aside
  BY <1>1, AsideEntries DEF Entries
<1>2. CASE InstallModule
  <2>1. Due("install") /\ (Proceed(<<>>) \/ UNCHANGED live)
    BY <1>2 DEF InstallModule, repo
  <2>2. UNCHANGED live \/ \E d : d.ref = Arg.ref /\ live' = live \cup {d}
    BY <1>2, InstallEntries DEF Entries, SameLayer
  <2> QED BY <1>0, <1>0b, <2>1, <2>2
<1>3. CASE SetRef \/ Clear \/ Checkout \/ Unref \/ Clean
  BY <1>3 DEF SetRef, Clear, Checkout, Unref, Clean, repo
<1>4. CASE Upsert
  <2>1. Due("upsert") /\ live' = {d \in live : ~SameLayer(d, Arg)} \cup {Arg} /\ Proceed(<<>>)
    BY <1>4 DEF Upsert
  <2> QED BY <1>0, <1>0b, <2>1 DEF SameLayer
<1>5. CASE Mark
  <2>1. Due("mark") /\ \E c \in Found(live, Arg, Head(todo)[3]) : live' = live \ {c}
    BY <1>5 DEF Mark
  <2>2. todo # <<>> /\ Kind(1) = "mark" /\ Arg = This /\ Head(todo) = todo[1]
    BY <2>1, HeadIs
  <2> QED BY <2>1, <2>2
<1>6. CASE Drop
  <2>1. Due("drop") /\ live' = live \ {Arg}
    BY <1>6 DEF Drop
  <2> QED BY <2>1, HeadIs
<1> QED BY <1>1, <1>2, <1>3, <1>4, <1>5, <1>6 DEF Plain, Aside

LEMMA TakenIs ==
    ASSUME TodoInv, Plain, todo # <<>>
    PROVE  /\ Kind(1) = "mark" => \E c \in Found(live, This, todo[1][3]) : live' = live \ {c}
           /\ Kind(1) = "drop" => live' = live \ {This}
<1>1. CASE Mark
  <2>1. Due("mark") /\ \E c \in Found(live, Arg, Head(todo)[3]) : live' = live \ {c}
    BY <1>1 DEF Mark
  <2>2. todo # <<>> /\ Kind(1) = "mark" /\ Arg = This /\ Head(todo) = todo[1]
    BY <2>1, HeadIs
  <2> QED BY <2>1, <2>2
<1>2. CASE Drop
  <2>1. Due("drop") /\ live' = live \ {Arg}
    BY <1>2 DEF Drop
  <2> QED BY <2>1, HeadIs
<1>3. CASE ~Mark /\ ~Drop
  <2>1. PICK do : Due(do) /\ do \notin {"mark", "drop"}
    BY <1>3 DEF Plain, Merge, Unimport, UpdateSkips, Updated, InstallModule, ImportLayer, SetRef, Clear, Checkout,
       Upsert, Export, Unexport, Retire, RemoveAll, RemoveModule, Unref,
       AfterChange, PruneUnused, Clean, Sweep, Collect, Discard, StepFails
  <2> QED BY <2>1, HeadIs
<1> QED BY <1>1, <1>2, <1>3

LEMMA MergedIs ==
    ASSUME Plain
    PROVE  UNCHANGED merged \/ Merge
BY DEF Plain, Merge, Unimport, UpdateSkips, Updated, InstallModule, ImportLayer, SetRef, Clear, Checkout,
       Upsert, Export, Unexport, Retire, Mark, RemoveAll, RemoveModule, Unref, Drop,
       AfterChange, PruneUnused, Clean, Sweep, Collect, Discard, StepFails, Fail, Onward, repo

LEMMA OthersSame ==
    ASSUME TodoInv, [Next]_vars, ~Plain, ~Rebuilt
    PROVE  UNCHANGED <<live, merged>>
<1>1. CASE Job
  <2>1. \E h \in SUBSET {"forced"} : \E plan, back : BeginAs(h, plan, back)
    BY <1>1 DEF Job, Install, InstallBase, InstallExtra, InstallLayer, InstallUab, Update, Uninstall,
                UninstallExtra, Prune, Begin
  <2> QED BY <2>1 DEF BeginAs, repo
<1>2. CASE UpdateApp \/ NextApp \/ GcBegin
  BY <1>2 DEF UpdateApp, NextApp, GcBegin, repo
<1>3. CASE StepFails
  BY <1>3 DEF StepFails, Fail, repo
<1>4. CASE Stopping
  BY <1>4, StopIs
<1>5. CASE Resting
  BY <1>5, RestIs DEF repo
<1> QED BY <1>1, <1>2, <1>3, <1>4, <1>5, StepForms

\* A main module that goes is the only one of its version.
LEMMA MainGoes ==
    ASSUME OneLive, {"rebuilt", "twice"} \cap hurt = {}, NEW c \in live \cap Mains, live' = live \ {c}
    PROVE  c.ref \notin Installed'
BY DEF OneLive, SameLayer, Installed, Mains

\* A drop comes first, or after the unset of the ref.
LEMMA DropSecond ==
    ASSUME TodoInv, todo # <<>>, NEW i \in 2..Len(todo), Kind(i) = "drop"
    PROVE  i = 2 /\ Kind(1) = "unref" /\ todo[2] = <<"drop", This>>
<1>0. Len(todo) \in Nat \ {0}
  BY Next1 DEF TodoInv
<1>1. ~After(0)
  BY <1>0 DEF After, Parts
<1>2. \A n \in 0..Len(todo) : i > n => ~After(n)
  BY <1>0 DEF After, Parts
<1>3. CASE ImportInv
  <2>1. i \in {2, 3, 4}
    BY <1>0, <1>3 DEF ImportInv, After, Parts, At
  <2>2. \A do : At(i, do) => do = "drop"
    BY DEF At, Kind
  <2> QED BY <1>0, <1>3, <2>1, <2>2 DEF ImportInv, After, Parts
<1>4. CASE RemovalInv
  <2>1. i \in {2, 3}
    BY <1>0, <1>4 DEF RemovalInv, After, Parts, At
  <2>2. \A do : At(i, do) => do = "drop"
    BY DEF At, Kind
  <2>3. At(1, "unref") /\ At(2, "drop") /\ i = 2
    BY <1>0, <1>4, <2>1, <2>2 DEF RemovalInv, After, Parts
  <2> QED BY <2>3 DEF At, Kind
<1> QED BY <1>1, <1>3, <1>4 DEF TodoInv, ShapeInv

\* The main module of a version goes first.
LEMMA EntireMain ==
    ASSUME NEW do, NEW r \in Installed, NEW i \in 1..Len(Entire(do, r)), Entire(do, r)[i][3] # "binary"
    PROVE  i = 2 /\ Entire(do, r)[1] = <<do, r, "binary">>
<1> DEFINE M  == ModulesOf(r)
           ms == InOrder(M)
           n  == Len(ms)
           d  == IF "develop" \in M THEN <<"develop">> ELSE <<>>
           b  == <<"binary">>
<1>1. "binary" \in M
  BY DEF ModulesOf, Installed, Mains
<1>2. ms = b \o d
  BY <1>1 DEF InOrder
<1>3. IsSeq(b) /\ Len(b) = 1 /\ b[1] = "binary" /\ IsSeq(d) /\ Len(d) \in 0..1
  <2>1. IsSeq(<<"develop">>) /\ Len(<<"develop">>) = 1 /\ IsSeq(<<>>) /\ Len(<<>>) = 0
    BY ItemsOne, ItemsNone
  <2> QED BY <2>1, ItemsOne
<1>4. n = 1 + Len(d) /\ n \in 1..2 /\ ms[1] = "binary"
  <2> HIDE DEF b, d, M, ms
  <2>1. 1 \in 1..Len(b)
    BY <1>3
  <2>2. n = Len(b) + Len(d) /\ ms[1] = b[1]
    BY <1>2, <1>3, <2>1, Concat
  <2> HIDE DEF n
  <2> DEFINE y == Len(b)
             x == Len(d)
  <2>3. y = 1 /\ x \in 0..1 /\ n = y + x
    BY <1>3, <2>2
  <2>4. ms[1] = "binary"
    BY <1>3, <2>2
  <2> HIDE DEF x, y
  <2>5. n = 1 + x /\ n \in 1..2
    BY <2>3
  <2> QED BY <2>4, <2>5 DEF x
<1>5. Entire(do, r) = [k \in 1..n |-> <<do, r, ms[k]>>]
  BY DEF Entire
<1> DEFINE s == Entire(do, r)
<1> HIDE DEF ms, n, b, d, M
<1>6. n \in Nat /\ s = [k \in 1..n |-> s[k]] /\ \A k \in 1..n : s[k] = <<do, r, ms[k]>>
  BY <1>4, <1>5
<1>7. Table(s, n)
  BY <1>6, Tabled
<1>8. i \in 1..n /\ 1 \in 1..n
  BY <1>4, <1>7 DEF Table
<1>9. s[1] = <<do, r, "binary">> /\ s[i] = <<do, r, ms[i]>>
  BY <1>4, <1>6, <1>8
<1>10. i # 1
  BY <1>9
<1> QED BY <1>4, <1>8, <1>9, <1>10


\* What takes the main module of a version, or another one, of the entries away.
TakesMain(S, e, r)  == \/ e[1] \in {"retire", "remove_all"} /\ e[2] = r
                       \/ e[1] \in {"mark", "remove"} /\ e[2] = r /\ e[3] = "binary"
                       \/ e[1] = "drop" /\ e[2] \in S \cap Mains /\ e[2].ref = r
TakesExtra(S, e, r) == \/ e[1] \in {"mark", "remove"} /\ e[2] = r /\ e[3] # "binary"
                       \/ e[1] = "drop" /\ e[2] \in S \ Mains /\ e[2].ref = r
                       \/ e[1] = "unimport" /\ e[2].ref = r

\* The main module goes before, or has gone, and nothing comes until then.
Gone == {"mark", "remove", "unref", "drop", "clear"}
MainFirst(S, s, i, r) == /\ r \notin {c.ref : c \in S \cap Mains} \/ \E j \in 1..(i - 1) : TakesMain(S, s[j], r)
                         /\ \A k \in 1..(i - 1) : s[k][1] \in Gone

\* An extra module goes with the main one, or a merge follows.
ExtraInv == \A i \in 1..Len(todo) : \A r :
    TakesExtra(live, todo[i], r) => MainFirst(live, todo, i, r) \/ MergeSoon(todo, i + 1, r)
UndoExtras == who = "job" => Extras(undo)

\* The loop discards what is deferred.
GcLive == \A e \in Items(todo) : e[1] \in {"collect", "discard"} => who = "gc" /\ (e[1] = "discard" => e[2] \notin live)

LEMMA GcFree ==
    ASSUME NEW s, NEW K, Made(s, K), K \cap {"collect", "discard"} = {}
    PROVE  \A e \in Items(s) : e[1] \notin {"collect", "discard"}
BY DEF Made, Items

LEMMA GcLiveStep == TodoInv /\ FiniteInv /\ ArgsInv /\ GcLive /\ [Next]_vars => GcLive'
<1> SUFFICES ASSUME TodoInv, FiniteInv, ArgsInv, GcLive, [Next]_vars PROVE GcLive'
  OBVIOUS
<1>0. ASSUME \A e \in Items(todo') : e[1] \notin {"collect", "discard"} PROVE GcLive'
  <2> DEFINE u == todo'
  <2>1. \A e \in Items(u) : e[1] \notin {"collect", "discard"}
    BY <1>0
  <2> HIDE DEF u
  <2>2. \A e \in Items(u) : e[1] \in {"collect", "discard"} => who' = "gc" /\ (e[1] = "discard" => e[2] \notin live')
    BY <2>1
  <2> QED BY <2>2 DEF GcLive, u
<1>1. CASE Plain
  <2>1. PICK s : Turn(s) /\ Turns(s)
    BY <1>1, Turning DEF Plain
  <2>2. Items(todo') \subseteq Items(s) \cup Items(todo) /\ who' = who /\ todo # <<>>
    BY <2>1, Turned DEF TodoInv, Turn
  <2>3. ASSUME who = "gc" PROVE \A c : c \in live' => c \in live
    <3>1. Kind(1) \notin {"install", "upsert"} \/ who = "job"
      BY <2>2, <2>3, NotCollecting DEF Collects
    <3> QED BY <1>1, <2>3, LiveIs
  <2>4. ASSUME NEW e \in Items(todo), e[1] \in {"collect", "discard"}
        PROVE  who' = "gc" /\ (e[1] = "discard" => e[2] \notin live')
    BY <2>2, <2>3, <2>4 DEF GcLive
  <2>5. ASSUME NEW e \in Items(s), e[1] \in {"collect", "discard"}
        PROVE  who' = "gc" /\ (e[1] = "discard" => e[2] \notin live')
    <3>1. Brief(e)
      BY <2>1, TurnKinds
    <3>2. e[1] = "discard"
      BY <2>5, <3>1 DEF Brief, Quiet
    <3>3. Kind(1) = "collect" /\ e[2] \in deferred
      <4>1. s # <<>>
        BY ItemsNone
      <4>2. \A c : s # Import(c) /\ s # Removed(c)
        <5>1. \A c, do : do # "discard" => (<<do, c>>)[1] # "discard"
          OBVIOUS
        <5>2. \A c : \A x \in Items(Import(c)) \cup Items(Removed(c)) : x[1] # "discard"
          <6> TAKE c
          <6>1. Items(Import(c)) = {<<"ref", c>>, <<"clear", c>>, <<"checkout", c>>, <<"upsert", c>>}
            BY ItemsFour DEF Import
          <6>2. Items(Removed(c)) = {<<"unref", c>>, <<"drop", c>>, <<"clear", c>>}
            BY ItemsThree DEF Removed
          <6> QED BY <5>1, <6>1, <6>2
        <5> QED BY <3>2, <5>2
      <4>3. \A do \in {"mark", "remove"} : s # Entire(do, This)
        <5>1. \A do \in {"mark", "remove"} : \A x \in Items(Entire(do, This)) : x[1] # "discard"
          BY EntireIs
        <5> QED BY <3>2, <5>1
      <4>4. s \notin {Merging, Merging \o PruneAfter, <<<<"prune">>>>}
        <5>1. Free(Merging) /\ Free(Merging \o PruneAfter) /\ Free(<<<<"prune">>>>)
          BY FreeLists, FreeConcat
        <5>2. Items(Merging) = {<<"merge">>} /\ Items(PruneAfter) = {<<"prune_after">>} /\ IsSeq(Merging) /\ IsSeq(PruneAfter)
          BY ItemsOne DEF Merging, PruneAfter
        <5>3. Items(Merging \o PruneAfter) = {<<"merge">>} \cup {<<"prune_after">>} /\ Items(<<<<"prune">>>>) = {<<"prune">>}
          BY <5>2, ItemsConcat, ItemsOne
        <5>4. \A x \in {<<"merge">>, <<"prune_after">>, <<"prune">>} : x[1] # "discard"
          OBVIOUS
        <5> QED BY <3>2, <5>2, <5>3, <5>4
      <4>5. s # <<<<"clear", This>>, <<"unref", This>>>>
        <5>1. Items(<<<<"clear", This>>, <<"unref", This>>>>) = {<<"clear", This>>, <<"unref", This>>}
          BY ItemsTwo
        <5> QED BY <3>2, <5>1
      <4>6. Kind(1) # "prune"
        BY <2>1, <3>2, PruneItems
      <4>7. Kind(1) # "clean"
        BY <2>1, <3>2, <4>1 DEF Turns
      <4> QED BY <2>1, <4>1, <4>2, <4>3, <4>4, <4>5, <4>6, <4>7 DEF Turns
    <3>4. who = "gc"
      <4>1. todo[1] \in Items(todo)
        BY <2>1, Turned DEF TodoInv
      <4> QED BY <3>3, <4>1 DEF GcLive, Kind
    <3> QED BY <2>2, <2>3, <3>3, <3>4 DEF ArgsInv
  <2> DEFINE u == todo'
  <2>6. \A e \in Items(u) : e[1] \in {"collect", "discard"} => who' = "gc" /\ (e[1] = "discard" => e[2] \notin live')
    BY <2>2, <2>4, <2>5
  <2> QED BY <2>6 DEF GcLive
<1>2. CASE Job
  <2>1. PICK plan, back : (Made(plan, Plans) \/ Made(plan, Asks)) /\ Begins(plan, back)
    BY <1>2, JobPlans
  <2>2. todo' = plan
    BY <2>1 DEF Begins, BeginAs
  <2>3. \A e \in Items(plan) : e[1] \notin {"collect", "discard"}
    BY <2>1, GcFree DEF Plans, Asks
  <2> QED BY <1>0, <2>2, <2>3
<1>3. CASE UpdateApp
  <2>1. \A e \in Items(todo') : e[1] \notin {"collect", "discard"}
    <3>1. PICK s, e : Made(s, Plans) /\ e[1] = "next" /\ todo' = s \o <<e>> \o Tail(todo)
      BY <1>3, UpdateMade
    <3>2. IsSeq(Tail(todo)) /\ \A x \in Items(Tail(todo)) : x[1] \notin {"collect", "discard"}
      BY <1>3, UpdateIs DEF Asks
    <3>3. IsSeq(<<e>>) /\ Items(<<e>>) = {e}
      BY ItemsOne
    <3>4. IsSeq(s) /\ \A x \in Items(s) : x[1] \notin {"collect", "discard"}
      BY <3>1, GcFree DEF Plans, Made
    <3>5. IsSeq(s \o <<e>>) /\ Items(s \o <<e>>) = Items(s) \cup {e}
      BY <3>3, <3>4, Concat, ItemsConcat
    <3>6. Items(todo') = (Items(s) \cup {e}) \cup Items(Tail(todo))
      BY <3>1, <3>2, <3>5, ItemsConcat
    <3> QED BY <3>1, <3>2, <3>4, <3>6
  <2> QED BY <1>0, <2>1
<1>4. CASE NextApp
  <2>1. \A e \in Items(todo') : e[1] \notin {"collect", "discard"}
    BY <1>4, NextIs DEF Asks
  <2> QED BY <1>0, <2>1
<1>5. CASE StepFails /\ who = "job"
  <2>1. \A e \in Items(undo) : e[1] \notin {"collect", "discard"}
    BY <1>5, FailIs, GcFree DEF Undos
  <2>2. \A e \in Items(Rest) : e[1] \notin {"collect", "discard"}
    BY RestItems DEF Asks
  <2>3. Items(todo') = Items(undo) \cup Items(Rest)
    BY <1>5, FailIs, RestItems, ItemsConcat
  <2>4. \A e \in Items(todo') : e[1] \notin {"collect", "discard"}
    BY <2>1, <2>2, <2>3
  <2> QED BY <1>0, <2>4
<1>6. CASE GcBegin
  <2> DEFINE s == Each("collect", SetToSeq({c.ref : c \in deferred}))
             t == IF deferred = {} THEN <<>> ELSE Merging
  <2>1. todo' = s \o t /\ who' = "gc"
    BY <1>6 DEF GcBegin, Merging
  <2>2. IsSeq(s) /\ \A e \in Items(s) : e[1] = "collect"
    <3>1. IsFiniteSet({c.ref : c \in deferred})
      BY Mapped DEF FiniteInv
    <3>2. IsSeq(s) /\ \A e \in Items(s) : \E x \in {c.ref : c \in deferred} : e = <<"collect", x>>
      BY <3>1, ItemsEach
    <3> HIDE DEF s
    <3> QED BY <3>2
  <2>3. IsSeq(t) /\ \A e \in Items(t) : e[1] # "discard"
    <3>1. Items(Merging) = {<<"merge">>} /\ IsSeq(Merging)
      BY ItemsOne DEF Merging
    <3> QED BY <3>1, ItemsNone
  <2> HIDE DEF s, t
  <2>4. Items(s \o t) = Items(s) \cup Items(t)
    BY <2>2, <2>3, ItemsConcat
  <2> QED BY <2>1, <2>2, <2>3, <2>4 DEF GcLive
<1>7. CASE Stopping
  <2>1. Items(todo') = {}
    BY <1>7, StopIs, ItemsNone
  <2> QED BY <1>0, <2>1
<1>8. CASE Resting
  BY <1>8, RestIs DEF GcLive, repo
<1> QED BY <1>1, <1>2, <1>3, <1>4, <1>5, <1>6, <1>7, <1>8, StepForms


LEMMA RemovedIs ==
    ASSUME NEW c
    PROVE  /\ IsSeq(Removed(c)) /\ Len(Removed(c)) = 3
           /\ Removed(c)[1] = <<"unref", c>> /\ Removed(c)[2] = <<"drop", c>> /\ Removed(c)[3] = <<"clear", c>>
<1> DEFINE e == <<"unref", c>>
           f == <<"drop", c>>
           g == <<"clear", c>>
<1> HIDE DEF e, f, g
<1>1. IsSeq(<<e, f, g>>) /\ Len(<<e, f, g>>) = 3 /\ <<e, f, g>>[1] = e /\ <<e, f, g>>[2] = f /\ <<e, f, g>>[3] = g
  BY ItemsThree
<1> QED BY <1>1 DEF Removed, e, f, g

\* What comes in the place of an update that takes something away, and the entries then.
LEMMA GoneTurn ==
    ASSUME TodoInv, Plain, NEW s, Turn(s), Turns(s), Kind(1) \in Gone
    PROVE  /\ \A c : c \in live' => c \in live
           /\ s = <<>> \/ (/\ Kind(1) = "remove" /\ UNCHANGED live
                           /\ \E c \in Found(live, This, todo[1][3]) : s = Removed(c))
<1>1. todo # <<>>
  BY DEF Turn
<1>2. s = <<>> \/ (Kind(1) = "remove" /\ \E c \in Found(live, This, todo[1][3]) : s = Removed(c))
  BY DEF Turns, Gone
<1> QED BY <1>2, LiveIs DEF Gone

LEMMA ExtraRest ==
    ASSUME TodoInv, ArgsInv, OneLive, {"rebuilt", "twice"} \cap hurt = {}, ExtraInv,
           Plain, NEW s, Turn(s), Turns(s),
           NEW i \in (Len(s) + 1)..Len(todo'), NEW r, TakesExtra(live', todo'[i], r)
    PROVE  MainFirst(live', todo', i, r) \/ MergeSoon(todo', i + 1, r)
<1> DEFINE l == Len(s)
           u == todo'
           j == i - l + 1
<1>0. /\ IsSeq(todo) /\ l \in Nat /\ Len(todo) \in Nat \ {0} /\ Len(u) = l + Len(todo) - 1 /\ todo # <<>>
      /\ \A k \in 1..l : u[k] = s[k]
      /\ \A k \in (l + 1)..Len(u) : k - l + 1 \in 2..Len(todo) /\ u[k] = todo[k - l + 1]
  BY Turned DEF TodoInv, Turn
<1>1. j \in 2..Len(todo) /\ u[i] = todo[j] /\ j + 1 \in Nat \ {0, 1} /\ j + 1 - 1 + l = i + 1 /\ i \in (l + 1)..Len(u)
      /\ j \in Nat /\ j \in 1..Len(todo)
  BY <1>0
<1>2. \A r0 : MergeSoon(todo, j + 1, r0) => MergeSoon(u, j + 1 - 1 + l, r0)
  BY <1>0, <1>1, SoonGoes
<1>3. ASSUME NEW k \in 2..Len(todo), Kind(k) = "drop" PROVE UNCHANGED live
  <2>1. Kind(1) = "unref"
    BY <1>0, <1>3, DropSecond
  <2> QED BY <1>0, <2>1, LiveIs
<1> HIDE DEF u, j
<1>4. TakesExtra(live, todo[j], r)
  <2>1. TakesExtra(live', u[i], r)
    BY DEF u
  <2>1b. \/ u[i][1] \in {"mark", "remove"} /\ u[i][2] = r /\ u[i][3] # "binary"
         \/ u[i][1] = "drop" /\ u[i][2] \in live' \ Mains /\ u[i][2].ref = r
         \/ u[i][1] = "unimport" /\ u[i][2].ref = r
    BY <2>1 DEF TakesExtra
  <2>2. CASE u[i][1] = "drop"
    <3>1. UNCHANGED live
      BY <1>1, <1>3, <2>2 DEF Kind
    <3> QED BY <1>1, <2>1b, <3>1 DEF TakesExtra
  <2>3. CASE u[i][1] # "drop"
    BY <1>1, <2>1b, <2>3 DEF TakesExtra
  <2> QED BY <2>2, <2>3
<1>5. CASE MergeSoon(todo, j + 1, r)
  BY <1>1, <1>2, <1>5 DEF u
<1>6. CASE MainFirst(live, todo, j, r)
  <2>0. Kind(1) \in Gone
    BY <1>1, <1>6 DEF MainFirst, Kind
  <2>1. \A c : c \in live' => c \in live
    BY <2>0, GoneTurn
  <2>2. ASSUME NEW k \in 1..(i - 1) PROVE u[k][1] \in Gone
    <3>1. CASE k \in 1..l
      <4>1. s # <<>>
        BY <1>0, <3>1, ItemsNone
      <4>2. PICK c : s = Removed(c)
        BY <2>0, <4>1, GoneTurn
      <4>3. l = 3 /\ s[1][1] = "unref" /\ s[2][1] = "drop" /\ s[3][1] = "clear"
        BY <4>2, RemovedIs
      <4> QED BY <1>0, <3>1, <4>3 DEF Gone
    <3>2. CASE k \notin 1..l
      <4>1. k \in (l + 1)..Len(u) /\ k - l + 1 \in 1..(j - 1)
        BY <1>0, <1>1, <3>2 DEF j
      <4> QED BY <1>0, <1>6, <4>1 DEF MainFirst
    <3> QED BY <3>1, <3>2
  <2>3. r \notin Installed' \/ \E k \in 1..(i - 1) : TakesMain(live', u[k], r)
    <3>1. CASE r \notin Installed
      BY <2>1, <3>1 DEF Installed
    <3>2. ASSUME NEW k \in 1..(j - 1), TakesMain(live, todo[k], r), k # 1
          PROVE  \E k2 \in 1..(i - 1) : TakesMain(live', u[k2], r)
      <4> DEFINE k2 == k - 1 + l
      <4>1. k2 \in (l + 1)..Len(u) /\ k2 - l + 1 = k /\ k2 \in 1..(i - 1) /\ k \in 2..Len(todo)
        BY <1>0, <1>1, <3>2 DEF j
      <4>2. u[k2] = todo[k]
        BY <1>0, <4>1
      <4> HIDE DEF k2
      <4>3. TakesMain(live', u[k2], r)
        <5>1. CASE todo[k][1] = "drop"
          <6>1. UNCHANGED live
            BY <1>3, <4>1, <5>1 DEF Kind
          <6> QED BY <3>2, <4>2, <6>1 DEF TakesMain
        <5>2. CASE todo[k][1] # "drop"
          BY <3>2, <4>2, <5>2 DEF TakesMain
        <5> QED BY <5>1, <5>2
      <4> QED BY <4>1, <4>3
    <3>3. CASE TakesMain(live, todo[1], r)
      <4>1. Kind(1) \in {"mark", "remove", "drop"} /\ (Kind(1) # "drop" => This = r /\ todo[1][3] = "binary")
            /\ (Kind(1) = "drop" => This \in live \cap Mains /\ This.ref = r)
        BY <2>0, <3>3 DEF TakesMain, Kind, This, Gone
      <4>2. CASE Kind(1) = "mark"
        <5>1. \E c \in Found(live, r, "binary") : live' = live \ {c}
          BY <1>0, <4>1, <4>2, TakenIs
        <5>2. PICK c \in live : c.ref = r /\ c.module = "binary" /\ live' = live \ {c}
          BY <5>1 DEF Found
        <5>3. c \in live \cap Mains
          BY <5>2 DEF ArgsInv, Mains
        <5> QED BY <5>2, <5>3, MainGoes
      <4>3. CASE Kind(1) = "remove"
        <5>1. UNCHANGED live /\ \E c \in Found(live, r, "binary") : s = Removed(c)
          <6>1. s # <<>>
            BY <4>3, RemovedIs DEF Turns
          <6> QED BY <4>1, <4>3, <6>1, <2>0, GoneTurn
        <5>2. PICK c \in live : c.ref = r /\ c.module = "binary" /\ s = Removed(c)
          BY <5>1 DEF Found
        <5>3. l = 3 /\ s[2] = <<"drop", c>>
          BY <5>2, RemovedIs
        <5>4. c \in live' \cap Mains
          BY <5>1, <5>2 DEF ArgsInv, Mains
        <5>5. 2 \in 1..(i - 1) /\ u[2] = <<"drop", c>>
          BY <1>0, <1>1, <5>3
        <5>6. TakesMain(live', u[2], r)
          BY <5>2, <5>4, <5>5 DEF TakesMain
        <5> QED BY <5>5, <5>6
      <4>4. CASE Kind(1) = "drop"
        <5>1. live' = live \ {This}
          BY <1>0, <4>4, TakenIs
        <5> QED BY <4>1, <4>4, <5>1, MainGoes
      <4> QED BY <4>1, <4>2, <4>3, <4>4
    <3> QED BY <1>6, <3>1, <3>2, <3>3 DEF MainFirst, Installed
  <2>4. MainFirst(live', u, i, r)
    BY <2>2, <2>3 DEF MainFirst, Installed
  <2> QED BY <2>4 DEF u
<1> QED BY <1>1, <1>4, <1>5, <1>6 DEF ExtraInv


LEMMA ExtraNew ==
    ASSUME TodoInv, FiniteInv, ArgsInv, GcLive, ExtraInv, Plain, NEW s, Turn(s), Turns(s),
           NEW i \in 1..Len(s), NEW r, TakesExtra(live', todo'[i], r)
    PROVE  MainFirst(live', todo', i, r) \/ MergeSoon(todo', i + 1, r)
<1> DEFINE l == Len(s)
           u == todo'
<1>0. /\ IsSeq(todo) /\ l \in Nat /\ Len(todo) \in Nat \ {0} /\ todo # <<>> /\ Len(u) \in Nat /\ l <= Len(u)
      /\ \A k \in 1..l : u[k] = s[k] /\ s[k] \in Items(s)
  <2>1. /\ l \in Nat /\ Len(todo) \in Nat \ {0} /\ Len(u) = l + Len(todo) - 1
        /\ \A k \in 1..l : u[k] = s[k] /\ s[k] \in Items(s)
    BY Turned DEF TodoInv
  <2> HIDE DEF l, u
  <2>2. Len(u) \in Nat /\ l <= Len(u)
    BY <2>1
  <2> QED BY <2>1, <2>2 DEF TodoInv, Turn
<1>1. /\ u[i] = s[i] /\ s[i] \in Items(s) /\ Brief(s[i])
  BY <1>0, TurnKinds
<1>2. \A r0 : MergeSoon(todo, 2, r0) => MergeSoon(u, 1 + l, r0)
  <2>1. 2 \in Nat \ {0, 1} /\ 2 - 1 = 1
    OBVIOUS
  <2>2. \A r0 : MergeSoon(todo, 2, r0) => MergeSoon(u, 2 - 1 + l, r0)
    BY <1>0, <2>1, SoonGoes
  <2> QED BY <2>1, <2>2
<1> HIDE DEF u
<1>3. s[i][1] \in {"mark", "remove", "drop"}
  BY <1>1 DEF TakesExtra, Brief, Quiet, u
<1>4. CASE Kind(1) \in {"retire", "remove_all"} /\ \E do \in {"mark", "remove"} : s = Entire(do, This)
  <2>1. PICK do \in {"mark", "remove"} : s = Entire(do, This)
    BY <1>4
  <2>2. \A k \in 1..l : s[k][1] = do /\ s[k][2] = This
    BY <1>0, <2>1, EntireIs
  <2>3. r = This /\ s[i][3] # "binary"
    BY <1>1, <2>2 DEF TakesExtra, u
  <2>4. UNCHANGED live
    BY <1>4, LiveIs
  <2>5. r \notin Installed \/ \E j \in 1..(i - 1) : TakesMain(live', u[j], r)
    <3> SUFFICES ASSUME r \in Installed PROVE \E j \in 1..(i - 1) : TakesMain(live', u[j], r)
      OBVIOUS
    <3>1. i = 2 /\ s[1] = <<do, r, "binary">>
      BY <2>1, <2>3, EntireMain
    <3>2. 1 \in 1..(i - 1) /\ u[1] = s[1]
      BY <1>0, <3>1
    <3>3. TakesMain(live', u[1], r)
      BY <3>1, <3>2 DEF TakesMain
    <3> QED BY <3>2, <3>3
  <2>6. \A k \in 1..(i - 1) : k \in 1..l /\ u[k][1] \in Gone
    <3>1. \A k \in 1..(i - 1) : k \in 1..l
      BY <1>0
    <3> QED BY <1>0, <2>2, <3>1 DEF Gone
  <2>7. MainFirst(live', u, i, r)
    BY <2>4, <2>5, <2>6 DEF MainFirst, Installed
  <2> QED BY <2>7 DEF u
<1>5. ASSUME NEW c, s = Removed(c), UNCHANGED live, c \in live => TakesExtra(live, todo[1], c.ref) \/ c \in Mains
      PROVE  MainFirst(live', u, i, r) \/ MergeSoon(u, i + 1, r)
  <2>1. l = 3 /\ s[1] = <<"unref", c>> /\ s[2] = <<"drop", c>> /\ s[3] = <<"clear", c>>
    BY <1>5, RemovedIs
  <2>2. i = 2
    BY <1>3, <2>1
  <2>3. c \in live \ Mains /\ c.ref = r
    BY <1>1, <1>5, <2>1, <2>2 DEF TakesExtra, u
  <2>4. MainFirst(live, todo, 1, r) \/ MergeSoon(todo, 2, r)
    <3>1. 1 \in 1..Len(todo) /\ 1 + 1 = 2
      BY <1>0
    <3> QED BY <1>5, <2>3, <3>1 DEF ExtraInv
  <2>5. CASE MainFirst(live, todo, 1, r)
    <3>1. r \notin {d.ref : d \in live \cap Mains}
      BY <2>5 DEF MainFirst
    <3>2. ASSUME NEW k \in 1..(i - 1) PROVE u[k][1] \in Gone
      <4>1. k = 1 /\ k \in 1..l
        BY <1>0, <2>1, <2>2, <3>2
      <4> QED BY <1>0, <2>1, <4>1 DEF Gone
    <3> QED BY <1>5, <3>1, <3>2 DEF MainFirst
  <2>6. CASE MergeSoon(todo, 2, r)
    <3>1. MergeSoon(u, 4, r)
      BY <1>2, <2>1, <2>6
    <3>2. \A k \in 3..3 : Calm(u[k], r)
      BY <1>0, <2>1 DEF Calm, May
    <3> DEFINE a == 3
               b == 4
    <3>3. a \in Nat \ {0} /\ b \in Nat \ {0} /\ a <= b /\ (b - 1) = 3 /\ i + 1 = a
      BY <2>2
    <3>4. \A k \in a..(b - 1) : Calm(u[k], r)
      BY <3>2
    <3> HIDE DEF a, b
    <3>5. MergeSoon(u, b, r)
      BY <3>1 DEF b
    <3>6. MergeSoon(u, a, r)
      BY <1>0, <3>3, <3>4, <3>5, SoonBefore
    <3> QED BY <3>3, <3>6
  <2> QED BY <2>4, <2>5, <2>6
<1>6. CASE Kind(1) = "remove" /\ \E c \in Found(live, This, todo[1][3]) : s = Removed(c)
  <2>1. PICK c \in live : c.ref = This /\ c.module = todo[1][3] /\ s = Removed(c)
    BY <1>6 DEF Found
  <2>2. TakesExtra(live, todo[1], c.ref) \/ c \in Mains
    BY <1>6, <2>1 DEF TakesExtra, Mains, ArgsInv, Kind, This
  <2>3. UNCHANGED live
    BY <1>6, LiveIs
  <2> QED BY <1>5, <2>1, <2>2, <2>3 DEF u
<1>7. CASE s = Removed(This) /\ Kind(1) = "unimport"
  <2>1. TakesExtra(live, todo[1], This.ref) /\ UNCHANGED live
    BY <1>7, LiveIs DEF TakesExtra, Kind, This
  <2> QED BY <1>5, <1>7, <2>1 DEF u
<1>8. CASE s = Removed(This) /\ Kind(1) = "discard"
  <2>1. This \notin live
    <3>1. todo[1] \in Items(todo)
      BY <1>0 DEF Items
    <3> QED BY <1>8, <3>1 DEF GcLive, Kind, This
  <2>2. UNCHANGED live
    BY <1>8, LiveIs
  <2> QED BY <1>5, <1>8, <2>1, <2>2 DEF u
<1>9. s # <<>> /\ s # Import(This)
  <2>1. Items(Import(This)) = {<<"ref", This>>, <<"clear", This>>, <<"checkout", This>>, <<"upsert", This>>}
    BY ItemsFour DEF Import
  <2>2. \A e \in Items(Import(This)) : e[1] \notin {"mark", "remove", "drop"}
    BY <2>1
  <2> QED BY <1>1, <1>3, <2>2, ItemsNone
<1>10. s \notin {Merging, Merging \o PruneAfter, <<<<"prune">>>>, <<<<"clear", This>>, <<"unref", This>>>>}
  <2>1. Items(Merging) = {<<"merge">>} /\ Items(PruneAfter) = {<<"prune_after">>} /\ IsSeq(Merging) /\ IsSeq(PruneAfter)
    BY ItemsOne DEF Merging, PruneAfter
  <2>2. Items(Merging \o PruneAfter) = {<<"merge">>} \cup {<<"prune_after">>} /\ Items(<<<<"prune">>>>) = {<<"prune">>}
        /\ Items(<<<<"clear", This>>, <<"unref", This>>>>) = {<<"clear", This>>, <<"unref", This>>}
    BY <2>1, ItemsConcat, ItemsOne, ItemsTwo
  <2>3. \A x \in {<<"merge">>, <<"prune_after">>, <<"prune">>, <<"clear", This>>, <<"unref", This>>} :
            x[1] \notin {"mark", "remove", "drop"}
    OBVIOUS
  <2> QED BY <1>1, <1>3, <2>1, <2>2, <2>3
<1>11. Kind(1) # "prune"
  BY <1>1, <1>3, PruneItems
<1>12. Kind(1) \notin {"clean", "collect"}
  BY <1>1, <1>3, <1>9 DEF Turns
<1> QED BY <1>4, <1>6, <1>7, <1>8, <1>9, <1>10, <1>11, <1>12 DEF Turns

ExtraInvs == /\ {"rebuilt", "twice"} \cap hurt = {} => ExtraInv
             /\ UndoExtras /\ GcLive

LEMMA ExtraStep ==
    TodoInv /\ FiniteInv /\ ArgsInv /\ OneLive /\ ExtraInvs /\ [Next]_vars => ExtraInvs'
<1> SUFFICES ASSUME TodoInv, FiniteInv, ArgsInv, OneLive, ExtraInvs, [Next]_vars
             PROVE  ({"rebuilt", "twice"} \cap hurt = {} => ExtraInv)' /\ UndoExtras'
  BY GcLiveStep DEF ExtraInvs
<1> USE DEF ExtraInvs
<1> DEFINE u == todo'
<1>0. ASSUME Extras(todo') PROVE ExtraInv'
  <2>1. Extras(u)
    BY <1>0
  <2> HIDE DEF u
  <2>2. ASSUME NEW i \in 1..Len(u), NEW r, TakesExtra(live', u[i], r)
        PROVE  MainFirst(live', u, i, r) \/ MergeSoon(u, i + 1, r)
    <3>1. u[i][1] \in Takeaway
      BY <2>2 DEF TakesExtra, Takeaway
    <3> QED BY <2>1, <3>1 DEF Extras
  <2> QED BY <2>2 DEF ExtraInv, u
<1>0b. ASSUME NEW s, IsSeq(s), \A e \in Items(s) : e[1] \notin Takeaway PROVE Extras(s)
  BY <1>0b DEF Extras, Items
<1>1. CASE Plain
  <2>1. PICK s : Turn(s) /\ Turns(s)
    BY <1>1, Turning DEF Plain
  <2>2. UndoExtras'
    BY <2>1 DEF Turn, UndoExtras
  <2>3. ASSUME {"rebuilt", "twice"} \cap hurt' = {} PROVE ExtraInv'
    <3>1. {"rebuilt", "twice"} \cap hurt = {}
      <4>1. hurt \subseteq hurt' \cup {"unmerged"}
        BY <1>1 DEF Plain, Merge, Unimport, UpdateSkips, Updated, InstallModule, ImportLayer, SetRef, Clear, Checkout,
                    Upsert, Export, Unexport, Retire, Mark, RemoveAll, RemoveModule, Unref, Drop,
                    AfterChange, PruneUnused, Clean, Sweep, Collect, Discard, StepFails, Fail, Onward
      <4> QED BY <2>3, <4>1
    <3>2. ExtraInv
      BY <3>1
    <3>3. \A i \in 1..Len(todo') : i \in 1..Len(s) \/ i \in (Len(s) + 1)..Len(todo')
      BY <2>1, Turned DEF TodoInv
    <3>4. ASSUME NEW i \in 1..Len(todo'), NEW r, TakesExtra(live', todo'[i], r)
          PROVE  MainFirst(live', todo', i, r) \/ MergeSoon(todo', i + 1, r)
      BY <1>1, <2>1, <3>1, <3>2, <3>3, <3>4, ExtraNew, ExtraRest
    <3> QED BY <3>4 DEF ExtraInv
  <2> QED BY <2>2, <2>3
<1>2. CASE Job
  BY <1>0, <1>2, JobTidy DEF BegunTidy, Tidy, UndoExtras
<1>3. CASE UpdateApp
  BY <1>0, <1>3, UpdateTidy DEF BegunTidy, Tidy, UndoExtras
<1>4. CASE NextApp
  <2>1. Extras(todo')
    BY <1>0b, <1>4, NextIs DEF Asks, Takeaway
  <2>2. Extras(<<>>)
    BY FreeLists, TidyFree DEF Tidy
  <2> QED BY <1>0, <1>4, <2>1, <2>2, NextIs DEF UndoExtras
<1>5. CASE StepFails /\ who = "job"
  <2>1. Extras(undo) /\ Extras(Rest)
    BY <1>0b, <1>5, RestItems DEF UndoExtras, Asks, Takeaway
  <2>2. Extras(todo')
    BY <1>5, <2>1, FailIs, RestItems, ExtrasConcat
  <2> QED BY <1>0, <1>5, <2>2, FailIs DEF UndoExtras
<1>6. CASE GcBegin
  <2> DEFINE s == Each("collect", SetToSeq({c.ref : c \in deferred}))
             t == IF deferred = {} THEN <<>> ELSE Merging
  <2>1. todo' = s \o t /\ who' = "gc"
    BY <1>6 DEF GcBegin, Merging
  <2>2. IsSeq(s) /\ \A e \in Items(s) : e[1] = "collect"
    <3>1. IsFiniteSet({c.ref : c \in deferred})
      BY Mapped DEF FiniteInv
    <3>2. IsSeq(s) /\ \A e \in Items(s) : \E x \in {c.ref : c \in deferred} : e = <<"collect", x>>
      BY <3>1, ItemsEach
    <3> HIDE DEF s
    <3> QED BY <3>2
  <2>3. IsSeq(t) /\ Extras(t)
    BY FreeLists, TidyFree DEF Tidy
  <2> HIDE DEF s, t
  <2>4. Extras(s \o t)
    BY <1>0b, <2>2, <2>3, ExtrasConcat DEF Takeaway
  <2> QED BY <1>0, <2>1, <2>4 DEF UndoExtras
<1>7. CASE Stopping
  <2>1. Extras(todo')
    BY <1>7, StopIs, FreeLists, TidyFree DEF Tidy
  <2> QED BY <1>0, <1>7, <2>1, StopIs DEF UndoExtras, UpdateCanceled, Stopping, End, Crash, Rebuilt
<1>8. CASE Resting
  BY <1>8, RestIs DEF UndoExtras, ExtraInv, repo
<1> QED BY <1>1, <1>2, <1>3, <1>4, <1>5, <1>6, <1>7, <1>8, StepForms

\* The loop takes no entry that is live.
GcDrops == who = "gc" => \A e \in Items(todo) : e[1] = "drop" => e[2] \notin live

LEMMA GcStill ==
    ASSUME TodoInv, GcDrops, Plain, who = "gc"
    PROVE  UNCHANGED live
<1>1. CASE todo # <<>> /\ Kind(1) = "mark"
  <2>1. 1 \in 1..Len(todo)
    BY <1>1, Rests DEF TodoInv
  <2> QED BY <1>1, <2>1 DEF TodoInv, GcInv, Collects
<1>2. CASE todo # <<>> /\ Kind(1) = "drop" /\ live' = live \ {This}
  <2>1. todo[1] \in Items(todo)
    BY <1>2, Rests DEF TodoInv, Items
  <2> QED BY <1>2, <2>1 DEF GcDrops, Kind, This
<1> QED BY <1>1, <1>2, LiveIs

LEMMA GcDropsStep == TodoInv /\ FiniteInv /\ GcLive /\ GcDrops /\ [Next]_vars => GcDrops'
<1> SUFFICES ASSUME TodoInv, FiniteInv, GcLive, GcDrops, [Next]_vars, who' = "gc",
                    NEW e \in Items(todo)', e[1] = "drop"
             PROVE  e[2] \notin live'
  BY DEF GcDrops
<1>1. CASE Plain
  <2>1. PICK s : Turn(s) /\ Turns(s)
    BY <1>1, Turning DEF Plain
  <2>2. who = "gc" /\ IsSeq(todo) /\ todo # <<>>
    BY <2>1 DEF Turn, TodoInv
  <2>3. UNCHANGED live
    BY <1>1, <2>2, GcStill
  <2>4. CASE e \in Items(todo)
    BY <2>2, <2>3, <2>4 DEF GcDrops
  <2>5. CASE e \in Items(s)
    <3>1. todo[1] \in Items(todo) /\ 1 \in 1..Len(todo)
      BY <2>2, Rests DEF Items
    <3>2. Kind(1) \in Collects
      BY <2>2, <3>1 DEF TodoInv, GcInv
    <3>3. CASE Kind(1) = "discard"
      <4>1. This \notin live
        BY <3>1, <3>3 DEF GcLive, Kind, This
      <4>2. s = <<>> \/ s = Removed(This)
        BY <2>1, <3>3 DEF Turns
      <4> DEFINE c == This
      <4>3. Items(Removed(c)) = {<<"unref", c>>, <<"drop", c>>, <<"clear", c>>}
        BY ItemsThree DEF Removed
      <4>4. e = <<"unref", c>> \/ e = <<"drop", c>> \/ e = <<"clear", c>>
        BY <2>5, <4>2, <4>3, ItemsNone
      <4> HIDE DEF c
      <4>5. e[2] = c
        BY <4>4
      <4> QED BY <2>3, <4>1, <4>5 DEF c
    <3>4. CASE Kind(1) = "collect"
      <4>1. \A d \in Items(s) : d[1] = "discard"
        BY <2>1, <3>4, ItemsNone DEF Turns
      <4> QED BY <2>5, <4>1
    <3>5. CASE Kind(1) \notin {"collect", "discard"}
      <4>1. s = <<>>
        BY <2>1, <3>2, <3>5 DEF Turns, Collects
      <4> QED BY <2>5, <4>1, ItemsNone
    <3> QED BY <3>3, <3>4, <3>5
  <2> QED BY <2>1, <2>2, <2>4, <2>5, Turned
<1>2. CASE Job \/ UpdateApp \/ NextApp \/ (StepFails /\ who = "job")
  <2>1. Job => who' = "job"
    BY DEF Job, Install, InstallBase, InstallExtra, InstallLayer, InstallUab, Update, Uninstall,
           UninstallExtra, Prune, Begin, BeginAs
  <2>2. StepFails => who' = "rollback"
    BY DEF StepFails, Fail
  <2>3. NextApp => who' = "job"
    BY DEF NextApp
  <2>4. CASE UpdateApp
    <3>1. Due("update") /\ who = "gc"
      BY <2>4 DEF UpdateApp
    <3>2. Kind(1) = "update" /\ 1 \in 1..Len(todo)
      BY <3>1, HeadIs
    <3> QED BY <3>1, <3>2 DEF TodoInv, GcInv, Collects
  <2> QED BY <1>2, <2>1, <2>2, <2>3, <2>4
<1>3. CASE GcBegin
  <2> DEFINE s == Each("collect", SetToSeq({c.ref : c \in deferred}))
             t == IF deferred = {} THEN <<>> ELSE Merging
  <2>1. todo' = s \o t
    BY <1>3 DEF GcBegin, Merging
  <2>2. IsSeq(s) /\ \A d \in Items(s) : d[1] = "collect"
    <3>1. IsFiniteSet({c.ref : c \in deferred})
      BY Mapped DEF FiniteInv
    <3>2. IsSeq(s) /\ \A d \in Items(s) : \E x \in {c.ref : c \in deferred} : d = <<"collect", x>>
      BY <3>1, ItemsEach
    <3> HIDE DEF s
    <3> QED BY <3>2
  <2>3. IsSeq(t) /\ Items(t) \subseteq {<<"merge">>}
    BY ItemsNone, ItemsOne DEF Merging
  <2> HIDE DEF s, t
  <2>4. e \in Items(s) \cup Items(t)
    BY <2>1, <2>2, <2>3, ItemsConcat
  <2>5. <<"merge">>[1] # "drop"
    OBVIOUS
  <2> QED BY <2>2, <2>3, <2>4, <2>5
<1>4. CASE Stopping
  BY <1>4, StopIs, ItemsNone
<1>5. CASE Resting
  BY <1>5, RestIs DEF GcDrops, repo
<1> QED BY <1>1, <1>2, <1>3, <1>4, <1>5, StepForms

\* What has not been merged yet will be, or goes.
Goes(S, s, r) == \E e \in Items(s) : TakesMain(S, e, r)
Settling(r) ==
    \/ MergeSoon(todo, 1, r)
    \/ who = "job" /\ Restored(undo, r) /\ (Merges(todo, 1) \/ Goes(live, todo, r))
    \/ who = "rollback" /\ (Merges(todo, 1) \/ Goes(live, todo, r))
Settles(r) == who # "gc" /\ Settling(r)
CurrentInv == {"rebuilt", "twice", "unmerged"} \cap hurt = {} => \A r \in Installed : Current(r) \/ Settles(r)

LEMMA CurrentSame ==
    ASSUME NEW r, \A c : c.ref = r => (c \in live' <=> c \in live), UNCHANGED merged
    PROVE  (r \in Installed' <=> r \in Installed) /\ (Current(r)' <=> Current(r))
<1>1. {c \in live' : c.ref = r} = {c \in live : c.ref = r}
  OBVIOUS
<1> QED BY <1>1 DEF Current, Installed

\* Once they are merged.
LEMMA MergeCurrent ==
    ASSUME merged' = Overlaid, UNCHANGED live, NEW r \in Installed'
    PROVE  Current(r)'
<1> DEFINE mine == {c \in live : c.ref = r}
           Of(x) == {c \in live : c.ref = x}
<1>1. r \in Installed /\ \E c \in mine : c.module = "binary"
  BY DEF Installed, Mains
<1>2. ASSUME NEW L \in Overlaid, NEW c \in L, c \in mine PROVE L = mine
  <2>1. PICK x \in Installed : L = Of(x)
    BY <1>2 DEF Overlaid
  <2> QED BY <1>2, <2>1
<1>3. ASSUME NEW L \in Overlaid PROVE Cardinality(L) > 1
  BY <1>3 DEF Overlaid
<1>4. ASSUME Cardinality(mine) > 1 PROVE mine \in Overlaid
  BY <1>1, <1>4 DEF Overlaid
<1>5. {L \in Overlaid : \E c \in L : c.module = "binary" /\ c \in mine} = IF Cardinality(mine) > 1 THEN {mine} ELSE {}
  <2> HIDE DEF mine
  <2> QED BY <1>1, <1>2, <1>3, <1>4
<1> QED BY <1>5 DEF Current

\* Nothing is to be merged when no merge and no removal is to come.
LEMMA SettledAsks ==
    ASSUME todo = <<>> \/ (todo # <<>> /\ TodoInv /\ Kind(1) \in {"next", "update"}), NEW r
    PROVE  ~Settling(r)
<1>1. \A i \in 1..Len(todo) : Kind(i) \in Asks \cup {"next"}
  <2>1. CASE todo = <<>>
    BY <2>1, ItemsNone
  <2>2. CASE todo # <<>> /\ TodoInv /\ Kind(1) \in {"next", "update"}
    <3>1. Len(todo) \in Nat \ {0}
      BY <2>2, Next1 DEF TodoInv
    <3>2. \A i \in 1..Len(todo) : i = 1 \/ (1 \in 1..Len(todo) /\ 1 < i)
      BY <3>1
    <3> QED BY <2>2, <3>2 DEF TodoInv, HolderInv, Asks
  <2> QED BY <2>1, <2>2
<1>2. ~Merges(todo, 1) /\ ~MergeSoon(todo, 1, r)
  BY <1>1 DEF Merges, MergeSoon, Kind, Asks
<1>3. ~Goes(live, todo, r)
  BY <1>1 DEF Goes, TakesMain, Items, Kind, Asks
<1> QED BY <1>2, <1>3 DEF Settling

\* A version is taken away, or a rollback cannot do it and leaves something.
LEMMA RetireTurn ==
    ASSUME TodoInv, Plain, todo # <<>>, Kind(1) = "retire"
    PROVE  \/ \E do \in {"mark", "remove"} : Turn(Entire(do, This))
           \/ who = "rollback" /\ Due("retire") /\ Arg = This /\ hurt' = hurt \cup Left
<1>1. CASE Retire
  <2>1. Arg = This
    BY <1>1, HeadIs DEF Retire
  <2>2. \E do \in {"mark", "remove"} : Onward(Entire(do, Arg))
    <3>1. Onward(Entire(IF Busy(Arg) THEN "mark" ELSE "remove", Arg))
      BY <1>1 DEF Retire, Entire
    <3> QED BY <3>1
  <2> QED BY <2>1, <2>2, EntireIs DEF Turn, Onward, Proceed
<1>2. CASE StepFails /\ who # "job"
  <2>1. hurt' = hurt \cup Left
    BY <1>2 DEF StepFails, Fail
  <2>2. who # "gc" /\ who # "none"
    BY NotCollecting DEF Collects, TodoInv, HolderInv
  <2>3. who = "rollback"
    BY <1>2, <2>2 DEF TodoInv, HolderInv
  <2>4. PICK do : Due(do)
    BY <1>2 DEF StepFails
  <2>5. Due("retire") /\ Arg = This
    BY <2>4, HeadIs DEF Due, Kind
  <2> QED BY <2>1, <2>3, <2>5
<1>3. CASE ~Retire /\ ~(StepFails /\ who # "job")
  <2>1. PICK do : Due(do) /\ do # "retire"
    BY <1>3 DEF Plain, Merge, Unimport, UpdateSkips, Updated, InstallModule, ImportLayer, SetRef, Clear, Checkout,
       Upsert, Export, Unexport, Mark, Drop, RemoveAll, RemoveModule, Unref,
       AfterChange, PruneUnused, Clean, Sweep, Collect, Discard
  <2> QED BY <2>1, HeadIs
<1> QED BY <1>1, <1>2, <1>3 DEF Plain

\* A main module that is to go still is, or has gone.
LEMMA GoesOn ==
    ASSUME TodoInv, ArgsInv, OneLive, {"rebuilt", "twice"} \cap hurt = {},
           Plain, NEW s, Turn(s), Turns(s), NEW r \in Installed, r \in Installed', Goes(live, todo, r)
    PROVE  \/ Goes(live', todo', r)
           \/ who = "rollback" /\ Due("retire") /\ Arg = r /\ hurt' = hurt \cup Left
<1>1. PICK i \in 1..Len(todo) : TakesMain(live, todo[i], r)
  BY DEF Goes, Items
<1>2. /\ IsSeq(todo) /\ todo # <<>> /\ Len(todo) \in Nat \ {0} /\ Len(s) \in Nat
      /\ \A k \in 1..Len(s) : todo'[k] = s[k]
      /\ Len(todo') = Len(s) + Len(todo) - 1
      /\ \A k \in (Len(s) + 1)..Len(todo') : todo'[k] = todo[k - Len(s) + 1]
  BY Turned DEF TodoInv, Turn
<1>3. CASE i # 1
  <2> DEFINE k == i - 1 + Len(s)
             u == todo'
             l == Len(s)
  <2>0. /\ l \in Nat /\ k = i - 1 + l /\ Len(u) = l + Len(todo) - 1
        /\ \A x \in (l + 1)..Len(u) : u[x] = todo[x - l + 1]
    BY <1>2
  <2> HIDE DEF k, u, l
  <2>1. k \in (l + 1)..Len(u) /\ k - l + 1 = i /\ i \in 2..Len(todo) /\ k \in 1..Len(u)
    BY <1>2, <1>3, <2>0
  <2>2. u[k] = todo[i] /\ todo[i] \in Items(u)
    <3>1. u[k] = todo[i]
      BY <2>0, <2>1
    <3> QED BY <2>1, <3>1 DEF Items
  <2>3. TakesMain(live', todo[i], r)
    <3>1. CASE todo[i][1] = "drop"
      <4>1. Kind(1) = "unref"
        BY <1>2, <2>1, <3>1, DropSecond DEF Kind
      <4>2. UNCHANGED live
        BY <4>1, LiveIs
      <4> QED BY <1>1, <4>2
    <3>2. CASE todo[i][1] # "drop"
      BY <1>1, <3>2 DEF TakesMain
    <3> QED BY <3>1, <3>2
  <2> QED BY <2>2, <2>3 DEF Goes, u
<1>4. CASE i = 1
  <2>1. TakesMain(live, todo[1], r)
    BY <1>1, <1>4
  <2>2. ASSUME Kind(1) \in {"retire", "remove_all"}, This = r, NEW do \in {"mark", "remove"}, Turn(Entire(do, This))
        PROVE  Goes(live', todo', r)
    <3>1. <<do, r, "binary">> \in Items(Entire(do, r))
      BY EntireIs DEF ModulesOf, Both, Installed, Mains
    <3>2. <<do, r, "binary">> \in Items(todo')
      <4> DEFINE t == Entire(do, r)
      <4>1. Turn(t) /\ IsSeq(todo) /\ <<do, r, "binary">> \in Items(t)
        BY <1>2, <2>2, <3>1
      <4> HIDE DEF t
      <4>2. PICK k \in 1..Len(t) : t[k] = <<do, r, "binary">>
        BY <4>1 DEF Items
      <4>3. todo'[k] = t[k] /\ k \in 1..Len(todo')
        <5>1. /\ Len(t) \in Nat /\ Len(todo) \in Nat \ {0} /\ Len(todo') = Len(t) + Len(todo) - 1
              /\ \A x \in 1..Len(t) : todo'[x] = t[x]
          BY <4>1, Turned
        <5> DEFINE u == todo'
                   l == Len(t)
        <5>2. l \in Nat /\ Len(u) = l + Len(todo) - 1 /\ k \in 1..l
          BY <5>1
        <5> HIDE DEF u, l
        <5>3. k \in 1..Len(u)
          BY <1>2, <5>2
        <5> QED BY <5>1, <5>3 DEF u
      <4> QED BY <4>2, <4>3 DEF Items
    <3>3. TakesMain(live', <<do, r, "binary">>, r)
      BY DEF TakesMain
    <3> QED BY <3>2, <3>3 DEF Goes
  <2>3. CASE Kind(1) = "remove_all"
    <3>1. This = r
      BY <2>1, <2>3 DEF TakesMain, Kind, This
    <3>2. \E do \in {"mark", "remove"} : s = Entire(do, This)
      BY <2>3 DEF Turns
    <3> QED BY <2>2, <2>3, <3>1, <3>2
  <2>4. CASE Kind(1) = "retire"
    <3>1. This = r
      BY <2>1, <2>4 DEF TakesMain, Kind, This
    <3> QED BY <1>2, <2>2, <2>4, <3>1, RetireTurn
  <2>5. CASE Kind(1) = "mark"
    <3>1. This = r /\ todo[1][3] = "binary"
      BY <2>1, <2>5 DEF TakesMain, Kind, This
    <3>2. PICK c \in live : c.ref = r /\ c.module = "binary" /\ live' = live \ {c}
      BY <1>2, <2>5, <3>1, TakenIs DEF Found
    <3>3. c \in live \cap Mains
      BY <3>2 DEF ArgsInv, Mains
    <3> QED BY <3>2, <3>3, MainGoes
  <2>6. CASE Kind(1) = "remove"
    <3>1. This = r /\ todo[1][3] = "binary"
      BY <2>1, <2>6 DEF TakesMain, Kind, This
    <3>2. s # <<>>
      BY <2>6, RemovedIs DEF Turns
    <3>3. UNCHANGED live /\ \E c \in Found(live, r, "binary") : s = Removed(c)
      BY <2>6, <3>1, <3>2, GoneTurn DEF Gone
    <3>4. PICK c \in live : c.ref = r /\ c.module = "binary" /\ s = Removed(c)
      BY <3>3 DEF Found
    <3>5. c \in live' \cap Mains
      BY <3>3, <3>4 DEF ArgsInv, Mains
    <3>6. Len(s) = 3 /\ s[2] = <<"drop", c>>
      BY <3>4, RemovedIs
    <3>7. 2 \in 1..Len(todo') /\ todo'[2] = <<"drop", c>>
      <4> DEFINE u == todo'
                 l == Len(s)
      <4>1. l = 3 /\ Len(u) = l + Len(todo) - 1 /\ \A k \in 1..l : u[k] = s[k]
        BY <1>2, <3>6
      <4> HIDE DEF u, l
      <4>2. 2 \in 1..l /\ 2 \in 1..Len(u)
        BY <1>2, <4>1
      <4> QED BY <3>6, <4>1, <4>2 DEF u
    <3>8. TakesMain(live', <<"drop", c>>, r)
      BY <3>4, <3>5 DEF TakesMain
    <3> QED BY <3>7, <3>8 DEF Goes, Items
  <2>7. CASE Kind(1) = "drop"
    <3>1. This \in live \cap Mains /\ This.ref = r
      BY <2>1, <2>7 DEF TakesMain, Kind, This
    <3>2. live' = live \ {This}
      BY <1>2, <2>7, TakenIs
    <3> QED BY <3>1, <3>2, MainGoes
  <2> QED BY <2>1, <2>3, <2>4, <2>5, <2>6, <2>7 DEF TakesMain, Kind
<1> QED BY <1>3, <1>4


LEMMA SettledPlain ==
    ASSUME TodoInv, FiniteInv, ArgsInv, OneLive, BringInv, ExtraInvs, CurrentInv,
           {"rebuilt", "twice", "unmerged"} \cap (hurt \cup hurt') = {},
           Plain, ~Merge, NEW r \in Installed'
    PROVE  Current(r)' \/ Settling(r)'
<1>0. ExtraInv /\ todo # <<>> /\ IsSeq(todo)
  <2>1. PICK s : Turn(s)
    BY Turning DEF Plain
  <2> QED BY <2>1 DEF Turn, ExtraInvs, TodoInv
<1>1. PICK s : Turn(s) /\ Turns(s)
  BY Turning DEF Plain
<1>2. todo[1] # <<"merge">> /\ UNCHANGED merged
  <2>1. PICK do : Due(do) /\ do # "merge"
    BY DEF Plain, Unimport, UpdateSkips, Updated, InstallModule, ImportLayer, SetRef, Clear, Checkout,
       Upsert, Export, Unexport, Retire, Mark, RemoveAll, RemoveModule, Unref, Drop,
       AfterChange, PruneUnused, Clean, Sweep, Collect, Discard, StepFails
  <2>2. Kind(1) # "merge"
    BY <2>1, HeadIs
  <2> QED BY <2>2, MergedIs DEF Kind
<1>3. UNCHANGED <<who, undo>>
  BY <1>1 DEF Turn
<1>4. ASSUME Turn(<<>>)
      PROVE  (\A x : MergeSoon(todo, 2, x) => MergeSoon(todo', 1, x)) /\ (Merges(todo, 2) => Merges(todo', 1))
  <2> DEFINE t == <<>>
  <2>1. Turn(t) /\ Len(t) = 0 /\ 2 \in Nat \ {0, 1} /\ 2 - 1 + 0 = 1
    BY <1>4
  <2> HIDE DEF t
  <2>2. /\ \A x : MergeSoon(todo, 2, x) => MergeSoon(todo', 2 - 1 + Len(t), x)
        /\ Merges(todo, 2) => Merges(todo', 2 - 1 + Len(t))
    BY <1>0, <2>1, SoonGoes
  <2> QED BY <2>1, <2>2
<1>5. CASE \A c : c.ref = r => (c \in live' <=> c \in live)
  <2>1. r \in Installed /\ (Current(r)' <=> Current(r))
    BY <1>2, <1>5, CurrentSame
  <2>2. Current(r) \/ Settling(r)
    BY <2>1 DEF CurrentInv, Settles
  <2>3. ASSUME MergeSoon(todo, 1, r) PROVE MergeSoon(todo', 1, r)
    <3>1. Calm(todo[1], r)
      <4>1. 1 \in Nat \ {0} /\ Len(todo) \in Nat
        BY <1>0, Rests
      <4> QED BY <1>2, <2>3, <4>1, SoonNext
    <3>2. \A e \in Items(s) : Calm(e, r)
      BY <1>1, <3>1, TurnCalm
    <3> QED BY <1>0, <1>1, <1>2, <2>3, <3>2, SoonGoesOn
  <2>4. Merges(todo, 1) => Merges(todo', 1)
    BY <1>0, <1>1, <1>2, SoonGoesOn
  <2>5. Goes(live, todo, r) => Goes(live', todo', r) \/ Current(r)
    <3>1. r \in Installed /\ ~Current(r) /\ who = "rollback" /\ Due("retire") /\ Arg = r => "unmerged" \in Left
      BY DEF Left
    <3> QED BY <1>1, <2>1, <3>1, GoesOn
  <2> QED BY <1>3, <2>1, <2>2, <2>3, <2>4, <2>5 DEF Settling
<1>6. CASE Kind(1) \in {"install", "upsert"} /\ who = "job" /\ Turn(<<>>) /\ This.ref = r
  <2>1. Bring(todo[1]) /\ 1 \in 1..Len(todo) /\ 1 + 1 = 2
    BY <1>0, <1>6, Rests DEF Bring, Kind
  <2>2. MergeSoon(todo, 2, r) \/ (Restored(undo, r) /\ Merges(todo, 2))
    BY <1>6, <2>1 DEF BringInv, Joined, This
  <2> QED BY <1>3, <1>4, <1>6, <2>2 DEF Settling
<1>7. ASSUME NEW c \in live, c.ref = r, live' = live \ {c}, Turn(<<>>),
             c \notin Mains => TakesExtra(live, todo[1], r)
      PROVE  Settling(r)'
  <2>1. c \notin Mains
    <3>1. c \in Mains => r \notin Installed'
      BY <1>7, MainGoes
    <3> QED BY <3>1
  <2>2. r \in {d.ref : d \in live \cap Mains}
    BY <1>7 DEF Installed
  <2>3. 1 \in 1..Len(todo) /\ 1 + 1 = 2
    BY <1>0, Rests
  <2>4. MainFirst(live, todo, 1, r) \/ MergeSoon(todo, 2, r)
    BY <1>0, <1>7, <2>1, <2>3 DEF ExtraInv
  <2>5. ~MainFirst(live, todo, 1, r)
    BY <2>2 DEF MainFirst
  <2> QED BY <1>4, <1>7, <2>4, <2>5 DEF Settling
<1>8. ASSUME Kind(1) = "mark", NEW c \in Found(live, This, todo[1][3]), live' = live \ {c}, This = r
      PROVE  Settling(r)'
  <2>1. c \in live /\ c.ref = r /\ c.module = todo[1][3]
    BY <1>8 DEF Found
  <2>2. c \notin Mains => TakesExtra(live, todo[1], r)
    BY <1>8, <2>1 DEF TakesExtra, Mains, ArgsInv, Kind, This
  <2>3. Turn(<<>>)
    BY <1>1, <1>8, GoneTurn DEF Gone
  <2> QED BY <1>7, <1>8, <2>1, <2>2, <2>3
<1>9. ASSUME Kind(1) = "drop", This \in live, live' = live \ {This}, This.ref = r
      PROVE  Settling(r)'
  <2>1. This \notin Mains => TakesExtra(live, todo[1], r)
    BY <1>9 DEF TakesExtra, Kind, This
  <2>2. Turn(<<>>)
    BY <1>1, <1>9, GoneTurn DEF Gone
  <2> QED BY <1>7, <1>9, <2>1, <2>2
<1>10. ASSUME NEW d, d.ref = r, ~(d \in live' <=> d \in live)
       PROVE  Settling(r)' \/ (Kind(1) \in {"install", "upsert"} /\ who = "job" /\ Turn(<<>>) /\ This.ref = r)
  <2>1. CASE UNCHANGED live
    BY <1>10, <2>1
  <2>2. CASE /\ Kind(1) \in {"install", "upsert"} /\ who = "job" /\ Turn(<<>>)
             /\ \A c : c.ref # This.ref => (c \in live' <=> c \in live)
    BY <1>10, <2>2
  <2>3. CASE Kind(1) = "mark" /\ \E c \in Found(live, This, todo[1][3]) : live' = live \ {c}
    <3>1. PICK c \in Found(live, This, todo[1][3]) : live' = live \ {c}
      BY <2>3
    <3>2. c = d /\ This = r
      BY <1>10, <3>1 DEF Found
    <3> QED BY <1>8, <2>3, <3>1, <3>2
  <2>4. CASE Kind(1) = "drop" /\ live' = live \ {This}
    <3>1. d = This /\ d \in live
      BY <1>10, <2>4
    <3> QED BY <1>9, <1>10, <2>4, <3>1
  <2> QED BY <2>1, <2>2, <2>3, <2>4, LiveIs
<1> QED BY <1>5, <1>6, <1>10

LEMMA CurrentStep ==
    TodoInv /\ FiniteInv /\ ArgsInv /\ GcDrops /\ OneLive /\ BringInv /\ ExtraInvs /\ CurrentInv /\ [Next]_vars => CurrentInv'
<1> SUFFICES ASSUME TodoInv, FiniteInv, ArgsInv, GcDrops, OneLive, BringInv, ExtraInvs, CurrentInv, [Next]_vars,
                    {"rebuilt", "twice", "unmerged"} \cap hurt' = {}, NEW r \in Installed'
             PROVE  Current(r)' \/ Settles(r)'
  BY DEF CurrentInv
<1>0. ASSUME hurt \subseteq hurt', UNCHANGED <<live, merged>>
      PROVE  r \in Installed /\ (Current(r)' <=> Current(r)) /\ (Current(r) \/ Settles(r))
  <2>1. r \in Installed /\ (Current(r)' <=> Current(r))
    BY <1>0, CurrentSame
  <2>2. {"rebuilt", "twice", "unmerged"} \cap hurt = {}
    BY <1>0
  <2> QED BY <2>1, <2>2 DEF CurrentInv
<1>1. CASE Plain /\ ~Merge
  <2>1. hurt \subseteq hurt'
    BY <1>1 DEF Plain, Unimport, UpdateSkips, Updated, InstallModule, ImportLayer, SetRef, Clear, Checkout,
                Upsert, Export, Unexport, Retire, Mark, RemoveAll, RemoveModule, Unref, Drop,
                AfterChange, PruneUnused, Clean, Sweep, Collect, Discard, StepFails, Fail, Onward
  <2>2. UNCHANGED <<who, merged>>
    <3>1. PICK s : Turn(s)
      BY <1>1, Turning DEF Plain
    <3>2. UNCHANGED merged \/ Merge
      BY <1>1, MergedIs
    <3> QED BY <1>1, <3>1, <3>2 DEF Turn
  <2>3. CASE who = "gc"
    <3>1. UNCHANGED live
      BY <1>1, <2>3, GcStill
    <3> QED BY <1>0, <2>1, <2>2, <2>3, <3>1 DEF Settles
  <2>4. CASE who # "gc"
    <3>1. Current(r)' \/ Settling(r)'
      BY <1>1, <2>1, SettledPlain
    <3> QED BY <2>2, <2>4, <3>1 DEF Settles
  <2> QED BY <2>3, <2>4
<1>2. CASE Merge
  <2>1. CASE merged' = Overlaid /\ UNCHANGED live
    BY <2>1, MergeCurrent
  <2>2. CASE who = "gc" /\ UNCHANGED <<live, merged, hurt>>
    BY <1>0, <2>2 DEF Settles
  <2> QED BY <1>2, <2>1, <2>2 DEF Merge
<1>3. CASE Job \/ GcBegin
  <2>1. who = "none" /\ hurt \subseteq hurt' /\ UNCHANGED repo
    <3>1. CASE Job
      <4>1. \E h \in SUBSET {"forced"} : \E plan, back : BeginAs(h, plan, back)
        BY <3>1 DEF Job, Install, InstallBase, InstallExtra, InstallLayer, InstallUab, Update, Uninstall,
                    UninstallExtra, Prune, Begin
      <4> QED BY <4>1 DEF BeginAs
    <3>2. CASE GcBegin
      BY <3>2 DEF GcBegin, past
    <3> QED BY <1>3, <3>1, <3>2
  <2>2. todo = <<>>
    BY <2>1 DEF TodoInv, HolderInv
  <2>3. ~Settling(r)
    BY <2>2, SettledAsks
  <2> QED BY <1>0, <2>1, <2>3 DEF repo, Settles
<1>4. CASE UpdateApp \/ UpdateCanceled \/ NextApp
  <2>1. UNCHANGED <<repo, hurt>> /\ \E do \in {"update", "next"} : Due(do)
    BY <1>4 DEF UpdateApp, UpdateCanceled, NextApp, past
  <2>2. todo # <<>> /\ Kind(1) \in {"next", "update"}
    BY <2>1, HeadIs
  <2>3. ~Settling(r)
    BY <2>2, SettledAsks
  <2> QED BY <1>0, <2>1, <2>3 DEF repo, Settles
<1>5. CASE End
  <2>1. todo = <<>> /\ UNCHANGED <<repo, hurt>>
    BY <1>5 DEF End, past
  <2>2. ~Settling(r)
    BY <2>1, SettledAsks
  <2> QED BY <1>0, <2>1, <2>2 DEF repo, Settles
<1>6. CASE StepFails /\ who = "job"
  <2>1. /\ todo' = undo \o Rest /\ who' = "rollback" /\ hurt' = hurt \cup Left /\ UNCHANGED repo
        /\ IsSeq(undo) /\ todo # <<>> /\ Kind(1) \in {"install", "checkout", "export", "unexport", "retire"}
    BY <1>6, FailIs
  <2>2. /\ r \in Installed /\ (Current(r)' <=> Current(r)) /\ (Current(r) \/ Settling(r))
    BY <1>0, <2>1 DEF repo, Settles
  <2>3. ~MergeSoon(todo, 1, r)
    <3> SUFFICES ASSUME MergeSoon(todo, 1, r) PROVE FALSE
      OBVIOUS
    <3>1. Calm(todo[1], r)
      <4>1. 1 \in Nat \ {0} /\ Len(todo) \in Nat /\ todo[1] # <<"merge">>
        BY <2>1, Rests DEF TodoInv, Kind
      <4> QED BY <4>1, SoonNext
    <3>2. r \notin Apps /\ Kind(1) \in {"install", "checkout"} /\ This.ref = r
      BY <2>1, <3>1 DEF Calm, May, Kind, This
    <3>3. PICK do : Due(do)
      BY <1>6 DEF StepFails
    <3>4. (Due("install") \/ Due("checkout")) /\ Arg = This
      BY <3>2, <3>3, HeadIs DEF Due
    <3>5. "unmerged" \in Left
      BY <1>6, <2>2, <3>2, <3>4 DEF Left
    <3> QED BY <2>1, <3>5
  <2>4. ASSUME Restored(undo, r) PROVE Settling(r)'
    <3>1. IsSeq(Rest) /\ Len(undo) \in Nat /\ Len(todo') = Len(undo) + Len(Rest) /\ Len(Rest) \in Nat
          /\ \A i \in 1..Len(undo) : todo'[i] = undo[i]
      BY <2>1, RestItems, Concat
    <3> DEFINE u == todo'
               l == Len(undo)
    <3>2. \A i \in 1..l : i \in 1..Len(u) /\ u[i] = undo[i]
      <4>1. l \in Nat /\ Len(u) = l + Len(Rest) /\ Len(Rest) \in Nat /\ \A i \in 1..l : u[i] = undo[i]
        BY <3>1
      <4> HIDE DEF l, u
      <4> QED BY <4>1
    <3> HIDE DEF l, u
    <3>3. CASE <<"merge">> \in Items(undo)
      <4>1. PICK i \in 1..l : undo[i] = <<"merge">>
        BY <3>3 DEF Items, l
      <4>2. Merges(u, 1)
        BY <3>2, <4>1 DEF Merges
      <4> QED BY <2>1, <4>2 DEF Settling, u
    <3>4. CASE <<"retire", r>> \in Items(undo)
      <4>1. PICK i \in 1..l : undo[i] = <<"retire", r>>
        BY <3>4 DEF Items, l
      <4>2. TakesMain(live', <<"retire", r>>, r)
        BY DEF TakesMain
      <4>3. Goes(live', u, r)
        BY <3>2, <4>1, <4>2 DEF Goes, Items
      <4> QED BY <2>1, <4>3 DEF Settling, u
    <3> QED BY <2>4, <3>3, <3>4 DEF Restored
  <2> QED BY <1>6, <2>1, <2>2, <2>3, <2>4 DEF Settling, Settles
<1>7. CASE Crash
  <2>1. UNCHANGED repo /\ hurt \subseteq hurt' /\ \A x \in Installed : Current(x)
    BY <1>7 DEF Crash
  <2> QED BY <1>0, <2>1 DEF repo
<1>8. CASE Rebuilt
  BY <1>8 DEF Rebuilt
<1>9. CASE Resting
  <2>1. UNCHANGED <<repo, todo, undo, who, hurt>>
    BY <1>9, RestIs
  <2> QED BY <1>0, <2>1 DEF repo, Settling, Settles
<1> QED BY <1>1, <1>2, <1>3, <1>4, <1>5, <1>6, <1>7, <1>8, <1>9, StepForms DEF Stopping

\* What a version has several modules of is overlaid again after every change of them,
\* also by the rollback of an operation that failed.
THEOREM MergedCurrentHolds == Spec => []MergedCurrent
<1> DEFINE Inv == ArgsInv /\ BringInv /\ ExtraInvs /\ GcDrops /\ CurrentInv
<1>1. Init => Inv
  <2> SUFFICES ASSUME Init PROVE Inv
    OBVIOUS
  <2>1. Items(todo) = {} /\ Len(todo) = 0
    BY ItemsNone DEF Init
  <2> QED BY <2>1 DEF Init, ArgsInv, BringInv, ExtraInvs, ExtraInv, UndoExtras, GcLive, GcDrops,
     CurrentInv, Installed
<1>2. LayersInv /\ OneLive /\ Inv /\ [Next]_vars => Inv'
  BY ArgsStep, BringStep, ExtraStep, GcDropsStep, CurrentStep DEF LayersInv, ExtraInvs
<1>3. LayersInv /\ Inv => MergedCurrent
  BY SettledAsks DEF CurrentInv, Settles, MergedCurrent, Idle, LayersInv, TodoInv, HolderInv
<1> HIDE DEF Inv
<1> QED BY <1>1, <1>2, <1>3, LayersInvHolds, OneLiveHolds, PTL DEF Spec

\* The desktop entries and the merged directories follow the installed layers.
THEOREM FollowsInstalledHolds == Spec => []FollowsInstalled
BY ExportedLiveHolds, MergedCurrentHolds, PTL DEF FollowsInstalled

-----------------------------------------------------------------------------
(* The bases of installed apps.                                            *)

\* What removes a version, or modules of it, and what brings its main module.
Touches(e, r)   == \/ e[1] \in {"retire", "remove_all", "mark", "remove"} /\ e[2] = r
                   \/ e[1] \in {"unimport", "drop"} /\ e[2].ref = r
Untouched(s, r) == \A e \in Items(s) : ~Touches(e, r)
Brings(e, r)    == Bring(e) /\ e[2] \in Mains /\ e[2].ref = r

\* An operation that begins with one of these may come to something larger.
Enders == {"updated", "prune", "prune_after"}
Larger == Enders \cup {"update", "next"}

\* What an update is replaced by concerns the same version.
Follows(e) == /\ \A r : Touches(e, r) => Touches(todo[1], r)
              /\ \A r : Brings(e, r) => Brings(todo[1], r)
              /\ e[1] \in Larger => Kind(1) \in Enders /\ e[1] \in Enders

LEMMA FollowsFree ==
    ASSUME NEW e, e[1] \notin {"retire", "remove_all", "mark", "remove", "unimport", "drop",
                              "install", "import", "upsert"} \cup Larger
    PROVE  Follows(e)
BY DEF Follows, Touches, Brings, Bring

LEMMA TurnFollows ==
    ASSUME TodoInv, FiniteInv, NEW s, Turn(s), Turns(s), Kind(1) \notin {"prune", "collect", "discard"}
    PROVE  \A e \in Items(s) : Follows(e)
<1>1. CASE s = <<>>
  BY <1>1, ItemsNone
<1>2. CASE s = Import(This) /\ Kind(1) \in {"install", "import"}
  <2> DEFINE c == This
  <2>1. Items(s) = {<<"ref", c>>, <<"clear", c>>, <<"checkout", c>>, <<"upsert", c>>}
    BY <1>2, ItemsFour DEF Import
  <2>2. \A do \in {"ref", "clear", "checkout"} : Follows(<<do, c>>)
    BY FollowsFree DEF Larger, Enders
  <2>3. Follows(<<"upsert", c>>)
    BY <1>2 DEF Follows, Touches, Brings, Bring, Larger, Enders, Kind, This
  <2> QED BY <2>1, <2>2, <2>3
<1>3. ASSUME NEW c, s = Removed(c), \A r : c.ref = r => Touches(todo[1], r)
      PROVE  \A e \in Items(s) : Follows(e)
  <2>1. Items(s) = {<<"unref", c>>, <<"drop", c>>, <<"clear", c>>}
    BY <1>3, ItemsThree DEF Removed
  <2>2. \A do \in {"unref", "clear"} : Follows(<<do, c>>)
    BY FollowsFree DEF Larger, Enders
  <2>3. Follows(<<"drop", c>>)
    BY <1>3 DEF Follows, Touches, Brings, Bring, Larger, Enders
  <2> QED BY <2>1, <2>2, <2>3
<1>4. CASE s = Removed(This) /\ Kind(1) = "unimport"
  BY <1>3, <1>4 DEF Touches, Kind, This
<1>5. CASE Kind(1) = "remove" /\ \E c \in Found(live, This, todo[1][3]) : s = Removed(c)
  <2>1. PICK c \in Found(live, This, todo[1][3]) : s = Removed(c)
    BY <1>5
  <2>2. \A r : c.ref = r => Touches(todo[1], r)
    BY <1>5, <2>1 DEF Found, Touches, Kind, This
  <2> QED BY <1>3, <2>1, <2>2
<1>6. CASE Kind(1) \in {"retire", "remove_all"} /\ \E do \in {"mark", "remove"} : s = Entire(do, This)
  <2>1. PICK do \in {"mark", "remove"} : s = Entire(do, This)
    BY <1>6
  <2>2. \A m : Follows(<<do, This, m>>)
    BY <1>6 DEF Follows, Touches, Brings, Bring, Larger, Enders, Kind, This
  <2> QED BY <2>1, <2>2, EntireIs
<1>7. CASE Kind(1) = "updated" /\ s \in {Merging, Merging \o PruneAfter}
  <2>1. Items(Merging) = {<<"merge">>} /\ Items(PruneAfter) = {<<"prune_after">>} /\ IsSeq(Merging) /\ IsSeq(PruneAfter)
    BY ItemsOne DEF Merging, PruneAfter
  <2>2. Items(s) \subseteq {<<"merge">>, <<"prune_after">>}
    <3>1. Items(Merging \o PruneAfter) = {<<"merge">>} \cup {<<"prune_after">>}
      BY <2>1, ItemsConcat
    <3> QED BY <1>7, <2>1, <3>1
  <2>3. Follows(<<"merge">>) /\ Follows(<<"prune_after">>)
    BY <1>7 DEF Follows, Touches, Brings, Bring, Larger, Enders
  <2> QED BY <2>2, <2>3
<1>8. CASE Kind(1) = "prune_after" /\ s = <<<<"prune">>>>
  <2>1. Items(s) = {<<"prune">>}
    BY <1>8, ItemsOne
  <2>2. Follows(<<"prune">>)
    BY <1>8 DEF Follows, Touches, Brings, Bring, Larger, Enders
  <2> QED BY <2>1, <2>2
<1>10. CASE Kind(1) = "clean" /\ \A e \in Items(s) : e[1] = "sweep"
  BY <1>10, FollowsFree DEF Larger, Enders
<1>11. CASE Kind(1) = "sweep" /\ s = <<<<"clear", This>>, <<"unref", This>>>>
  <2>1. Items(s) = {<<"clear", This>>, <<"unref", This>>}
    BY <1>11, ItemsTwo
  <2>2. \A c : Follows(<<"clear", c>>) /\ Follows(<<"unref", c>>)
    BY FollowsFree DEF Larger, Enders
  <2> QED BY <2>1, <2>2
<1> QED BY <1>1, <1>2, <1>4, <1>5, <1>6, <1>7, <1>8, <1>10, <1>11 DEF Turns

LEMMA SameTurn ==
    ASSUME IsSeq(todo), NEW s, NEW t, Turn(s), Turn(t)
    PROVE  Items(s) = Items(t) /\ Len(s) = Len(t)
<1> DEFINE u == todo'
           l == Len(s)
           k == Len(t)
<1>1. /\ l \in Nat /\ k \in Nat /\ Len(todo) \in Nat \ {0} /\ Len(u) = l + Len(todo) - 1 /\ Len(u) = k + Len(todo) - 1
      /\ (\A i \in 1..l : u[i] = s[i]) /\ (\A i \in 1..k : u[i] = t[i])
  BY Turned
<1> HIDE DEF u
<1>2. l = k
  BY <1>1
<1> QED BY <1>1, <1>2 DEF Items

\* What a pull or an import makes of the entries.
LEMMA ArrivesIs ==
    ASSUME TodoInv, ArgsInv, Plain, todo # <<>>, Kind(1) \in {"install", "import", "upsert"}
    PROVE  \/ UNCHANGED live /\ Turn(Import(This)) /\ Kind(1) # "upsert"
           \/ \E d \in Commits : /\ SameLayer(d, This) /\ d \in live' /\ This \in Commits
                                 /\ \A c : c \in live' => c \in live \/ c = d
                                 /\ \A c \in live : c \notin live' => SameLayer(c, This)
<1>1. who # "rollback" /\ who # "gc" /\ who # "none" /\ Len(todo) \in Nat \ {0}
  <2>1. Len(todo) \in Nat \ {0}
    BY Rests DEF TodoInv
  <2> QED BY <2>1 DEF TodoInv, HolderInv, Forward, GcInv, Collects
<1>2. who = "job"
  BY <1>1 DEF TodoInv, HolderInv
<1>3. todo[1] \in Items(todo) /\ This \in Commits /\ deferred \subseteq Commits
  <2>1. todo[1] \in Items(todo)
    BY <1>1 DEF Items
  <2> QED BY <2>1 DEF ArgsInv, Fit, Pulls, Kind, This
<1>4. InstallModule \/ ImportLayer \/ Upsert
  <2> SUFFICES ASSUME ~(InstallModule \/ ImportLayer \/ Upsert) PROVE FALSE
    OBVIOUS
  <2>1. PICK do : Due(do) /\ do \notin {"install", "import", "upsert"}
    BY <1>2 DEF Plain, Merge, Unimport, UpdateSkips, Updated, SetRef, Clear, Checkout,
       Export, Unexport, Retire, Mark, RemoveAll, RemoveModule, Unref, Drop,
       AfterChange, PruneUnused, Clean, Sweep, Collect, Discard
  <2> QED BY <2>1, HeadIs
<1>5. ASSUME Onward(Import(Arg)), UNCHANGED repo, NEW do \in {"install", "import"}, Due(do)
      PROVE  UNCHANGED live /\ Turn(Import(This)) /\ Kind(1) # "upsert"
  <2>1. Arg = This /\ todo # <<>> /\ Kind(1) = do
    BY <1>5, HeadIs
  <2> QED BY <1>5, <2>1, IsSeqs DEF Turn, Onward, Proceed, repo
<1>6. CASE InstallModule
  <2>1. Due("install") /\ Arg = This
    BY <1>6, HeadIs DEF InstallModule
  <2>2. CASE {d \in deferred : SameLayer(d, Arg)} = {}
    BY <1>5, <1>6, <2>1, <2>2 DEF InstallModule
  <2>3. CASE {d \in deferred : SameLayer(d, Arg)} # {}
    <3>1. PICK d \in deferred : SameLayer(d, Arg) /\ live' = live \cup {d}
      BY <1>6, <2>3 DEF InstallModule
    <3> QED BY <1>3, <2>1, <3>1
  <2> QED BY <2>2, <2>3
<1>7. CASE ImportLayer
  BY <1>5, <1>7 DEF ImportLayer
<1>8. CASE Upsert
  <2>1. Arg = This /\ live' = {d \in live : ~SameLayer(d, Arg)} \cup {Arg}
    BY <1>8, HeadIs DEF Upsert
  <2>2. This \in live' /\ SameLayer(This, This)
    BY <2>1 DEF SameLayer
  <2> QED BY <1>3, <2>1, <2>2
<1> QED BY <1>4, <1>6, <1>7, <1>8


LEMMA InstalledIs ==
    ASSUME TodoInv, ArgsInv, Plain, todo # <<>>, NEW r
    PROVE  /\ r \in Installed' /\ r \notin Installed => Brings(todo[1], r)
           /\ r \in Installed /\ r \notin Installed' => Touches(todo[1], r)
<1>1. CASE UNCHANGED live
  BY <1>1 DEF Installed
<1>2. ASSUME ~UNCHANGED live, Kind(1) \in {"install", "upsert"}
      PROVE  /\ r \in Installed' /\ r \notin Installed => Brings(todo[1], r)
             /\ r \in Installed => r \in Installed'
  <2>1. PICK d \in Commits : /\ SameLayer(d, This) /\ d \in live' /\ This \in Commits
                             /\ \A c : c \in live' => c \in live \/ c = d
                             /\ \A c \in live : c \notin live' => SameLayer(c, This)
    BY <1>2, ArrivesIs
  <2>2. d \in Mains => This \in Mains
    BY <2>1 DEF Mains, SameLayer
  <2>3. ASSUME r \in Installed', r \notin Installed PROVE Brings(todo[1], r)
    <3>1. PICK c \in live' \cap Mains : c.ref = r
      BY <2>3 DEF Installed
    <3>2. c = d
      BY <2>1, <2>3, <3>1 DEF Installed
    <3> QED BY <1>2, <2>1, <2>2, <3>1, <3>2 DEF SameLayer, Brings, Bring, Kind, This
  <2>4. ASSUME r \in Installed PROVE r \in Installed'
    <3>1. PICK c \in live \cap Mains : c.ref = r
      BY <2>4 DEF Installed
    <3>2. CASE c \in live'
      BY <3>1, <3>2 DEF Installed
    <3>3. CASE c \notin live'
      <4>1. SameLayer(c, This)
        BY <2>1, <3>1, <3>3
      <4>2. d \in live' \cap Mains /\ d.ref = r
        BY <2>1, <3>1, <4>1 DEF SameLayer, Mains
      <4> QED BY <4>2 DEF Installed
    <3> QED BY <3>2, <3>3
  <2> QED BY <2>3, <2>4
<1>3. ASSUME NEW c, live' = live \ {c}, r \in Installed => r \in Installed' \/ c.ref = r
      PROVE  /\ r \in Installed' => r \in Installed
             /\ r \in Installed /\ r \notin Installed' => c.ref = r
  BY <1>3 DEF Installed
<1>3b. ASSUME NEW c, live' = live \ {c} PROVE r \in Installed => r \in Installed' \/ c.ref = r
  BY <1>3b DEF Installed
<1>4. CASE Kind(1) = "mark" /\ \E c \in Found(live, This, todo[1][3]) : live' = live \ {c}
  <2>1. PICK c \in Found(live, This, todo[1][3]) : live' = live \ {c}
    BY <1>4
  <2>2. c.ref = This
    BY <2>1 DEF Found
  <2>3. r \in Installed' => r \in Installed
    BY <1>3, <1>3b, <2>1
  <2>4. r \in Installed /\ r \notin Installed' => This = r
    BY <1>3b, <2>1, <2>2
  <2> QED BY <1>4, <2>3, <2>4 DEF Touches, Kind, This
<1>5. CASE Kind(1) = "drop" /\ live' = live \ {This}
  BY <1>3, <1>3b, <1>5 DEF Touches, Kind, This
<1> QED BY <1>1, <1>2, <1>4, <1>5, LiveIs

LEMMA BringsTurn ==
    ASSUME TodoInv, ArgsInv, Plain, NEW s, Turn(s), NEW r, Brings(todo[1], r)
    PROVE  r \in Installed' \/ \E e \in Items(s) : Brings(e, r)
<1>1. Kind(1) \in {"install", "import", "upsert"} /\ todo # <<>> /\ IsSeq(todo) /\ This \in Mains /\ This.ref = r
  BY DEF Brings, Bring, Kind, Turn, TodoInv, This
<1>2. CASE Turn(Import(This))
  <2>1. Items(s) = Items(Import(This))
    BY <1>1, <1>2, SameTurn
  <2> DEFINE c == This
  <2>2. Items(Import(c)) = {<<"ref", c>>, <<"clear", c>>, <<"checkout", c>>, <<"upsert", c>>}
    BY ItemsFour DEF Import
  <2>3. Brings(<<"upsert", c>>, r)
    BY <1>1 DEF Brings, Bring
  <2> QED BY <2>1, <2>2, <2>3
<1>3. CASE ~Turn(Import(This))
  <2>1. PICK d \in Commits : SameLayer(d, This) /\ d \in live'
    BY <1>1, <1>3, ArrivesIs
  <2>2. d \in live' \cap Mains /\ d.ref = r
    BY <1>1, <2>1 DEF Mains, SameLayer
  <2> QED BY <2>2 DEF Installed
<1> QED BY <1>2, <1>3

\* What excuses an app without a base is for good.
Scars == {"crashed", "forced", "stuck", "twice"}

LEMMA ScarsStay ==
    ASSUME [Next]_vars
    PROVE  /\ Scars \cap hurt \subseteq hurt'
           /\ "rebuilt" \in hurt' => "rebuilt" \in hurt \/ "crashed" \in hurt'
<1>1. CASE Plain /\ ~Merge
  BY <1>1 DEF Plain, Unimport, UpdateSkips, Updated, InstallModule, ImportLayer, SetRef, Clear, Checkout,
              Upsert, Export, Unexport, Retire, Mark, RemoveAll, RemoveModule, Unref, Drop,
              AfterChange, PruneUnused, Clean, Sweep, Collect, Discard, StepFails, Fail, Onward, Left
<1>2. CASE Merge
  BY <1>2 DEF Merge, Scars
<1>3. CASE Job
  <2>1. \E h \in SUBSET {"forced"} : \E plan, back : BeginAs(h, plan, back)
    BY <1>3 DEF Job, Install, InstallBase, InstallExtra, InstallLayer, InstallUab, Update, Uninstall,
                UninstallExtra, Prune, Begin
  <2> QED BY <2>1 DEF BeginAs
<1>4. CASE UpdateApp \/ NextApp \/ GcBegin
  BY <1>4 DEF UpdateApp, NextApp, GcBegin, past
<1>5. CASE StepFails
  BY <1>5 DEF StepFails, Fail, Left
<1>6. CASE Stopping
  BY <1>6 DEF Stopping, UpdateCanceled, End, Crash, Rebuilt, past
<1>7. CASE Resting
  BY <1>7, RestIs
<1> QED BY <1>1, <1>2, <1>3, <1>4, <1>5, <1>6, <1>7, StepForms


\* Nothing but merges comes after a prune, or the end of an update.
Ends(s) == \A i, j \in 1..Len(s) : i < j /\ s[i][1] \in Enders => s[j][1] = "merge"

\* A base comes before the i-th update.
BaseBefore(s, i, a) == \E j \in 1..(i - 1) : \E b \in Refs : b.id = BaseOf[a] /\ Brings(s[j], b)

HasOne(a)  == OfId(BaseOf[a]) # {}
\* It is to come, and the app to go if it does not; or the app is to go.
Sought(a)  == who = "job" /\ <<"retire", a>> \in Items(undo) /\ BaseBefore(todo, Len(todo) + 1, a)
Leaving(a) == who = "rollback" /\ Goes(live, todo, a)
Secure(b)  == Untouched(todo, b) /\ (who = "job" => Untouched(undo, b))

\* An app comes after its base, or is taken back if the base does not come.
Founded(s, back) == \A i \in 1..Len(s) : \A a \in Apps : Brings(s[i], a) =>
    HasOne(a) \/ (<<"retire", a>> \in Items(back) /\ BaseBefore(s, Len(s) + 1, a)) \/ BaseBefore(s, i, a)

\* No base goes, while apps may come; or no app comes, while every app keeps a base.
Growing == /\ \A b \in Refs \ Apps : Secure(b)
           /\ \A a \in Installed \cap Apps : HasOne(a) \/ Sought(a) \/ Leaving(a)
           /\ who = "job" => Founded(todo, undo)
Shrinking == /\ \A a \in Installed \cap Apps : \E b \in OfId(BaseOf[a]) : Secure(b)
             /\ \A e \in Items(todo) : e[1] \notin Larger /\ \A a \in Apps : ~Brings(e, a)

AllBased == \A a \in Installed \cap Apps : HasOne(a)

LEMMA NoBringBack == TodoInv /\ who = "rollback" => \A e \in Items(todo) : ~Bring(e)
<1> SUFFICES ASSUME TodoInv, who = "rollback", NEW i \in 1..Len(todo), Bring(todo[i])
             PROVE  FALSE
  BY DEF Items
<1>1. Kind(i) \in Forward
  BY DEF Kind, Forward, Bring
<1>2. PICK j \in 1..(i - 1) : Kind(j) = "next"
  BY <1>1 DEF TodoInv, HolderInv
<1>3. IsSeq(todo) /\ todo # <<>>
  BY ItemsNone DEF TodoInv
<1>4. j \in 1..Len(todo) /\ j < i
  BY <1>3, Rests
<1>5. Kind(i) \in Asks
  BY <1>2, <1>4 DEF TodoInv, HolderInv
<1> QED BY <1>5 DEF Asks, Bring, Kind

LEMMA PureAsks ==
    ASSUME TodoInv, todo # <<>>, Kind(1) \in {"next", "update"}
    PROVE  \A e \in Items(todo) : e[1] \in Asks \cup {"next"}
<1>1. Len(todo) \in Nat \ {0}
  BY Rests DEF TodoInv
<1>2. \A i \in 1..Len(todo) : i = 1 \/ (1 \in 1..Len(todo) /\ 1 < i)
  BY <1>1
<1>3. \A i \in 1..Len(todo) : Kind(i) \in Asks \cup {"next"}
  BY <1>2 DEF TodoInv, HolderInv, Asks
<1> QED BY <1>3 DEF Items, Kind

\* Nothing that is to come or to go.
LEMMA NoneComes ==
    ASSUME IsSeq(todo), \A e \in Items(todo) : e[1] \in {"merge", "update", "updated", "next", "prune", "prune_after"}, NEW a
    PROVE  ~Sought(a) /\ ~Leaving(a)
<1>1. ~Leaving(a)
  BY DEF Leaving, Goes, TakesMain
<1>2. ASSUME Sought(a) PROVE FALSE
  <2>1. PICK j \in 1..(Len(todo) + 1 - 1) : \E b \in Refs : Brings(todo[j], b)
    BY <1>2 DEF Sought, BaseBefore
  <2>2. Len(todo) \in Nat
    BY Concat
  <2>3. j \in 1..Len(todo)
    BY <2>1, <2>2
  <2> QED BY <2>1, <2>3 DEF Items, Brings, Bring
<1> QED BY <1>1, <1>2

LEMMA BaseKind ==
    ASSUME NEW a \in Apps, NEW b \in Refs, b.id = BaseOf[a]
    PROVE  b \in Refs \ Apps
BY References, KindAssumption

LEMMA BaseStays ==
    ASSUME TodoInv, ArgsInv, Plain, todo # <<>>, \A b \in Refs \ Apps : Secure(b), NEW a \in Apps, HasOne(a)
    PROVE  HasOne(a)'
<1>1. PICK b \in OfId(BaseOf[a]) : TRUE
  BY DEF HasOne
<1>2. b \in Refs \ Apps /\ b \in Installed /\ b.id = BaseOf[a]
  BY <1>1, References, BaseKind DEF OfId
<1>3. ~Touches(todo[1], b)
  <2>1. todo[1] \in Items(todo)
    BY Rests DEF TodoInv, Items
  <2> QED BY <1>2, <2>1 DEF Secure, Untouched
<1>4. b \in Installed'
  BY <1>2, <1>3, InstalledIs
<1> QED BY <1>2, <1>4 DEF HasOne, OfId

LEMMA BaseComes ==
    ASSUME TodoInv, ArgsInv, Plain, NEW s, Turn(s), NEW k \in 2..(Len(todo) + 1), NEW a \in Apps,
           BaseBefore(todo, k, a)
    PROVE  HasOne(a)' \/ BaseBefore(todo', k - 1 + Len(s), a)
<1> DEFINE u == todo'
           l == Len(s)
<1>1. /\ IsSeq(todo) /\ l \in Nat /\ Len(todo) \in Nat \ {0} /\ Len(u) = l + Len(todo) - 1
      /\ \A i \in 1..l : u[i] = s[i] /\ s[i] \in Items(s)
      /\ \A i \in (l + 1)..Len(u) : u[i] = todo[i - l + 1]
  BY Turned DEF TodoInv
<1>2. PICK j \in 1..(k - 1), b \in Refs : b.id = BaseOf[a] /\ Brings(todo[j], b)
  BY DEF BaseBefore
<1>3. CASE j = 1
  <2>1. CASE b \in Installed'
    BY <1>2, <2>1 DEF HasOne, OfId
  <2>2. CASE \E e \in Items(s) : Brings(e, b)
    <3>1. PICK i \in 1..l : Brings(s[i], b)
      BY <2>2 DEF Items
    <3>2. i \in 1..(k - 1 + l - 1)
      BY <1>1
    <3>3. Brings(u[i], b)
      BY <1>1, <3>1
    <3> DEFINE n == k - 1 + l
    <3>4. i \in 1..(n - 1)
      BY <3>2
    <3> HIDE DEF u, n
    <3>5. BaseBefore(u, n, a)
      BY <1>2, <3>3, <3>4 DEF BaseBefore
    <3> QED BY <3>5 DEF u, n
  <2> QED BY <1>2, <1>3, <2>1, <2>2, BringsTurn
<1>4. CASE j # 1
  <2> DEFINE i == j - 1 + l
  <2> HIDE DEF u, l
  <2>1. i \in (l + 1)..Len(u) /\ i - l + 1 = j /\ i \in 1..(k - 1 + l - 1)
    BY <1>1, <1>4
  <2> HIDE DEF i
  <2>2. Brings(u[i], b)
    BY <1>1, <1>2, <2>1
  <2> DEFINE n == k - 1 + l
  <2>3. i \in 1..(n - 1)
    BY <1>1, <2>1
  <2> HIDE DEF n
  <2>4. BaseBefore(u, n, a)
    BY <1>2, <2>2, <2>3 DEF BaseBefore
  <2> QED BY <2>4 DEF u, l, n
<1> QED BY <1>3, <1>4

LEMMA SoughtGoes ==
    ASSUME TodoInv, ArgsInv, Plain, NEW s, Turn(s), NEW a \in Apps, Sought(a)
    PROVE  HasOne(a)' \/ Sought(a)'
<1> DEFINE u == todo'
           l == Len(s)
<1>1. l \in Nat /\ Len(todo) \in Nat \ {0} /\ Len(u) = l + Len(todo) - 1
  BY Turned DEF TodoInv
<1>2. UNCHANGED <<who, undo>>
  BY DEF Turn
<1>3. Len(todo) + 1 \in 2..(Len(todo) + 1)
  BY <1>1
<1>4. HasOne(a)' \/ BaseBefore(u, Len(todo) + 1 - 1 + l, a)
  BY <1>3, BaseComes DEF Sought
<1> HIDE DEF u, l
<1>5. Len(todo) + 1 - 1 + l = Len(u) + 1
  BY <1>1
<1>6. HasOne(a)' \/ BaseBefore(u, Len(u) + 1, a)
  BY <1>4, <1>5
<1> QED BY <1>2, <1>6 DEF Sought, u


LEMMA SecureTurn ==
    ASSUME TodoInv, FiniteInv, NEW s, Turn(s), Turns(s), Kind(1) \notin {"prune", "collect", "discard"}, NEW b, Secure(b)
    PROVE  Secure(b)'
<1> DEFINE u == todo'
<1>1. Items(u) \subseteq Items(s) \cup Items(todo) /\ todo[1] \in Items(todo) /\ UNCHANGED <<who, undo>>
  BY Turned DEF TodoInv, Turn
<1>2. \A e \in Items(s) : ~Touches(e, b)
  BY <1>1, TurnFollows DEF Follows, Secure, Untouched
<1> HIDE DEF u
<1>3. Untouched(u, b)
  BY <1>1, <1>2 DEF Untouched, Secure
<1> QED BY <1>1, <1>3 DEF Secure, u

LEMMA FoundedTurn ==
    ASSUME TodoInv, FiniteInv, ArgsInv, Growing, Plain, who = "job",
           NEW s, Turn(s), Turns(s), Kind(1) \notin {"prune", "collect", "discard"}
    PROVE  Founded(todo, undo)'
<1> DEFINE u == todo'
           l == Len(s)
<1>1. /\ IsSeq(todo) /\ l \in Nat /\ Len(todo) \in Nat \ {0} /\ Len(u) = l + Len(todo) - 1
      /\ \A i \in 1..l : u[i] = s[i] /\ s[i] \in Items(s)
      /\ \A i \in (l + 1)..Len(u) : i - l + 1 \in 2..Len(todo) /\ u[i] = todo[i - l + 1]
      /\ todo # <<>> /\ UNCHANGED <<who, undo>>
  BY Turned DEF TodoInv, Turn
<1>2. \A a \in Apps : HasOne(a) => HasOne(a)'
  BY <1>1, BaseStays DEF Growing
<1>3. \A a \in Apps : Sought(a) => HasOne(a)' \/ Sought(a)'
  BY SoughtGoes
<1>4. Founded(todo, undo)
  BY DEF Growing
<1> SUFFICES ASSUME NEW i \in 1..Len(u), NEW a \in Apps, Brings(u[i], a)
             PROVE  HasOne(a)' \/ Sought(a)' \/ BaseBefore(u, i, a)
  BY <1>1 DEF Founded, Sought
<1>5. CASE i \in 1..l
  <2>1. Brings(todo[1], a)
    BY <1>1, <1>5, TurnFollows DEF Follows
  <2>2. 1 \in 1..Len(todo) /\ ~BaseBefore(todo, 1, a)
    BY <1>1 DEF BaseBefore
  <2>3. HasOne(a) \/ Sought(a)
    BY <1>4, <2>1, <2>2 DEF Founded, Sought
  <2> QED BY <1>2, <1>3, <2>3
<1>6. CASE i \in (l + 1)..Len(u)
  <2> DEFINE j == i - l + 1
  <2>1. j \in 2..Len(todo) /\ j \in 1..Len(todo) /\ j \in 2..(Len(todo) + 1) /\ u[i] = todo[j] /\ j - 1 + l = i
    BY <1>1, <1>6
  <2> HIDE DEF j
  <2>2. HasOne(a) \/ Sought(a) \/ BaseBefore(todo, j, a)
    BY <1>4, <2>1 DEF Founded, Sought
  <2>3. BaseBefore(todo, j, a) => HasOne(a)' \/ BaseBefore(u, j - 1 + l, a)
    BY <2>1, BaseComes
  <2> QED BY <1>2, <1>3, <2>1, <2>2, <2>3
<1> HIDE DEF u
<1> QED BY <1>1, <1>5, <1>6

LEMMA LeavingGoes ==
    ASSUME TodoInv, ArgsInv, OneLive, {"rebuilt", "twice"} \cap hurt = {}, "stuck" \notin hurt',
           Plain, NEW s, Turn(s), Turns(s), NEW a \in Installed \cap Apps, a \in Installed', Leaving(a)
    PROVE  HasOne(a) \/ Leaving(a)'
<1>1. \/ Goes(live', todo', a)
      \/ who = "rollback" /\ Due("retire") /\ Arg = a /\ hurt' = hurt \cup Left
  BY GoesOn DEF Leaving
<1>2. ~HasOne(a) /\ who = "rollback" /\ Due("retire") /\ Arg = a => "stuck" \in Left
  BY DEF Left, HasOne
<1> QED BY <1>1, <1>2 DEF Leaving, Turn

LEMMA GrowPlain ==
    ASSUME TodoInv, FiniteInv, ArgsInv, OneLive, Growing, {"rebuilt", "twice"} \cap hurt = {}, "stuck" \notin hurt',
           Plain, NEW s, Turn(s), Turns(s), Kind(1) \notin {"prune", "collect", "discard"}
    PROVE  Growing'
<1>1. todo # <<>> /\ UNCHANGED <<who, undo>>
  BY DEF Turn
<1>2. ASSUME NEW b \in Refs \ Apps PROVE Secure(b)'
  BY <1>2, SecureTurn DEF Growing
<1>3. ASSUME NEW a \in Installed' \cap Apps PROVE HasOne(a)' \/ Sought(a)' \/ Leaving(a)'
  <2>1. HasOne(a) => HasOne(a)'
    BY <1>1, BaseStays DEF Growing
  <2>2. Sought(a) => HasOne(a)' \/ Sought(a)'
    BY SoughtGoes
  <2>3. CASE a \in Installed
    <3>1. HasOne(a) \/ Sought(a) \/ Leaving(a)
      BY <1>3, <2>3 DEF Growing
    <3>2. Leaving(a) => HasOne(a) \/ Leaving(a)'
      BY <1>3, <2>3, LeavingGoes
    <3> QED BY <2>1, <2>2, <3>1, <3>2
  <2>4. CASE a \notin Installed
    <3>1. Brings(todo[1], a)
      BY <1>1, <1>3, <2>4, InstalledIs
    <3>2. 1 \in 1..Len(todo) /\ ~BaseBefore(todo, 1, a) /\ todo[1] \in Items(todo)
      <4>1. Len(todo) \in Nat \ {0}
        BY <1>1, Rests DEF TodoInv
      <4> QED BY <4>1 DEF BaseBefore, Items
    <3>3. who = "job"
      <4>1. who # "rollback"
        BY <3>1, <3>2, NoBringBack DEF Brings
      <4>2. who # "none" /\ who # "gc"
        BY <1>1, <3>1, <3>2 DEF TodoInv, HolderInv, GcInv, Collects, Kind, Brings, Bring
      <4> QED BY <4>1, <4>2 DEF TodoInv, HolderInv
    <3>4. HasOne(a) \/ Sought(a)
      BY <1>3, <3>1, <3>2, <3>3 DEF Growing, Founded, Sought
    <3> QED BY <2>1, <2>2, <3>4
  <2> QED BY <2>3, <2>4
<1>4. who' = "job" => Founded(todo, undo)'
  BY <1>1, FoundedTurn
<1> QED BY <1>2, <1>3, <1>4 DEF Growing

LEMMA ShrinkPlain ==
    ASSUME TodoInv, FiniteInv, ArgsInv, Shrinking, Plain,
           NEW s, Turn(s), Turns(s), Kind(1) \notin {"prune", "collect", "discard"}
    PROVE  Shrinking'
<1>1. /\ todo # <<>> /\ UNCHANGED <<who, undo>> /\ todo[1] \in Items(todo)
      /\ Items(todo') \subseteq Items(s) \cup Items(todo)
  BY Turned DEF Turn, TodoInv
<1>2. ASSUME NEW a \in Installed' \cap Apps PROVE (\E b \in OfId(BaseOf[a]) : Secure(b))'
  <2>1. ~Brings(todo[1], a)
    BY <1>1, <1>2 DEF Shrinking
  <2>2. a \in Installed
    BY <1>1, <1>2, <2>1, InstalledIs
  <2>3. PICK b \in OfId(BaseOf[a]) : Secure(b)
    BY <1>2, <2>2 DEF Shrinking
  <2>4. ~Touches(todo[1], b)
    BY <1>1, <2>3 DEF Secure, Untouched
  <2>5. b \in Installed' /\ b.id = BaseOf[a]
    BY <1>1, <2>3, <2>4, InstalledIs DEF OfId
  <2>6. Secure(b)'
    BY <2>3, SecureTurn
  <2> QED BY <2>5, <2>6 DEF OfId
<1>3. ASSUME NEW e \in Items(todo') PROVE e[1] \notin Larger /\ \A a \in Apps : ~Brings(e, a)
  <2>1. CASE e \in Items(todo)
    BY <2>1 DEF Shrinking
  <2>2. CASE e \in Items(s)
    <3>1. Follows(e)
      BY <2>2, TurnFollows
    <3>2. Kind(1) \notin Enders /\ \A a \in Apps : ~Brings(todo[1], a)
      BY <1>1 DEF Shrinking, Larger, Kind
    <3> QED BY <3>1, <3>2 DEF Follows
  <2> QED BY <1>1, <1>3, <2>1, <2>2
<1> QED BY <1>2, <1>3 DEF Shrinking


LEMMA EnderLast ==
    ASSUME TodoInv, FiniteInv, NEW s, Turn(s), Turns(s), NEW i \in 1..Len(s), s[i][1] \in Enders
    PROVE  i = Len(s) /\ Kind(1) \in Enders
<1>1. IsSeq(s) /\ s[i] \in Items(s) /\ Len(s) \in Nat
  BY Concat DEF Turn, Items
<1>2. Kind(1) # "prune"
  BY <1>1, PruneItems DEF Enders
<1>3. Kind(1) # "collect"
  BY <1>1, ItemsNone DEF Turns, Enders
<1>4. Kind(1) # "discard"
  <2> SUFFICES ASSUME Kind(1) = "discard" PROVE FALSE
    OBVIOUS
  <2>1. s = <<>> \/ s = Removed(This)
    BY DEF Turns
  <2> DEFINE c == This
  <2>2. Items(Removed(c)) = {<<"unref", c>>, <<"drop", c>>, <<"clear", c>>}
    BY ItemsThree DEF Removed
  <2>3. s[i] = <<"unref", c>> \/ s[i] = <<"drop", c>> \/ s[i] = <<"clear", c>>
    BY <1>1, <2>1, <2>2, ItemsNone
  <2> HIDE DEF c
  <2> QED BY <2>3 DEF Enders
<1>5. Kind(1) \in Enders
  BY <1>1, <1>2, <1>3, <1>4, TurnFollows DEF Follows, Larger
<1>6. s # <<>>
  BY <1>1, ItemsNone
<1>7. CASE s = <<<<"prune">>>>
  BY <1>5, <1>7, ItemsOne
<1>8. CASE s = Merging
  BY <1>5, <1>8, ItemsOne DEF Merging
<1>9. CASE s = Merging \o PruneAfter
  <2>1. /\ Len(Merging) = 1 /\ Len(PruneAfter) = 1 /\ IsSeq(Merging) /\ IsSeq(PruneAfter)
        /\ Merging[1] = <<"merge">>
    BY ItemsOne DEF Merging, PruneAfter
  <2>2. Len(s) = 2 /\ s[1] = <<"merge">>
    BY <1>9, <2>1, Concat
  <2>3. s[1][1] = "merge"
    BY <2>2
  <2>4. i # 1
    BY <2>3 DEF Enders
  <2> QED BY <1>5, <2>2, <2>4
<1>10. s = <<<<"prune">>>> \/ s = Merging \/ s = Merging \o PruneAfter
  BY <1>2, <1>5, <1>6 DEF Turns, Enders
<1> QED BY <1>5, <1>7, <1>8, <1>9, <1>10

LEMMA EndsTurn ==
    ASSUME TodoInv, FiniteInv, NEW s, Turn(s), Turns(s), Ends(todo)
    PROVE  Ends(todo')
<1> DEFINE u == todo'
           l == Len(s)
<1>1. /\ IsSeq(todo) /\ l \in Nat /\ Len(todo) \in Nat \ {0} /\ Len(u) = l + Len(todo) - 1
      /\ \A i \in 1..l : u[i] = s[i] /\ s[i] \in Items(s)
      /\ \A i \in (l + 1)..Len(u) : i - l + 1 \in 2..Len(todo) /\ u[i] = todo[i - l + 1]
  BY Turned DEF TodoInv
<1>2. \A i \in 1..l : s[i][1] \in Enders => i = l /\ Kind(1) \in Enders
  BY EnderLast
<1> HIDE DEF u, l
<1>3. ASSUME NEW i \in 1..Len(u), NEW j \in 1..Len(u), i < j, u[i][1] \in Enders
      PROVE  u[j][1] = "merge"
  <2>1. CASE i \in 1..l
    <3>1. i = l /\ Kind(1) \in Enders
      BY <1>1, <1>2, <1>3, <2>1
    <3>2. j \in (l + 1)..Len(u)
      BY <1>1, <1>3, <3>1
    <3> DEFINE k == j - l + 1
    <3>3. k \in 2..Len(todo) /\ u[j] = todo[k]
      BY <1>1, <3>2
    <3> HIDE DEF k
    <3>4. 1 \in 1..Len(todo) /\ k \in 1..Len(todo) /\ 1 < k
      BY <1>1, <3>3
    <3> QED BY <3>1, <3>3, <3>4 DEF Ends, Kind
  <2>2. CASE i \in (l + 1)..Len(u)
    <3> DEFINE k == j - l + 1
               h == i - l + 1
    <3>0. j \in (l + 1)..Len(u)
      BY <1>1, <1>3, <2>2
    <3>0a. k \in 2..Len(todo) /\ u[j] = todo[k]
      BY <1>1, <3>0
    <3>0b. h \in 2..Len(todo) /\ u[i] = todo[h]
      BY <1>1, <2>2
    <3>0c. h < k
      <4>1. i \in Int /\ j \in Int /\ l \in Int /\ i < j
        BY <1>1, <1>3, <2>2, <3>0
      <4> QED BY <4>1
    <3>1. k \in 2..Len(todo) /\ u[j] = todo[k] /\ h \in 2..Len(todo) /\ u[i] = todo[h] /\ h < k
      BY <3>0a, <3>0b, <3>0c
    <3> HIDE DEF k, h
    <3>2. h \in 1..Len(todo) /\ k \in 1..Len(todo)
      BY <3>1
    <3> QED BY <1>3, <3>1, <3>2 DEF Ends
  <2> QED BY <1>1, <1>3, <2>1, <2>2
<1>4. Ends(u)
  BY <1>3 DEF Ends
<1> QED BY <1>4 DEF u

\* A prune comes when nothing is to come or to go, and keeps the newest base of every app.
LEMMA PrunePlain ==
    ASSUME TodoInv, FiniteInv, ArgsInv, Growing, Ends(todo), PruneUnused
    PROVE  Shrinking'
<1> DEFINE X == Installed \ Kept
           S == {c \in live : c.ref \in Kept}
           p == Each("remove_all", SetToSeq(X))
           q == <<<<"clean", S>>>>
           s == p \o Merging \o q
<1>1. Due("prune") /\ Onward(s) /\ UNCHANGED repo
  BY DEF PruneUnused
<1>2. todo # <<>> /\ Kind(1) = "prune" /\ IsSeq(todo) /\ Len(todo) \in Nat \ {0} /\ UNCHANGED <<who, undo, live>>
  BY <1>1, HeadIs DEF Onward, Proceed, repo
<1>3. \A e \in Items(Tail(todo)) : e[1] = "merge"
  <2>1. ASSUME NEW i \in 1..Len(Tail(todo)) PROVE Tail(todo)[i][1] = "merge"
    <3>1. Len(Tail(todo)) = Len(todo) - 1 /\ \A k \in 1..(Len(todo) - 1) : Tail(todo)[k] = todo[k + 1]
      BY <1>2, Rests
    <3>2. 1 \in 1..Len(todo) /\ i + 1 \in 1..Len(todo) /\ 1 < i + 1 /\ Tail(todo)[i] = todo[i + 1]
      BY <1>2, <3>1
    <3> DEFINE k == i + 1
    <3> HIDE DEF k
    <3>3. 1 \in 1..Len(todo) /\ k \in 1..Len(todo) /\ 1 < k /\ Tail(todo)[i] = todo[k]
      BY <3>2 DEF k
    <3> QED BY <1>2, <3>3 DEF Ends, Enders, Kind
  <2> QED BY <2>1 DEF Items
<1>4. \A e \in Items(todo) : e[1] \in {"merge", "prune"}
  <2>1. ASSUME NEW i \in 1..Len(todo) PROVE todo[i][1] \in {"merge", "prune"}
    <3>1. CASE i = 1
      BY <1>2, <3>1 DEF Kind
    <3>2. CASE i # 1
      <4>1. 1 \in 1..Len(todo) /\ 1 < i
        BY <1>2, <3>2
      <4> QED BY <1>2, <4>1 DEF Ends, Enders, Kind
    <3> QED BY <3>1, <3>2
  <2> QED BY <2>1 DEF Items
<1>5. \A a \in Installed \cap Apps : HasOne(a)
  BY <1>2, <1>4, NoneComes DEF Growing
<1>6. IsSeq(p) /\ \A e \in Items(p) : \E x \in X : e = <<"remove_all", x>>
  <2>1. IsFiniteSet(X)
    BY Finite, FS_Subset
  <2> HIDE DEF X
  <2> QED BY <2>1, ItemsEach
<1>7. Items(Merging) = {<<"merge">>} /\ IsSeq(Merging) /\ Items(q) = {<<"clean", S>>} /\ IsSeq(q)
  BY ItemsOne DEF Merging
<1>8. IsSeq(Tail(todo)) /\ todo' = s \o Tail(todo)
  BY <1>1, <1>2, Rests DEF Onward, Proceed
<1> HIDE DEF p, q, S, X
<1>9. IsSeq(s) /\ Items(s) = Items(p) \cup Items(Merging) \cup Items(q)
  BY <1>6, <1>7, ItemsConcat, Concat
<1>10. \A e \in Items(s) : e[1] \in {"merge", "clean"} \/ \E x \in X : e = <<"remove_all", x>>
  BY <1>6, <1>7, <1>9
<1> HIDE DEF s
<1>11. Items(todo') = Items(s) \cup Items(Tail(todo))
  BY <1>8, <1>9, ItemsConcat
<1>12. ASSUME NEW e \in Items(todo') PROVE e[1] \notin Larger /\ \A a \in Apps : ~Brings(e, a)
  BY <1>3, <1>10, <1>11, <1>12 DEF Larger, Enders, Brings, Bring
<1>13. ASSUME NEW a \in Installed \cap Apps PROVE (\E b \in OfId(BaseOf[a]) : Secure(b))'
  <2>1. OfId(BaseOf[a]) # {} /\ OfId(BaseOf[a]) \in SUBSET Refs
    BY <1>5, <1>13, References DEF HasOne
  <2>2. PICK b : b \in OfId(BaseOf[a]) /\ b \in Kept
    BY <2>1, <1>13, Latest DEF Kept
  <2>3. b.id = BaseOf[a] /\ b \in Installed /\ b \in Refs \ Apps
    BY <1>13, <2>2, References, BaseKind DEF OfId
  <2>4. ASSUME NEW e \in Items(todo') PROVE ~Touches(e, b)
    <3>1. b \notin X
      BY <2>2 DEF X
    <3>2. ASSUME NEW x \in X, e = <<"remove_all", x>> PROVE ~Touches(e, b)
      BY <3>1, <3>2 DEF Touches
    <3> QED BY <1>3, <1>10, <1>11, <3>2, <2>4 DEF Touches
  <2>5. who = "job" => Untouched(undo, b)
    BY <2>3 DEF Growing, Secure
  <2> DEFINE u == todo'
  <2>6. Untouched(u, b)
    <3> HIDE DEF u
    <3> SUFFICES ASSUME NEW e \in Items(u) PROVE ~Touches(e, b)
      BY DEF Untouched
    <3> QED BY <2>4 DEF u
  <2> HIDE DEF u
  <2>7. b \in OfId(BaseOf[a])'
    BY <1>2, <2>3 DEF OfId, Installed
  <2>8. Secure(b)'
    BY <1>2, <2>5, <2>6 DEF Secure, u
  <2> QED BY <2>7, <2>8
<1>14. Installed' = Installed
  BY <1>2 DEF Installed
<1> QED BY <1>12, <1>13, <1>14 DEF Shrinking


-----------------------------------------------------------------------------
(* What operations begin with.                                             *)

\* Takes no base away.
Gentle(e) == \A b \in Refs \ Apps : ~Touches(e, b)
Mild(s)   == IsSeq(s) /\ \A e \in Items(s) : Gentle(e) /\ e[1] \notin Enders
Fine(s)   == IsSeq(s) /\ Ends(s) /\ \A e \in Items(s) : Gentle(e)
\* Brings no app but this one, and its base.
Only(s, r)       == \A e \in Items(s) : \A a \in Apps : Brings(e, a) => a = r
BringsNone(s)    == \A e \in Items(s) : \A a \in Apps : ~Brings(e, a)
BringsBase(s, r) == \E e \in Items(s) : \E b \in Refs : b.id = BaseOf[r] /\ Brings(e, b)

LEMMA MildConcat ==
    ASSUME NEW s, NEW t, Mild(s), Mild(t)
    PROVE  Mild(s \o t)
BY ItemsConcat, Concat DEF Mild

LEMMA FineMild ==
    ASSUME NEW s, Mild(s)
    PROVE  Fine(s)
BY DEF Mild, Fine, Ends, Items

LEMMA FineConcat ==
    ASSUME NEW s, NEW t, Mild(s), Fine(t)
    PROVE  Fine(s \o t)
<1> DEFINE u == s \o t
           l == Len(s)
           k == Len(t)
<1>1. /\ IsSeq(u) /\ Len(u) = l + k /\ l \in Nat /\ k \in Nat
      /\ \A i \in 1..l : u[i] = s[i] /\ u[i][1] \notin Enders
      /\ \A i \in (l + 1)..(l + k) : u[i] = t[i - l]
  BY Concat DEF Mild, Fine, Items
<1>2. \A e \in Items(u) : Gentle(e)
  BY ItemsConcat DEF Mild, Fine
<1> HIDE DEF u, l, k
<1>3. ASSUME NEW i \in 1..Len(u), NEW j \in 1..Len(u), i < j, u[i][1] \in Enders
      PROVE  u[j][1] = "merge"
  <2> DEFINE x == i - l
             y == j - l
  <2>1. i \in (l + 1)..(l + k) /\ j \in (l + 1)..(l + k) /\ x \in 1..k /\ y \in 1..k /\ x < y
    BY <1>1, <1>3
  <2>2. u[i] = t[x] /\ u[j] = t[y]
    BY <1>1, <2>1
  <2> HIDE DEF x, y
  <2> QED BY <1>3, <2>1, <2>2 DEF Fine, Ends, k
<1>4. Fine(u)
  BY <1>1, <1>2, <1>3 DEF Fine, Ends
<1> QED BY <1>4 DEF u

LEMMA GentleApps ==
    ASSUME NEW e, e[1] \in {"retire", "remove_all", "mark", "remove"} => e[2] \in Apps,
           e[1] \in {"unimport", "drop"} => e[2].ref \in Apps
    PROVE  Gentle(e)
BY DEF Gentle, Touches

LEMMA MildOne ==
    ASSUME NEW e, Gentle(e), e[1] \notin Enders
    PROVE  Mild(<<e>>)
BY ItemsOne DEF Mild

LEMMA FineOne ==
    ASSUME NEW e, Gentle(e)
    PROVE  Fine(<<e>>)
<1> DEFINE s == <<e>>
<1>1. IsSeq(s) /\ Items(s) = {e} /\ Len(s) = 1
  BY ItemsOne
<1> HIDE DEF s
<1>2. \A i, j \in 1..Len(s) : ~(i < j)
  BY <1>1
<1>3. Fine(s)
  BY <1>1, <1>2 DEF Fine, Ends
<1> QED BY <1>3 DEF s

LEMMA MildLists ==
    /\ Mild(<<>>) /\ Mild(Merging) /\ Fine(PruneAfter) /\ Fine(<<<<"prune">>>>)
    /\ \A r, M : Mild(Plan(r, M))
    /\ \A r : Mild(MissingBase(r)) /\ Mild(EnsureBase(r))
    /\ \A r, M : Mild(<<<<"export", r, M>>>>) /\ Mild(<<<<"unexport", r, M>>>>)
    /\ \A r \in Apps : Mild(<<<<"retire", r>>>>) /\ Mild(<<<<"remove_all", r>>>>)
    /\ \A r \in Apps : \A M : Mild(<<<<"unexport", r, M>>, <<"retire", r>>>>)
    /\ \A r \in Apps : \A m : Mild(<<<<"unexport", r, {m}>>, <<"remove", r, m>>>>)
    /\ \A a : Fine(<<<<"updated", a>>>>) /\ Mild(<<<<"next", a>>>>)
<1> USE DEF Enders
<1>1. Mild(<<>>)
  BY ItemsNone DEF Mild
<1>2. Mild(Merging)
  BY GentleApps, MildOne DEF Merging
<1>3. Fine(PruneAfter) /\ Fine(<<<<"prune">>>>)
  BY GentleApps, FineOne DEF PruneAfter
<1>4. ASSUME NEW r, NEW M PROVE Mild(Plan(r, M))
  BY ItemsPlan, GentleApps DEF Mild
<1>5. ASSUME NEW r PROVE Mild(MissingBase(r))
  BY <1>1, <1>4 DEF MissingBase
<1>6. ASSUME NEW r PROVE Mild(EnsureBase(r))
  BY <1>1, <1>2, <1>5, MildConcat DEF EnsureBase
<1>7. ASSUME NEW r, NEW M PROVE Mild(<<<<"export", r, M>>>>) /\ Mild(<<<<"unexport", r, M>>>>)
  BY GentleApps, MildOne
<1>8. ASSUME NEW r \in Apps PROVE Mild(<<<<"retire", r>>>>) /\ Mild(<<<<"remove_all", r>>>>)
  BY GentleApps, MildOne
<1>9. ASSUME NEW r \in Apps, NEW M, NEW m, NEW do \in {"retire", "remove"}, NEW f, f[1] = do, f[2] = r
      PROVE  Mild(<<<<"unexport", r, M>>, f>>)
  <2> DEFINE e == <<"unexport", r, M>>
  <2>1. Gentle(e) /\ e[1] \notin Enders /\ Gentle(f) /\ f[1] \notin Enders
    BY <1>9, GentleApps
  <2> HIDE DEF e
  <2>2. Mild(<<e, f>>)
    BY <2>1, ItemsTwo DEF Mild
  <2> QED BY <2>2 DEF e
<1>10. \A r \in Apps : \A M : Mild(<<<<"unexport", r, M>>, <<"retire", r>>>>)
  BY <1>9
<1>11. \A r \in Apps : \A m : Mild(<<<<"unexport", r, {m}>>, <<"remove", r, m>>>>)
  BY <1>9
<1>12. ASSUME NEW a PROVE Fine(<<<<"updated", a>>>>) /\ Mild(<<<<"next", a>>>>)
  BY GentleApps, FineOne, MildOne
<1> QED BY <1>1, <1>2, <1>3, <1>4, <1>5, <1>6, <1>7, <1>8, <1>10, <1>11, <1>12

\* The version replaced is one of the same package.
LEMMA FineReplace ==
    ASSUME NEW r \in Apps, NEW old \in SUBSET OfId(r.id), NEW after, Fine(after)
    PROVE  Fine(Replace(r, old, after))
<1> DEFINE one == <<<<"export", r, {"binary", "develop"}>>>>
           o   == Newest(old)
           two == <<<<"unexport", o, {"binary", "develop"}>>, <<"retire", o>>>>
<1>1. Mild(one)
  BY MildLists
<1>2. CASE old = {}
  <2>1. Replace(r, old, after) = one \o <<>>
    BY <1>2 DEF Replace
  <2> HIDE DEF one
  <2> QED BY <1>1, <2>1, MildLists, FineMild, FineConcat
<1>3. CASE old # {}
  <2>1. o \in Apps
    <3>1. old \in SUBSET Refs /\ o \in old
      BY <1>3, References, Latest
    <3>2. o.id = r.id /\ o \in Refs /\ r \in Refs
      BY <3>1, References, CommitAssumption
    <3> QED BY <3>2, References
  <2>2. Mild(two)
    BY <2>1, MildLists
  <2>3. Replace(r, old, after) = one \o (two \o after)
    BY <1>3 DEF Replace
  <2> HIDE DEF one, two
  <2> QED BY <1>1, <2>2, <2>3, FineConcat
<1> QED BY <1>2, <1>3


LEMMA FoundedNone ==
    ASSUME NEW s, BringsNone(s), NEW back
    PROVE  Founded(s, back)
BY DEF Founded, BringsNone, Items

LEMMA FoundedBack ==
    ASSUME NEW s, IsSeq(s), NEW r \in Apps, Only(s, r), NEW back,
           HasOne(r) \/ (<<"retire", r>> \in Items(back) /\ BringsBase(s, r))
    PROVE  Founded(s, back)
<1> SUFFICES ASSUME NEW i \in 1..Len(s), NEW a \in Apps, Brings(s[i], a)
             PROVE  HasOne(a) \/ (<<"retire", a>> \in Items(back) /\ BaseBefore(s, Len(s) + 1, a))
  BY DEF Founded
<1>1. a = r
  BY DEF Only, Items
<1>2. CASE BringsBase(s, r)
  <2>1. PICK j \in 1..Len(s) : \E b \in Refs : b.id = BaseOf[r] /\ Brings(s[j], b)
    BY <1>2 DEF BringsBase, Items
  <2>2. j \in 1..(Len(s) + 1 - 1)
    <3>1. Len(s) \in Nat
      BY Concat
    <3> QED BY <3>1
  <2> QED BY <1>1, <2>1, <2>2 DEF BaseBefore
<1> QED BY <1>1, <1>2

LEMMA FoundedAfter ==
    ASSUME NEW s, NEW t, IsSeq(s), IsSeq(t), NEW r \in Apps, Only(t, r), BringsNone(s), NEW back,
           HasOne(r) \/ BringsBase(s, r)
    PROVE  Founded(s \o t, back)
<1> DEFINE u == s \o t
           l == Len(s)
           k == Len(t)
<1>1. /\ Len(u) = l + k /\ l \in Nat /\ k \in Nat
      /\ \A i \in 1..l : u[i] = s[i]
      /\ \A i \in (l + 1)..(l + k) : u[i] = t[i - l]
  BY Concat
<1> HIDE DEF u
<1> SUFFICES ASSUME NEW i \in 1..Len(u), NEW a \in Apps, Brings(u[i], a)
             PROVE  HasOne(a) \/ BaseBefore(u, i, a)
  BY DEF Founded, u
<1>2. i \notin 1..l
  BY <1>1 DEF BringsNone, Items
<1> HIDE DEF l, k
<1>3. i \in (l + 1)..(l + k) /\ i - l \in 1..k
  BY <1>1, <1>2
<1>4. a = r
  <2> DEFINE j == i - l
  <2>1. j \in 1..k /\ u[i] = t[j]
    BY <1>1, <1>3
  <2> HIDE DEF j
  <2> QED BY <2>1 DEF Only, Items, k
<1>5. CASE BringsBase(s, r)
  <2>1. PICK j \in 1..l : \E b \in Refs : b.id = BaseOf[r] /\ Brings(s[j], b)
    BY <1>5 DEF BringsBase, Items, l
  <2>2. j \in 1..(i - 1)
    BY <1>1, <1>3
  <2> QED BY <1>1, <1>4, <2>1, <2>2 DEF BaseBefore
<1> QED BY <1>4, <1>5

LEMMA BringsConcat ==
    ASSUME NEW s, NEW t, IsSeq(s), IsSeq(t)
    PROVE  /\ BringsNone(s) /\ BringsNone(t) => BringsNone(s \o t)
           /\ \A r : /\ Only(s, r) /\ Only(t, r) => Only(s \o t, r)
                     /\ BringsBase(s, r) \/ BringsBase(t, r) => BringsBase(s \o t, r)
BY ItemsConcat DEF BringsNone, Only, BringsBase

LEMMA NoneOnly ==
    ASSUME NEW s, BringsNone(s), NEW r
    PROVE  Only(s, r)
BY DEF BringsNone, Only

LEMMA FreeNone ==
    ASSUME NEW s, Free(s)
    PROVE  IsSeq(s) /\ BringsNone(s) /\ \A r : Only(s, r)
BY DEF Free, BringsNone, Brings, Only

\* What an installation installs of the modules asked for has the main one.
LEMMA PlanHas ==
    ASSUME NEW id, NEW r \in Offers(id), NEW M, "binary" \in M
    PROVE  \E e \in Items(Plan(r, M)) : Brings(e, r)
<1> DEFINE N  == {m \in M : Found(Remote, r, m) # {}}
           ms == InOrder(N)
           n  == Len(ms)
           d  == IF "develop" \in N THEN <<"develop">> ELSE <<>>
           b  == <<"binary">>
           s  == Plan(r, M)
<1>1. Found(Remote, r, "binary") # {} /\ \A c \in Found(Remote, r, "binary") : c \in Mains /\ c.ref = r
  BY DEF Offers, Found, Mains, Remote
<1>2. ms = b \o d
  BY <1>1 DEF InOrder
<1>3. IsSeq(b) /\ Len(b) = 1 /\ b[1] = "binary" /\ IsSeq(d)
  BY ItemsOne, ItemsNone
<1>4. n \in Nat \ {0} /\ ms[1] = "binary"
  <2> HIDE DEF b, d, ms
  <2>1. 1 \in 1..Len(b)
    BY <1>3
  <2>2. n = Len(b) + Len(d) /\ ms[1] = b[1] /\ Len(d) \in Nat
    BY <1>2, <1>3, <2>1, Concat
  <2> QED BY <1>3, <2>2
<1> HIDE DEF b, d
<1>5. s = [i \in 1..n |-> <<"install", CHOOSE c \in Found(Remote, r, ms[i]) : TRUE>>]
  BY DEF Plan
<1> HIDE DEF ms, n, s
<1>6. n \in Nat /\ s = [i \in 1..n |-> s[i]] /\ 1 \in 1..n
  BY <1>4, <1>5
<1>7. s[1] \in Items(s)
  BY <1>6, Tabled DEF Table
<1>8. PICK c : c \in Found(Remote, r, "binary") /\ c = CHOOSE x \in Found(Remote, r, "binary") : TRUE
  BY <1>1
<1>9. s[1] = <<"install", c>>
  BY <1>4, <1>5, <1>6, <1>8
<1>10. Brings(s[1], r)
  <2>1. \A x : <<"install", x>>[1] = "install" /\ <<"install", x>>[2] = x
    OBVIOUS
  <2>2. s[1][1] = "install" /\ s[1][2] = c
    BY <1>9, <2>1
  <2> QED BY <1>1, <1>8, <2>2 DEF Brings, Bring
<1> QED BY <1>7, <1>10 DEF s

LEMMA PlanBrings ==
    ASSUME NEW r, NEW M
    PROVE  /\ IsSeq(Plan(r, M)) /\ Only(Plan(r, M), r)
           /\ r \notin Apps \/ "binary" \notin M => BringsNone(Plan(r, M))
<1>1. \A e \in Items(Plan(r, M)) : \E c \in Remote : e = <<"install", c>> /\ c.ref = r /\ c.module \in M
  BY ItemsPlan
<1>2. \A e \in Items(Plan(r, M)) : \A a : Brings(e, a) => a = r /\ "binary" \in M
  BY <1>1 DEF Brings, Mains
<1> QED BY <1>2, ItemsPlan DEF Only, BringsNone

LEMMA MissingBrings ==
    ASSUME NEW r \in Apps, HasBase(r)
    PROVE  /\ IsSeq(MissingBase(r)) /\ BringsNone(MissingBase(r)) /\ (HasOne(r) \/ BringsBase(MissingBase(r), r))
           /\ IsSeq(EnsureBase(r)) /\ BringsNone(EnsureBase(r)) /\ (HasOne(r) \/ BringsBase(EnsureBase(r), r))
<1>1. CASE OfId(BaseOf[r]) # {}
  BY <1>1, FreeLists, FreeNone DEF MissingBase, EnsureBase, HasOne
<1>2. CASE OfId(BaseOf[r]) = {}
  <2> DEFINE b == Newest(Offers(BaseOf[r]))
             s == MissingBase(r)
  <2>1. s = Plan(b, {"binary"}) /\ EnsureBase(r) = s \o Merging
    BY <1>2 DEF MissingBase, EnsureBase
  <2>2. b \in Offers(BaseOf[r]) /\ b \in Refs \ Apps /\ b.id = BaseOf[r]
    BY <1>2, NewestBase, References DEF HasBase
  <2> HIDE DEF b
  <2>3. IsSeq(s) /\ BringsNone(s)
    BY <2>1, <2>2, PlanBrings
  <2>4. BringsBase(s, r)
    BY <2>1, <2>2, PlanHas DEF BringsBase
  <2> HIDE DEF s
  <2>5. IsSeq(Merging) /\ BringsNone(Merging)
    BY FreeLists, FreeNone
  <2>6. IsSeq(s \o Merging) /\ BringsNone(s \o Merging) /\ BringsBase(s \o Merging, r)
    BY <2>3, <2>4, <2>5, Concat, BringsConcat
  <2> QED BY <2>1, <2>3, <2>4, <2>6 DEF s
<1> QED BY <1>1, <1>2


LEMMA FoundedMore ==
    ASSUME NEW s, NEW t, IsSeq(s), IsSeq(t), NEW back, Founded(s, back), BringsNone(t)
    PROVE  Founded(s \o t, back)
<1> DEFINE u == s \o t
           l == Len(s)
           k == Len(t)
<1>1. /\ Len(u) = l + k /\ l \in Nat /\ k \in Nat
      /\ \A i \in 1..l : u[i] = s[i]
      /\ \A i \in (l + 1)..(l + k) : u[i] = t[i - l]
  BY Concat
<1> HIDE DEF u
<1> SUFFICES ASSUME NEW i \in 1..Len(u), NEW a \in Apps, Brings(u[i], a)
             PROVE  HasOne(a) \/ (<<"retire", a>> \in Items(back) /\ BaseBefore(u, Len(u) + 1, a)) \/ BaseBefore(u, i, a)
  BY DEF Founded, u
<1>2. i \in 1..l
  <2> SUFFICES ASSUME i \notin 1..l PROVE FALSE
    OBVIOUS
  <2> DEFINE j == i - l
  <2>1. i \in (l + 1)..(l + k) /\ j \in 1..k
    BY <1>1
  <2>2. u[i] = t[j]
    BY <1>1, <2>1
  <2> HIDE DEF j
  <2> QED BY <2>1, <2>2 DEF BringsNone, Items
<1>3. HasOne(a) \/ (<<"retire", a>> \in Items(back) /\ BaseBefore(s, l + 1, a)) \/ BaseBefore(s, i, a)
  BY <1>1, <1>2 DEF Founded
<1>4. ASSUME NEW x \in 1..(l + 1), NEW y \in Nat, x <= y, BaseBefore(s, x, a) PROVE BaseBefore(u, y, a)
  <2>1. PICK j \in 1..(x - 1) : \E b \in Refs : b.id = BaseOf[a] /\ Brings(s[j], b)
    BY <1>4 DEF BaseBefore
  <2>2. j \in 1..l /\ j \in 1..(y - 1)
    BY <1>1, <1>4
  <2> QED BY <1>1, <2>1, <2>2 DEF BaseBefore
<1> HIDE DEF l, k
<1>5. BaseBefore(s, l + 1, a) => BaseBefore(u, Len(u) + 1, a)
  <2>1. l + 1 \in 1..(l + 1) /\ Len(u) + 1 \in Nat /\ l + 1 <= Len(u) + 1
    BY <1>1
  <2> QED BY <1>4, <2>1
<1>6. BaseBefore(s, i, a) => BaseBefore(u, i, a)
  <2>1. i \in 1..(l + 1) /\ i \in Nat /\ i <= i
    BY <1>1, <1>2
  <2> QED BY <1>4, <2>1
<1> QED BY <1>3, <1>5, <1>6

LEMMA FineThen ==
    ASSUME NEW s, NEW t, Fine(s), IsSeq(t), \A e \in Items(t) : e[1] = "merge"
    PROVE  Fine(s \o t)
<1> DEFINE u == s \o t
           l == Len(s)
           k == Len(t)
<1>1. /\ IsSeq(u) /\ Len(u) = l + k /\ l \in Nat /\ k \in Nat
      /\ \A i \in 1..l : u[i] = s[i]
      /\ \A i \in (l + 1)..(l + k) : u[i] = t[i - l]
  BY Concat DEF Fine
<1>2. \A e \in Items(t) : Gentle(e)
  BY DEF Gentle, Touches
<1>3. \A e \in Items(u) : Gentle(e)
  BY <1>2, ItemsConcat DEF Fine
<1> HIDE DEF u
<1>4. ASSUME NEW i \in (l + 1)..(l + k) PROVE u[i][1] = "merge"
  <2> DEFINE j == i - l
  <2>1. j \in 1..k /\ u[i] = t[j]
    BY <1>1
  <2> HIDE DEF j
  <2> QED BY <2>1 DEF Items
<1> HIDE DEF k
<1>5. ASSUME NEW i \in 1..Len(u), NEW j \in 1..Len(u), i < j, u[i][1] \in Enders
      PROVE  u[j][1] = "merge"
  <2>1. CASE j \in (l + 1)..(l + k)
    BY <1>4, <2>1
  <2>2. CASE j \in 1..l
    <3>1. i \in 1..l
      BY <1>1, <1>5, <2>2
    <3> QED BY <1>1, <1>5, <2>2, <3>1 DEF Fine, Ends
  <2> QED BY <1>1, <2>1, <2>2
<1>6. Fine(u)
  BY <1>1, <1>3, <1>5 DEF Fine, Ends
<1> QED BY <1>6 DEF u

LEMMA ItemsTable ==
    ASSUME NEW s, NEW n \in Nat, s = [i \in 1..n |-> s[i]], NEW do, \A i \in 1..n : s[i][1] = do
    PROVE  IsSeq(s) /\ \A e \in Items(s) : e[1] = do
<1>1. Table(s, n)
  BY Tabled
<1>2. ASSUME NEW e \in Items(s) PROVE e[1] = do
  <2>1. PICK i \in 1..n : e = s[i]
    BY <1>1 DEF Table
  <2> QED BY <2>1
<1> QED BY <1>1, <1>2 DEF Table

BegunBased == /\ Fine(todo') /\ Founded(todo', undo')
              /\ \A e \in Items(undo') : Gentle(e)

LEMMA BasedInstall ==
    ASSUME NEW r \in Apps, NEW M, NEW b, Install(r, M, b)
    PROVE  BegunBased
<1> DEFINE old  == Old(r, b)
           more == IF old = {} THEN {} ELSE ModulesOf(Newest(old))
           one  == Plan(r, M \cup more)
           two  == MissingBase(r)
           last == Replace(r, old, PruneAfter)
           back == <<<<"unexport", r, {"binary", "develop"}>>, <<"retire", r>>>>
<1>1. Begin(one \o two \o Merging \o last, back) /\ HasBase(r)
  BY DEF Install
<1>2. Fine(last)
  BY MildLists, FineReplace DEF Old
<1>3. Free(last) /\ Free(Merging)
  BY FreeReplace, FreeLists
<1>4. <<"retire", r>> \in Items(back) /\ Mild(back)
  BY ItemsTwo, MildLists
<1>5. Mild(one) /\ Mild(two) /\ Mild(Merging) /\ Only(one, r)
  BY MildLists, PlanBrings
<1>6. IsSeq(two) /\ BringsNone(two) /\ (HasOne(r) \/ BringsBase(two, r))
  BY <1>1, MissingBrings
<1> HIDE DEF old, one, two, last, back
<1>7. Fine(one \o two \o Merging \o last)
  BY <1>2, <1>5, MildConcat, FineConcat
<1>8. IsSeq(one \o two) /\ Only(one \o two, r) /\ (HasOne(r) \/ BringsBase(one \o two, r))
  BY <1>5, <1>6, NoneOnly, BringsConcat, Concat DEF Mild
<1>9. Founded(one \o two, back)
  BY <1>4, <1>8, FoundedBack
<1>10. Founded(one \o two \o Merging \o last, back)
  <2>1. IsSeq(Merging) /\ BringsNone(Merging) /\ IsSeq(last) /\ BringsNone(last)
    BY <1>3, FreeNone
  <2>2. IsSeq(one \o two \o Merging) /\ Founded(one \o two \o Merging, back)
    BY <1>8, <1>9, <2>1, FoundedMore, Concat
  <2> QED BY <2>1, <2>2, FoundedMore
<1> QED BY <1>1, <1>4, <1>7, <1>10, BeginIs DEF BegunBased, Mild

LEMMA BasedExtra ==
    ASSUME NEW r \in Apps, InstallExtra(r, "develop")
    PROVE  BegunBased
<1> DEFINE one  == Plan(r, {"develop"})
           back == <<<<"unexport", r, {"develop"}>>, <<"retire", r>>>>
           last == <<<<"export", r, {"develop"}>>>>
<1>1. Begin(one \o Merging \o last, back)
  BY DEF InstallExtra, BackExtra
<1>2. Mild(one) /\ Mild(Merging) /\ Mild(last) /\ Mild(back)
  BY MildLists
<1>3. BringsNone(one) /\ BringsNone(Merging) /\ BringsNone(last)
  <2>1. "binary" \notin {"develop"}
    OBVIOUS
  <2> QED BY <2>1, PlanBrings, FreeLists, FreeNone
<1> HIDE DEF one, back, last
<1>4. Mild(one \o Merging \o last)
  BY <1>2, MildConcat
<1>5. BringsNone(one \o Merging \o last)
  <2>1. IsSeq(one) /\ IsSeq(Merging) /\ IsSeq(last)
    BY <1>2 DEF Mild
  <2>2. IsSeq(one \o Merging) /\ BringsNone(one \o Merging)
    BY <1>3, <2>1, Concat, BringsConcat
  <2> QED BY <1>3, <2>1, <2>2, BringsConcat
<1> QED BY <1>1, <1>2, <1>4, <1>5, FineMild, FoundedNone, BeginIs DEF BegunBased, Mild

LEMMA BasedLayer ==
    ASSUME NEW c \in Files, InstallLayer(c)
    PROVE  BegunBased
<1> DEFINE r == c.ref
           e == <<"import", c>>
           imp == <<e>>
           old == OfId(r.id)
           after == Merging \o PruneAfter
           link == Replace(r, old, after)
           last == <<<<"export", r, {c.module}>>>>
           one == EnsureBase(r) \o imp \o Merging \o link
           two == imp \o Merging \o last
<1>1. r \in Apps /\ (\/ HasBase(r) /\ Begin(one, <<>>)
                     \/ c \notin Mains /\ Begin(two, <<>>))
  BY EachOne DEF InstallLayer
<1>2. e[1] = "import" /\ e[2] = c /\ Items(<<>>) = {} /\ Items(imp) = {e} /\ IsSeq(imp)
  BY ItemsNone, ItemsOne
<1>3. Fine(link) /\ Free(link) /\ Free(last) /\ Free(Merging) /\ Mild(last) /\ Mild(Merging)
  <2>1. Fine(after) /\ Free(after)
    BY MildLists, FineConcat, FreeLists, FreeConcat
  <2> HIDE DEF after
  <2> QED BY <1>1, <2>1, FineReplace, FreeReplace, FreeLists, MildLists
<1> HIDE DEF e, link, last, imp, r
<1>4. Mild(imp) /\ Only(imp, r) /\ (c \notin Mains => BringsNone(imp))
  <2>1. Gentle(e) /\ e[1] \notin Enders
    BY <1>2, GentleApps DEF Enders
  <2>2. \A a : Brings(e, a) => a = r /\ c \in Mains
    BY <1>2 DEF Brings, r
  <2> QED BY <1>2, <2>1, <2>2 DEF Mild, Only, BringsNone
<1>5. BringsNone(Merging) /\ BringsNone(link) /\ BringsNone(last) /\ IsSeq(Merging) /\ IsSeq(link) /\ IsSeq(last)
  BY <1>3, FreeNone
<1>6. ASSUME HasBase(r) PROVE Fine(one) /\ Founded(one, <<>>)
  <2>1. Mild(EnsureBase(r)) /\ IsSeq(EnsureBase(r)) /\ BringsNone(EnsureBase(r)) /\ (HasOne(r) \/ BringsBase(EnsureBase(r), r))
    BY <1>1, <1>6, MissingBrings, MildLists
  <2>2. Fine(one)
    BY <1>3, <1>4, <2>1, MildConcat, FineConcat
  <2> DEFINE x == EnsureBase(r) \o imp
  <2>3. IsSeq(x) /\ Founded(x, <<>>)
    BY <1>1, <1>4, <1>2, <2>1, FoundedAfter, Concat
  <2> HIDE DEF x
  <2>4. IsSeq(x \o Merging) /\ Founded(x \o Merging, <<>>)
    BY <1>5, <2>3, FoundedMore, Concat
  <2>5. Founded((x \o Merging) \o link, <<>>)
    BY <1>5, <2>4, FoundedMore
  <2> QED BY <2>2, <2>5 DEF x
<1>7. ASSUME c \notin Mains PROVE Fine(two) /\ Founded(two, <<>>)
  <2>1. Fine(two)
    BY <1>3, <1>4, MildConcat, FineMild
  <2>2. IsSeq(imp \o Merging) /\ BringsNone(imp \o Merging)
    BY <1>2, <1>4, <1>5, <1>7, Concat, BringsConcat
  <2>3. BringsNone(two)
    BY <1>5, <2>2, BringsConcat
  <2> QED BY <2>1, <2>3, FoundedNone
<1> HIDE DEF one, two
<1> QED BY <1>1, <1>2, <1>6, <1>7, BeginIs DEF BegunBased

LEMMA BasedBundle ==
    ASSUME FiniteInv, NEW L \in SUBSET Files, InstallUab(L)
    PROVE  BegunBased
<1> DEFINE r    == (CHOOSE c \in L : TRUE).ref
           all  == SetToSeq(L)
           old  == OfId(r.id)
           link == IF L \cap Mains # {} THEN Replace(r, old, PruneAfter)
                   ELSE [i \in DOMAIN all |-> <<"export", r, {all[i].module}>>]
           back == IF L \cap Mains # {} THEN <<<<"unexport", r, {"binary", "develop"}>>>>
                   ELSE [i \in DOMAIN all |-> <<"unexport", r, {all[i].module}>>]
           imp  == Each("import", all)
           rev  == Each("unimport", Reverse(all))
<1>1. /\ r \in Apps /\ HasBase(r) /\ Begin(EnsureBase(r) \o imp \o Merging \o link, back \o rev \o Merging)
      /\ \A c \in L : c.ref = r
  BY DEF InstallUab
<1>2. all \in Seq(L) /\ Len(all) \in Nat /\ DOMAIN all = 1..Len(all)
  BY Finite, Listed
<1> HIDE DEF r, all
<1>3. ASSUME NEW do, NEW s, s = [i \in DOMAIN all |-> <<do, r, {all[i].module}>>]
      PROVE  IsSeq(s) /\ \A e \in Items(s) : e[1] = do
  <2> DEFINE n == Len(all)
  <2>1. s = [i \in 1..n |-> <<do, r, {all[i].module}>>]
    BY <1>2, <1>3
  <2>2. n \in Nat /\ s = [i \in 1..n |-> s[i]] /\ \A i \in 1..n : s[i][1] = do
    BY <1>2, <2>1
  <2> HIDE DEF n
  <2> QED BY <2>2, ItemsTable
<1>4. Fine(link) /\ IsSeq(link) /\ BringsNone(link)
  <2>1. CASE L \cap Mains # {}
    BY <1>1, <2>1, FineReplace, MildLists, FreeReplace, FreeLists, FreeNone
  <2>2. CASE L \cap Mains = {}
    <3>1. IsSeq(link) /\ \A e \in Items(link) : e[1] = "export"
      BY <1>3, <2>2
    <3> HIDE DEF link
    <3> QED BY <3>1, FineMild, GentleApps DEF Mild, Enders, BringsNone, Brings, Bring
  <2> QED BY <2>1, <2>2
<1>5. IsSeq(back) /\ \A e \in Items(back) : Gentle(e)
  <2>1. CASE L \cap Mains # {}
    BY <2>1, MildLists DEF Mild
  <2>2. CASE L \cap Mains = {}
    <3>1. IsSeq(back) /\ \A e \in Items(back) : e[1] = "unexport"
      BY <1>3, <2>2
    <3> HIDE DEF back
    <3> QED BY <3>1, GentleApps
  <2> QED BY <2>1, <2>2
<1>6. ASSUME NEW do, NEW s \in Seq(L)
      PROVE  IsSeq(Each(do, s)) /\ \A e \in Items(Each(do, s)) : e[1] = do /\ e[2] \in L
  <2>1. IsSeq(s) /\ Items(s) \subseteq L
    BY DEF IsSeq, Items
  <2>2. IsSeq(Each(do, s)) /\ \A e \in Items(Each(do, s)) : \E x \in Items(s) : e = <<do, x>>
    BY <2>1, EachIs
  <2>3. \A x : <<do, x>>[1] = do /\ <<do, x>>[2] = x
    OBVIOUS
  <2> QED BY <2>1, <2>2, <2>3
<1>7. Mild(imp) /\ IsSeq(imp) /\ Only(imp, r)
  <2>1. IsSeq(imp) /\ \A e \in Items(imp) : e[1] = "import" /\ e[2] \in L
    BY <1>2, <1>6
  <2> HIDE DEF imp
  <2> QED BY <1>1, <2>1, GentleApps DEF Mild, Enders, Only, Brings
<1>8. IsSeq(rev) /\ \A e \in Items(rev) : Gentle(e)
  <2>1. Reverse(all) \in Seq(L)
    BY <1>2 DEF Reverse
  <2>2. IsSeq(rev) /\ \A e \in Items(rev) : e[1] = "unimport" /\ e[2] \in L
    BY <1>6, <2>1
  <2> HIDE DEF rev
  <2> QED BY <1>1, <2>2, GentleApps
<1> HIDE DEF link, back, imp, rev
<1>9. Mild(Merging) /\ IsSeq(Merging) /\ BringsNone(Merging) /\ \A e \in Items(Merging) : Gentle(e)
  BY MildLists, FreeLists, FreeNone DEF Mild
<1>10. Mild(EnsureBase(r)) /\ IsSeq(EnsureBase(r)) /\ BringsNone(EnsureBase(r)) /\ (HasOne(r) \/ BringsBase(EnsureBase(r), r))
  BY <1>1, MissingBrings, MildLists
<1> DEFINE s == EnsureBase(r)
           undone == back \o rev \o Merging
<1> HIDE DEF s
<1>11. \A e \in Items(undone) : Gentle(e)
  <2>1. IsSeq(back \o rev) /\ \A e \in Items(back \o rev) : Gentle(e)
    BY <1>5, <1>8, Concat, ItemsConcat
  <2> QED BY <1>9, <2>1, ItemsConcat
<1> HIDE DEF undone
<1>12. Fine(s \o imp \o Merging \o link)
  BY <1>4, <1>7, <1>9, <1>10, MildConcat, FineConcat DEF s
<1>13. IsSeq(s \o imp) /\ Founded(s \o imp, undone)
  BY <1>1, <1>7, <1>10, FoundedAfter, Concat DEF s
<1>14. IsSeq(s \o imp \o Merging) /\ Founded(s \o imp \o Merging, undone)
  BY <1>9, <1>13, FoundedMore, Concat
<1>15. Founded(s \o imp \o Merging \o link, undone)
  BY <1>4, <1>14, FoundedMore
<1> QED BY <1>1, <1>11, <1>12, <1>15, BeginIs DEF BegunBased, s, undone

LEMMA BasedOthers ==
    ASSUME FiniteInv, \/ \E r \in Apps : UninstallExtra(r, "develop")
                      \/ \E ids \in SUBSET {r.id : r \in Apps}, b \in BOOLEAN : Update(ids, b)
                      \/ \E r \in Apps : Uninstall(r)
                      \/ Prune
    PROVE  BegunBased
<1>0. Items(<<>>) = {}
  BY ItemsNone
<1> SUFFICES Fine(todo') /\ BringsNone(todo') /\ undo' = <<>>
  BY <1>0, FoundedNone DEF BegunBased
<1>1. ASSUME NEW r \in Apps, UninstallExtra(r, "develop") PROVE Fine(todo') /\ BringsNone(todo') /\ undo' = <<>>
  <2> DEFINE e == <<"unexport", r, {"develop"}>>
             f == <<"remove", r, "develop">>
             s == <<e, f>>
  <2>1. Begin(s \o Merging, <<>>)
    BY <1>1 DEF UninstallExtra
  <2>2. Mild(s)
    BY MildLists
  <2>3. IsSeq(s) /\ Items(s) = {e, f} /\ e[1] = "unexport" /\ f[1] = "remove"
    BY ItemsTwo
  <2> HIDE DEF e, f, s
  <2>4. BringsNone(s)
    BY <2>3 DEF BringsNone, Brings, Bring
  <2>5. BringsNone(s \o Merging)
    BY <2>3, <2>4, BringsConcat, FreeLists, FreeNone
  <2>6. Fine(s \o Merging)
    BY <2>2, MildLists, MildConcat, FineMild
  <2> QED BY <2>1, <2>5, <2>6, BeginIs
<1>2. ASSUME NEW ids \in SUBSET {r.id : r \in Apps}, NEW b \in BOOLEAN, Update(ids, b)
      PROVE  Fine(todo') /\ BringsNone(todo') /\ undo' = <<>>
  <2> DEFINE S    == {r \in Installed \cap Apps : r.id \in ids}
             apps == SetToSeq(S)
             each == [i \in DOMAIN apps |-> <<"update", apps[i], b>>]
             last == <<<<"updated", "failed">>>>
  <2>1. apps \in Seq(S) /\ Len(apps) \in Nat /\ DOMAIN apps = 1..Len(apps)
    <3>1. IsFiniteSet(S)
      BY Finite, FS_Subset
    <3> QED BY <3>1, Listed
  <2>2. Begin(each \o last, <<>>)
    BY <1>2 DEF Update
  <2> HIDE DEF apps
  <2>3. each = [i \in 1..Len(apps) |-> each[i]] /\ \A i \in 1..Len(apps) : each[i][1] = "update"
    BY <2>1
  <2> HIDE DEF each
  <2>4. IsSeq(each) /\ \A e \in Items(each) : e[1] = "update"
    <3> DEFINE n == Len(apps)
    <3>1. n \in Nat /\ each = [i \in 1..n |-> each[i]] /\ \A i \in 1..n : each[i][1] = "update"
      BY <2>1, <2>3
    <3> HIDE DEF n
    <3> QED BY <3>1, ItemsTable
  <2>5. Mild(each) /\ BringsNone(each)
    BY <2>4, GentleApps DEF Mild, Enders, BringsNone, Brings, Bring
  <2>6. Fine(last) /\ IsSeq(last) /\ BringsNone(last)
    BY MildLists, FreeLists, FreeNone
  <2> HIDE DEF last
  <2>7. Fine(each \o last) /\ BringsNone(each \o last)
    BY <2>4, <2>5, <2>6, FineConcat, BringsConcat
  <2> QED BY <2>2, <2>7, BeginIs
<1>3. ASSUME NEW r \in Apps, Uninstall(r) PROVE Fine(todo') /\ BringsNone(todo') /\ undo' = <<>>
  <2> DEFINE one == <<<<"unexport", r, {"binary", "develop"}>>>>
             two == <<<<"remove_all", r>>>>
             all == one \o two \o PruneAfter \o Merging
  <2>1. todo' = all /\ undo' = <<>>
    BY <1>3 DEF Uninstall, BeginAs
  <2>2. Mild(one) /\ Mild(two) /\ Fine(PruneAfter)
    BY MildLists
  <2>3. Free(one) /\ Free(two) /\ Free(PruneAfter) /\ Free(Merging)
    BY FreeLists
  <2> HIDE DEF one, two
  <2>4. BringsNone(all)
    BY <2>3, FreeConcat, FreeNone
  <2>5. IsSeq(Merging) /\ \A e \in Items(Merging) : e[1] = "merge"
    BY ItemsOne DEF Merging
  <2>6. Fine(all)
    BY <2>2, <2>5, MildConcat, FineConcat, FineThen
  <2> QED BY <2>1, <2>4, <2>6
<1>4. CASE Prune
  <2>1. Begin(<<<<"prune">>>>, <<>>)
    BY <1>4 DEF Prune
  <2> QED BY <2>1, MildLists, FreeLists, FreeNone, BeginIs
<1> QED BY <1>1, <1>2, <1>3, <1>4


\* What an install of a base can take back is not the one the apps have.
LEMMA BaseInstall ==
    ASSUME NEW r \in Refs, NEW b \in BOOLEAN, InstallBase(r, b), AllBased
    PROVE  Shrinking' /\ Ends(todo') /\ UNCHANGED live
<1> DEFINE s    == Plan(r, {"binary"})
           t    == s \o Merging
           e    == <<"retire", r>>
           back == <<e>>
<1>1. Begin(t, back) /\ r \in Refs \ Apps /\ Wanted(r, b)
  BY DEF InstallBase
<1>2. todo' = t /\ undo' = back /\ who' = "job" /\ UNCHANGED live
  BY <1>1 DEF Begin, BeginAs, repo
<1>3. IsSeq(s) /\ (\A x \in Items(s) : x[1] = "install") /\ BringsNone(s)
  <2>1. \A x \in Items(s) : \E c \in Remote : x = <<"install", c>>
    BY ItemsPlan
  <2>2. \A c : <<"install", c>>[1] = "install"
    OBVIOUS
  <2> QED BY <1>1, <2>1, <2>2, PlanBrings
<1>4. IsSeq(Merging) /\ Items(Merging) = {<<"merge">>} /\ BringsNone(Merging)
  BY ItemsOne, FreeLists, FreeNone DEF Merging
<1>5. Items(back) = {e} /\ e[1] = "retire" /\ e[2] = r
  BY ItemsOne
<1> HIDE DEF s, e
<1>6. IsSeq(t) /\ (\A x \in Items(t) : x[1] \in {"install", "merge"}) /\ BringsNone(t)
  <2>1. <<"merge">>[1] = "merge"
    OBVIOUS
  <2> QED BY <1>3, <1>4, <2>1, Concat, ItemsConcat, BringsConcat
<1> HIDE DEF t, back
<1>7. ASSUME NEW a \in Installed \cap Apps PROVE \E x \in OfId(BaseOf[a]) : x # r
  <2>1. OfId(BaseOf[a]) # {} /\ OfId(BaseOf[a]) \in SUBSET Refs
    BY <1>7, References DEF AllBased, HasOne
  <2>2. CASE BaseOf[a] # r.id
    BY <2>1, <2>2, References
  <2>3. CASE BaseOf[a] = r.id /\ b
    <3>1. r \notin OfId(r.id)
      <4> SUFFICES ASSUME r \in OfId(r.id) PROVE FALSE
        OBVIOUS
      <4>1. Old(r, b) = {r}
        BY <2>3 DEF Old
      <4>2. Newest({r}) \in {r}
        BY <1>1, Latest
      <4> QED BY <1>1, <4>1, <4>2 DEF Wanted
    <3> QED BY <2>1, <2>3, <3>1
  <2>4. CASE BaseOf[a] = r.id /\ ~b
    <3>1. Old(r, b) = OfId(r.id)
      BY <2>1, <2>4 DEF Old
    <3>2. Newest(OfId(r.id)) \in OfId(r.id)
      BY <2>1, <2>4, Latest
    <3> QED BY <1>1, <2>1, <2>4, <3>1, <3>2 DEF Wanted
  <2> QED BY <2>2, <2>3, <2>4
<1>8. ASSUME NEW x, x # r PROVE Untouched(t, x) /\ Untouched(back, x)
  BY <1>5, <1>6, <1>8 DEF Untouched, Touches
<1>9. ASSUME NEW a \in Installed' \cap Apps PROVE (\E x \in OfId(BaseOf[a]) : Secure(x))'
  <2>1. a \in Installed
    BY <1>2, <1>9 DEF Installed
  <2>2. PICK x \in OfId(BaseOf[a]) : x # r
    BY <1>7, <1>9, <2>1
  <2>3. x \in OfId(BaseOf[a])'
    BY <1>2, <2>2 DEF OfId, Installed
  <2>4. Secure(x)'
    BY <1>2, <1>8, <2>2 DEF Secure
  <2> QED BY <2>3, <2>4
<1>10. \A x \in Items(t) : x[1] \notin Larger /\ \A a \in Apps : ~Brings(x, a)
  BY <1>6 DEF BringsNone, Larger, Enders
<1>11. Ends(t)
  BY <1>6 DEF Ends, Items, Enders
<1> QED BY <1>2, <1>9, <1>10, <1>11 DEF Shrinking

\* Nothing of the entries changes.
LEMMA SameLive ==
    ASSUME UNCHANGED live
    PROVE  /\ Installed' = Installed /\ \A id : OfId(id)' = OfId(id)
           /\ \A a : HasOne(a)' <=> HasOne(a)
           /\ AllBased' <=> AllBased
BY DEF Installed, OfId, HasOne, AllBased

LEMMA BegunGrows ==
    ASSUME BegunBased, AllBased, UNCHANGED live, who' = "job"
    PROVE  Growing' /\ Ends(todo')
<1>1. Fine(todo') /\ Founded(todo', undo') /\ \A e \in Items(undo') : Gentle(e)
  BY DEF BegunBased
<1>2. ASSUME NEW b \in Refs \ Apps PROVE Secure(b)'
  BY <1>1 DEF Secure, Untouched, Fine, Gentle
<1>3. \A a \in Installed' \cap Apps : HasOne(a)'
  BY SameLive DEF AllBased
<1>4. Founded(todo, undo)'
  BY <1>1, SameLive DEF Founded
<1> QED BY <1>1, <1>2, <1>3, <1>4 DEF Growing, Fine

LEMMA TailFine ==
    ASSUME NEW s, IsSeq(s), s # <<>>, Ends(s), \A e \in Items(Tail(s)) : Gentle(e)
    PROVE  Fine(Tail(s))
<1> DEFINE t == Tail(s)
<1>1. IsSeq(t) /\ Len(s) \in Nat \ {0} /\ Len(t) = Len(s) - 1 /\ \A i \in 1..(Len(s) - 1) : t[i] = s[i + 1]
  BY Rests
<1> HIDE DEF t
<1>2. ASSUME NEW i \in 1..Len(t), NEW j \in 1..Len(t), i < j, t[i][1] \in Enders PROVE t[j][1] = "merge"
  <2> DEFINE x == i + 1
             y == j + 1
  <2>1. x \in 1..Len(s) /\ y \in 1..Len(s) /\ x < y /\ i \in 1..(Len(s) - 1) /\ j \in 1..(Len(s) - 1)
    BY <1>1, <1>2
  <2>2. t[i] = s[x] /\ t[j] = s[y]
    BY <1>1, <2>1
  <2> HIDE DEF x, y
  <2> QED BY <1>2, <2>1, <2>2 DEF Ends
<1> QED BY <1>1, <1>2 DEF Fine, Ends, t

LEMMA BasesBring ==
    ASSUME NEW n \in Apps, Offers(BaseOf[n]) # {}
    PROVE  Mild(Bases(n)) /\ BringsNone(Bases(n)) /\ (HasOne(n) \/ BringsBase(Bases(n), n))
<1> DEFINE b == Newest(Offers(BaseOf[n]))
<1>1. b \in Offers(BaseOf[n]) /\ b \in Refs \ Apps /\ b.id = BaseOf[n]
  BY NewestBase, References
<1>2. \A M : Mild(Plan(b, M)) /\ BringsNone(Plan(b, M))
  BY <1>1, MildLists, PlanBrings
<1>3. BringsBase(Plan(b, {"binary"}), n)
  BY <1>1, PlanHas DEF BringsBase
<1>4. Mild(<<>>) /\ BringsNone(<<>>)
  BY MildLists, FreeLists, FreeNone
<1> QED BY <1>2, <1>3, <1>4 DEF Bases, HasOne

LEMMA UpdateBased ==
    ASSUME TodoInv, ArgsInv, Ends(todo), UpdateApp
    PROVE  BegunBased
<1> USE DEF Kind, This
<1> DEFINE r    == This
           new  == Newer(r, todo[1][3])
           n    == Becomes(r, todo[1][3])
           own  == IF new THEN Plan(n, ModulesOf(r)) ELSE <<>>
           plan == own \o Bases(n)
           join == IF plan = <<>> THEN <<>> ELSE Merging
           link == IF new THEN Renewal(n, r) ELSE <<>>
           e0   == <<"next", IF plan = <<>> THEN "same" ELSE "changed">>
           mark == <<e0>>
           back == IF new THEN <<<<"unexport", n, Both>>, <<"retire", n>>>> ELSE <<>>
           t    == Tail(todo)
<1>1. /\ n \in Apps /\ r \in Apps /\ todo' = plan \o join \o link \o mark \o t /\ undo' = back
      /\ Updatable(r, todo[1][3]) /\ todo # <<>>
      /\ IsSeq(t) /\ \A e \in Items(t) : e[1] \in Asks
  BY UpdateIs
<1>2. Mild(Bases(n)) /\ BringsNone(Bases(n)) /\ (HasOne(n) \/ BringsBase(Bases(n), n))
  BY <1>1, BasesBring DEF Updatable
<1>3. Mild(own) /\ Only(own, n) /\ (new \/ BringsNone(own))
  BY MildLists, PlanBrings, FreeLists, FreeNone
<1>4. (new => <<"retire", n>> \in Items(back)) /\ \A e \in Items(back) : Gentle(e)
  <2>1. Mild(<<>>) /\ Mild(<<<<"unexport", n, Both>>, <<"retire", n>>>>)
    BY <1>1, MildLists
  <2>2. <<"retire", n>> \in Items(<<<<"unexport", n, Both>>, <<"retire", n>>>>)
    BY ItemsTwo
  <2> QED BY <2>1, <2>2 DEF Mild
<1>5. Mild(link) /\ BringsNone(link)
  <2>1. Mild(Renewal(n, r)) /\ BringsNone(Renewal(n, r))
    <3> DEFINE x == <<"export", n, Both>>
               y == <<"unexport", r, Both>>
               z == <<"retire", r>>
    <3>1. x[1] = "export" /\ y[1] = "unexport" /\ z[1] = "retire" /\ z[2] = r
      OBVIOUS
    <3> HIDE DEF x, y, z
    <3>2. IsSeq(<<x, y, z>>) /\ Items(<<x, y, z>>) = {x, y, z}
      BY ItemsThree
    <3>3. Mild(<<x, y, z>>) /\ BringsNone(<<x, y, z>>)
      BY <1>1, <3>1, <3>2, GentleApps DEF Mild, Enders, BringsNone, Brings, Bring
    <3> QED BY <3>3 DEF x, y, z, Renewal
  <2> QED BY <2>1, MildLists, FreeLists, FreeNone
<1>6. Mild(mark) /\ BringsNone(mark)
  BY MildLists, FreeLists, FreeNone
<1>7. Mild(join) /\ BringsNone(join)
  BY MildLists, FreeLists, FreeNone
<1>8. Fine(t) /\ BringsNone(t)
  <2>1. \A e \in Items(t) : Gentle(e)
    BY <1>1, GentleApps DEF Asks
  <2>2. Fine(t)
    BY <1>1, <2>1, TailFine DEF TodoInv
  <2> HIDE DEF t
  <2> QED BY <1>1, <2>2 DEF BringsNone, Brings, Bring, Asks
<1> HIDE DEF join, link, mark, e0, back, t, own, new, n, r
<1>9. Mild(plan) /\ Only(plan, n) /\ (HasOne(n) \/ BringsBase(plan, n)) /\ (new \/ BringsNone(plan))
  BY <1>2, <1>3, MildConcat, NoneOnly, BringsConcat DEF Mild
<1> HIDE DEF plan
<1>10. IsSeq(plan) /\ Founded(plan, back)
  BY <1>1, <1>4, <1>9, FoundedBack, FoundedNone DEF Mild
<1>11. IsSeq(plan \o join) /\ Founded(plan \o join, back)
  BY <1>7, <1>10, FoundedMore, Concat DEF Mild
<1>12. IsSeq(plan \o join \o link) /\ Founded(plan \o join \o link, back)
  BY <1>5, <1>11, FoundedMore, Concat DEF Mild
<1>13. IsSeq(plan \o join \o link \o mark) /\ Founded(plan \o join \o link \o mark, back)
  BY <1>6, <1>12, FoundedMore, Concat DEF Mild
<1>14. Founded(plan \o join \o link \o mark \o t, back)
  BY <1>1, <1>8, <1>13, FoundedMore
<1>15. Fine(plan \o join \o link \o mark \o t)
  BY <1>5, <1>6, <1>7, <1>8, <1>9, MildConcat, FineConcat
<1> QED BY <1>1, <1>4, <1>14, <1>15 DEF BegunBased

LEMMA NextBased ==
    ASSUME TodoInv, Ends(todo), NextApp
    PROVE  BegunBased
<1> DEFINE t == Tail(todo)
           e == <<"updated", Arg>>
           a == <<e>>
<1>1. /\ IsSeq(todo') /\ (\A x \in Items(todo') : x[1] \in Asks) /\ undo' = <<>> /\ todo # <<>>
      /\ Kind(1) = "next"
  BY NextIs
<1>2. todo' = t \/ todo' = Front(t) \o a
  BY DEF NextApp
<1>3. IsSeq(t) /\ Len(t) \in Nat /\ \A i \in 1..Len(t) : t[i][1] \in Asks
  <2>1. IsSeq(t) /\ Len(t) = Len(todo) - 1 /\ Len(todo) \in Nat \ {0} /\ \A i \in 1..(Len(todo) - 1) : t[i] = todo[i + 1]
    BY <1>1, Rests DEF TodoInv
  <2>2. ASSUME NEW i \in 1..Len(t) PROVE t[i][1] \in Asks
    <3>1. i + 1 \in 1..Len(todo) /\ 1 < i + 1 /\ 1 \in 1..Len(todo)
      BY <2>1
    <3>2. Kind(i + 1) \in Asks
      BY <1>1, <3>1 DEF TodoInv, HolderInv
    <3> QED BY <2>1, <3>2 DEF Kind
  <2> QED BY <2>1, <2>2
<1>4. \A x : x[1] \in Asks => Gentle(x) /\ \A r : ~Brings(x, r)
  BY GentleApps DEF Asks, Brings, Bring
<1>5. Fine(t)
  BY <1>1, <1>3, <1>4, TailFine DEF TodoInv, Items
<1>6. Mild(Front(t))
  <2>1. IsSeq(Front(t)) /\ \A i \in 1..Len(Front(t)) : i \in 1..(Len(t) - 1) /\ Front(t)[i] = t[i]
    BY <1>3, FrontIs
  <2> HIDE DEF t
  <2>2. ASSUME NEW i \in 1..Len(Front(t)) PROVE Gentle(Front(t)[i]) /\ Front(t)[i][1] \notin Enders
    <3>1. i \in 1..Len(t) /\ Len(t) \in 1..Len(t) /\ i < Len(t) /\ Front(t)[i] = t[i]
      BY <1>3, <2>1
    <3>2. t[Len(t)][1] # "merge"
      BY <1>3, <3>1 DEF Asks
    <3>3. t[i][1] \notin Enders
      BY <1>5, <3>1, <3>2 DEF Fine, Ends
    <3>4. Gentle(t[i])
      BY <1>3, <1>4, <3>1
    <3> QED BY <3>1, <3>3, <3>4
  <2> QED BY <2>1, <2>2 DEF Mild, Items
<1>7. Fine(a)
  BY MildLists
<1> HIDE DEF t, a
<1>8. Fine(todo')
  BY <1>2, <1>5, <1>6, <1>7, FineConcat
<1>9. BringsNone(todo')
  BY <1>1, <1>4 DEF BringsNone
<1> QED BY <1>1, <1>8, <1>9, FoundedNone, ItemsNone DEF BegunBased


LEMMA RestEnds ==
    ASSUME TodoInv, Ends(todo)
    PROVE  Ends(Rest)
<1> DEFINE s == Rest
<1>1. CASE s = <<>>
  BY <1>1, ItemsNone DEF Ends
<1>2. ASSUME NEW m \in 1..Len(todo), Len(s) = Len(todo) - m + 1, \A i \in 1..Len(s) : s[i] = todo[m + i - 1]
      PROVE  Ends(s)
  <2>1. Len(todo) \in Nat
    BY Concat DEF TodoInv
  <2> HIDE DEF s
  <2>2. ASSUME NEW i \in 1..Len(s), NEW j \in 1..Len(s), i < j, s[i][1] \in Enders PROVE s[j][1] = "merge"
    <3> DEFINE x == m + i - 1
               y == m + j - 1
    <3>1. x \in 1..Len(todo) /\ y \in 1..Len(todo) /\ x < y
      BY <1>2, <2>1, <2>2
    <3>2. s[i] = todo[x] /\ s[j] = todo[y]
      BY <1>2
    <3> HIDE DEF x, y
    <3> QED BY <2>2, <3>1, <3>2 DEF Ends
  <2> QED BY <2>2 DEF Ends
<1> QED BY <1>1, <1>2, RestSub

\* Taking back what came with or after its base takes back no base.
LEMMA FailBased ==
    ASSUME TodoInv, StepFails, who = "job", Ends(todo), Growing \/ Shrinking
    PROVE  (Growing' \/ Shrinking') /\ Ends(todo')
<1> DEFINE u == todo'
<1>1. /\ todo' = undo \o Rest /\ who' = "rollback" /\ UNCHANGED <<live, undo>>
      /\ IsSeq(undo) /\ \A e \in Items(undo) : e[1] \in Undos
  <2>1. Made(undo, Undos)
    BY FailIs
  <2> QED BY <2>1, FailIs DEF repo, Made, Items
<1>2. IsSeq(Rest) /\ Items(Rest) \subseteq Items(todo)
  BY RestItems
<1>3. Items(u) = Items(undo) \cup Items(Rest)
  BY <1>1, <1>2, ItemsConcat
<1>4. Ends(u)
  <2> DEFINE l == Len(undo)
             k == Len(Rest)
  <2>1. /\ Len(u) = l + k /\ l \in Nat /\ k \in Nat
        /\ \A i \in 1..l : u[i] = undo[i] /\ undo[i][1] \notin Enders
        /\ \A i \in (l + 1)..(l + k) : u[i] = Rest[i - l]
    BY <1>1, <1>2, Concat DEF Items, Enders, Undos
  <2>2. Ends(Rest)
    BY RestEnds
  <2> HIDE DEF u, l, k
  <2>3. ASSUME NEW i \in 1..Len(u), NEW j \in 1..Len(u), i < j, u[i][1] \in Enders PROVE u[j][1] = "merge"
    <3> DEFINE x == i - l
               y == j - l
    <3>1. i \in (l + 1)..(l + k) /\ j \in (l + 1)..(l + k) /\ x \in 1..k /\ y \in 1..k /\ x < y
      BY <2>1, <2>3
    <3>2. u[i] = Rest[x] /\ u[j] = Rest[y]
      BY <2>1, <3>1
    <3> HIDE DEF x, y
    <3> QED BY <2>2, <2>3, <3>1, <3>2 DEF Ends, k
  <2> QED BY <2>3 DEF Ends
<1> HIDE DEF u
<1>5. ASSUME NEW b, Secure(b) PROVE Secure(b)'
  <2>1. Untouched(u, b)
    BY <1>2, <1>3, <1>5 DEF Secure, Untouched
  <2> QED BY <1>1, <2>1 DEF Secure, u
<1>6. CASE Growing
  <2>1. ASSUME NEW a \in Installed' \cap Apps PROVE HasOne(a)' \/ Leaving(a)'
    <3>1. a \in Installed /\ (HasOne(a)' <=> HasOne(a))
      BY <1>1, <2>1, SameLive
    <3>2. HasOne(a) \/ Sought(a)
      BY <1>6, <2>1, <3>1 DEF Growing, Leaving
    <3>3. CASE Sought(a)
      <4> DEFINE e == <<"retire", a>>
      <4>1. e \in Items(u) /\ e[1] = "retire" /\ e[2] = a
        BY <1>3, <3>3 DEF Sought
      <4> HIDE DEF e
      <4>2. Goes(live', u, a)
        BY <4>1 DEF Goes, TakesMain
      <4> QED BY <1>1, <4>2 DEF Leaving, u
    <3> QED BY <3>1, <3>2, <3>3
  <2>2. Growing'
    BY <1>1, <1>5, <1>6, <2>1 DEF Growing
  <2> QED BY <1>4, <2>2 DEF u
<1>7. CASE Shrinking
  <2>1. ASSUME NEW a \in Installed' \cap Apps PROVE (\E b \in OfId(BaseOf[a]) : Secure(b))'
    <3>1. a \in Installed /\ OfId(BaseOf[a])' = OfId(BaseOf[a])
      BY <1>1, <2>1 DEF OfId, Installed
    <3>2. PICK b \in OfId(BaseOf[a]) : Secure(b)
      BY <1>7, <2>1, <3>1 DEF Shrinking
    <3> QED BY <1>5, <3>1, <3>2
  <2>2. ASSUME NEW e \in Items(u) PROVE e[1] \notin Larger /\ \A a \in Apps : ~Brings(e, a)
    <3>1. CASE e \in Items(undo)
      BY <1>1, <3>1 DEF Undos, Larger, Enders, Brings, Bring
    <3>2. CASE e \in Items(todo)
      BY <1>7, <3>2 DEF Shrinking
    <3> QED BY <1>2, <1>3, <2>2, <3>1, <3>2
  <2>3. Shrinking'
    BY <2>1, <2>2 DEF Shrinking, u
  <2> QED BY <1>4, <2>3 DEF u
<1> QED BY <1>6, <1>7

\* At the beginning and the end of an update, and of an operation.
LEMMA AskedBased ==
    ASSUME TodoInv, Growing \/ Shrinking, todo = <<>> \/ (todo # <<>> /\ Kind(1) \in {"next", "update"})
    PROVE  AllBased /\ (todo # <<>> => Growing)
<1>1. IsSeq(todo)
  BY DEF TodoInv
<1>2. \A e \in Items(todo) : e[1] \in {"merge", "update", "updated", "next", "prune", "prune_after"}
  BY PureAsks, ItemsNone DEF Asks
<1>3. \A a : ~Sought(a) /\ ~Leaving(a)
  BY <1>1, <1>2, NoneComes
<1>4. CASE Growing
  BY <1>3, <1>4 DEF Growing, AllBased
<1>5. CASE Shrinking
  <2>1. todo # <<>> => todo[1] \in Items(todo)
    BY <1>1, ItemsTail, Rests
  <2>2. todo = <<>>
    BY <1>5, <2>1 DEF Shrinking, Larger, Kind
  <2> QED BY <1>5, <2>2 DEF Shrinking, AllBased, HasOne
<1> QED BY <1>4, <1>5

BaseInv == Scars \cap hurt = {} =>
    /\ "rebuilt" \notin hurt /\ Ends(todo)
    /\ who \in {"none", "gc"} => AllBased
    /\ who \in {"job", "rollback"} => Growing \/ Shrinking

LEMMA BasePlain ==
    ASSUME TodoInv, FiniteInv, ArgsInv, OneLive, GcLive, GcDrops, Plain, Ends(todo),
           {"rebuilt", "twice"} \cap hurt = {}, "stuck" \notin hurt',
           who \in {"none", "gc"} => AllBased, who \in {"job", "rollback"} => Growing \/ Shrinking
    PROVE  /\ Ends(todo')
           /\ who' \in {"none", "gc"} => AllBased'
           /\ who' \in {"job", "rollback"} => Growing' \/ Shrinking'
<1>1. PICK s : Turn(s) /\ Turns(s)
  BY Turning DEF Plain
<1>2. todo # <<>> /\ UNCHANGED who /\ todo[1] \in Items(todo)
  BY <1>1, Turned DEF Turn, TodoInv
<1>3. Ends(todo')
  BY <1>1, EndsTurn
<1>4. who # "none"
  BY <1>2 DEF TodoInv, HolderInv
<1>5. who = "gc" => AllBased'
  BY GcStill, SameLive
<1>6. ASSUME who \in {"job", "rollback"} PROVE Growing' \/ Shrinking'
  <2>1. Kind(1) \notin {"collect", "discard"}
    BY <1>2, <1>6 DEF GcLive, Kind
  <2>2. CASE Kind(1) = "prune"
    <3>1. PruneUnused
      <4>1. ASSUME NEW do, Due(do) PROVE do = "prune"
        BY <2>2, <4>1, HeadIs
      <4> QED BY <1>6, <4>1 DEF Plain, Merge, Unimport, UpdateSkips, Updated, InstallModule, ImportLayer,
              SetRef, Clear, Checkout, Upsert, Export, Unexport, Retire, Mark, RemoveAll, RemoveModule,
              Unref, Drop, AfterChange, Clean, Sweep, Collect, Discard, StepFails
    <3>2. ~Shrinking
      BY <1>2, <2>2 DEF Shrinking, Larger, Enders, Kind
    <3> QED BY <1>6, <3>1, <3>2, PrunePlain
  <2>3. CASE Kind(1) # "prune"
    BY <1>1, <1>6, <2>1, <2>3, GrowPlain, ShrinkPlain
  <2> QED BY <2>2, <2>3
<1> QED BY <1>2, <1>3, <1>4, <1>5, <1>6

LEMMA BaseStep ==
    TodoInv /\ FiniteInv /\ ArgsInv /\ OneLive /\ GcLive /\ GcDrops /\ BaseInv /\ [Next]_vars => BaseInv'
<1> SUFFICES ASSUME TodoInv, FiniteInv, ArgsInv, OneLive, GcLive, GcDrops, BaseInv, [Next]_vars, Scars \cap hurt' = {}
             PROVE  /\ "rebuilt" \notin hurt' /\ Ends(todo')
                    /\ who' \in {"none", "gc"} => AllBased'
                    /\ who' \in {"job", "rollback"} => Growing' \/ Shrinking'
  BY DEF BaseInv
<1>0. /\ "rebuilt" \notin hurt /\ Ends(todo) /\ "rebuilt" \notin hurt'
      /\ who \in {"none", "gc"} => AllBased
      /\ who \in {"job", "rollback"} => Growing \/ Shrinking
      /\ "twice" \notin hurt /\ "stuck" \notin hurt'
  <2>1. Scars \cap hurt = {}
    BY ScarsStay
  <2> QED BY <2>1, ScarsStay DEF BaseInv, Scars
<1>1. CASE Plain
  BY <1>0, <1>1, BasePlain
<1>2. CASE Job
  <2>1. who = "none" /\ who' = "job" /\ UNCHANGED live
    <3>1. \E h \in SUBSET {"forced"} : \E plan, back : BeginAs(h, plan, back)
      BY <1>2 DEF Job, Install, InstallBase, InstallExtra, InstallLayer, InstallUab, Update, Uninstall,
                  UninstallExtra, Prune, Begin
    <3> QED BY <3>1 DEF BeginAs, repo
  <2>2. AllBased
    BY <1>0, <2>1
  <2>3. ASSUME BegunBased PROVE Growing' /\ Ends(todo')
    BY <2>1, <2>2, <2>3, BegunGrows
  <2>4. (Growing' \/ Shrinking') /\ Ends(todo')
    <3>1. CASE \E r \in Apps, M \in SUBSET {"binary", "develop"}, b \in BOOLEAN : Install(r, M, b)
      BY <2>3, <3>1, BasedInstall
    <3>2. CASE \E r \in Refs, b \in BOOLEAN : InstallBase(r, b)
      BY <2>2, <3>2, BaseInstall
    <3>3. CASE \E r \in Apps : InstallExtra(r, "develop")
      BY <2>3, <3>3, BasedExtra
    <3>4. CASE \E c \in Files : InstallLayer(c)
      BY <2>3, <3>4, BasedLayer
    <3>5. CASE \E L \in SUBSET Files : InstallUab(L)
      BY <2>3, <3>5, BasedBundle
    <3>6. CASE \E r \in Refs : Uninstall(r)
      <4>1. PICK r \in Refs : Uninstall(r)
        BY <3>6
      <4>2. r \in Apps
        BY <4>1 DEF Uninstall, BeginAs, Scars
      <4> QED BY <2>3, <4>1, <4>2, BasedOthers
    <3>7. CASE \/ \E r \in Apps : UninstallExtra(r, "develop")
               \/ \E ids \in SUBSET {r.id : r \in Apps}, b \in BOOLEAN : Update(ids, b)
               \/ Prune
      BY <2>3, <3>7, BasedOthers
    <3> QED BY <1>2, <3>1, <3>2, <3>3, <3>4, <3>5, <3>6, <3>7 DEF Job
  <2> QED BY <1>0, <2>1, <2>4
<1>3. CASE UpdateApp \/ NextApp \/ UpdateCanceled
  <2>1. todo # <<>> /\ Kind(1) \in {"next", "update"}
    <3>1. \E do \in {"update", "next"} : Due(do)
      BY <1>3 DEF UpdateApp, UpdateCanceled, NextApp
    <3> QED BY <3>1, HeadIs
  <2>2. who \in {"job", "rollback"}
    <3>1. who # "gc"
      BY <2>1, NotCollecting DEF Collects
    <3> QED BY <2>1, <3>1 DEF TodoInv, HolderInv
  <2>3. AllBased /\ Growing
    BY <1>0, <2>1, <2>2, AskedBased
  <2>4. CASE UpdateApp \/ NextApp
    <3>1. who' = "job" /\ UNCHANGED live
      BY <2>4, UpdateIs, NextIs DEF repo
    <3>2. BegunBased
      BY <1>0, <2>4, UpdateBased, NextBased
    <3> QED BY <1>0, <2>3, <3>1, <3>2, BegunGrows
  <2>5. CASE UpdateCanceled
    <3>1. todo' = <<>> /\ UNCHANGED <<live, who, undo>>
      BY <2>5 DEF UpdateCanceled, repo
    <3>2. Items(todo') = {} /\ Len(todo') = 0
      BY <3>1, ItemsNone
    <3> DEFINE u == todo'
    <3>3. Items(u) = {} /\ Len(u) = 0
      BY <3>2
    <3> HIDE DEF u
    <3>4. Ends(u) /\ Founded(u, undo') /\ \A b : Untouched(u, b)
      BY <3>3 DEF Ends, Founded, Untouched
    <3>5. \A a \in Installed' \cap Apps : HasOne(a)'
      BY <2>3, <3>1, SameLive DEF AllBased
    <3>6. \A b \in Refs \ Apps : Secure(b)'
      BY <2>3, <3>1, <3>4 DEF Growing, Secure, u
    <3>7. Founded(todo, undo)'
      BY <3>1, <3>4, SameLive DEF Founded, u
    <3>8. Growing'
      BY <3>5, <3>6, <3>7 DEF Growing
    <3> QED BY <1>0, <2>2, <3>1, <3>4, <3>8 DEF u
  <2> QED BY <1>3, <2>4, <2>5
<1>4. CASE StepFails /\ who = "job"
  <2>1. who' = "rollback"
    BY <1>4, FailIs
  <2> QED BY <1>0, <1>4, <2>1, FailBased
<1>5. CASE GcBegin
  <2> DEFINE s == Each("collect", SetToSeq({c.ref : c \in deferred}))
             t == IF deferred = {} THEN <<>> ELSE Merging
  <2>1. todo' = s \o t /\ who = "none" /\ who' = "gc" /\ UNCHANGED live
    BY <1>5 DEF GcBegin, Merging, repo
  <2>2. Mild(s)
    <3>1. IsFiniteSet({c.ref : c \in deferred})
      BY Mapped DEF FiniteInv
    <3>2. IsSeq(s) /\ \A e \in Items(s) : \E x \in {c.ref : c \in deferred} : e = <<"collect", x>>
      BY <3>1, ItemsEach
    <3>3. \A x : <<"collect", x>>[1] = "collect"
      OBVIOUS
    <3> HIDE DEF s
    <3>4. IsSeq(s) /\ \A e \in Items(s) : e[1] = "collect"
      BY <3>2, <3>3
    <3> QED BY <3>4, GentleApps DEF Mild, Enders
  <2>3. Mild(t)
    BY MildLists
  <2> HIDE DEF s, t
  <2>4. Ends(todo')
    BY <2>1, <2>2, <2>3, MildConcat, FineMild DEF Fine
  <2> QED BY <1>0, <2>1, <2>4, SameLive
<1>6. CASE End
  <2>1. who # "none" /\ todo = <<>> /\ who' = "none" /\ todo' = todo /\ UNCHANGED live
    BY <1>6 DEF End, repo
  <2>2. AllBased
    BY <1>0, <2>1, AskedBased DEF TodoInv, HolderInv
  <2> QED BY <1>0, <2>1, <2>2, SameLive
<1>7. CASE Crash \/ Rebuilt
  BY <1>7 DEF Crash, Rebuilt, Scars
<1>8. CASE Resting
  <2>1. UNCHANGED <<live, todo, undo, who>>
    BY <1>8, RestIs DEF repo
  <2>2. /\ Growing' <=> Growing
        /\ Shrinking' <=> Shrinking
        /\ AllBased' <=> AllBased
    BY <2>1 DEF Growing, Shrinking, AllBased, Secure, HasOne, OfId, Installed, Sought, Leaving, Founded
  <2> QED BY <1>0, <2>1, <2>2
<1> QED BY <1>1, <1>2, <1>3, <1>4, <1>5, <1>6, <1>7, <1>8, StepForms DEF Stopping

\* An installed app has an installed base whenever no operation is at work: the base
\* comes with it, and is neither pruned, nor replaced, nor taken back before it.
THEOREM BaseThereHolds == Spec => []BaseThere
<1> DEFINE Inv == ArgsInv /\ ExtraInvs /\ GcDrops /\ BaseInv
<1>1. Init => Inv
  <2> SUFFICES ASSUME Init PROVE Inv
    OBVIOUS
  <2>1. Items(todo) = {} /\ Len(todo) = 0
    BY ItemsNone DEF Init
  <2> QED BY <2>1 DEF Init, ArgsInv, ExtraInvs, ExtraInv, UndoExtras, GcLive, GcDrops, BaseInv, Ends,
                      AllBased, Installed
<1>2. LayersInv /\ OneLive /\ Inv /\ [Next]_vars => Inv'
  BY ArgsStep, ExtraStep, GcDropsStep, BaseStep DEF LayersInv, ExtraInvs
<1>3. Inv => BaseThere
  BY DEF BaseInv, BaseThere, Idle, AllBased, HasOne, Scars
<1> HIDE DEF Inv
<1> QED BY <1>1, <1>2, <1>3, LayersInvHolds, OneLiveHolds, PTL DEF Spec
=============================================================================
