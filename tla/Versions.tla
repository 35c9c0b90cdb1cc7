------------------------------ MODULE Versions ------------------------------
(* Versions of packages (linyaps-core version.rs) and what is chosen by      *)
(* them: the update of an installed application and of a dependency, the     *)
(* list of what can be upgraded, and the layer a container is started with.  *)
(* One package, of one channel and one architecture.                         *)
EXTENDS Integers, Sequences, FiniteSets, SequencesExt

CONSTANTS
    Raws,      \* the version texts that repositories offer
    Wants,     \* the versions applications ask of their base, as texts
    MaxOffers, \* bounds the offers of a remote repository
    None       \* no tweak, no version

\* A text is split at its dots.  A part is a decimal number without leading
\* zeros (digits), may be read as an i32 (small), and has a value and a place
\* in the order of texts.
Part == [digits : BOOLEAN, small : BOOLEAN, value : Nat, text : Nat]

\* nums are the parts before the first - or +.  What follows is a pre-release
\* (0: none, else its rank), build metadata (a security number, 0 if there is
\* none, -1 if it is malformed), and its own parts, the first of which takes the place of
\* the last number.
Raw == [nums : Seq(Part), pre : Nat, build : Nat \union {-1}, tail : Seq(Part)]

\* Raws and Wants are of these, each with at least one part before that.

Parts(r) == IF r.tail = <<>> THEN r.nums ELSE Front(r.nums) \o r.tail
Plain(s) == \A k \in DOMAIN s : s[k].digits
Values(s) == [k \in 1..3 |-> s[k].value]
Zero == [digits |-> TRUE, small |-> TRUE, value |-> 0, text |-> 0]

----------------------------------------------------------------------------
(* Parsing, which tries the kinds one after the other. *)

IsV2(r) == Len(r.nums) = 3 /\ Plain(r.nums) /\ r.build # -1
IsV1(r) == Len(r.nums) \in {3, 4} /\ Plain(r.nums) /\ r.tail = <<>>

V2(r) == [kind |-> "v2", base |-> Values(r.nums), tweak |-> None,
          pre |-> r.pre, security |-> r.build, parts |-> Parts(r)]
V1(r) == [kind |-> "v1", base |-> Values(r.nums),
          tweak |-> IF Len(r.nums) = 4 THEN r.nums[4].value ELSE None,
          pre |-> 0, security |-> 0, parts |-> Parts(r)]
Fallback(r) == [kind |-> "fallback", base |-> <<0, 0, 0>>, tweak |-> None,
                pre |-> 0, security |-> 0, parts |-> Parts(r)]

Parse(r) == IF IsV2(r) THEN V2(r) ELSE IF IsV1(r) THEN V1(r) ELSE Fallback(r)

\* Two numbers are enough for a request.
Lenient(r) == IF Len(r.nums) = 2 THEN [r EXCEPT !.nums = Append(@, Zero)] ELSE r

\* A V2 version takes the patch of a request for as written only if it has
\* one, a V1 version its tweak; a textual one is matched part by part.
MatchV2(v, r) == /\ IsV2(Lenient(r))
                 /\ LET f == V2(Lenient(r)) IN
                        /\ v.base[1] = f.base[1] /\ v.base[2] = f.base[2]
                        /\ Len(r.nums) = 3 => v.base[3] = f.base[3]
MatchV1(v, r) == /\ IsV1(r)
                 /\ v.base = V1(r).base
                 /\ None \in {v.tweak, V1(r).tweak} \/ v.tweak = V1(r).tweak
MatchFallback(v, r) == IsPrefix(Parts(r), v.parts)

SemanticMatch(v, r) == CASE v.kind = "v2" -> MatchV2(v, r)
                         [] v.kind = "v1" -> MatchV1(v, r)
                         [] v.kind = "fallback" -> MatchFallback(v, r)

----------------------------------------------------------------------------
(* The order. *)

LessBase(a, b) == \/ a[1] < b[1]
                  \/ a[1] = b[1] /\ a[2] < b[2]
                  \/ a[1] = b[1] /\ a[2] = b[2] /\ a[3] < b[3]

\* A pre-release comes before the release.
LessPre(p, q) == p # 0 /\ (q = 0 \/ p < q)

LessV2(a, b) == \/ LessBase(a.base, b.base)
                \/ a.base = b.base /\ LessPre(a.pre, b.pre)
                \/ a.base = b.base /\ a.pre = b.pre /\ a.security < b.security

Tweak(v) == IF v.tweak = None THEN 0 ELSE v.tweak
LessV1(a, b) == \/ LessBase(a.base, b.base)
                \/ a.base = b.base /\ Tweak(a) < Tweak(b)

\* compare_v1_v2: a V1 version without a tweak is the release, one with a
\* tweak is after all V2 versions of its base.
\* Mutant: a version with a security number is after all V1 versions, too.
LessV1V2Security(a, b) == \/ LessBase(a.base, b.base)
                          \/ a.base = b.base /\ b.pre = 0 /\ b.security # 0
LessV1V2(a, b) == \/ LessBase(a.base, b.base)
                  \/ a.base = b.base /\ a.tweak = None /\ b.pre = 0 /\ b.security # 0
LessV2V1(a, b) == \/ LessBase(a.base, b.base)
                  \/ a.base = b.base /\ (b.tweak # None \/ a.pre # 0)

SamePart(x, y) == IF x.small /\ y.small THEN x.value = y.value ELSE x.text = y.text
LessPart(x, y) == IF x.small /\ y.small THEN x.value < y.value ELSE x.text < y.text

\* The first parts that differ decide, as numbers if both are, as texts if not.
LessText(a, b) ==
    LET s == a.parts  t == b.parts
        Agree(n) == \A k \in 1..n : SamePart(s[k], t[k])
    IN  \/ \E k \in DOMAIN s \intersect DOMAIN t : Agree(k - 1) /\ LessPart(s[k], t[k])
        \/ Len(s) < Len(t) /\ Agree(Len(s))

Less(a, b) == CASE a.kind = "v2" /\ b.kind = "v2" -> LessV2(a, b)
                [] a.kind = "v1" /\ b.kind = "v1" -> LessV1(a, b)
                [] a.kind = "v1" /\ b.kind = "v2" -> LessV1V2(a, b)
                [] a.kind = "v2" /\ b.kind = "v1" -> LessV2V1(a, b)
                [] OTHER -> LessText(a, b)

Numeric(v) == v.kind # "fallback"

----------------------------------------------------------------------------
VARIABLES
    kind,       \* of the package: an application, or the base of one
    want,       \* the version the application asks of its base
    offers,     \* what the remote repository has of the package
    apps,       \* installed: a version, and those it replaced by being newer
    bases,      \* installed versions of the base
    fresh       \* the base was updated since the last offer

vars == <<kind, want, offers, apps, bases, fresh>>

Init == /\ kind \in {"app", "base"} /\ want \in Wants
        /\ offers = {} /\ apps = {} /\ bases = {} /\ fresh = FALSE

\* A search for a version brings what matches it.
Matching(S, r) == IF r = None THEN S ELSE {v \in S : SemanticMatch(v, r)}

\* It answers in an order of the server's choice, which decides between
\* versions that are equal, or not ordered at all.
Answers(S) == SetToSeqs(S) \ {<<>>}

\* latest_package: the first that no later one is newer than.
Latest(answer) == FoldLeft(LAMBDA a, b : IF Less(a, b) THEN b ELSE a, answer[1], answer)

\* latest_local_reference, resolve_local and latest_local_apps sort what they
\* have from the newest, and take the first.
Newest(S) == LET top == {v \in S : \A w \in S : ~ Less(v, w)}
             IN  IF top = {} THEN S ELSE top

Offer(r) == /\ Parse(r) \notin offers /\ Cardinality(offers) < MaxOffers
            /\ offers' = offers \union {Parse(r)}
            /\ fresh' = FALSE
            /\ UNCHANGED <<kind, want, apps, bases>>

\* The new version in place of an old one, whose history it goes on with if
\* both are numbers and it is newer.
Replace(a, v) ==
    LET before == IF Numeric(v) /\ Numeric(a.version) /\ Less(a.version, v)
                  THEN a.before \union {a.version} ELSE {}
        same == {x \in apps \ {a} : x.version = v}
    IN  apps' = (apps \ (same \union {a})) \union
                {[version |-> v, before |-> before \union UNION {x.before : x \in same}]}

\* install_inner, of the latest version or of one that is asked for by name:
\* only local ones that match that are compared, so that an older version may
\* come to be beside a newer one.
Install(asked, answer, force) ==
    /\ kind = "app"
    /\ LET target == Latest(answer)
           local == Newest(Matching({a.version : a \in apps}, asked))
       IN  \/ /\ local = {}
              /\ apps' = apps \union {[version |-> target, before |-> {}]}
           \/ \E a \in {x \in apps : x.version \in local} :
              /\ asked # None => Parts(asked) # a.version.parts
              /\ Less(a.version, target) \/ (force /\ Less(target, a.version))
              /\ Replace(a, target)
    /\ UNCHANGED <<kind, want, offers, bases, fresh>>

\* update_app: what is not older than the latest offer stays.
UpdateApp(a, answer) ==
    /\ kind = "app"
    /\ Less(a.version, Latest(answer))
    /\ Replace(a, Latest(answer))
    /\ UNCHANGED <<kind, want, offers, bases, fresh>>

\* gather_update_dependency: the newest local base that matches is compared
\* with the latest offer that matches, which comes beside the old one.
UpdateBase(answer) ==
    /\ kind = "base"
    /\ LET remote == Latest(answer)
           local == Newest(Matching(bases, want))
       IN  IF local = {} \/ \E v \in local : Less(v, remote)
           THEN bases' = bases \union {remote}
           ELSE bases' = bases
    /\ fresh' = TRUE
    /\ UNCHANGED <<kind, want, offers, apps>>

\* A base comes with another application that asks for it by its version.
InstallBase(v) == /\ kind = "base" /\ v \in offers \ bases
                  /\ bases' = bases \union {v}
                  /\ UNCHANGED <<kind, want, offers, apps, fresh>>

\* resolve_local: the text of the request is parsed, shown again and matched;
\* an equal version is taken also if it does not match.
Resolved == LET wanted == Parse(want) IN
            Newest({v \in bases : \/ SemanticMatch(v, want)
                                  \/ ~ Less(v, wanted) /\ ~ Less(wanted, v)})

\* prune keeps the base the application resolves to.
Prune == /\ kind = "base" /\ \E v \in Resolved : bases' = {v}
         /\ UNCHANGED <<kind, want, offers, apps, fresh>>

Next == \/ \E r \in Raws : Offer(r)
        \/ \E r \in Raws \union {None}, force \in BOOLEAN :
               \E answer \in Answers(Matching(offers, r)) : Install(r, answer, force)
        \/ \E a \in apps : \E answer \in Answers(offers) : UpdateApp(a, answer)
        \/ \E answer \in Answers(Matching(offers, want)) : UpdateBase(answer)
        \/ \E v \in offers : InstallBase(v)
        \/ Prune

Spec == Init /\ [][Next]_vars

----------------------------------------------------------------------------
\* An application that is updated, again and again and by whatever the
\* repositories offer, never comes back to an older version than one it had:
\* V1 and V2 versions are in one order.  Textual versions have none
\* (9 < 10 < 1a < 9), and begin a new history.
NeverBack == \A a \in apps : \A b \in a.before : ~ Less(a.version, b)

\* After an update of the base, the layer a container is started with is not
\* older than any offer that matches: the daemon, which searches, skips and
\* installs, and the start of a container, which resolves, each choose in
\* their own way, and agree as long as the versions are numbers.
UpdatedIsUsed ==
    fresh /\ (\A x \in offers \union bases : Numeric(x)) =>
        /\ Resolved # {}
        /\ \A v \in Resolved, w \in Matching(offers, want) : ~ Less(v, w)

\* Updates go one way, and bring what is run.
UpdatesCount == NeverBack /\ UpdatedIsUsed
=============================================================================
