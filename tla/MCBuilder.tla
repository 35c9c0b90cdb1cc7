----------------------------- MODULE MCBuilder -----------------------------
(* Builder on small instances, and the files packages travel in, which do    *)
(* not meet it: a behaviour is one of either.                                *)
EXTENDS Builder, TLC

CONSTANTS b1, b2

\* Two checkouts of one project; they are alike.
Same    == [p \in Builders |-> "app"]
Alike   == Permutations(Builders)
OneBase == <<{1}>>
NoRules == <<>>

\* Bounds on builders that overlap.  They install no header: what a build
\* installs is its own affair, and a builder that is alone installs anything.
\* And when no command is left to start, they are followed while a build goes
\* on that has missed no change, as nothing is claimed of the others, or while
\* two processes write the list at once.
Telling == \E p \in Builders \ stale :
    result[p] = "built" \/ \E i \in 1..Len(todo[p]) : todo[p][i][1] = "check"
Bounded == overlap =>
    /\ \A p \in Builders : "header" \notin made[p]
    /\ gen < MaxRuns \/ Telling \/ writing = Builders \/ (writing # {} /\ ~torn)

----------------------------------------------------------------------------
(* Packages: templates of 64 and 32 bits, of a note and a text; one whose    *)
(* names end without a zero and whose table is full with two sections more,  *)
(* one whose table is full and whose names are far, a bundle; and templates  *)
(* that will not do.  Only of the first do two builders write at once.       *)
F == INSTANCE ElfSections WITH Reserved <- 6, MaxSections <- 20, Width <- 40, Alignment <- 2

Names    == <<F!Zero, F!Name(".text"), F!Zero, F!Name(".note.uab.sig"), F!Zero,
              F!Name(".shstrtab")>>
Content(digest) == <<[k |-> "text"], [k |-> "note"], [k |-> "digest", digest |-> digest]>>
Elf(class, table, count, names, tail) ==
    <<[k |-> "head", class |-> class, table |-> table, count |-> count, names |-> names]>>
    \o Content(<<>>) \o tail
NullRow == F!Row(0, 0, 0)
TextRow == F!Row(1, 1, 1)
NoteRow == F!Row(3, 2, 2)
NamesRow(n) == F!Row(5, 4, n)
Closed(rows) == Names \o <<F!Zero, F!Zero>> \o rows

Plain   == Elf(64, 12, 4, 3, Closed(<<NullRow, TextRow, NoteRow, NamesRow(7)>>))
Narrow  == Elf(32, 12, 4, 3, Closed(<<NullRow, TextRow, NoteRow, NamesRow(7)>>))
Unended == Elf(64, 10, 4, 3, Names \o <<NullRow, TextRow, NoteRow, NamesRow(6)>>)
Full    == Elf(64, 12, 0, 261, Closed(<<[NullRow EXCEPT !.size = 7, !.link = 6], TextRow,
                                        NoteRow, NullRow, NullRow, NullRow, NamesRow(7)>>))
Other   == <<[k |-> "piece", of |-> 0, n |-> 1]>>
Older   == <<[k |-> "meta", of |-> 0, digest |-> Other], [k |-> "more", only |-> FALSE]>>
Signed  == [F!Appended(Plain, <<[name |-> "linglong.bundle", data |-> Other],
                                [name |-> "linglong.meta", data |-> Older]>>)
            EXCEPT ![4] = Content(Older)[3]]
Unfit   == {Elf(64, 12, 2, 1, Closed(<<NullRow, NamesRow(7)>>)),
            Elf(64, 12, 4, 3, Closed(<<NullRow, [TextRow EXCEPT !.size = 90], NoteRow,
                                       NamesRow(7)>>)),
            Elf(64, 4, 2, 0, <<NullRow, TextRow>>), SubSeq(Plain, 1, 14),
            <<[k |-> "text"]>>}

Exporting(t, more) == [kind |-> "bundle", by |-> {1}, template |-> t, icon |-> more, only |-> FALSE]
Both == [Exporting(Plain, FALSE) EXCEPT !.by = {1, 2}]
Exports == {Both, [Both EXCEPT !.kind = "layer"], [Exporting(Plain, TRUE) EXCEPT !.only = TRUE],
            Exporting(Narrow, FALSE), Exporting(Narrow, TRUE)}
           \union {Exporting(t, FALSE) : t \in {Unended, Full, Signed} \union Unfit}

----------------------------------------------------------------------------

VARIABLES
    tool,
    job, pFile, pc, at, aside, sole, daemon, held, old, length, staged, info, unpacked

P == INSTANCE PackageFiles WITH
    file <- pFile, Builders <- {1, 2}, Jobs <- Exports, Kept <- {".text"}, Chunk <- 14,
    Pieces <- 7, Nobody <- 0, Reserved <- 6, MaxSections <- 20, Width <- 40, Alignment <- 2

pVars == <<job, pFile, pc, at, aside, sole, daemon, held, old, length, staged, info, unpacked>>

BuildersInit == /\ tool \in {"builder", "packages"} /\ Init
                /\ P!Init /\ (tool # "packages" => job = Both)

BuilderStep  == tool = "builder" /\ Next /\ UNCHANGED <<tool, pVars>>
PackagesStep == tool = "packages" /\ P!Next /\ UNCHANGED <<tool, vars>>

BuildersNext == BuilderStep \/ PackagesStep

BuildersSpec == BuildersInit /\ [][BuildersNext]_<<tool, vars, pVars>>

\* A package arrives as it was exported, or not at all (PackageFiles).
PackagesTrue == P!PackagesTrue
=============================================================================
