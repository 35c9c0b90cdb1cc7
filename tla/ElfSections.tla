---------------------------- MODULE ElfSections ----------------------------
(***************************************************************************)
(* ELF files and the sections appended to them (writer.rs, uab.rs and      *)
(* uab_signature.rs of crates/linyaps-repository).  A file is a sequence   *)
(* of cells: the ELF header, a row of the section header table, a name in  *)
(* the table of names, a zero, or data.  Offsets count cells from 0, as    *)
(* those of the code count bytes.  What is no row is never taken for one:  *)
(* garbage there makes the file unreadable.                                *)
(***************************************************************************)
EXTENDS Integers, Sequences, FiniteSets, SequencesExt

CONSTANTS
    Reserved,     \* the numbers of sections the header has no room for, 0xff00
    MaxSections,  \* the most sections a file may have, 1000000
    Width,        \* the largest number of a 32-bit file
    Alignment     \* of what is appended, 8

XIndex == Reserved + 255
Absent == <<>>

Zero      == [k |-> "zero"]
Name(n)   == [k |-> "name", name |-> n]
Is(c, k)  == c.k = k
Row(name, offset, size) == [k |-> "row", name |-> name, offset |-> offset, size |-> size,
                            link |-> 0]

-----------------------------------------------------------------------------
(* What both the writer and the reader see of a file.                      *)

\* The header names no table without a first row, which says what the header
\* has no room for.
Header(image) == /\ image # <<>> /\ Is(image[1], "head") /\ image[1].class \in {32, 64}
                 /\ image[1].table \in 1..(Len(image) - 1)
                 /\ Is(image[image[1].table + 1], "row")

Count(image)      == IF image[1].count = 0 THEN image[image[1].table + 1].size
                     ELSE image[1].count
NamesIndex(image) == IF image[1].names = XIndex THEN image[image[1].table + 1].link
                     ELSE image[1].names

Rows(image)   == SubSeq(image, image[1].table + 1, image[1].table + Count(image))
NamesRow(image) == Rows(image)[NamesIndex(image) + 1]
Inside(row, image) == row.offset + row.size <= Len(image)
Extent(image, row) == SubSeq(image, row.offset + 1, row.offset + row.size)

\* A table that is there, with the row of the names in it.
Table(image) ==
    /\ Header(image)
    /\ Count(image) \in 1..MaxSections /\ NamesIndex(image) < Count(image)
    /\ image[1].table + Count(image) <= Len(image)
    /\ \A i \in 1..Count(image) : Is(Rows(image)[i], "row")

-----------------------------------------------------------------------------
(* append_elf_sections.                                                    *)

Align(image) == image \o [i \in 1..((-Len(image)) % Alignment) |-> Zero]

\* The names of the template, ended by a zero.
Names(template) ==
    LET names == Extent(template, NamesRow(template)) IN
    IF names # <<>> /\ Is(Last(names), "zero") THEN names ELSE Append(names, Zero)

\* One section more: its data, its name and its row.
AddSection(grown, section) ==
    LET image == Align(grown.image) IN
    [image |-> image \o section.data,
     names |-> grown.names \o <<Name(section.name), Zero>>,
     rows  |-> Append(grown.rows, Row(Len(grown.names), Len(image), Len(section.data)))]

\* The new names and the new table, where the header looks for them.
Finish(template, grown) ==
    LET at    == NamesIndex(template)
        image == Align(grown.image)
        old   == [Rows(template) EXCEPT ![at + 1].offset = Len(image),
                                        ![at + 1].size = Len(grown.names)]
        rows  == old \o grown.rows
        body  == Align(image \o grown.names)
        full  == Len(rows) >= Reserved
        far   == at >= Reserved
        first == [rows[1] EXCEPT !.size = IF full THEN Len(rows) ELSE @,
                                 !.link = IF far THEN at ELSE @]
        head  == [template[1] EXCEPT !.table = Len(body),
                                     !.count = IF full THEN 0 ELSE Len(rows),
                                     !.names = IF far THEN XIndex ELSE at]
    IN  <<head>> \o Tail(body) \o <<first>> \o Tail(rows)

\* Numbers that do not fit are refused before anything is written.
Fits(image) ==
    image[1].class = 32 =>
        /\ image[1].table <= Width
        /\ \A i \in 1..Count(image) :
             Rows(image)[i].offset <= Width /\ Rows(image)[i].size <= Width

\* What append_elf_sections writes, Absent where it writes nothing.
Appended(template, sections) ==
    IF Table(template) /\ Inside(NamesRow(template), template)
    THEN LET image == Finish(template,
                             FoldLeft(AddSection, [image |-> template,
                                                   names |-> Names(template),
                                                   rows  |-> <<>>], sections))
         IN  IF Fits(image) THEN image ELSE Absent
    ELSE Absent

-----------------------------------------------------------------------------
(* UabFile: the sections of a file, by name.                               *)

\* parse_sections, with every row read_raw_section has read.
Readable(image) ==
    Table(image) /\ \A i \in 1..Count(image) : Inside(Rows(image)[i], image)

\* A name ends at the first zero.
NameAt(image, offset) ==
    LET names == Extent(image, NamesRow(image))
        rest  == SubSeq(names, offset + 1, Len(names))
    IN  SubSeq(rest, 1, SelectInSeq(Append(rest, Zero), LAMBDA c : Is(c, "zero")) - 1)

\* The rows a name is that of: the last one counts.
Named(image, n) == {i \in 1..Count(image) : NameAt(image, Rows(image)[i].name) = <<Name(n)>>}
Has(image, n)   == Named(image, n) # {}
Data(image, n)  == Extent(image, Rows(image)[Max(Named(image, n))])

=============================================================================
