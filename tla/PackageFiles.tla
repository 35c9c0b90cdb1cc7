--------------------------- MODULE PackageFiles ---------------------------
(***************************************************************************)
(* Files packages travel in: bundles and layers.  ll-builder writes them   *)
(* (export.rs, writer.rs), a bundle in place and signed last, a layer      *)
(* aside and renamed; the daemon takes one by its descriptor, copies and   *)
(* verifies a bundle, and unpacks what it has (operations.rs, uab.rs,      *)
(* layer_file.rs).  Builders, in directories of their own, may write the   *)
(* one file at the same time, also while it is read, and are killed at any *)
(* step.  A bundle may be damaged on its way; in a layer, which carries no *)
(* digest, nothing would tell.  A digest is what it is the digest of.      *)
(***************************************************************************)
EXTENDS ElfSections

CONSTANTS
    Builders,  \* the processes that export, each a package of its own
    Jobs,      \* what they are told: [kind, by, template, icon, only]
    Kept,      \* names of sections of templates
    Chunk,     \* the cells a call writes or reads
    Pieces,    \* the cells of the image in a bundle
    Nobody

VARIABLES
    job,       \* the kind of the file, "bundle" or "layer", who writes it, and of what
    file,      \* what the path holds
    pc, at,    \* what a builder does next, and where
    aside,     \* the file a builder is to rename
    sole,      \* who alone has changed the file since emptying it
    daemon,    \* what the daemon does next
    held, old, \* its descriptor: "path" or a "replaced" file, and what that holds
    length,    \* of the bundle when its copy began
    staged,    \* the daemon's copy
    info,      \* what it has read of the layer
    unpacked   \* what it has unpacked: <<as what, the image>>

vars    == <<job, file, pc, at, aside, sole, daemon, held, old, length, staged, info,
             unpacked>>
writers == <<pc, at, aside, sole>>
reader  == <<daemon, held, old, length, staged, info, unpacked>>

-----------------------------------------------------------------------------
(* What the files hold.                                                    *)

Image(b) == [i \in 1..Pieces |-> [k |-> "piece", of |-> b, n |-> i]]
\* In two cells, for a file may be cut between them.
Meta(b)  == <<[k |-> "meta", of |-> b, digest |-> Image(b)], [k |-> "more", only |-> job.only]>>
Note(d)  == <<[k |-> "note"], [k |-> "digest", digest |-> d]>>

\* export_uab: the bundle, its metadata and the icon if there is one.
Sections(b) == <<[name |-> "linglong.bundle", data |-> Image(b)],
                 [name |-> "linglong.meta", data |-> Meta(b)]>>
    \o IF job.icon THEN <<[name |-> "linglong.icon", data |-> <<[k |-> "icon", of |-> b]>>]>>
                   ELSE <<>>

\* write_layer_file: the magic, the length of the metadata, these, the payload.
Layer(b) == <<[k |-> "magic"], [k |-> "length", n |-> 2]>> \o Meta(b) \o Image(b)

Output(b) == IF job.kind = "layer" THEN Layer(b) ELSE Appended(job.template, Sections(b))

\* A write at an offset; zeros where nothing was ever written before it.
Written(image, offset, cells) ==
    [i \in 1..Max({Len(image), offset + Len(cells)}) |->
        CASE i - offset \in 1..Len(cells) -> cells[i - offset]
          [] i - offset > Len(cells) \/ i <= Len(image) -> image[i]
          [] OTHER -> Zero]
Part(image, offset, end) == SubSeq(image, offset + 1, Min({Len(image), offset + Chunk, end}))

\* parse_signature_note, and the digest in the note.
IsNote(note)   == Len(note) = 2 /\ Is(note[1], "note") /\ Is(note[2], "digest")
IsMeta(meta)   == Len(meta) = 2 /\ Is(meta[1], "meta") /\ Is(meta[2], "more")

Noted(image) == Readable(image) /\ Has(image, ".note.uab.sig")
                /\ IsNote(Data(image, ".note.uab.sig"))

\* Mutant: the bundle itself is not looked at.
VerifiedMeta(image) ==
    /\ Noted(image) /\ Has(image, "linglong.meta") /\ Has(image, "linglong.bundle")
    /\ Data(image, ".note.uab.sig")[2].digest = Data(image, "linglong.meta")
    /\ IsMeta(Data(image, "linglong.meta"))

\* verify: the note has the digest of the metadata, these that of the bundle.
Verified(image) ==
    /\ Noted(image) /\ Has(image, "linglong.meta") /\ Has(image, "linglong.bundle")
    /\ Data(image, ".note.uab.sig")[2].digest = Data(image, "linglong.meta")
    /\ IsMeta(Data(image, "linglong.meta"))
    /\ Data(image, "linglong.bundle") = Data(image, "linglong.meta")[1].digest

\* read_header of a layer: the metadata, Absent where it refuses.
LayerInfo(image) ==
    IF Len(image) >= 2 /\ Is(image[1], "magic") /\ Is(image[2], "length")
    THEN LET meta == SubSeq(image, 3, 2 + image[2].n) IN
         IF 2 + image[2].n <= Len(image) /\ IsMeta(meta) THEN meta ELSE Absent
    ELSE Absent
Payload(image) == SubSeq(image, 3 + image[2].n, Len(image))

Init ==
    /\ job \in Jobs
    /\ file = Absent
    /\ pc = [b \in Builders |-> "start"] /\ at = [b \in Builders |-> 0]
    /\ aside = [b \in Builders |-> Absent] /\ sole = Nobody
    /\ daemon = "idle" /\ held = "path" /\ old = Absent
    /\ length = 0 /\ staged = Absent /\ info = Absent /\ unpacked = Absent

-----------------------------------------------------------------------------
(* The builders.                                                           *)

Goto(b, s) == pc' = [pc EXCEPT ![b] = s]

\* What is to be written is made first; an error, or a template that will not
\* do, leaves the file alone.
Export(b) ==
    /\ pc[b] = "start" /\ b \in job.by
    /\ \/ Output(b) # Absent /\ Goto(b, IF job.kind = "layer" THEN "aside" ELSE "empty")
       \/ Goto(b, "failed")
    /\ UNCHANGED <<job, file, at, aside, sole, reader>>

\* fs::write empties a file that is there, and writes over it.
Empty(b) ==
    /\ pc[b] = "empty" /\ Goto(b, "write")
    /\ file' = Absent /\ sole' = b
    /\ UNCHANGED <<job, at, aside, reader>>

Touch(b) == sole' = IF sole = b THEN b ELSE Nobody

Write(b) ==
    /\ pc[b] = "write"
    /\ LET cells == Part(Output(b), at[b], Len(Output(b))) IN
       \/ cells # <<>> /\ file' = Written(file, at[b], cells) /\ Touch(b)
          /\ at' = [at EXCEPT ![b] = @ + Len(cells)] /\ UNCHANGED pc
       \/ cells = <<>> /\ Goto(b, "sign") /\ UNCHANGED <<file, at, sole>>
       \/ Goto(b, "failed") /\ UNCHANGED <<file, at, sole>>
    /\ UNCHANGED <<job, aside, reader>>

\* write_uab_sections reads the file again, for where its note is.
Sign(b) ==
    /\ pc[b] = "sign"
    /\ IF Noted(file)
       THEN /\ at' = [at EXCEPT ![b] = Rows(file)[Max(Named(file, ".note.uab.sig"))].offset + 1]
            /\ Goto(b, "patch")
       ELSE Goto(b, "failed") /\ UNCHANGED at
    /\ UNCHANGED <<job, file, aside, sole, reader>>

\* The digest of the metadata is written into the note; what comes after it
\* may fail yet.
Patch(b) ==
    /\ pc[b] = "patch"
    /\ \/ /\ file # Absent /\ Is(file[1], "head")
          /\ file' = Written(file, at[b], <<Note(Meta(b))[2]>>) /\ Touch(b)
          /\ \/ Goto(b, "done")
             \/ Goto(b, "failed")
       \/ Goto(b, "failed") /\ UNCHANGED <<file, sole>>
    /\ UNCHANGED <<job, at, aside, reader>>

\* write_layer_file writes a file named after the process.
Aside(b) ==
    /\ pc[b] = "aside"
    /\ LET cells == Part(Output(b), Len(aside[b]), Len(Output(b))) IN
       \/ aside' = [aside EXCEPT ![b] = @ \o cells]
          /\ Goto(b, IF cells = <<>> THEN "rename" ELSE "aside")
       \/ Goto(b, "failed") /\ aside' = [aside EXCEPT ![b] = Absent]
    /\ UNCHANGED <<job, file, at, sole, reader>>

\* Whoever has the file open keeps the one that is replaced.
Rename(b) ==
    /\ pc[b] = "rename" /\ Goto(b, "done")
    /\ file' = aside[b] /\ sole' = b /\ aside' = [aside EXCEPT ![b] = Absent]
    /\ IF held = "path" /\ daemon # "idle" THEN held' = "replaced" /\ old' = file
       ELSE UNCHANGED <<held, old>>
    /\ UNCHANGED <<job, at, daemon, length, staged, info, unpacked>>

Kill(b) ==
    /\ pc[b] \notin {"start", "failed", "done"} /\ Goto(b, "failed")
    /\ aside' = [aside EXCEPT ![b] = Absent]
    /\ UNCHANGED <<job, file, at, sole, reader>>

\* A finished bundle loses its end, or one of its cells.
Damage ==
    /\ job.kind = "bundle" /\ daemon = "idle"
    /\ sole # Nobody /\ pc[sole] = "done" /\ sole' = Nobody
    /\ \E i \in 1..Len(file) : file' \in {SubSeq(file, 1, i - 1),
                                          [file EXCEPT ![i] = [k |-> "junk"]]}
    /\ UNCHANGED <<job, pc, at, aside, reader>>

-----------------------------------------------------------------------------
(* The daemon.                                                             *)

Current == IF held = "path" THEN file ELSE old

\* The end of an installation closes the file and drops the copy.
Over(result) ==
    /\ daemon' = "idle" /\ held' = "path" /\ old' = Absent
    /\ length' = 0 /\ staged' = Absent /\ info' = Absent /\ unpacked' = result
    /\ UNCHANGED <<job, file, writers>>
Failed == Over(unpacked)

\* A client passes the descriptor of the file.
Take ==
    /\ daemon = "idle" /\ daemon' = IF job.kind = "layer" THEN "info" ELSE "stage"
    /\ unpacked' = Absent
    /\ UNCHANGED <<job, file, writers, held, old, length, staged, info>>

\* stage_package looks at the length once.
Stage ==
    /\ daemon = "stage"
    /\ \/ daemon' = "copy" /\ length' = Len(Current)
          /\ UNCHANGED <<job, file, writers, held, old, staged, info, unpacked>>
       \/ Failed

\* Less than was asked for is taken, nothing at all is an error.
Copy ==
    /\ daemon = "copy"
    /\ LET cells == Part(Current, Len(staged), length) IN
       \/ /\ Len(staged) < length /\ cells # <<>> /\ staged' = staged \o cells
          /\ UNCHANGED <<job, file, writers, daemon, held, old, length, info, unpacked>>
       \/ /\ Len(staged) >= length /\ daemon' = "verify"
          /\ UNCHANGED <<job, file, writers, held, old, length, staged, info, unpacked>>
       \/ Failed

\* install_uab_inner: the hooks, the digests, and nothing that only runs by
\* itself.
Verify ==
    /\ daemon = "verify"
    /\ \/ /\ Verified(staged) /\ ~Data(staged, "linglong.meta")[2].only
          /\ daemon' = "wait"
          /\ UNCHANGED <<job, file, writers, held, old, length, staged, info, unpacked>>
       \/ Failed

\* install_layer_inner reads the metadata first.
ReadInfo ==
    /\ daemon = "info"
    /\ \/ /\ LayerInfo(Current) # Absent /\ info' = LayerInfo(Current)
          /\ daemon' = "wait"
          /\ UNCHANGED <<job, file, writers, held, old, length, staged, unpacked>>
       \/ Failed

\* When the repository is free and the user agrees.  What has been verified,
\* or read, decides what the image is installed as.
Unpack ==
    /\ daemon = "wait"
    /\ \/ job.kind = "bundle"
          /\ Over(<<Data(staged, "linglong.meta"), Data(staged, "linglong.bundle")>>)
       \/ job.kind = "layer" /\ LayerInfo(Current) # Absent /\ Over(<<info, Payload(Current)>>)
       \/ Failed

\* What a killed daemon has staged stays, under a name no other will use.
KillDaemon == daemon # "idle" /\ Failed

Build(b) == Export(b) \/ Empty(b) \/ Write(b) \/ Sign(b) \/ Patch(b) \/ Aside(b) \/ Rename(b)
Install  == Take \/ Stage \/ Copy \/ Verify \/ ReadInfo \/ Unpack \/ KillDaemon

Next == (\E b \in Builders : Build(b) \/ Kill(b)) \/ Damage \/ Install

-----------------------------------------------------------------------------
(* Properties.                                                             *)

\* What the daemon installs is the image of one export, as what that export
\* says it is: never of a file that was being written or written again while
\* it was copied, whose writer was killed, or that was damaged.
InstalledWhole ==
    unpacked # Absent => \E b \in Builders : unpacked = <<Meta(b), Image(b)>>

\* An export that succeeds, and that nobody has interfered with, has written
\* what the daemon takes: every section reads back as it was given, over one
\* of the same name in the template, and the others of the template are there.
ExportReadable ==
    sole # Nobody /\ pc[sole] = "done" =>
        IF job.kind = "layer"
        THEN LayerInfo(file) = Meta(sole) /\ Payload(file) = Image(sole)
        ELSE /\ Verified(file)
             /\ \A i \in DOMAIN Sections(sole) :
                  Data(file, Sections(sole)[i].name) = Sections(sole)[i].data
             /\ \A n \in Kept : Has(job.template, n) => Data(file, n) = Data(job.template, n)

\* A package arrives as it was exported, or not at all.
PackagesTrue == InstalledWhole /\ ExportReadable
=============================================================================
