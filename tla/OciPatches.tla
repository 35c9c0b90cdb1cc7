----------------------------- MODULE OciPatches -----------------------------
(* The patches of a container's configuration (linyaps-core oci_patch.rs,    *)
(* json_patch.rs) and the process that is put into it after them (ll-cli     *)
(* runtime.rs): global files, then those of the application, each a program  *)
(* that prints a configuration or a list of JSON patch operations.           *)
EXTENDS Integers, Sequences, FiniteSets, SequencesExt

CONSTANTS
    Files,      \* patch files: name, its rank, whether of the application, what it is
    Printed,    \* configurations programs print
    Workdirs,   \* what --workdir may be: None, "/w", "relative"
    None

----------------------------------------------------------------------------
(* JSON documents: objects, arrays and leaves. *)

Object(f) == [obj |-> f]
Array(s)  == [arr |-> s]
Leaf(x)   == [leaf |-> x]
Null == Leaf("null")
Bad  == [bad |-> TRUE]    \* the result of an operation that fails

IsObject(doc) == "obj" \in DOMAIN doc
IsArray(doc)  == "arr" \in DOMAIN doc
IsLeaf(doc)   == "leaf" \in DOMAIN doc

\* A document of which all members are in S.
IsMadeOf(doc, S) ==
    \/ /\ IsObject(doc) /\ doc = Object([k \in DOMAIN doc.obj |-> doc.obj[k]])
       /\ \A k \in DOMAIN doc.obj : doc.obj[k] \in S
    \/ IsArray(doc) /\ doc = Array(doc.arr) /\ doc.arr \in Seq(S)
    \/ IsLeaf(doc) /\ doc = Leaf(doc.leaf)

\* Tokens that are decimal numbers without leading zeros.
Digits == <<"0", "1", "2">>
IndexOf(token) == CHOOSE k \in DOMAIN Digits : Digits[k] = token
InArray(token, n) == token \in Range(Digits) /\ IndexOf(token) <= n

Member(doc, token) ==
    CASE IsObject(doc) /\ token \in DOMAIN doc.obj -> doc.obj[token]
      [] IsArray(doc) /\ InArray(token, Len(doc.arr)) -> doc.arr[IndexOf(token)]
      [] OTHER -> Bad
ValueAt(doc, path) == FoldLeft(Member, doc, path)

With(f, token, value) ==
    [k \in DOMAIN f \union {token} |-> IF k = token THEN value ELSE f[k]]
SetMember(doc, token, value) ==
    IF IsObject(doc) THEN Object(With(doc.obj, token, value))
    ELSE Array([doc.arr EXCEPT ![IndexOf(token)] = value])

AddTo(doc, token, value) ==
    CASE IsObject(doc) -> SetMember(doc, token, value)
      [] IsArray(doc) /\ token = "-" -> Array(Append(doc.arr, value))
      [] IsArray(doc) /\ InArray(token, Len(doc.arr) + 1) ->
             Array(InsertAt(doc.arr, IndexOf(token), value))
      [] OTHER -> Bad
RemoveFrom(doc, token) ==
    IF Member(doc, token) = Bad THEN Bad
    ELSE IF IsObject(doc) THEN Object([k \in DOMAIN doc.obj \ {token} |-> doc.obj[k]])
    ELSE Array(RemoveAt(doc.arr, IndexOf(token)))
Replace(doc, token, value) ==
    IF Member(doc, token) = Bad THEN Bad ELSE SetMember(doc, token, value)

Parent(doc, path) == ValueAt(doc, Front(path))

\* doc with the parent of path replaced by what it was edited to.
Within(doc, path, edited) ==
    LET container(k) == ValueAt(doc, SubSeq(path, 1, k - 1))
        way == [k \in 1..(Len(path) - 1) |-> k]
    IN  IF Parent(doc, path) = Bad \/ edited = Bad THEN Bad
        ELSE FoldRight(LAMBDA k, inner : SetMember(container(k), path[k], inner), way, edited)

AddAt(doc, path, value) ==
    IF path = <<>> THEN value
    ELSE Within(doc, path, AddTo(Parent(doc, path), Last(path), value))
TakeFrom(doc, path) ==
    IF path = <<>> THEN Null
    ELSE Within(doc, path, RemoveFrom(Parent(doc, path), Last(path)))
ReplaceIn(doc, path, value) ==
    IF path = <<>> THEN value
    ELSE Within(doc, path, Replace(Parent(doc, path), Last(path), value))

Move(doc, o) ==
    LET moved == ValueAt(doc, o.from)  rest == TakeFrom(doc, o.from)
    IN  IF IsStrictPrefix(o.from, o.path) \/ moved = Bad \/ rest = Bad THEN Bad
        ELSE AddAt(rest, o.path, moved)
Copy(doc, o) == IF ValueAt(doc, o.from) = Bad THEN Bad
                ELSE AddAt(doc, o.path, ValueAt(doc, o.from))

ApplyOperation(doc, o) == CASE o.op = "add" -> AddAt(doc, o.path, o.value)
                            [] o.op = "remove" -> TakeFrom(doc, o.path)
                            [] o.op = "replace" -> ReplaceIn(doc, o.path, o.value)
                            [] o.op = "move" -> Move(doc, o)
                            [] o.op = "copy" -> Copy(doc, o)
                            [] o.op = "test" -> IF ValueAt(doc, o.path) = o.value THEN doc ELSE Bad
                            [] OTHER -> Bad

\* All the operations of a file, or none.
ApplyJsonPatch(doc, operations) ==
    FoldLeft(LAMBDA d, o : IF d = Bad THEN Bad ELSE ApplyOperation(d, o), doc, operations)

----------------------------------------------------------------------------
(* The configuration.  The mounts that oci_config has collected are one      *)
(* element here.                                                             *)

Built == Object([ociVersion |-> Leaf("1.0.1"),
                 process |-> Object([cwd |-> Leaf("/"), args |-> Leaf("bash")]),
                 mounts |-> Array(<<Leaf("built")>>)])

\* What can be read as a configuration: a process has a directory, its user
\* may be missing, and what is null counts as missing.
IsText(doc) == IsLeaf(doc) /\ doc # Null
Missing(doc, name) == Member(doc, name) \in {Bad, Null}
Valid(doc) ==
    /\ IsObject(doc)
    /\ IsText(Member(doc, "ociVersion"))
    /\ \/ Missing(doc, "process")
       \/ IsObject(Member(doc, "process")) /\ IsText(Member(Member(doc, "process"), "cwd"))
    /\ Missing(doc, "mounts") \/ IsArray(Member(doc, "mounts"))

\* Global files come before those of the application, each in the order of
\* their names, which is not the order they are found in.
Sorted(S) == CHOOSE s \in [1..Cardinality(S) -> S] :
                 \A j, k \in DOMAIN s : j < k => s[j].rank < s[k].rank
InOrder(S) == Sorted({f \in S : ~ f.app}) \o Sorted({f \in S : f.app})

VARIABLES
    files,      \* those to apply, in order
    config,
    applied,    \* names of the files that took effect
    skipped,    \* names of those that did not
    workdir,
    pc          \* "patch", "final", "ready" or "failed"

vars == <<files, config, applied, skipped, workdir, pc>>

Init == /\ \E S \in SUBSET Files : files = InOrder(S)
        /\ workdir \in Workdirs
        /\ config = Built /\ applied = <<>> /\ skipped = {} /\ pc = "patch"

\* What a file makes of the configuration: a program may fail, or print one
\* of its own or the one it has read.
Result(f) ==
    CASE f.kind = "program" -> {Bad, config} \union Printed
      [] f.kind = "patch" -> {IF Member(config, "ociVersion") # Leaf(f.version) THEN Bad
                              ELSE ApplyJsonPatch(config, f.operations)}
      [] OTHER -> {Bad}

\* Mutant: what a patch leaves behind is not read as a configuration.
ApplyPatchUnchecked(result) ==
    /\ pc = "patch" /\ files # <<>>
    /\ IF result # Bad
       THEN /\ config' = result /\ applied' = Append(applied, Head(files).name)
            /\ UNCHANGED skipped
       ELSE /\ skipped' = skipped \union {Head(files).name}
            /\ UNCHANGED <<config, applied>>
    /\ files' = Tail(files)
    /\ UNCHANGED <<workdir, pc>>
\* A file that fails, or that leaves no configuration behind, is skipped.
ApplyPatch(result) ==
    /\ pc = "patch" /\ files # <<>>
    /\ IF result # Bad /\ Valid(result)
       THEN /\ config' = result /\ applied' = Append(applied, Head(files).name)
            /\ UNCHANGED skipped
       ELSE /\ skipped' = skipped \union {Head(files).name}
            /\ UNCHANGED <<config, applied>>
    /\ files' = Tail(files)
    /\ UNCHANGED <<workdir, pc>>

Patched == /\ pc = "patch" /\ files = <<>>
           /\ pc' = "final"
           /\ UNCHANGED <<files, config, applied, skipped, workdir>>

\* merge_final_process_fields keeps the directory and the user of a patch,
\* unless a directory is asked for.
Process(process) ==
    LET cwd == IF workdir # None THEN Leaf(workdir)
               ELSE IF Member(process, "cwd") \in {Bad, Null, Leaf("")} THEN Leaf("/run/host/rootfs")
               ELSE Member(process, "cwd")
        user == IF Missing(process, "user") THEN Leaf("caller") ELSE Member(process, "user")
    IN  Object(With(With(With(process.obj, "cwd", cwd), "user", user), "args", Leaf("init")))

\* finalize_container_process: a configuration without a list of mounts, or
\* with a process that is null, cannot be started.
Finalize ==
    LET process == IF Member(config, "process") = Bad THEN Object(<<>>)
                   ELSE Member(config, "process")
        mounts == Member(config, "mounts")
    IN  /\ pc = "final"
        /\ IF IsObject(process) /\ workdir # "relative" /\ IsArray(mounts)
           THEN /\ config' = SetMember(SetMember(config, "process", Process(process)), "mounts",
                                 Array(mounts.arr \o <<Leaf("entrypoint"), Leaf("init")>>))
                /\ pc' = "ready"
           ELSE pc' = "failed" /\ UNCHANGED config
        /\ UNCHANGED <<files, applied, skipped, workdir>>

Next == (\E r \in IF files = <<>> THEN {} ELSE Result(Head(files)) : ApplyPatch(r))
        \/ Patched \/ Finalize

Spec == Init /\ [][Next]_vars

----------------------------------------------------------------------------
Marks == IF IsArray(Member(config, "mounts"))
         THEN {m.leaf : m \in {m \in Range(Member(config, "mounts").arr) : IsLeaf(m)}} ELSE {}
Position(name) == CHOOSE k \in DOMAIN applied : applied[k] = name

\* A patch that goes wrong is as if it were not there: nothing of it is in the
\* configuration, what came before it still is, and it keeps no container from
\* starting.  Only a patch that works, and takes the mounts or the process
\* away, and a directory that is not absolute do that.
BadPatchIgnored ==
    /\ Marks \intersect skipped = {}
    /\ pc = "failed" => \/ workdir = "relative"
                        \/ applied # <<>> /\ Valid(config)
                           /\ (Missing(config, "mounts") \/ Member(config, "process") = Null)
    /\ pc = "ready" =>
           LET process == Member(config, "process") IN
           /\ Member(process, "args") = Leaf("init") /\ ~ Missing(process, "user")
           /\ {"entrypoint", "init"} \subseteq Marks
           /\ \A f, g \in Files : f.app /\ ~ g.app /\ {f.name, g.name} \subseteq Range(applied)
                                  => Position(g.name) < Position(f.name)
=============================================================================
