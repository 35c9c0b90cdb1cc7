------------------------------- MODULE Launch -------------------------------
(* `ll-cli run` of a user without CAP_SYS_ADMIN (runtime.rs, namespace.rs):  *)
(* the command resolves the layers, the extensions and the devices of a      *)
(* container, and starts itself again in a user namespace, where they are    *)
(* resolved once more from the run context it has written.                   *)
EXTENDS Integers, Sequences, FiniteSets, SequencesExt

CONSTANTS
    Declared,   \* of each layer, the extensions its package defines, in order
    External,   \* what the runtime configuration adds to them
    Requests,   \* sequences of names given to --extensions
    KeyOrder,   \* the layers in the order of their references as texts
    Nvidia,     \* the extension that is named by the driver's version
    Drivers,    \* versions of the driver, None if there is none
    Packages,   \* what may be installed: name, driver, version, kind
    MaxChanges, \* bounds what changes meanwhile
    None

Layers == {"base", "runtime", "app"}

VARIABLES
    parent,     \* "resolve", "clone", "hello", "map", "release", "wait", "run",
                \* "done", "failed" or "killed"
    child,      \* "none", "start", "read", "exec", "configure", "done" or "failed"
    bytes,      \* in the socket, to the parent and to the child
    broken,     \* the namespace could not be set up
    direct,     \* the command has the capability, and needs no namespace
    extra,      \* the runtime configuration and the request of this start
    installed,
    driver,
    spec,       \* the text of the file that describes the device, None if there is none
    resolved,   \* what the parent made of them, in order
    context,    \* the run context: extensions of each layer, and the device
    inside,     \* what the container is configured with
    changes

world == <<installed, driver, spec, changes>>
plan  == <<direct, extra, resolved, context>>
vars  == <<parent, child, bytes, broken, inside, plan, world>>

Init == /\ parent = "resolve" /\ child = "none" /\ bytes = [parent |-> 0, child |-> 0]
        /\ broken = FALSE /\ direct \in BOOLEAN
        /\ extra \in [external : External, requested : Requests]
        /\ installed = Packages /\ driver \in Drivers /\ spec \in {None, 1}
        /\ resolved = <<>> /\ context = None /\ inside = None /\ changes = 0

----------------------------------------------------------------------------
(* Resolving *)

\* enabled_extension_name: the driver's extension needs the driver.
Enabled(name) == [name |-> name, driver |-> IF name = Nvidia THEN driver ELSE None]
IsEnabled(name) == name = Nvidia => driver # None

Matches(p, d) == /\ p.name = d.name /\ p.driver = Enabled(d.name).driver
                 /\ d.version = None \/ p.version = d.version
Newest(S) == {p \in S : \A q \in S : q.version <= p.version}
Candidates(d) == Newest({p \in installed : Matches(p, d)})

\* A definition that nothing matches is left out; what is in the list already
\* for this layer is not taken twice.
Extension(layer, d, p) == [for |-> layer, ref |-> p, allow |-> d.allow]
Taken(list, layer, p) == \E k \in DOMAIN list : list[k].for = layer /\ list[k].ref = p

\* None if a package is no extension, or one that is asked for is not there.
Take(list, layer, d, needed) ==
    CASE list = None -> None
      [] ~ IsEnabled(d.name) \/ Candidates(d) = {} -> IF needed THEN None ELSE list
      [] OTHER -> LET p == CHOOSE p \in Candidates(d) : TRUE IN
                  IF p.kind # "extension" THEN None
                  ELSE IF Taken(list, layer, p) THEN list
                  ELSE Append(list, Extension(layer, d, p))

\* One definition after the other.
TakeAll(list, layer, definitions, needed) ==
    FoldLeft(LAMBDA l, d : Take(l, layer, d, needed), list, definitions)

ResolveDeclared(list, layer) ==
    TakeAll(list, layer, Declared[layer] \o extra.external[layer], FALSE)

\* From the base to the application, and then what is asked for.
ResolveRequested ==
    LET base == ResolveDeclared(<<>>, "base")
        runtime == ResolveDeclared(base, "runtime")
        asked == [k \in DOMAIN extra.requested |->
                     [name |-> extra.requested[k], version |-> None, allow |-> None]]
    IN  TakeAll(ResolveDeclared(runtime, "app"), "app", asked, TRUE)

Of(list, layer) ==
    FoldLeft(LAMBDA refs, x : IF x.for = layer THEN Append(refs, x.ref) ELSE refs, <<>>, list)
ContextOf(list) == [extensions |-> [l \in Layers |-> Of(list, l)], device |-> spec]

Resolve ==
    /\ parent = "resolve"
    /\ LET list == ResolveRequested IN
           IF list = None THEN parent' = "failed" /\ UNCHANGED <<resolved, context>>
           ELSE /\ resolved' = list /\ context' = ContextOf(list)
                /\ parent' = IF direct THEN "run" ELSE "clone"
    /\ UNCHANGED <<child, bytes, broken, inside, direct, extra, world>>

\* The definition of an extension of the run context is looked for again, in
\* the package only; one that is not found there allows everything.
Definitions(layer, p) ==
    {k \in DOMAIN Declared[layer] : LET d == Declared[layer][k] IN
        IsEnabled(d.name) /\ d.name = p.name /\ Enabled(d.name).driver = p.driver}
AllowOf(layer, p) == IF Definitions(layer, p) = {} THEN None
                     ELSE Declared[layer][Min(Definitions(layer, p))].allow

\* One layer of the context after the other, by the text of its reference.
ResolveExternal ==
    FlattenSeq([k \in DOMAIN KeyOrder |->
        LET key == KeyOrder[k] refs == context.extensions[key] IN
        [j \in DOMAIN refs |-> [for |-> key, ref |-> refs[j], allow |-> AllowOf(key, refs[j])]]])

AllThere == \A l \in Layers : \A k \in DOMAIN context.extensions[l] :
    context.extensions[l][k] \in installed /\ context.extensions[l][k].kind = "extension"

----------------------------------------------------------------------------
(* namespace::run and its child *)

Clone == /\ parent = "clone" /\ parent' = "hello" /\ child' = "start"
         /\ UNCHANGED <<bytes, broken, inside, plan, world>>

Hello == /\ child = "start" /\ child' = "read"
         /\ bytes' = [bytes EXCEPT !.parent = @ + 1]
         /\ UNCHANGED <<parent, broken, inside, plan, world>>

ReadHello == /\ parent = "hello" /\ bytes.parent > 0
             /\ bytes' = [bytes EXCEPT !.parent = @ - 1]
             /\ parent' = "map"
             /\ UNCHANGED <<child, broken, inside, plan, world>>

\* uid_map, setgroups, gid_map.
Map == /\ parent = "map" /\ parent' = "release"
       /\ UNCHANGED <<child, bytes, broken, inside, plan, world>>
\* The parent closes its end of the socket and waits for the child.  The child
\* has a copy of that end, and reads no end of file.
MapFails == /\ parent = "map" /\ parent' = "wait" /\ broken' = TRUE
            /\ UNCHANGED <<child, bytes, inside, plan, world>>

\* Mutant: the parent waits without letting the child go on.
ReleaseWaits == /\ parent = "release" /\ parent' = "wait"
                /\ UNCHANGED <<child, bytes, broken, inside, plan, world>>
Release == /\ parent = "release" /\ parent' = "wait"
           /\ bytes' = [bytes EXCEPT !.child = @ + 1]
           /\ UNCHANGED <<child, broken, inside, plan, world>>

\* The capabilities of the child are set up before it executes ll-cli.
ReadRelease(ok) == /\ child = "read" /\ bytes.child > 0
                   /\ bytes' = [bytes EXCEPT !.child = @ - 1]
                   /\ child' = IF ok THEN "exec" ELSE "failed"
                   /\ UNCHANGED <<parent, broken, inside, plan, world>>

ResolveAgain ==
    /\ child = "exec"
    /\ IF AllThere THEN /\ inside' = [list |-> ResolveExternal, device |-> None]
                        /\ child' = "configure"
       ELSE UNCHANGED inside /\ child' = "failed"
    /\ UNCHANGED <<parent, bytes, broken, plan, world>>

\* Mutant: the file of the device is taken as it is.
ConfigureUnchecked ==
    /\ child = "configure"
    /\ IF context.device # None /\ spec = None THEN child' = "failed" /\ UNCHANGED inside
       ELSE /\ child' = "done"
            /\ inside' = [inside EXCEPT !.device = IF context.device = None THEN None ELSE spec]
    /\ UNCHANGED <<parent, bytes, broken, plan, world>>
\* apply_cdi_edits: the file must be the one that was chosen.
Configure ==
    /\ child = "configure"
    /\ IF context.device \notin {None, spec} THEN child' = "failed" /\ UNCHANGED inside
       ELSE /\ child' = "done"
            /\ inside' = [inside EXCEPT !.device = IF context.device = None THEN None ELSE spec]
    /\ UNCHANGED <<parent, bytes, broken, plan, world>>

Waited == /\ parent = "wait" /\ child \in {"done", "failed"}
          /\ parent' = IF broken \/ child = "failed" THEN "failed" ELSE "done"
          /\ UNCHANGED <<child, bytes, broken, inside, plan, world>>

\* A command with the capability goes on with what it has.
RunDirect == /\ parent = "run"
             /\ IF context.device \in {None, spec}
                THEN inside' = [list |-> resolved, device |-> context.device] /\ parent' = "done"
                ELSE UNCHANGED inside /\ parent' = "failed"
             /\ UNCHANGED <<child, bytes, broken, plan, world>>

Killed == /\ parent \in {"hello", "map", "release", "wait"} /\ parent' = "killed"
          /\ UNCHANGED <<child, bytes, broken, inside, plan, world>>

Steps == \/ Resolve \/ Clone \/ Hello \/ ReadHello \/ Map \/ MapFails \/ Release
         \/ \E ok \in BOOLEAN : ReadRelease(ok)
         \/ ResolveAgain \/ Configure \/ Waited \/ RunDirect

\* Meanwhile a package is removed or comes back, the driver is replaced, and
\* another file describes the device.
Change ==
    /\ changes < MaxChanges /\ changes' = changes + 1
    /\ \/ \E p \in installed : installed' = installed \ {p} /\ UNCHANGED <<driver, spec>>
       \/ \E p \in Packages \ installed : installed' = installed \union {p}
                                          /\ UNCHANGED <<driver, spec>>
       \/ \E d \in Drivers \ {driver} : driver' = d /\ UNCHANGED <<installed, spec>>
       \/ \E s \in {None, 1, 2} \ {spec} : spec' = s /\ UNCHANGED <<installed, driver>>
    /\ UNCHANGED <<parent, child, bytes, broken, inside, plan>>

Next == Steps \/ Killed \/ Change

Spec == Init /\ [][Next]_vars

----------------------------------------------------------------------------
Pairs(list) == {<<list[k].for, list[k].ref>> : k \in DOMAIN list}
\* What the packages themselves define, once by each name, and not by the
\* version of a driver, which may have been replaced.
Clear(layer, p) == /\ p.driver = None
                   /\ \E k \in DOMAIN Declared[layer] : Definitions(layer, p) = {k}
                   /\ \A k \in DOMAIN extra.external[layer] :
                          extra.external[layer][k].name # p.name
                   /\ p.name \notin Range(extra.requested)

\* The container has the extensions that the command resolved, for the layers
\* it resolved them for, with the variables their packages allow, and the
\* device of the file that was chosen; or it does not start.
SameInside ==
    inside # None =>
        /\ Pairs(inside.list) = Pairs(resolved)
        /\ inside.device \in {None, context.device}
        /\ \A j \in DOMAIN inside.list, k \in DOMAIN resolved :
               LET x == inside.list[j]  y == resolved[k] IN
               x.for = y.for /\ x.ref = y.ref /\ Clear(x.for, x.ref) => x.allow = y.allow

\* Whoever waits is woken by somebody who is not waiting: the command by its
\* child's byte or its end, the child by the byte of the command.  Only if the
\* namespace cannot be set up, or the command is killed before it lets the
\* child go on, nothing wakes the child, nor the command that waits for it.
LaunchEnds ==
    /\ parent = "hello" => child = "start" \/ bytes.parent > 0
    /\ parent = "wait" /\ child = "read" => bytes.child > 0 \/ broken
    /\ child = "read" /\ bytes.child = 0 =>
           parent \in {"hello", "map", "release", "killed"} \/ broken
    /\ parent \in {"done", "failed"} => child \in {"none", "done", "failed"}
=============================================================================
