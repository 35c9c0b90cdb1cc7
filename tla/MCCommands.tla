----------------------------- MODULE MCCommands -----------------------------
(* Commands on small instances.                                              *)
EXTENDS Commands, TLC

CONSTANTS daemon, cli1, cli2, d1, d2, c1, c2

----------------------------------------------------------------------------
(* The lock: the daemon has two threads that lock, each ll-cli has one, and  *)
(* any thread asks for either.                                               *)
DaemonAndTwo == (d1 :> daemon) @@ (d2 :> daemon) @@ (c1 :> cli1) @@ (c2 :> cli2)
Either == [t \in {d1, d2, c1, c2} |-> {"shared", "exclusive"}]

----------------------------------------------------------------------------
(* Versions: a release 1.0.0 with two security updates, a pre-release of     *)
(* 1.0.1, the same base with a fourth number, and texts.                     *)
Number(v, t) == [digits |-> TRUE, small |-> TRUE, value |-> v, text |-> t]
Word(t) == [digits |-> FALSE, small |-> FALSE, value |-> 0, text |-> t]
Text(parts) == [nums |-> parts, pre |-> 0, build |-> 0, tail |-> <<>>]

Zeroth == Number(0, 1)
First == Number(1, 2)
Released == Text(<<First, Zeroth, Zeroth>>)
Tweaked == Text(<<First, Zeroth, Zeroth, First>>)
Security(k) == [Released EXCEPT !.build = k, !.tail = <<Word(6), Number(k, 2)>>]
Candidate == [Text(<<First, Zeroth, First>>) EXCEPT !.pre = 1, !.tail = <<Word(7)>>]

Texts == {Released, Security(1), Security(2), Candidate, Tweaked,
          Text(<<First, Zeroth, Zeroth, Zeroth>>),
          Text(<<Number(9, 5)>>), Text(<<Number(10, 3)>>), Text(<<Word(4)>>)}
Wanted == {Text(<<First>>), Text(<<First, Zeroth>>), Released, Tweaked}

----------------------------------------------------------------------------
(* Patches: one that works; one that puts a mount in and then fails; one     *)
(* whose result is no configuration; one for another version; ones that      *)
(* move and copy; one that is not JSON; and a program.  Every mount that a   *)
(* patch puts in carries the name of the patch.                              *)
Op(o, p, v) == [op |-> o, path |-> p, value |-> [leaf |-> v], from |-> <<>>]
From(o, p, f) == [Op(o, p, "-") EXCEPT !.from = f]
File(n, r, a, does) == [name |-> n, rank |-> r, app |-> a, kind |-> "patch",
                       version |-> "1.0.1", operations |-> does]
Mark(n) == Op("add", <<"mounts", "-">>, n)

PatchFiles == {
    File("good", 4, TRUE, <<Op("test", <<"mounts", "0">>, "built"), Mark("good"),
                            Op("add", <<"process", "user">>, "of the patch")>>),
    File("half", 1, FALSE, <<Mark("half"), Op("replace", <<"nothing">>, "x")>>),
    File("broken", 2, TRUE, <<Op("add", <<"mounts", "0">>, "broken"),
                              Op("replace", <<"process">>, "x")>>),
    [File("old", 3, FALSE, <<Mark("old")>>) EXCEPT !.version = "1.0.2"],
    File("move", 1, TRUE, <<From("move", <<"process", "args">>, <<"process", "cwd">>),
                            Op("add", <<"process", "cwd">>, ""),
                            Op("add", <<"mounts", "1">>, "move")>>),
    File("copy", 3, TRUE, <<From("copy", <<"process", "dup">>, <<"mounts">>),
                            Op("remove", <<"process", "dup", "0">>, "-"), Mark("copy")>>),
    [File("text", 2, FALSE, <<>>) EXCEPT !.kind = "other"],
    [File("program", 5, FALSE, <<>>) EXCEPT !.kind = "program"]}

Leaf(x) == [leaf |-> x]
Printing(process, list) ==
    [obj |-> [ociVersion |-> Leaf("1.0.1"), process |-> process, mounts |-> list]]
Built == Printing([obj |-> [cwd |-> Leaf("/"), args |-> Leaf("bash")]],
                  [arr |-> <<Leaf("built")>>])
Prints == {Leaf("x"), Printing(Built.obj.process, Leaf("null")),
           Printing(Leaf("null"), Built.obj.mounts),
           [obj |-> [ociVersion |-> Leaf("1.0.1"), mounts |-> Built.obj.mounts]]}
\* The values that patches insert, beside their names, and what is printed.
Inserted == Prints \union {Leaf(x) : x \in {"built", "of the patch", "x", "", "-"}}
MembersOf(S) == UNION {LET f == IF "obj" \in DOMAIN d THEN d.obj ELSE IF "arr" \in DOMAIN d THEN d.arr ELSE <<>>
                       IN  {f[k] : k \in DOMAIN f} : d \in S}
Docs == LET within == MembersOf(Inserted) IN Inserted \union within \union MembersOf(within)

----------------------------------------------------------------------------
(* Mounts: homes in /home, /root, /opt or nowhere, a desktop or nothing; an  *)
(* application with two extensions, and files of the runtime configuration   *)
(* at every level.                                                           *)
All == {"snd", "dri", "udev", "fonts", "media", "resolv", "hosts", "zoneinfo", "localtime",
        "dconf", "user-dirs", "system-bus", "bus", "pulse", "X0", "xauthority", "wayland",
        "pipewire", "doc", "K", "portal"}
Hosts == {h \in [home : {<<"home", "u">>, <<"root">>, <<"opt", "u">>, None},
                    moved : {{}, {"data", "config"}}, private : SUBSET {"config"},
                    has : {{}, All}, display : {"none", "x11", "socket"}] :
             h.home # <<"home", "u">> => h.display = "none" /\ h.private = {}}

Extension1 == [id |-> "x1", restricted |-> TRUE, allowed |-> {}, keys |-> {"K"},
               origin |-> TRUE, nodes |-> <<"gpu">>, binds |-> <<>>]
Extension2 == [Extension1 EXCEPT !.id = "x2", !.restricted = FALSE, !.binds = <<<<"srv">>>>]
Gpu    == [keys |-> {"K"}, nodes |-> <<"gpu">>, mounts |-> <<<<"usr", "lib", "gpu">>>>]
NoEdit == [keys |-> {}, nodes |-> <<>>, mounts |-> <<>>]
Requests == {r \in [passthru : BOOLEAN, portal : {"on", "off", None},
                 refused : {None, "outside", "privileged"},
                 wishes : {<<>>, <<<<"opt", "data">>, <<"srv">>>>},
                 binds : {<<>>, <<<<"opt", "data">>, <<"srv">>>>},
                 extensions : {<<>>, <<Extension1, Extension2>>}, edits : {NoEdit, Gpu},
                 options : {{}, {"K", "LINGLONG_APPID"}}] :
          /\ r.binds = r.wishes /\ r.passthru = (r.portal = "on")
          /\ r.refused # None => r.wishes # <<>> /\ r.options = {}}

Level(n, level, app, rank) ==
    [name |-> n, instance |-> FALSE, level |-> level, app |-> app, rank |-> rank,
     keys |-> {"K"}, portalOff |-> FALSE, passthru |-> FALSE, broken |-> FALSE]
System == Level("system", 0, TRUE, 0)
User   == Level("user", 1, FALSE, 0)
DropIn == [Level("drop-in", 1, FALSE, 1) EXCEPT !.portalOff = TRUE]
OfRun  == [Level("instance", 0, FALSE, 0) EXCEPT !.instance = TRUE, !.portalOff = None]
Nodes == <<"snd", "dri">>
ConfigFiles == {{}, {System, DropIn}, {User, DropIn, OfRun},
                {System, [User EXCEPT !.broken = TRUE]}}

----------------------------------------------------------------------------
(* Starts: two layers declare one extension, one of them in a version of its *)
(* own, and one a driver; the runtime configuration adds a package that is   *)
(* no extension.                                                             *)
Declares(n, v, allow) == [name |-> n, version |-> v, allow |-> allow]
Pack(n, d, v, k) == [name |-> n, driver |-> d, version |-> v, kind |-> k]
NoneMore == [l \in {"base", "runtime", "app"} |-> <<>>]
Defined == [NoneMore EXCEPT !["base"] = <<Declares("gl", None, {"K"}),
                                          Declares("nv", None, {})>>,
                            !["runtime"] = <<Declares("gl", 1, {})>>]
Added == {NoneMore, [NoneMore EXCEPT !["app"] = <<Declares("gl", None, {}),
                                                  Declares("tool", None, {"K"})>>]}
Wishes  == {<<>>, <<"gl">>, <<"tool">>}
Ordered == <<"app", "base", "runtime">>
Packs == {Pack("gl", None, 1, "extension"), Pack("gl", None, 2, "extension"),
          Pack("nv", 5, 1, "extension"), Pack("tool", None, 1, "app")}

----------------------------------------------------------------------------
(* Exports: two versions of one application and another one, which share     *)
(* names.                                                                    *)
AppOf    == "a1" :> "a" @@ "a2" :> "a" @@ "b1" :> "b"
Files == "a1" :> {"desktop", "icon"} @@ "a2" :> {"desktop"} @@ "b1" :> {"icon"}

(* Drivers: a check, an installation and two dialogs, one of them forced.    *)
Starts == {[force |-> FALSE, mode |-> m] : m \in {"ask", "install", "check"}}
           \union {[force |-> TRUE, mode |-> "ask"]}
Offered == {<<None, None>>, <<1, 2>>, <<1, None>>}

(* Roots: of the kernel, of fuse-overlayfs, and none.                        *)
Overlay(o, k, r, f) == [owner |-> o, kernel |-> k, release |-> r, fuse |-> f]
Roots == {Overlay(TRUE, TRUE, TRUE, FALSE), Overlay(FALSE, TRUE, TRUE, TRUE),
             Overlay(TRUE, TRUE, FALSE, FALSE)}
=============================================================================
