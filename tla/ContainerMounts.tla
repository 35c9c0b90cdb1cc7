--------------------------- MODULE ContainerMounts ---------------------------
(* What ll-cli (runtime.rs) makes of the host, the layers and the wishes of  *)
(* a user: the mounts of a container, in their order, and its environment.   *)
(* A mount covers what an earlier one has put at its destination or below.   *)
EXTENDS Integers, Sequences, FiniteSets, SequencesExt, TLC

CONSTANTS
    Hosts,      \* hosts and users: home (None if HOME is not a directory), what of XDG
                \* is moved from its default place, what is private to the application,
                \* what there is (sockets, files, variables), kind of display
    Requests,   \* options: passthru, portal ("on", "off", None), refused, options (the
                \* variables they set); and wishes (mounts of the run context), binds
                \* (of the application's permissions), extensions, edits (of devices)
    Configs,    \* sets of files of the runtime configuration
    Devices,    \* names of device nodes that a container gets of its own
    Keys,       \* environment variables that several may set
    None

At(path, who) == <<[at |-> path, by |-> who]>>
Host(path) == At(path, "host")
\* ll-cli puts a directory into the container if the host has it.
When(c, s) == IF c THEN s ELSE <<>>

VARIABLES
    pc,
    host,
    asked,
    files,      \* of the runtime configuration
    mounts,
    env         \* of each variable, who has set it, the latest first

vars == <<pc, host, asked, files, mounts, env>>

Variables == Keys \union {"PATH", "HOME", "XDG_DATA_HOME", "XDG_RUNTIME_DIR", "DISPLAY",
    "WAYLAND_DISPLAY", "XAUTHORITY", "DBUS_SESSION_BUS_ADDRESS", "LINGLONG_APPID",
    "GTK_USE_PORTAL"}

Init ==
    /\ pc = "load" /\ host \in Hosts /\ asked \in Requests /\ files \in Configs /\ mounts = <<>>
    /\ env = [v \in Variables |-> IF v = "PATH" \/ v \in Keys \intersect host.has
                                  THEN <<"inherited">> ELSE <<>>]

Has(name) == name \in host.has
IfHas(name, path) == When(Has(name), Host(path))
Set(e, v, who) == [e EXCEPT ![v] = <<who>>]
SetAll(e, S, who) == [v \in DOMAIN e |-> IF v \in S THEN <<who>> ELSE e[v]]
\* or_insert: only what nobody has set.
Default(e, S, who) == [v \in DOMAIN e |-> IF v \in S /\ e[v] = <<>> THEN <<who>> ELSE e[v]]

----------------------------------------------------------------------------
(* load_runtime_config: the system's files (level 0) before the user's, in   *)
(* each the common ones before those of the application, config.json (rank   *)
(* 0) before config.d; what they say of this instance comes after all.       *)

Before(f, g) ==
    LET order(x) == <<IF x.instance THEN 1 ELSE 0, x.level, IF x.app THEN 1 ELSE 0, x.rank>>
        d == {k \in 1..4 : order(f)[k] # order(g)[k]}
    IN  \E k \in d : order(f)[k] < order(g)[k] /\ \A j \in d : k <= j
InOrder == SetToSortSeq(files, Before)

\* A later file decides for a variable or a switch, lists are joined.
ConfigEnv(e) == FoldLeft(LAMBDA x, f : SetAll(x, f.keys, f.name), e, InOrder)
ConfigPortalOff == LET said == SelectSeq(InOrder, LAMBDA f : f.portalOff # None)
                   IN  said # <<>> /\ Last(said).portalOff
Passthru == asked.passthru \/ \E f \in files : f.passthru

\* The portal of documents is used if there is one, and nobody is against it.
Portal == /\ Has("portal")
          /\ asked.portal = "on" \/ (asked.portal = None /\ ~ ConfigPortalOff)

Load == /\ pc = "load" /\ \A f \in files : ~ f.broken
        /\ pc' = "system"
        /\ UNCHANGED <<host, asked, files, mounts, env>>

----------------------------------------------------------------------------
(* host_integration *)

DeviceMounts ==
    IF Passthru THEN Host(<<"dev">>)
    ELSE Host(<<"dev">>) \o Host(<<"dev", "pts">>) \o Host(<<"dev", "shm">>)
         \o Host(<<"dev", "mqueue">>)
         \o FlattenSeq([k \in DOMAIN Devices |-> IfHas(Devices[k], <<"dev", Devices[k]>>)])

SystemMounts ==
    Host(<<"sys">>) \o Host(<<"proc">>) \o DeviceMounts
    \o Host(<<"sys", "fs", "cgroup">>) \o Host(<<"run">>) \o Host(<<"tmp">>)
    \o Host(<<"run", "host">>) \o Host(<<"run", "host", "rootfs">>)
    \o IfHas("udev", <<"run", "udev">>) \o IfHas("fonts", <<"usr", "share", "fonts">>)
    \o IfHas("media", <<"media">>) \o IfHas("media", <<"run", "media">>)

NetworkMounts ==
    IfHas("resolv", <<"etc", "resolv.conf">>) \o IfHas("hosts", <<"etc", "hosts">>)
    \o IfHas("zoneinfo", <<"usr", "share", "zoneinfo">>)
    \o IfHas("localtime", <<"etc", "localtime">>)

AccountMounts == Host(<<"etc", "passwd">>) \o Host(<<"etc", "group">>)

System == /\ pc = "system" /\ pc' = "home"
          /\ mounts' = SystemMounts \o NetworkMounts \o AccountMounts
          /\ UNCHANGED <<host, asked, files, env>>

Home(path) == host.home \o path

\* An XDG directory that is somewhere else on the host, or that the user keeps
\* apart for this application, is mounted at its default place.  What belongs
\* to the whole session is mounted into it.
HomeMounts ==
    Host(<<"home">>) \o Host(host.home)
    \o When("data" \in host.moved, Host(Home(<<".local", "share">>)))
    \o When("config" \in host.moved \union host.private, Host(Home(<<".config">>)))
    \o When("config" \in host.moved, IfHas("dconf", Home(<<".config", "dconf">>))
                                     \o IfHas("user-dirs", Home(<<".config", "user-dirs.dirs">>)))
PrivateMounts == Host(Home(<<".ssh">>)) \o Host(Home(<<".gnupg">>))

HomeStep == /\ pc = "home" /\ host.home # None /\ pc' = "session"
            /\ mounts' = mounts \o HomeMounts \o PrivateMounts
            /\ env' = SetAll(env, {"HOME", "XDG_DATA_HOME"}, "host")
            /\ UNCHANGED <<host, asked, files>>

Runtime(path) == <<"run", "user", "uid">> \o path

IpcMounts == IfHas("system-bus", <<"run", "dbus", "system_bus_socket">>)
             \o IfHas("bus", Runtime(<<"bus">>)) \o IfHas("pulse", Runtime(<<"pulse">>))
             \o IfHas("dconf", Runtime(<<"dconf">>))

\* The socket of a display that is named by a path gets the number 1000.
DisplayMounts ==
    When(host.display # "none", Host(<<"tmp", ".X11-unix">>))
    \o When(host.display = "x11" /\ Has("X0"), Host(<<"tmp", ".X11-unix", "X0">>))
    \o When(host.display = "socket", Host(<<"tmp", ".X11-unix", "X1000">>))
    \o IfHas("xauthority", <<"run", "linglong", "Xauthority">>)
    \o IfHas("wayland", Runtime(<<"wayland-0">>))

SessionVariables == {"XDG_RUNTIME_DIR"}
    \union (IF Has("bus") THEN {"DBUS_SESSION_BUS_ADDRESS"} ELSE {})
    \union (IF host.display # "none" THEN {"DISPLAY"} ELSE {})
    \union (IF Has("xauthority") THEN {"XAUTHORITY"} ELSE {})
    \union (IF Has("wayland") THEN {"WAYLAND_DISPLAY"} ELSE {})

PortalMounts == When(Portal, Host(Runtime(<<"doc">>)) \o Host(<<".linyaps">>))
InitMounts == Host(<<"run", "linglong", "init">>) \o Host(<<"run", "linglong", ".lock">>)
ContextMounts == FlattenSeq([k \in DOMAIN asked.wishes |-> At(asked.wishes[k], "context")])

Session == /\ pc = "session" /\ pc' = "layers"
           /\ mounts' = mounts \o Host(Runtime(<<>>)) \o IpcMounts \o DisplayMounts
                        \o IfHas("pipewire", Runtime(<<"pipewire-0">>))
                        \o PortalMounts \o InitMounts \o ContextMounts
           /\ env' = SetAll(env, SessionVariables, "host")
           /\ UNCHANGED <<host, asked, files>>

----------------------------------------------------------------------------
(* oci_config, after it *)

BindMounts(binds) == FlattenSeq([k \in DOMAIN binds |-> At(binds[k], "permission")])

\* Mutant: the application is put in place before /opt is.
LayerMountsEarly == BindMounts(asked.binds) \o Host(<<"runtime">>)
    \o Host(<<"opt", "apps", "app", "files">>) \o Host(<<"opt">>)
LayerMounts == BindMounts(asked.binds) \o Host(<<"runtime">>)
    \o Host(<<"opt">>) \o Host(<<"opt", "apps", "app", "files">>)

Layers == /\ pc = "layers" /\ asked.refused # "outside" /\ pc' = "extensions"
          /\ mounts' = mounts \o LayerMounts
          /\ UNCHANGED <<host, asked, files, env>>

\* A variable of an extension replaces what there is, or goes in front of it
\* ($ORIGIN).  One that is restricted sets only what its definition allows.
Extend(e, x) ==
    [v \in DOMAIN e |-> IF v \in x.keys /\ (x.restricted => v \in x.allowed)
                        THEN <<x.id>> \o (IF x.origin THEN e[v] ELSE <<>>) ELSE e[v]]
Place(x) == At(<<"opt", "extensions", x.id>>, "extension")
            \o FlattenSeq([k \in DOMAIN x.nodes |-> At(<<"dev", x.nodes[k]>>, "extension")])
            \o BindMounts(x.binds)

ExtensionStep ==
    /\ pc = "extensions" /\ pc' = "edits"
    /\ mounts' = mounts \o FlattenSeq([k \in DOMAIN asked.extensions |->
                                           Place(asked.extensions[k])])
    /\ env' = FoldLeft(Extend, env, asked.extensions)
    /\ UNCHANGED <<host, asked, files>>

\* The runtime configuration, the options and the devices, in this order; a
\* device does not replace what is there.  Its nodes come with all of /dev
\* where that is passed through.
EditStep ==
    LET configured == ConfigEnv(env)
        wanted == SetAll(configured, asked.options, "option")
    IN  /\ pc = "edits" /\ pc' = "end"
        /\ env' = Default(wanted, asked.edits.keys, "device")
        /\ mounts' = mounts
               \o When(~ Passthru, FlattenSeq([k \in DOMAIN asked.edits.nodes |->
                                             At(<<"dev", asked.edits.nodes[k]>>, "device")]))
               \o FlattenSeq([k \in DOMAIN asked.edits.mounts |->
                                  At(asked.edits.mounts[k], "device")])
        /\ UNCHANGED <<host, asked, files>>

\* The library cache, files of the command line, and the environment as a file.
End == /\ pc = "end" /\ asked.refused # "privileged" /\ pc' = "done"
       /\ mounts' = mounts \o Host(<<"run", "linglong", "cache">>) \o Host(<<"etc", "ld.so.cache">>)
              \o Host(<<"etc", "ld.so.conf.d", "app">>)
              \o When(Has("doc"), At(Home(<<"doc">>), "file"))
              \o Host(<<"etc", "profile.d", "00env.sh">>)
       /\ env' = Default(Set(env, "LINGLONG_APPID", "app"),
                         IF Portal THEN {"GTK_USE_PORTAL"} ELSE {}, "portal")
       /\ UNCHANGED <<host, asked, files>>

\* A file cannot be parsed, there is no home, a bind leaves the root of the container, or --privileged
\* is not root's.
Fail == /\ \/ pc = "load" /\ \E f \in files : f.broken
           \/ pc = "home" /\ host.home = None
           \/ pc = "layers" /\ asked.refused = "outside"
           \/ pc = "end" /\ asked.refused = "privileged"
        /\ pc' = "failed"
        /\ UNCHANGED <<host, asked, files, mounts, env>>

Next == Load \/ System \/ HomeStep \/ Session \/ Layers \/ ExtensionStep \/ EditStep \/ End \/ Fail

Spec == Init /\ [][Next]_vars

----------------------------------------------------------------------------
\* No mount is covered by a later one, except what is asked for in /opt, or
\* has its home there: /opt itself is mounted after it.  Two extensions of one
\* name, for different layers, have one place.
NothingHidden ==
    pc = "done" => \A j \in DOMAIN mounts : \A i \in 1..(j - 1) :
        IsPrefix(mounts[j].at, mounts[i].at) =>
            \/ mounts[j].at = <<"opt">> /\ (mounts[i].by # "host" \/ Head(host.home) = "opt")
            \/ mounts[i].by = "extension" /\ mounts[j] = mounts[i]
            \/ mounts[j].by \in {"context", "permission", "device"}

\* What a user asks for on the command line is what the application sees, then
\* what the file that says it last has, then what extensions and the host have
\* set; a device replaces nothing, and nothing the name of the application.
EnvPrecedence ==
    pc = "done" =>
        /\ env["LINGLONG_APPID"] = <<"app">>
        /\ \A v \in Keys :
               /\ v \in asked.options => env[v] = <<"option">>
               /\ \A f \in files : v \in f.keys \ asked.options =>
                      \E g \in files : v \in g.keys /\ env[v] = <<g.name>> /\ ~ Before(g, f)
               /\ env[v] = <<"device">> =>
                      v \notin host.has \union asked.options \union UNION {f.keys : f \in files}

\* A container is put together as it is asked for: both of them.
AsAsked == NothingHidden /\ EnvPrecedence
=============================================================================
