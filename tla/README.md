# A verification project for linyaps-rust

Linyaps installs applications as layers in an ostree repository and runs them in
containers. This directory holds TLA+ models of the parts of it in which several
actors meet, the TLC runs that check them on small instances, and the theorems
TLAPS proves about them for every instance.

Sources are named from the root of the repository: `task.rs` is
`crates/linyaps-dbus/src/task.rs`, `repo_lock.rs` is
`crates/linyaps-core/src/repo_lock.rs`, `local.rs` and `cache.rs` are in
`crates/linyaps-repository/src/`, `operations.rs` and `main.rs` in
`apps/ll-package-manager/src/`, `runtime.rs` in `apps/ll-cli/src/`; ll-init is
`apps/ll-init/src/main.rs`. `PROJECT.json` maps each definition to the lines it models and lists the hazards, runs and mutants.

## 1. The system

| component | state it keeps | operations | what makes it correct |
|---|---|---|---|
| task service (`task.rs`) | per task: state snapshot, job, started / running / canceled / finished flags, open interactions; per queue: pending futures and a claim | Start, Cancel, ReplyInteraction, owner watcher, activation timer, queue worker | one job at a time, each at most once; TaskFinished at most once; no lost wake-up; consent only from the owner; everything queued finishes |
| D-Bus service and client (`package_manager.rs`) | the two queues; the client's view of a task | one method per operation; the client's `run_task` loop | objects belong to their caller; the client is told its job's end, and ends |
| package operations (`operations.rs`) | the repository behind a mutex; RepoLock while it decides | install, layer file, UAB, uninstall, update, prune, deferred uninstall, hooks | an operation that fails or is killed leaves complete layers; nothing in use is taken away |
| local repository (`local.rs`) | ostree refs and objects, checkouts, exported entries, merged directories | pull, import, checkout, merge, remove, clean, prune, export | entries, checkouts, refs and objects agree |
| layer cache (`cache.rs`) | `states.json`, written over in place | upsert, delete, set deleted, replace merged, rebuild | one live entry per layer |
| repository lock (`repo_lock.rs`) | a flag with a condition variable per process, an fcntl record lock per file | shared, try exclusive, drop | excludes inside a process and between processes |
| container start (`runtime.rs`) | process states under the runtime directory, startup lock, bundle | take the lock or reuse the container, resolve, mount, spawn, record, wait, clean up | a container that is recorded keeps its layers; one container of an id; every client gets in |
| run context (`run_context.rs`) | library cache and saved configuration of a set of layers | look, link the base, run ldconfig, save | a saved one is complete; the base layer is not touched |
| ll-init | children of a container, pending signals, the file `.lock` | lock, fork, forward signals, reap, quit, delegated commands | ends when nothing is left to do, and never under somebody's command |
| UAB header and loader (`apps/uab`) | mount, directories and child of a bundle | mount, run, extract, forward signals, clean up | mounted while in use, and cleaned up on every way out |
| ll-builder | a repository shared by builders, a cache of sources, the output of a build | build, import, remove, run, list, fetch helpers, clean | complete layers of one build; whole sources |
| versions (`version.rs`) | none of their own; what is installed and offered | parse, match, compare; update, install, resolve, prune | updates go one way; what was updated is what is run |
| list of repositories (`repo_command.rs`, `repository.rs`) | `config.yaml`, two copies in the daemon | read, edit, write back the whole | edits that succeeded are there, those that failed are not |
| patches of a container (`oci_patch.rs`, `json_patch.rs`) | one document | a sequence of files, each applied or skipped | a bad one is as if it were not there |
| mounts and environment (`runtime.rs`, `runtime_config.rs`) | the list of mounts, the variables | stages from the host's directories to the devices | nothing covers what was put before it; the user's word is last |
| start in a namespace (`namespace.rs`, `runtime.rs`) | parent and child, a byte each way, the run context | resolve, clone, map, resolve again, configure | both resolve the same; nobody waits for nobody |
| exported entries (`local.rs`) | files of layers, links of entries | rewrite, link, unlink, build all again | links lead to installed layers; installed layers have theirs |
| files of running containers (`runtime.rs`, `main.rs` of ll-cli) | a file per pid, the runtime's status, mounted roots | record, list, kill, clean | what is listed runs; what runs is listed; roots last as long |
| ll-driver-detect | a lock, a file of settings, a notification | look, ask, install | one question at a time, nothing installed that was not chosen |
| bundles and layer files (`writer.rs`, `uab.rs`, `uab_signature.rs`, `layer_file.rs`, `export.rs`) | a file under its final name, one aside; the daemon's copy | append sections, sign, write, rename; stage, verify, unpack | a package arrives as it was exported, or not at all |
| remote client, system helper, linyaps-api, linyaps-i18n, vendor | | HTTP, data types, catalogues | see section 8 |

How they interact. A D-Bus client (ll-cli) calls the daemon, which creates a task
object, registers it, watches its owner and returns its path. Operations wait for the
client's Start; searches start by themselves after 25 ms. A worker per queue runs the
jobs. A job of the operations' queue takes the repository mutex and changes the
repository, and reports progress and questions through its task. With `--no-dbus` ll-cli
spawns a daemon of its own, which serves one connection over a socket. Independently,
`ll-cli run` resolves layers from the repository without the mutex, starts a container
and records it under the RepoLock, shared; the daemon takes the RepoLock exclusively to
see which layers are in use, and a loop collects layers whose removal was deferred.
Several `ll-cli run` of one container id agree by a startup lock on who starts the
container; the others execute their command in it, and agree with its ll-init by record
locks on a file of one word. Builders have a repository and a fetch cache in common, and
nothing but the ostree lock and renames between them. What they export is a file, which the daemon
takes by its descriptor while they may be writing it. `ll-cli repo` reads the list of
repositories from the daemon and sends all of it back, edited. A container is put together
by `ll-cli run`: layers and extensions resolved, mounts and environment listed, patched
by what system and application bring, and, for a user without CAP_SYS_ADMIN, all of it once more
by a child in a user namespace, told what to find by the run context. Each run leaves a file named
by its pid, which ps, kill, enter and the daemon read.

What is hard here: flags read and written one at a time by methods, watcher, timer and
worker on a multi-threaded executor; a lock whose two levels have different lifetimes;
durable updates that a failure or a kill may separate; two processes that learn of
each other only through process states written late; whole files written back by processes
that read them long before; signals that come before the child they are for; choices made
twice, by the daemon and by a start, or by a process and its child; and files that outlive
the process they speak of.
`PROJECT.json` has these hazards one by one.

## 2. Modules

| module | models | state and its source |
|---|---|---|
| `TaskService` | `task.rs` and the registration in `package_manager.rs` | `task`: TaskInner; `asks`, `chan`: TaskInner.interactions and the one-slot channel of each; `queue`: TaskQueueInner; `objects`: the object server; `pc`, `on`, `msg`: where each call, watcher, timer and worker is |
| `TaskPromise` | what clients may rely on | jobs begun, jobs executing, outcomes reported |
| `TaskClient` | the client's `run_task`, composed with `TaskService`, and the daemon spawned by `--no-dbus` | `at`: where `run_task` is; `subs`, `inbox`: its three streams; `outcome`, `shown`: what it returned and printed; `daemon`, `peer`: the process that serves it; `ended`: how the job returned |
| `RepoLock` | `repo_lock.rs` | `held`: LocalLockState.held per process; `record`: the kernel's record lock per process; `pc`, `mode`: each thread |
| `LayerStore` | `operations.rs` over `local.rs` and `cache.rs`, with containers | `live`, `deferred`, `merged`: cache entries; `named`: refs; `dirs`: checkouts; `exported`: linked entries; `who`, `todo`, `undo`: the holder of the mutex, its updates and its rollback; `lock`: RepoLock in the deferred loop; `use`, `recorded`: containers |
| `ObjectStore` | `local.rs` over `remote.rs` and ostree | `store`: objects; `refs`; `pc`, `staged`, `lock`: each process, its transaction and its lock on the repository |
| `ContainerSession` | the startup lock and the reuse of containers in `runtime.rs`, ll-init | `cli`, `fd`, `starter`, `path`: the clients, the file each has open, the startup lock, the bundle; `file`: what each `.lock` says; `init`, `box`, `waiting`: run_init; `main`, `kid`, `by`: the processes of the container and who started them; `sigs`, `told`: signals pending and forwarded |
| `ElfSections` | ELF files in `writer.rs`, `uab.rs`, `uab_signature.rs` | none: operators from a file to a file, or to a section of it |
| `PackageFiles` | exports in `export.rs` and `writer.rs`, packages in `operations.rs`, `uab.rs` and `layer_file.rs`; extends `ElfSections` | `file`, `aside`: what the path holds, and the file to be renamed; `pc`, `at`, `sole`: the builders, and who alone wrote the file; `daemon`, `held`, `staged`, `info`, `unpacked`: the installation |
| `RunContext` | `run_context.rs` | `whole`: the base layer's inodes; `bundle`: `<id>.init`; `cache`, `saved`: `ld.so.cache` and `.config` |
| `Builder` | ll-builder's commands over the repository | `file`, `torn`, `writing`, `mem`: `states.json`, whether it can be read, who has truncated it, and each process's copy; `named`: refs; `dirs`, `merged`: directories; `cut`: named and not yet checked out; `todo`: the rest of a command; `left`, `parts`, `made`: the output and how it is split |
| `SourceCache` | `source.rs`, `debian_source.rs`, the helpers of `legacy.rs` | `inode`, `spoiled`, `kept`, `tree`: the cache; `src`, `out`, `temp`: what each builder has |
| `UabLoader` | `apps/uab/src` | `header`, `loader`, `box`: the three processes; `knows`, `got`: CHILD_PID and RECEIVED_SIGNAL; `mounted`, `point`, `dir`: what must be cleaned up |
| `Versions` | `version.rs`, and the choices in `operations.rs`, `local.rs` and `main.rs` of ll-cli that rest on it | `offers`: a remote repository; `apps`, `bases`: what is installed; `want`: the version an application asks of its base |
| `RepoConfig` | `repo_command.rs`, `repository.rs`, `update_config` of `local.rs`, the daemon's setter | `file`: `config.yaml`; `memory`, `served`: the repository's copy and the one the daemon answers from; `cli`: each `ll-cli repo`, what it read and sends |
| `OciPatches` | `oci_patch.rs`, `json_patch.rs`, the process that `runtime.rs` puts in after them | `config`: the document; `files`: patches to come; `applied`, `skipped` |
| `ContainerMounts` | the mounts and the environment in `runtime.rs`, `runtime_config.rs`, device edits of `cdi.rs` | `host`, `asked`, `files`: the host, the options, the runtime configuration; `mounts`; `env`: of each variable who set it |
| `Launch` | `resolve` in `runtime.rs`, `namespace.rs`, the digest of `cdi.rs` | `parent`, `child`, `bytes`: the two processes and their socket; `installed`, `driver`, `spec`: what both look at; `resolved`, `context`, `inside`: what each made of it |
| `Exports` | exporting in `local.rs` and its place in the operations | `disk`: exported files, their originals and the copies being rewritten; `entries`, `new`, `aside`: the three directories; `plan`, `undo`, `file`: where the daemon is |
| `DriverDetect` | ll-driver-detect | `pc`, `lock`, `look`, `signals`, `selected`: each process; `file`: its settings; `driver`, `offers`, `installed`: what it looks at |
| `RunningContainers` | overlay, runtime and state file in `runtime.rs`; ps, kill and enter in `main.rs` of ll-cli; the daemon's look in `operations.rs` | `cli`, `runtime`: each run and its runtime; `box`: the runtime's status; `files`, `alive`: files by pid, and the pids there are; `rootfs` |
| `Repositories`, `Containers` | modules that share no state, side by side | |
| `Tools`, `Commands` | the same; `Commands` has `Repositories` and `Containers` side by side | `tool`: the one a behaviour is of |
| `Absent` | the constant `None`, which those of `Commands` share | |
| `TaskClientProofs`, `LayerStoreProofs`, `LayerOperationsProofs`, `BuilderProofs`, `ToolsProofs`, `ContainerSessionProofs`, `RepositoriesProofs`, `ContainersProofs` | theorems | |
| `MCTaskService`, `MCTaskClient`, `MCRepoLock`, `MCLayerStore`, `MCLayerFiles`, `MCBuilder`, `MCTools`, `MCCommands` | instances for TLC | |

**TaskService.** One action is one access to an atomic flag or one critical section:
`Cancel` is seven actions, `run_task` a dozen. Everything between two of them can be
interleaved. `.await` adds nothing beyond that, since every point between two accesses
is already a scheduling point. Failing signals (`EmitMayFail`) take the `?` and `let _`
paths of the code. A job is opaque: it asks up to `MaxAsks` questions and returns
Succeed, Failed or Canceled, or panics. The executor slots, `Workers`, are there to let
a second worker exist if the code ever claimed one.

**TaskClient.** Extends `TaskService`: each of its steps is a step of the service, of
`run_task`, or both, when a signal is sent to a client that is subscribed. The three
streams are queues of their own, as each is a match rule with its own buffer; `run_task`
polls questions before states and states before the end (the `or` is biased), and reads the
states left over once it has the end. The daemon may die on the bus; a daemon spawned by
`--no-dbus` binds, accepts one connection before a deadline, and ends with it.

**RepoLock.** The order of the source is kept: fcntl unlock, `release_local`, and only
then the close of the descriptor, which for the kernel releases every record lock the
process has on the file. An error of `shared_at` closes before it gives the flag back
and one of `try_exclusive_at` after. `LocalLockState.pid` is left out: no process of the
repository forks with the lock taken.

**LayerStore.** An operation keeps the mutex from beginning to end and is a list of
durable updates, so the steps of one operation are in the order of the source and the
steps of containers, of the deferred loop's RepoLock and of a kill lie between any two.
Planning (which remote version, which modules, is the base missing) is one step,
because no other action changes the cache while the mutex is held; `update` plans app by
app, at the step that begins each. A failing step replaces the rest of the list by the
rollback of that operation; a failing app of an update skips to the next one. A kill within
the write of `states.json` is `Rebuilt`: `write_file_with_mode` truncates and writes in
place, so the next daemon may find a file it cannot read, and makes an entry of every ref.
Commits are records of reference, module and repository, and of the build for those that come
in files; object files are summed up in
`named`, as an object is kept as long as a ref leads to it (that is what `ObjectStore` is about).
A layer file is imported under a ref of its layer, whatever commit that ref named before
(`ImportLayer`): the commit of an entry that is still there, deferred or live, then has no ref, and
the next prune or collection takes its files (`nameless`). Collection and prune look for the
layers they take one by one (`Sweep`, `Discard`). Installing a layer whose entry is deferred makes that
entry live again (local.rs 275, from operations.rs 1886), also when another build of it has become live
in between: then there are two (`twice`). The runs do not come to that with two builds of one
version; that there is no other way to two is a lemma (`OneLiveHolds`), for every instance. The deferred loop
merges only if it has removed something (operations.rs 1993); how many of its entries it removed is not kept, so
with some of them left it may do either. A failure adds to `hurt` what it leaves
for good (`Left`): an app without a base that the rollback cannot take back, because the RepoLock is taken
(`stuck`); entries of a version that goes all the same, as a checkout is missing to unlink them (`linked`);
modules that came after the last merge (`unmerged`). `linked` stands as well for a failed install of
one more module (`BackExtra`, operations.rs 983-1000): it unlinks that module, then removes the whole
version, and the entries of the other modules stay; and for a layer file that takes the place of a
download of the same version, whose entries nobody unlinks. An update goes on only for an app that can be
looked up, together with its base (`Updatable`), and an install only with a base at hand (`HasBase`). Left out: a
write of `states.json` that fails without a kill.

**ObjectStore.** Processes with no mutex in common over one ostree repository: pulls that
fetch what is missing object by object, metadata-only fetches, imports, removals and the
prune that follows, each killed at any step. Objects are trees with children, so that a
partial fetch can have a parent without its children.

**ContainerSession.** A client is at one of the calls of `acquire_startup_lock_or_reuse`,
`reuse_running_container` or `run`; ll-init at one of the calls of `run_init`, where the
two places that reap (`reap_pending`, `has_children_or_zombies`) are kept apart and SIGCHLD
is one pending bit, however many children die. Each `.lock` is a file of its own, named by
the client that made it, because a client may have one open that was unlinked since. A
record lock is derived from where its holder is. Processes that outlive their parent become
children of ll-init; the end of ll-init is the end of all. SIGTERM stands for every signal
that is forwarded, and `asked` bounds it to one per container. The namespace child of
`run` is its parent's part of the same sequence and not a process of its own. Left out: a
container without `.lock`, exit codes, and the kill of a client that executes a command.

**RunContext.** The copy of the base layer is file by file, because a hard link that
exists already turns into a copy over it. A saved configuration, the cache file and the
bundle are separate, and a kill comes between any two steps.

**Builder.** Each command reads `states.json`, works on its copy and writes the whole file
with each change. Steps of a build are those of `build.rs`: sources, base, merge, container,
copy for a full develop module, one split per module, drop of the old modules, import of the
new ones, merge, check. A pull, a commit and an import set the ref, clear the checkout, make it and
enter it, as four steps (`name`, `clear`, `checkout`, `upsert`); a removal unsets the ref, drops the entry and
erases the checkout. The file is truncated (`Truncate`) and then written by the step that changes the list, both in
place: a kill in between, or a rival's longer text of which the end remains, leaves a file that cannot be read
(`torn`), and before the next command begins the list is made anew from the refs (`Rebuild`), ref by ref and
written at each, so that a kill leaves some of them. A write that fails without a kill is left out. A loop of the source is one step that goes on with itself: what remains of
the loop is its argument, or is read again from the process's own copy of the list, which nobody else changes. What sources are is `SourceCache`; there a cached file is an
inode, since it reaches the build by a hard link.

**ElfSections.** A cell is the ELF header, a row of the section header table, a name, a zero
or data, and offsets count cells. What the code computes of offsets and sizes is computed here: where
the names and the table go, how much padding there is, what is said in the first row when the header has
no room for a number, and which numbers a 32-bit file refuses. A row is one cell, so a file cut within a
row is one cut before it.

**PackageFiles.** A bundle is written in place, read again for the place of its note, and signed by one
more write; a layer is written aside and renamed, and whoever has the replaced file open keeps it. Calls
move up to `Chunk` cells. The daemon copies a bundle up to the length it saw first, verifies the copy
and unpacks from it; a layer it reads twice from the descriptor, for its metadata and for its payload.

**UabLoader.** Header, loader and container are three processes; a signal is noted by the
handler, and passed on only if the id of the child is stored by then. A signal from a
terminal reaches all three. The container's directory may be made only in part, and that part stays, as nothing
clears it away after such an error.

**Tools.** `ObjectStore`, `SourceCache`, `UabLoader` and `RunContext` share nothing; one
module has them side by side, a behaviour being one of any of them, chosen by `tool` at the
beginning. Each of its invariants speaks of one module.

**MCBuilder.** Likewise, of `Builder` and `PackageFiles`.

**Versions.** A version text is its parts; a part is a number, with its value, or a word, with
its place in the order of texts. Parsing tries the three kinds in the order of the source.
Updates of applications, updates of bases, resolution and pruning each choose as their own code
does, since they parse and match at different places.

**RepoConfig.** The daemon's setter is the write of the file, the write of the cache, the
restore when the cache fails, and the second copy behind its own lock, as separate steps; the
client's edit is between its read and its call. A private daemon of `--no-dbus` has a memory of its own.

**OciPatches.** Documents are objects, arrays and leaves; a JSON patch is applied operation
by operation to a copy, as in the source. A program prints a configuration or something else.

**ContainerMounts.** A mount is a destination and who asked for it. One action is one stage
of the source; the order within a stage is the order of the list. What a mount does is to cover
what lies at or below its destination.

**Launch.** Parent and child resolve with the same operators from different inputs, the
child's being the run context, while `Change` installs, removes, and replaces the driver or the text
of the device file between any two steps.

**Exports.** A desktop file is renamed to its original; a copy of that is made beside it under a name of its own,
perhaps only in part, and rewritten in place; what is at the file's path is cleared and the copy renamed to it, each
a step. The copy is a file of the directory that is exported: a failure or a kill leaves it there, and the next
building of the entries finds it, rewrites it again, keeps an original of it as well, and links it. The
links are made one by one; the replacement of all entries is built aside and renamed in. A
failure leads to the rollback of the operation it is in, a kill to `Open`.

**DriverDetect.** `select!` takes any branch that is ready, so the end of a notification may be heard
before a click that came first. Packages change under a process up to `MaxMoves` times.

**RunningContainers.** A pid is given out again when its process is gone; a state file stays
if its ll-cli is killed. A run starts a runtime whatever is up, and one whose container is there is refused.
The readers join files, `/proc` and the runtime's status as theirs do.

**Repositories, Containers, Commands.** The repository lock and the eight modules above, from `Versions` on, share no state.
`Repositories` has five of them side by side (the lock, `Versions`, `RepoConfig`, `Exports`,
`DriverDetect`), `Containers` the other four, and a step is one of any of them; their theorems are about these two.
`Commands`, which TLC checks, has the two side by side, but a behaviour of it is one of one module only, chosen by `tool` at the
beginning, and the others stay at one fixed initial state. So it has fewer behaviours: `CommandsInit` has both
`RepositoriesInit` and `ContainersInit` as conjuncts, and each disjunct of `CommandsNext` is a
step of one of the two that leaves the other as it is. Each invariant speaks of one module.

## 3. Runs

All passing runs explore their instance completely. Bounds are the sets in the `.cfg`, and two state
constraints, `OneAtATime` and `Bounded`.

| run | instance | what it shows |
|---|---|---|
| `task_queue` | 2 operations, or 2 searches one of which has lost its owner, 1 call in progress, 2 worker slots, panicking jobs, failing signals | at most one TaskFinished, one worker, no lost wake-up; refines `TaskPromise`. Two tasks are needed for a queue to have a second future and a worker to retire between; two slots for a second worker to show; one call at a time suffices because the watchers are further processes |
| `task_live` | 1 operation, 2 calls in progress, 1 interaction | the operation finishes although its owner cancels, stays silent or leaves, by calls that race each other |
| `task_early_finish` | 1 operation, 2 calls | **violation**, finding 1 |
| `task_client` | an operation or a search, 2 questions, on the bus or with a daemon of its own | consent: an interaction is granted only by a yes to it, for which two are needed, a late reply and the one it meets; `Informed`: the client is told how its job ended, and shows that state last; `ClientEnds`: it returns, and its daemon ends |
| `commands` | lock: a process of 2 threads and 2 of one, either lock each; versions: 9 texts (releases, a pre-release, security numbers, four numbers, words), 4 wishes, 3 offers; configuration: 2 clients, 2 names, 2 edits; patches: any of 8 files, in their order, 4 printed documents, 3 directories; mounts: homes in and out of `/home`, every host directory or none, 4 sets of configuration files; launch: 4 packages, 3 drivers, 2 changes; exports: 3 layers, two of them versions of one application, with names in common, 2 operations, 2 failures or kills; drivers: 2 processes, 2 starts, 1 change; running: 2 containers, 2 runs, 3 pids, 1 loss | the lock excludes threads, and processes that lock from one thread, and leaves no sleeper; `UpdatesCount`: updates go one way and bring what is run; edits are kept; a bad patch is ignored; mounts and variables are as asked for; a container has what was resolved, and its start ends; entries lead to what is installed; nothing is installed that was not chosen; who looks sees what runs |
| `repo_lock_broken` | the daemon with two threads, one ll-cli | **violation**, finding 2 |
| `layers_crash` | 2 versions of an app, two layer files of one of them built one after the other, 1 base, 1 container; failures, and a kill between two updates or within a write of the cache, in one behaviour; no pruning; the second layer file and the other version are not there together (`OneAtATime`) | `LayersWhole`: installed and deferred layers have their checkouts at every moment and their objects between operations; `FollowsInstalled`: entries and merged directories are those of what is installed, through failures and rollbacks at every step; the deferred loop spares recorded containers |
| `layers_prune` | 2 versions of an app with develop modules and of its base, one in files, one remote; pruning asked for or not | `FollowsInstalled`: exported entries and merged directories are those of what is installed; bases stay while an application needs them; deferred layers are collected |
| `layers_prune_early` | 2 versions, pruning | **violation**, finding 3 |
| `container` | 3 clients of one id, 1 further process; errors and kills of ll-init, clients that give up | one container at a time, commands and processes are not cut off, no lost wake-up; SIGTERM arrives, containers end, clients get in. Three clients are needed for one to have a file open that a second one left and a third one follows |
| `tools` | objects: 2 processes, 2 commits of one ref that share a tree, 3 operations; sources: 2 builders, one with a helper, 3 starts; bundle: 2 entries, 2 signals; run context: 2 processes, a file and a link, 3 initializations | refs name complete commits, and nothing partial passes for whole; `SourcesServed`: sources are whole and a rival's work makes no build fail; a bundle is mounted while in use and swept afterwards; `ContextSound`: the base layer survives and a saved context is complete |
| `builder` | 2 builders of one project, alike, 1 base, 2 kinds of files, full develop or not, 2 commands; where two builders have overlapped, they install files of one kind, and once no command is left to start they are followed only while there is something to claim of them (`Bounded`). Packages: 2 exports to one file, as a bundle or a layer, or one to a file of 10 templates (64 and 32 bits, names without an end, more sections than the header has room for, a signed bundle, five that will not do), in calls of 14 cells | `BuildsSound`: wherever a builder that is alone is killed, within the writing of the list as well, a list that can be read names what is there, except a layer that was being pulled again, and, where it was made anew from the refs, one whose pull or import broke off between its ref and its checkout; a finished build lists all its modules; what breaks a command is another process or a killed pull; `PackagesTrue`: what the daemon installs is the image of one export under that export's metadata, and an undisturbed export reads back section by section |

One container is enough for the questions about layers: the daemon asks of each reference
whether any container has it. Three starts, operations and initializations are two that meet
and one that finds what they left, or one that is killed, one that comes after it, and one
beside that. An output belongs to its builder alone: how it is split by kinds of files is checked where no other
builder overlaps, and two that overlap meet in the lists and directories, whatever their files. After the last
command has begun, of two builders that have overlapped only those states are followed in which a build that missed
no change is to be checked or has ended well, or in which the list is being written by both or over a text that
another has written: of the others the properties say nothing. A second
build of a version, and an upgrade from that version, each meet every failure and the kill; without
`OneAtATime` the instance has 2.7 million states, and the same properties hold in all of them. Two signals reach a process before and after its child is known. A builder's
questions are about two commands that overlap, or follow each other; the same two make
a clash of edits of the configuration, or a rival of a notification. The lock needs two threads in
one process for its local level, and two further processes for a reader and a writer that the first
one does not belong to. A circle of updates needs three versions, which the texts offer in every
combination of kinds. The changes of `Launch` come between its two resolutions, and a second one
can undo the first. Three exported layers are an upgrade and a bystander with names in common; a
second failure or kill comes in the recovery from the first, as when the copy that a broken rewriting left is being
rewritten in its turn. A bundle of 44 cells takes
four writes, so that a copy can begin before, between and after them, and a layer of 11 cells, which is renamed when it is whole, one; a file of 20 sections at most and 6 in
the header has exports on both sides of either limit; and the 32-bit bundle has numbers up to 40, which
is enough without the icon and not with it. Three pids let one of two runs get a pid
that was another's.

The excuses the properties name are histories kept in the models: `hurt`, `stripped` and `nameless` in
`LayerStore` (an operation cut off; a layer pulled over itself, whose checkout is cleared
first; a ref taken by another build; a rebuilt cache; a base removed with force; a deferred entry that
came back next to another; what a failed rollback leaves: `stuck`, `linked`, `unmerged`), `broken` and
`crowd` in `ObjectStore` (a ref set again by a removal that failed, while another process could
prune; other processes at work during an operation), `torn`, `blame` and `touched` in
`SourceCache` (a clean that was killed or overlapped; a rival's rename; a container that
wrote into a shared inode), `met` in `RunContext` (two initializations at once),
`overlap` and `bare` in `Builder` (two at once; a listed layer whose checkout was cleared to be made again, or
that was listed from the refs while in `cut`, with a ref and no checkout yet), `slain` in `UabLoader` (SIGKILL), `missed` in `TaskClient`
(a search over before its client listens), `clash` and `spoiled` in `RepoConfig` (commands
that overlapped; a write that failed and could not be taken back), `broken` in `Launch` (the maps of
the namespace could not be written), `excused` and `twice` in `Exports` (links taken away
with those of another layer, or not made yet since theirs came; a failure during a rollback), `cut` and `moved` in
`DriverDetect` (a save that did not come to its end; packages that changed during a look), `lost`
and `reused` in `RunningContainers` (a killed or failed ll-cli; a pid given out again). Each is something the code does not guard
against, each is needed, and each is listed with its
hazard in `PROJECT.json`. `InstalledWhole` in `PackageFiles` has no excuse;
only bundles are damaged there on their way, for a layer has no digest and nothing would tell. Once a prune has taken the files of a layer that still has an entry
(finding 3), `LayerStore` begins no further operation: what follows from it is no news.

### Fairness

`TaskService`: weak fairness of each handler and worker: the executor polls every
spawned future, and every step of theirs is finite. A job returns (it is a finite
sequence of requests with timeouts), and a question ends after 180 s at the latest,
which is the step `AskWait` without an answer. No fairness is assumed of clients: they
need not start, cancel, answer or leave.

`TaskClient`: the same, and weak fairness of `run_task`, whose steps are finite, of the
deadlines on both sides of the socket, and of the exit of a client that has its answer.
A client that asks its user gives some answer in the end. A daemon on the bus may die.

`LayerStore`: weak fairness of the updates of whoever holds the mutex, and of the hourly
loop. Strong fairness of `GcBegin`, the loop's acquisition of the mutex: that is an
`async_lock::Mutex`, which stops newcomers from overtaking a waiter that has waited long.
None is assumed of containers, or of jobs being requested.

`ContainerSession`: weak fairness of the clients and of ll-init, which have finite steps
and, where they repeat, a sleep of 50 ms or a second. ll-init's blocking `F_SETLKW` gets its
lock if it is free again and again, and again and again it is: a client has the shared lock
of a file that does not say running only to read one word. fcntl itself promises
neither. An application that was sent SIGTERM ends. Nothing is assumed of
other processes, of commands, or of an application that was told nothing.

The other modules state no liveness property and no fairness: `LaunchEnds` and
`SleepersServed` are invariants, which say that whoever waits has somebody to wake it.

Deadlock is checked for `LayerStore`, and for `RepoLock` in the run `repo_lock_broken`. It is off elsewhere, where all may be
over and nobody is left to do anything, or the bound on starts is reached.

## 4. Findings

1. *A task is reported finished while its job executes.* `cancel_task` reads `running`
   (task.rs 409) and swaps `finished` (412) in two steps; `caller_disconnected` reads
   `Pending` (420) and swaps later (424). A worker that passes `run_task`'s second look
   at `finished` (538) in between executes the job. The test
   `running_task_finishes_only_after_job_returns_from_cancel` (871) states the contrary,
   for the one order it exercises.
2. *The exclusive RepoLock of a thread is released by another thread's close.* `Drop`
   gives the local flag back before its descriptor is closed (repo_lock.rs 76-84), and
   `try_exclusive_at` does so when it is refused (64-71). In between another thread of
   the daemon can take flag and record lock; the close then drops that record lock, and
   ll-cli gets its shared lock next to it. The theorem `LoneExclusionHolds` shows that a
   second thread is needed: processes that lock from one thread exclude each other.
3. *Pruning takes the files of deferred layers.* `prune_unused` reserves live items only,
   and runs right after an upgrade has deferred a layer because its app is running;
   `clean` then removes that layer's checkout and ref (local.rs 1023-1039). The test
   `deferred_layers_stay_reachable_until_collected` (2912) states the contrary for a
   deferral that no prune follows.

## 5. Proofs

All of the following hold for every finite or infinite value of the constants that the
named assumptions admit; the assumptions stand in the modules that declare the constants, and TLC evaluates
them on the instances.

| assumption | what it says |
|---|---|
| `TaskAssumption`, `ProcAssumption` | the searches (`QueuedTasks`) are tasks; calls, agents and workers are different processes |
| `ClientAssumption` | there is a call for each client of a group, as each has a connection of its own |
| `ProcessAssumption` | types of the constants of `RepoLock` |
| `SessionAssumption` | names are distinct |
| `CommitAssumption` | finitely many packages; versions are numbers, of which there is a newest |
| `KindAssumption` | a module is the main one or the develop one; an id is that of an app or of a base, in all versions |
| `TreeAssumption` | an object is a tree or a file; `Below` is what a tree holds, itself and through its children; the metadata of a commit are a file of its root |
| `BuilderAssumption` | the rules of a project are a list that does not have the main module; versions of bases are numbers, and what is built is not its base |
| `SourceAssumption` | finitely many builders; a project names each kind of source once |
| `ExportAssumption` | finitely many layers; the bound on stops is a natural number; `None` is apart from layers, directories of entries, files being exported and their texts |
| `EditAssumption` | finitely many names of repositories; priorities are integers |
| `VersionAssumption` | versions are read from texts of that form, in which pre-release and build numbers stand in the last parts; `None` is no number and no request |
| `PatchAssumption` | finitely many patches, each with a name and, among those of its kind, a rank of its own; paths are sequences; what is printed and inserted are documents (`Documents`), and only a patch's own mark has its name |
| `LaunchAssumption` | definitions, additions and requests are lists; `KeyOrder` lists every layer |
| `DriverAssumption`, `BoxAssumption` | versions of drivers are numbers, offers sequences of them; `None` and `"cut"` are no names |

`TaskClientProofs`, of `TaskService`
- `OneWorkerHolds`, `QueueServedHolds`. Neither is inductive. `ClaimInv` ties the claim
  (`queue.running`) to its bearer: when it is set, exactly one process is a worker
  between pop and retirement, a handler about to spawn one, or dead; when it is not, there
  is none and nothing is pending. `LocalsOK` says which task each busy process is at.
- `TypeOKHolds` from `LocalsOK` and `DataOK`: a worker that is inside `run_task` has a
  task, which is what makes the indices of its steps legal.
- `FinishedOnceHolds` from `FinishInv`: a process that is about to signal has swapped
  `finished` from FALSE; at most one of them per task, no signal is out before it signals,
  and none is while `finished` is FALSE.
- `GrantedByOwnerHolds` from `AnswerInv`: a yes in the channel of a question, or on its way
  out of it, was sent by a call of the owner of the task.
- `ImplementsPromiseHolds`: `TaskService` implements `TaskPromise` under the mapping stated
  there. The job's begin, its end and the TaskFinished signal map to the three steps of the
  promise, everything else to a stutter. It needs `ClaimInv` (one job executes), `BegunInv` (a worker
  that has a result has begun the job) and the invariants above. Fairness is no part of it.

`TaskClientProofs`, of `TaskClient`
- `InformedHolds`: the client is told the outcome its job ended with, once it is told
  anything, and has shown that state last. The invariant is `ClientInv`: a client makes one call at a time and
  nobody else ends its task while it is connected (`CallsInv`); Queued is out before the
  job begins (`StartInv`); what a worker is about to report is what the job returned
  (`EndInv`); the end in the inbox is that (`ToldInv`); and the last state delivered or
  shown is that as soon as the end is signalled (`ShownInv`), which holds because the
  worker sets the state before it signals and each stream keeps its order.

`RepositoriesProofs`. A step of `Repositories` is one of its parts alone, so each part is proved about on its own (run `commands`).
- `LocalExclusionHolds`: the flag is held exactly while one thread owns it.
- `SleepersServedHolds`: a sleeper implies the flag is held, hence an owner of it.
- `LoneExclusionHolds`: what a thread that is alone in its process has is what the kernel
  has recorded for that process, and the kernel's grants never conflict.
- `TypeOKHolds`, of the lock.
- `EntriesSoundHolds` from `ExportsInv`. What an operation has still to do decides what the entries may
  lack (`Planned`): a file is ready before it is linked (`FileFits`); each stop leaves one copy at most, so the
one that is made next has a name of its own, and no link leads to it (`Numbered`); links lead to files that are ready, and
  none leads to a layer that is not yet exported, or was and is about to be dropped
  (`Leading`); a file of an installed layer is shown, excused or lost whenever the entries are the current
  ones (`Showing`); what is built aside has every file of the layers it is done with, so that it can take
  the place of the old entries at any moment after that (`Covered`).
- `EditsKeptHolds` from `EditsInv`: a command sends what its operation makes of what it read, and no
  operation makes a sound configuration unsound (`ApplyBetter`: a new default is found among the
  repositories left, which needs that finitely many have a highest priority); without overlap one command is
  under way (`Single`), and where it is tells which of the file and the copies have its edit (`Midway`).
- `UpdatesCountHolds` from `VersionsInv`. The versions that are numbers are ordered (`LessOrders`: irreflexive, and
  both the order and its negation are transitive, over both kinds of numbers), so the latest of an answer
  is not older than any of it, in whatever order it came (`LatestIs`). Of each history the version that is installed is
  the newest (`Histories`), and after an update one of the bases that fit is not older than any offer (`UpToDate`).
- `AsToldHolds` from `Heeds`: who is past the lock has it (`OneAtWork`); that the user said never is
  in the file or is being saved (`NeverKept`), and no process looks that should not (`Quiet`);
  what is selected was clicked (`Heard`); what was seen is still so, if packages were left alone (`Saw`).
  That there is a best offer is an argument over the finitely many of them (`MinimalSet`).

`ContainerSessionProofs`
- `TypeOKHolds`, and every safety property of the run `container`.
- `StartsAloneHolds` from `StartInv`: who is between the ends of the startup lock has it,
  and the container that runs has a client in that interval or one that gave up.
- `ReuseServedHolds` from `FileInv`: the one file that says running is that of the
  running container, in the part of `run_init` where the lock is free; who executes a
  command has that file open, so the step to quitting is not enabled. Before ll-init was
  killed once, that is: afterwards a file may say running that is nobody's.
- `OrphansKeptHolds` from `KidInv`: what the application started is ll-init's once the
  application is dead, and none is left where ll-init decides to quit.
- `WakesUpHolds` from `WakeInv`: a dead child that was not reaped has SIGCHLD pending or
  `reap_pending` in progress, in every state and not only at the poll.

`LayerStoreProofs`
- `LayersWholeHolds` and `GcSparesRecordedHolds`, from `LayersInv`, as is the lemma `OneLiveHolds` (one live entry of
  a layer) that `LayerOperationsProofs` rests on. What makes
  an update safe is what comes before and after it in `todo`, so the invariant is about that
  list: only its first entries can be the parts of an import or a removal that has begun, they are
  consecutive and in order, and what was done of them has its effect (`ImportInv`, `RemovalInv`); what a
  clean takes has no entry (`SweepInv`); a rollback begins nothing new (`HolderInv`); the
  deferred loop has the lock and plans nothing against a layer in use, and, as no container is
  recorded without the lock, that stays so (`GcInv`). `HaveInv` is `Complete` in
  the midst of operations, where the one entry being removed may lack its ref.
- `ExportedLiveHolds` from `OrderlyInv`: whatever the rest of an operation takes away is unlinked before
  that, and not linked again in between, or was never linked and will not be; what a rollback takes away, its list
  unlinks first (`UndoInv`). `LinkedInv` excuses the two histories.

`LayerOperationsProofs`, from there
- `MergedCurrentHolds` from `CurrentInv`: a version whose merged directory is not what is installed is
  `Settling`, and the deferred loop, which changes no live entry (`GcDrops`), is not at work (`Settles`). A merge is ahead, with nothing before it that can fail (`MergeSoon`); or it is a job that will merge or
  remove the version, and whose rollback does, too; or that rollback. It holds because what a job brings is
  merged or taken back (`BringInv`), an extra module goes with the main one or a merge follows
  (`ExtraInv`), and a removal that has begun goes on until the version is gone (`GoesOn`).
- `FollowsInstalledHolds`, the two together.
- `BaseThereHolds` from `BaseInv`. While the list may still bring apps, it takes no base away, and every app has its
  base, or comes after it, or is taken back if the base does not come (`Growing`). While it takes bases away, it
  brings no app, and every app has a base that stays (`Shrinking`). An install of a base is of the second kind, as it may
  be taken back, and a prune is the step from the first kind to the second: only merges come after it
  (`Ends`), so nothing is still to come that it did not count. The deferred loop takes no live entry (`GcDrops`).

`BuilderProofs`
- `BuildsSoundHolds` from `IInv`. What a step needs was left by the steps before it, so the invariant is about the
  list of steps. Imports, removals and merges are begun only at its head, in order and with nothing between
  (`Shaped`), and the stages of a build stand in their order (`Ordered`). Who has missed no change and is not writing
  has the file's copy of the list, and the file can be read (`GenInv`). A builder that is alone and writes has torn the
  file, and its copy holds only what is there; it enters a layer whose checkout it has just made, and lists merged
  directories that are there, or will be when those still to be overlaid are. Whatever has a ref has a checkout or is in
  `cut`, and what is being dropped or erased has none: so a list made anew from the refs names what is there, or
  what is excused (`LoneInv`). Nothing of a build that is still to come is in a list, nor is anything
  of it removed by others (`GenInv`, `Apart`). A build first removes what was there of its reference,
  with the commit of all its modules still ahead (`Replaced`); from then on each module is
  listed or still to be imported (`Listed`). What the output still holds and its parts make up what was installed,
  and no two parts meet but with a full develop module (`Parted`). The rules are a list, taken one by one up to the last,
  which takes all that is left (`SplitsList`, `BuildPlaces`).


`ToolsProofs`
- `OrderlyHolds` from `NestInv`: header, loader and container are nested in one another, and so are mount
  and directories, unless SIGKILL came in.
- `ContextSoundHolds` from `ContextInv`: what an initialization has linked and what it has still to
  copy is the base; two that meet are the excuse.
- `SourcesServedHolds` from `CacheInv`: a build finds what it is about to use and has
  somebody to blame for what is not there (`Calm`). That there is always a fresh inode
  (`InodeFree`) is a counting argument over the builders.
- `TypeOKHolds` (of the objects), and `ObjectsWholeHolds` from `StoreInv`: who transfers has the lock
  shared and who prunes has it alone; what a transfer has and what it has still to fetch are
  together all of its commit (`WalkInv`); what a prune has marked holds all that refs
  name (`SweepInv`). A process alone finds again what it fetched (`ReadInv`, `DropInv`),
  which is where the excuses `broken` and `crowd` come in.

`ContainersProofs`, again part by part (run `commands`)
- `LaunchEndsHolds` from `HandsOver`: where parent and child are, and which of the two bytes are under way.
- `SameInsideHolds` from `LaunchInv`: once it is decided, the run context has of each layer what was resolved for it
  (`Ready`), no extension of a layer twice (`Listed`), and what only its package defines has the variables of that
  definition (`Known`), so that looking for the definition again finds the same, whatever the driver
  is by then (`PlainDefinitions`); what the container is configured with is the same set (`AsResolved`).
  `TakeAllKeeps`, `OfIs` and `FlattenIs` say what the folds of `Launch` return.
- `BadPatchIgnoredHolds` from `PatchesInv`. The queue has the global patches first and each of them once
  (`InOrderIs`: files of one kind can be sorted by rank), and what took effect did so in that order
  (`PatchesInOrder`). The configuration has no marks but those of patches that took effect (`ConfigClean`): it is in
  a set of documents that has all members of each of its documents, and no leaf with another mark (`Closed`). Every operation leads from
  such a set to such a set (`OperationClean`), be it at the end of a path of any length (`WithinClean`, by the
  containers on the way), and so does a list of them (`PatchClean`). What `Finalize` starts has the process of
  `ProcessIs`; when it does not, the configuration is not the one that was built.
- `RootKeptHolds`, `SeenAsIsHolds` from `BoxInv`: a container has one run that is not gone (`Single`), whose root
  is mounted where it needs it (`Rooted`); pids of living processes are distinct and belong
  to runs (`Owned`); a pid stands for one container in every file, root process and runtime
  (`Tied`); the file of a run is there from its record to its end, and is the only one of its container (`Filed`).

Each proof has a lemma for the initial states, one for the step with a case per action,
and a theorem that combines them. Each inductive invariant was checked by TLC on the instances first.

Only model-checked:
- the liveness properties, `DeferredCollected` among them: fairness and ENABLED are out of the provers' reach;
- `AsAsked`, which speaks of the paths and variables that the code names, and holds for hosts and requests that
  are like those of the run, not for all values of the constants;
- `PackagesTrue`: an invariant over the cells of a file at each stage of its export and installation, not attempted.

Folds are proved about from their definition: `FoldLeft` chooses a function over the subsets of the positions, each
value of which is made from that of the set without its last member. Such a function exists over a
finite set (`FoldThere`), and what all its values have in common is proved by a smallest
set that lacks it (`MinimalSet`). No operator is a parameter of any of these
lemmas: what a fold does at each place is a function, or a record that says which operator is applied (`Stepped`).

No module has a recursive operator.

## 6. Mutants

Each property comes with a plausible bug it must catch, kept in the module next to the
definition it would replace and marked `Mutant:`; `PROJECT.json` pairs them. They are no
part of any specification.

## 7. Plan

Done: the modules above, with `TaskPromise` as the abstract specification of the task queue
and the proof that `TaskService` implements it, and proofs of the safety of tasks and their clients,
the lock, entries and configuration of the repository, containers, layers, objects, builds, tools, starts, versions, patches, drivers and
running containers. What is left, in order of
importance:

1. An abstract readers-writer lock that `RepoLock` with one thread per process implements, and
   an atomic package store (installed, in use, waiting) that `LayerStore` implements between
   operations.
2. The progress setters of a task and the order of the snapshots a client gets.
3. `RunningContainers` composed with `ContainerSession` and the deferred loop of `LayerStore`.
4. Runtimes and extensions in `LayerStore`.

## 8. Not modelled, and why

The map covers the code in which an order, a failure or a second actor matters. Most of the
lines of this repository are of another kind, and a model of them would be the
text again:

- the command line and output of ll-cli and ll-builder (`cli11.rs`, `analysis.rs`, the tables and help
  texts of `main.rs`): parsing and formatting, one call at a time; and the queries that only read;
- of the container configuration: capabilities, masked paths, the Wayland security context, the
  field codes of desktop entries: functions from options to text, without state;
- the layout of other files: tar headers (`tar.rs`), EROFS images (`readonly_fs.rs`, the tool
  that makes them is external), the texts parsed in `debian_source.rs`: read or written in one pass by
  one process. That an import or a fetch fails half-way is in `LayerStore`, `ObjectStore` and
  `SourceCache`. Of an export, the assembly of the image under `.uabBuild` is a step that works or fails,
  of exports that run in directories of their own: in one directory each would clear the other's;
- HTTP requests, sign-in and uploads (`remote.rs`, `push.rs`): their outcome is kept;
- channels and architectures of references, and their text forms (`reference.rs`,
  `architecture.rs`): total functions over strings; a module is about one channel and one
  architecture;
- sign data of layers, and the migration of caches of older programs;
- `runtime_paths.rs`, `shared_fs.rs`, `tls.rs`: lookups and wrappers around system calls. That
  `shared_fs` writes in place is in `LayerStore`, `RepoConfig` and `RunningContainers`;
- data types and catalogues (`linyaps-api`, `linyaps-i18n`), the system helper: sequential programs
  around external commands, and the post-processing of a build (`postprocess.rs`), which
  strips and rewrites files in one pass;
- runtimes and extensions in `LayerStore`, which are installed and pruned like a base; polkit
  and the hooks, which are one query and some command lines at fixed points.

The share of the implementation that is mapped is bounded by this, not by what was looked at.
Vendored crates are outside; ostree, zbus, the kernel's record locks and `async_lock`
appear as their users rely on them, and the map marks them external.
