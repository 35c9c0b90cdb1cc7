----------------------------- MODULE TaskClient -----------------------------
(***************************************************************************)
(* ll-cli and the task it has the package manager do for it: run_task of   *)
(* PackageManagerAsyncClient (crates/linyaps-dbus/src/package_manager.rs), *)
(* composed with the task objects of module TaskService, whose every step  *)
(* is taken by the actions of that module.                                 *)
(*                                                                         *)
(* A client has one task.  It asks for it in a method call, subscribes to  *)
(* three signals of the object it got, one after the other, calls Start    *)
(* and polls the three streams until TaskFinished.  The daemon is on the   *)
(* system bus, or a process of the client's own (--no-dbus) that serves    *)
(* one connection (apps/ll-cli/src/main.rs, ll-package-manager/main.rs).   *)
(***************************************************************************)
EXTENDS TaskService

CONSTANT Groups \* the clients that may be on the system bus at the same time

ASSUME ClientAssumption == /\ Groups \subseteq SUBSET Tasks
                           /\ \A S \in Groups : Cardinality(Calls) >= Cardinality(S)

VARIABLES
    peer,    \* the daemon was spawned with --no-dbus
    daemon,  \* "new", "bound" to its socket, "up" or "down"
    at,      \* where each client is
    subs,    \* the signals each client is subscribed to
    inbox,   \* the three streams: what was delivered and not yet polled
    outcome, \* what run_task returned
    shown,   \* the last state the client printed
    missed,  \* history: the signals sent before their subscription
    ended    \* history: how the job of each task returned

client  == <<peer, daemon, at, subs, inbox, outcome, shown, missed, ended>>
allVars == <<vars, client>>

ClientPcs == {"none", "dial", "hello", "sub_finished", "sub_asks", "sub_events", "start",
              "starting", "poll", "prompt", "replying", "done"}
Streams   == [finished: Seq(Outcomes), asks: Seq(Asks), events: Seq(States)]
NoMail    == [finished |-> <<>>, asks |-> <<>>, events |-> <<>>]

Present(t) == at[t] # "none"

\* A search or an operation is registered by the method that answered with
\* its path: Search, Install, InstallFromFile, Uninstall, Update, Prune and
\* InitRunContext differ in the queue and the job.  A peer has one client.
ClientInit ==
    /\ peer \in BOOLEAN
    /\ daemon = IF peer THEN "new" ELSE "up"
    /\ \E S \in IF peer THEN {{t} : t \in Tasks} ELSE Groups :
         at = [t \in Tasks |-> IF t \notin S THEN "none"
                               ELSE IF peer THEN "dial" ELSE "sub_finished"]
    /\ subs = [t \in Tasks |-> {}]
    /\ inbox = [t \in Tasks |-> NoMail]
    /\ outcome = [t \in Tasks |-> "none"]
    /\ shown = [t \in Tasks |-> "Pending"]
    /\ missed = [t \in Tasks |-> {}]
    /\ ended = [t \in Tasks |-> "none"]

Leave(t, o) == /\ at' = [at EXCEPT ![t] = "done"]
               /\ outcome' = [outcome EXCEPT ![t] = o]

-----------------------------------------------------------------------------
(* The peer: the child binds its socket and accepts for 10 s, the client   *)
(* dials 50 times in 10 s; a spawned daemon registers nothing before.      *)

Bind ==
    /\ daemon = "new"
    /\ daemon' = "bound"
    /\ UNCHANGED <<vars, peer, at, subs, inbox, outcome, shown, missed, ended>>

\* connect succeeds as soon as the socket is bound, accepted or not.
Dial(t) ==
    /\ at[t] = "dial" /\ daemon = "bound"
    /\ at' = [at EXCEPT ![t] = "hello"]
    /\ UNCHANGED <<vars, peer, daemon, subs, inbox, outcome, shown, missed, ended>>

\* The listener is dropped after one connection.
Accept(t) ==
    /\ at[t] = "hello" /\ daemon = "bound"
    /\ daemon' = "up"
    /\ UNCHANGED <<vars, peer, at, subs, inbox, outcome, shown, missed, ended>>

\* The handshake and configuration() were answered, and so was the method.
Hello(t) ==
    /\ at[t] = "hello" /\ daemon = "up"
    /\ at' = [at EXCEPT ![t] = "sub_finished"]
    /\ UNCHANGED <<vars, peer, daemon, subs, inbox, outcome, shown, missed, ended>>

\* Nobody was there at the deadline: the daemon returns, and so does the
\* client, whose connection is dropped or refused.
Deadline ==
    /\ daemon \in {"new", "bound"}
    /\ daemon' = "down"
    /\ UNCHANGED <<vars, peer, at, subs, inbox, outcome, shown, missed, ended>>

\* The 50th dial failed, or the child was seen to have exited.
GiveUp(t) ==
    /\ at[t] = "dial" \/ (at[t] = "hello" /\ daemon = "down")
    /\ Leave(t, "error")
    /\ UNCHANGED <<vars, peer, daemon, subs, inbox, shown, missed, ended>>

\* connection.closed(): the process ends with whatever was running in it.
PeerExits ==
    /\ peer /\ daemon = "up"
    /\ \A t \in Tasks : Present(t) => t \notin connected
    /\ daemon' = "down"
    /\ UNCHANGED <<vars, peer, at, subs, inbox, outcome, shown, missed, ended>>

\* The daemon is killed.
Killed ==
    /\ daemon = "up"
    /\ daemon' = "down"
    /\ UNCHANGED <<vars, peer, at, subs, inbox, outcome, shown, missed, ended>>

-----------------------------------------------------------------------------
(* The daemon goes on, and its signals are delivered in the order they     *)
(* were sent to the streams that exist.                                    *)

\* The signals a step of process p on task t sends.
Events(p) ==
    IF pc[p] = "start_event" /\ pc'[p] = "enqueue" THEN <<"Queued">>
    ELSE IF pc[p] = "process" THEN <<"Processing">>
    ELSE IF pc[p] = "job_state" THEN <<result[p]>> ELSE <<>>
Question(p) == IF pc[p] = "ask_open" /\ pc'[p] = "ask_wait" THEN <<msg[p].id>> ELSE <<>>
Last(t)     == IF signals'[t] # signals[t] THEN <<signals'[t][Len(signals'[t])]>> ELSE <<>>

Deliver(t, p) ==
    LET sent == [finished |-> Last(t), asks |-> Question(p), events |-> Events(p)]
        kept == [s \in DOMAIN sent |-> IF s \in subs[t] THEN sent[s] ELSE <<>>] IN
    IF at[t] = "done" THEN UNCHANGED <<inbox, missed>> ELSE
    /\ inbox' = [inbox EXCEPT ![t] = [s \in DOMAIN sent |-> @[s] \o kept[s]]]
    /\ missed' = [missed EXCEPT ![t] = @ \cup {s \in DOMAIN sent : kept[s] # sent[s]}]

\* The call of a client returns when its handler does, in error when the
\* interaction was not active any more or nothing waits for the answer.
Refused(c) ==
    \/ pc[c] = "reply"
    \/ pc[c] = "reply_send" /\ chan[on[c]][msg[c].id] # "open"
    \/ pc[c] = "start_event"

Serve(c) ==
    LET t == on[c] IN
    /\ daemon = "up" /\ Handler(c) /\ Deliver(t, c)
    /\ IF pc'[c] # "idle" THEN UNCHANGED <<at, outcome>>
       ELSE IF at[t] = "done" THEN UNCHANGED <<at, outcome>>
       ELSE IF Refused(c) THEN Leave(t, "error")
       ELSE at' = [at EXCEPT ![t] = "poll"] /\ UNCHANGED outcome
    /\ UNCHANGED <<peer, daemon, subs, shown, ended>>

\* The watcher of an owner, which only the bus has, and the 25 ms timer.
Spontaneous(p) ==
    /\ daemon = "up" /\ on[p] # NoTask /\ Present(on[p]) /\ at[on[p]] \notin {"dial", "hello"}
    /\ p = Watcher(on[p]) => ~peer
    /\ Handler(p) /\ Deliver(on[p], p)
    /\ UNCHANGED <<peer, daemon, at, subs, outcome, shown, ended>>

\* Searches ask nothing.
Work(w) ==
    LET t == on[w] IN
    /\ daemon = "up" /\ Worker(w)
    /\ pc'[w] = "ask_open" => t \notin QueuedTasks
    /\ IF t = NoTask THEN UNCHANGED <<inbox, missed>> ELSE Deliver(t, w)
    /\ ended' = IF pc[w] = "job" /\ pc'[w] = "job_lower"
                THEN [ended EXCEPT ![t] = result'[w]] ELSE ended
    /\ UNCHANGED <<peer, daemon, at, subs, outcome, shown>>

-----------------------------------------------------------------------------
(* run_task.                                                               *)

\* Mutant: the end of a stream is taken for an empty one.
BrokenUnseen(t) ==
    /\ daemon = "down"
    /\ at[t] \in {"start", "starting", "replying", "sub_finished", "sub_asks", "sub_events"}
    /\ Leave(t, "error")
    /\ UNCHANGED <<vars, peer, daemon, subs, inbox, shown, missed, ended>>

\* A call of a bus client to a daemon that died is answered with an error by
\* the bus; the streams of a peer end.
Broken(t) ==
    /\ daemon = "down"
    /\ \/ at[t] \in {"start", "starting", "replying", "sub_finished", "sub_asks", "sub_events"}
       \/ at[t] = "poll" /\ peer
    /\ Leave(t, "error")
    /\ UNCHANGED <<vars, peer, daemon, subs, inbox, shown, missed, ended>>

Subscribe(t, s, l, m) ==
    /\ at[t] = l /\ daemon = "up"
    /\ subs' = [subs EXCEPT ![t] = @ \cup {s}]
    /\ at' = [at EXCEPT ![t] = m]
    /\ UNCHANGED <<vars, peer, daemon, inbox, outcome, shown, missed, ended>>

SubscribeFinished(t) == Subscribe(t, "finished", "sub_finished", "sub_asks")
SubscribeAsks(t)     == Subscribe(t, "asks", "sub_asks", "sub_events")
SubscribeEvents(t)   == Subscribe(t, "events", "sub_events", "start")

CallsStart(t) ==
    /\ at[t] = "start" /\ daemon = "up"
    /\ \E c \in Calls : CallStart(c, t)
    /\ at' = [at EXCEPT ![t] = "starting"]
    /\ UNCHANGED <<peer, daemon, subs, inbox, outcome, shown, missed, ended>>

\* The object is gone: a search finished before its client came to Start.
NoObject(t) ==
    /\ at[t] = "start" /\ daemon = "up" /\ t \notin objects
    /\ Leave(t, "error")
    /\ UNCHANGED <<vars, peer, daemon, subs, inbox, shown, missed, ended>>

\* The biased poll looks at interactions, events and TaskFinished in turn, not
\* at once: any stream with something in it may be the one found ready.
PollAsk(t) ==
    /\ at[t] = "poll" /\ inbox[t].asks # <<>>
    /\ at' = [at EXCEPT ![t] = "prompt"]
    /\ UNCHANGED <<vars, peer, daemon, subs, inbox, outcome, shown, missed, ended>>

PollEvent(t) ==
    /\ at[t] = "poll" /\ inbox[t].events # <<>>
    /\ shown' = [shown EXCEPT ![t] = Head(inbox[t].events)]
    /\ inbox' = [inbox EXCEPT ![t].events = Tail(@)]
    /\ UNCHANGED <<vars, peer, daemon, at, subs, outcome, missed, ended>>

\* TaskFinished: the events still queued are shown, and run_task returns.
PollFinished(t) ==
    LET left == inbox[t].events IN
    /\ at[t] = "poll" /\ inbox[t].finished # <<>>
    /\ shown' = IF left = <<>> THEN shown ELSE [shown EXCEPT ![t] = left[Len(left)]]
    /\ inbox' = [inbox EXCEPT ![t].events = <<>>]
    /\ Leave(t, Head(inbox[t].finished))
    /\ UNCHANGED <<vars, peer, daemon, subs, missed, ended>>

\* Mutant: a no is sent as a Cancel.
AnswerCancels(t) ==
    /\ at[t] = "prompt" /\ daemon = "up"
    /\ \E c \in Calls : CallReply(c, t, Head(inbox[t].asks), TRUE) \/ CallCancel(c, t)
    /\ inbox' = [inbox EXCEPT ![t].asks = Tail(@)]
    /\ at' = [at EXCEPT ![t] = "replying"]
    /\ UNCHANGED <<peer, daemon, subs, outcome, shown, missed, ended>>

\* The handler answers, however long it takes; the reply is a call.
Answer(t) ==
    LET i == Head(inbox[t].asks) IN
    /\ at[t] = "prompt" /\ daemon = "up"
    /\ \E c \in Calls, b \in BOOLEAN : CallReply(c, t, i, b)
    /\ inbox' = [inbox EXCEPT ![t].asks = Tail(@)]
    /\ at' = [at EXCEPT ![t] = "replying"]
    /\ UNCHANGED <<peer, daemon, subs, outcome, shown, missed, ended>>

\* The object went with its task while the handler was asking, or the daemon.
AnswerLate(t) ==
    /\ at[t] = "prompt" /\ (t \notin objects \/ daemon = "down")
    /\ Leave(t, "error")
    /\ UNCHANGED <<vars, peer, daemon, subs, inbox, shown, missed, ended>>

\* The process ends: it returned, or was interrupted.
ClientExits(t) ==
    /\ Present(t) /\ OwnerLeaves(t)
    /\ at' = [at EXCEPT ![t] = "done"]
    /\ inbox' = [inbox EXCEPT ![t] = NoMail]
    /\ UNCHANGED <<peer, daemon, subs, outcome, shown, missed, ended>>

RunTask(t) ==
    \/ Dial(t) \/ Hello(t) \/ GiveUp(t) \/ Broken(t)
    \/ SubscribeFinished(t) \/ SubscribeAsks(t) \/ SubscribeEvents(t)
    \/ CallsStart(t) \/ NoObject(t)
    \/ PollAsk(t) \/ PollEvent(t) \/ PollFinished(t) \/ Answer(t) \/ AnswerLate(t)

Daemon(p) == IF p \in Calls THEN Serve(p) ELSE IF p \in Workers THEN Work(p) ELSE Spontaneous(p)

ClientNext ==
    \/ \E t \in Tasks : RunTask(t) \/ Accept(t) \/ ClientExits(t)
    \/ \E p \in Procs : Daemon(p)
    \/ Bind \/ Deadline \/ PeerExits \/ Killed

\* A client that has its answer exits; the daemon's deadline passes.
ClientFairness ==
    /\ \A t \in Tasks : WF_allVars(RunTask(t)) /\ WF_allVars(at[t] = "done" /\ ClientExits(t))
    /\ \A p \in Procs : WF_allVars(Daemon(p))
    /\ WF_allVars(Bind \/ Deadline \/ \E t \in Tasks : Accept(t))
    /\ WF_allVars(PeerExits)

ClientSpec     == Init /\ ClientInit /\ [][ClientNext]_allVars
FairClientSpec == ClientSpec /\ ClientFairness

-----------------------------------------------------------------------------
(* Properties.                                                             *)

\* A client is told how its own job ended, and not before it has: no signal of
\* another task, no cancellation and no disconnection is taken for the end.
Told == \A t \in Tasks : outcome[t] \in Outcomes => ended[t] = outcome[t] /\ ~Running(t)

\* The last state printed is the outcome, although states and the outcome come
\* in different streams; unless a search was done before its client listened.
Shown ==
    \A t \in Tasks : outcome[t] \in Outcomes /\ missed[t] = {} => shown[t] = outcome[t]

\* What a client is told is true: how its job ended, and what is shown last.
Informed == Told /\ Shown

\* run_task returns: whatever the daemon does to a peer, and on the bus as
\* long as it lives; but a search may be over before its client listens.
Returns ==
    \A t \in Tasks : Present(t) ~> \/ at[t] = "done"
                                   \/ daemon = "down" /\ ~peer
                                   \/ t \in QueuedTasks /\ "finished" \in missed[t]

\* A peer ends with its client, or with the dial of a client that gave up.
PeerEnds ==
    peer /\ (\A t \in Tasks : Present(t) => at[t] = "done") ~> daemon = "down"

\* Neither a client nor a daemon of its own is left waiting for the other.
ClientEnds == Returns /\ PeerEnds
=============================================================================
