---------------------------- MODULE TaskService ----------------------------
(***************************************************************************)
(* The task objects the package manager daemon exports on D-Bus, and the   *)
(* queue their jobs run in (crates/linyaps-dbus/src/task.rs).              *)
(*                                                                         *)
(* A TaskService carries flags (started, running, canceled, finished), a   *)
(* mutex-protected snapshot and a job.  D-Bus methods, the owner watcher,  *)
(* the activation timer and the queue worker run as parallel tasks of a    *)
(* multi-threaded executor, so one step of this module is one access to an *)
(* atomic flag or one critical section; everything between two of them is  *)
(* a possible interleaving.                                                *)
(***************************************************************************)
EXTENDS Naturals, Sequences, FiniteSets

CONSTANTS
    Tasks,        \* the task objects of one TaskQueue
    QueuedTasks,  \* those created Queued: all in the queue of the searches, none
                  \* in that of the operations, which are created Pending
    OwnedTasks,   \* those whose owner is still on the bus once registered
    Calls,        \* D-Bus method calls that can be in progress at once
    Workers,      \* executor slots for TaskQueue::run
    NoTask,       \* where an idle process is
    MaxAsks,      \* bound: interactions one job opens
    EmitMayFail,  \* a signal may fail to be sent
    JobMayPanic   \* a job may unwind its worker

ASSUME TaskAssumption == /\ NoTask \notin Tasks
                         /\ QueuedTasks \subseteq Tasks
                         /\ OwnedTasks \subseteq Tasks
                         /\ MaxAsks \in Nat
                         /\ EmitMayFail \in BOOLEAN
                         /\ JobMayPanic \in BOOLEAN

\* The watcher and the timer of a task are processes of their own.
Watcher(t) == <<"watcher", t>>
Timer(t)   == <<"timer", t>>
Agents     == {Watcher(t) : t \in Tasks} \cup {Timer(t) : t \in Tasks}
Handlers   == Calls \cup Agents
Procs      == Handlers \cup Workers

ASSUME ProcAssumption == /\ Handlers \cap Workers = {}
                         /\ Calls \cap Agents = {}

States   == {"Pending", "Queued", "Processing", "Canceled", "Failed", "Succeed"}
Outcomes == {"Canceled", "Failed", "Succeed"}
Asks     == 1..MaxAsks

VARIABLES
    task,     \* TaskInner: the snapshot's state, the job and the four flags
    asks,     \* TaskInner.interactions: the ids a reply can still name
    chan,     \* the one-slot channel of each interaction
    queue,    \* TaskQueueInner: pending and running
    objects,  \* the tasks the object server still exports
    connected,\* the tasks whose owner is on the bus
    pc, on,   \* where each process is, and the task it works on
    msg,      \* a reply being delivered, or a worker's interaction
    result,   \* what the job of a worker returned
    signals,  \* the TaskFinished signals sent for each task
    yes,      \* history: the interactions the client granted
    granted   \* history: the interactions the job saw granted

vars == <<task, asks, chan, queue, objects, connected, pc, on, msg, result,
          signals, yes, granted>>

TaskInner == [state: States, job: BOOLEAN, started: BOOLEAN,
              running: BOOLEAN, canceled: BOOLEAN, finished: BOOLEAN]

StartPcs  == {"start", "start_event", "timer", "enqueue", "enqueue_finished",
              "push", "spawn"}
CancelPcs == {"cancel", "cancel_flag", "cancel_clear", "cancel_state",
              "cancel_running", "cancel_swap", "cancel_signal"}
GonePcs   == {"gone", "gone_read", "gone_swap", "gone_flag", "gone_state",
              "gone_signal", "gone_remove"}
ReplyPcs  == {"reply", "reply_send"}
JobPcs    == {"process", "job", "ask_open", "ask_wait", "ask_close"}
RunPcs    == {"pop", "check", "raise", "recheck", "lower", "take", "job_lower",
              "job_swap", "job_canceled", "job_state", "job_signal",
              "job_signal_canceled", "remove"} \cup JobPcs
Pcs       == {"idle", "dead"} \cup StartPcs \cup CancelPcs \cup GonePcs
             \cup ReplyPcs \cup RunPcs

NoMsg    == [id |-> 0, yes |-> FALSE]
Messages == [id: 0..MaxAsks, yes: BOOLEAN]

\* TaskService::with_state: one object per task, registered and watched.
InitInner(t) == [state |-> IF t \in QueuedTasks THEN "Queued" ELSE "Pending",
                 job |-> TRUE, started |-> FALSE, running |-> FALSE,
                 canceled |-> FALSE, finished |-> FALSE]

Init ==
    /\ task = [t \in Tasks |-> InitInner(t)]
    /\ asks = [t \in Tasks |-> {}]
    /\ chan = [t \in Tasks |-> [i \in Asks |-> "none"]]
    /\ queue = [pending |-> <<>>, running |-> FALSE]
    /\ objects = Tasks
    /\ connected = OwnedTasks
    /\ pc = [p \in Procs |->
               IF \E t \in Tasks : p = Watcher(t) THEN "gone"
               ELSE IF \E t \in QueuedTasks : p = Timer(t) THEN "timer" ELSE "idle"]
    /\ on = [p \in Procs |-> IF p \in Agents THEN p[2] ELSE NoTask]
    /\ msg = [p \in Procs |-> NoMsg]
    /\ result = [w \in Workers |-> "Failed"]
    /\ signals = [t \in Tasks |-> <<>>]
    /\ yes = [t \in Tasks |-> {}]
    /\ granted = [t \in Tasks |-> {}]

-----------------------------------------------------------------------------
Goto(p, l) == pc' = [pc EXCEPT ![p] = l]

\* A handler ends; nothing of its locals survives.
Return(p) == /\ pc' = [pc EXCEPT ![p] = "idle"]
             /\ on' = [on EXCEPT ![p] = NoTask]
             /\ msg' = [msg EXCEPT ![p] = NoMsg]

Finish(t, o) == signals' = [signals EXCEPT ![t] = Append(@, o)]

\* The owner drops off the bus: no new call of its is accepted.
OwnerLeaves(t) ==
    /\ t \in connected
    /\ connected' = connected \ {t}
    /\ UNCHANGED <<task, asks, chan, queue, objects, pc, on, msg, result, signals, yes, granted>>

\* The object server looks the object up and starts the method's own task;
\* authorize_caller lets only the owner through.
Dispatch(c, t, l) ==
    /\ pc[c] = "idle" /\ t \in connected \cap objects
    /\ Goto(c, l)
    /\ on' = [on EXCEPT ![c] = t]
    /\ UNCHANGED <<task, asks, chan, queue, objects, connected, result, signals, yes, granted>>

CallStart(c, t)  == Dispatch(c, t, "start") /\ UNCHANGED msg
CallCancel(c, t) == Dispatch(c, t, "cancel") /\ UNCHANGED msg
CallReply(c, t, i, b) ==
    /\ chan[t][i] # "none"
    /\ Dispatch(c, t, "reply")
    /\ msg' = [msg EXCEPT ![c] = [id |-> i, yes |-> b]]

-----------------------------------------------------------------------------
(* Start, and the activation timer of a search.                            *)

\* start: Pending becomes Queued under the state mutex; Queued goes straight
\* to enqueue; any other state returns.
Start(p) ==
    LET t == on[p] IN
    /\ pc[p] = "start"
    /\ \/ /\ task[t].state = "Pending"
          /\ task' = [task EXCEPT ![t].state = "Queued"]
          /\ Goto(p, "start_event")
          /\ UNCHANGED <<on, msg>>
       \/ /\ task[t].state = "Queued"
          /\ Goto(p, "enqueue")
          /\ UNCHANGED <<task, on, msg>>
       \/ /\ task[t].state \notin {"Pending", "Queued"}
          /\ Return(p)
          /\ UNCHANGED task
    /\ UNCHANGED <<asks, chan, queue, objects, connected, result, signals, yes, granted>>

\* The Queued event; a failed send makes Start return before the enqueue.
StartEvent(p) ==
    /\ pc[p] = "start_event"
    /\ \/ Goto(p, "enqueue") /\ UNCHANGED <<on, msg>>
       \/ EmitMayFail /\ Return(p)
    /\ UNCHANGED <<task, asks, chan, queue, objects, connected, result, signals, yes, granted>>

\* enqueue_queued, 25 ms after a search was registered.
TimerFires(p) ==
    /\ pc[p] = "timer"
    /\ \/ task[on[p]].state = "Queued" /\ Goto(p, "enqueue") /\ UNCHANGED <<on, msg>>
       \/ task[on[p]].state # "Queued" /\ Return(p)
    /\ UNCHANGED <<task, asks, chan, queue, objects, connected, result, signals, yes, granted>>

\* enqueue: started.swap(true), then finished.load.
EnqueueStarted(p) ==
    LET t == on[p] IN
    /\ pc[p] = "enqueue"
    /\ task' = [task EXCEPT ![t].started = TRUE]
    /\ \/ task[t].started /\ Return(p)
       \/ ~task[t].started /\ Goto(p, "enqueue_finished") /\ UNCHANGED <<on, msg>>
    /\ UNCHANGED <<asks, chan, queue, objects, connected, result, signals, yes, granted>>

EnqueueFinished(p) ==
    /\ pc[p] = "enqueue_finished"
    /\ \/ task[on[p]].finished /\ Return(p)
       \/ ~task[on[p]].finished /\ Goto(p, "push") /\ UNCHANGED <<on, msg>>
    /\ UNCHANGED <<task, asks, chan, queue, objects, connected, result, signals, yes, granted>>

\* Mutant: the running flag is set and not consulted.
PushAlways(p) ==
    /\ pc[p] = "push"
    /\ queue' = [pending |-> Append(queue.pending, on[p]), running |-> TRUE]
    /\ Goto(p, "spawn") /\ UNCHANGED <<on, msg>>
    /\ UNCHANGED <<task, asks, chan, objects, connected, result, signals, yes, granted>>

\* TaskQueue::enqueue: push, and claim the worker, in one critical section.
Push(p) ==
    /\ pc[p] = "push"
    /\ queue' = [pending |-> Append(queue.pending, on[p]), running |-> TRUE]
    /\ \/ queue.running /\ Return(p)
       \/ ~queue.running /\ Goto(p, "spawn") /\ UNCHANGED <<on, msg>>
    /\ UNCHANGED <<task, asks, chan, objects, connected, result, signals, yes, granted>>

\* The claimed worker is spawned on the executor.
Spawn(p) ==
    /\ pc[p] = "spawn"
    /\ \E w \in Workers :
         /\ pc[w] = "idle"
         /\ pc' = [pc EXCEPT ![p] = "idle", ![w] = "pop"]
    /\ on' = [on EXCEPT ![p] = NoTask]
    /\ msg' = [msg EXCEPT ![p] = NoMsg]
    /\ UNCHANGED <<task, asks, chan, queue, objects, connected, result, signals, yes, granted>>

-----------------------------------------------------------------------------
(* Cancel.                                                                 *)

CancelEnter(p) ==
    /\ pc[p] = "cancel"
    /\ \/ task[on[p]].finished /\ Return(p)
       \/ ~task[on[p]].finished /\ Goto(p, "cancel_flag") /\ UNCHANGED <<on, msg>>
    /\ UNCHANGED <<task, asks, chan, queue, objects, connected, result, signals, yes, granted>>

CancelFlag(p) ==
    /\ pc[p] = "cancel_flag"
    /\ task' = [task EXCEPT ![on[p]].canceled = TRUE]
    /\ Goto(p, "cancel_clear")
    /\ UNCHANGED <<asks, chan, queue, objects, connected, on, msg, result, signals, yes, granted>>

CancelClear(p) ==
    /\ pc[p] = "cancel_clear"
    /\ asks' = [asks EXCEPT ![on[p]] = {}]
    /\ Goto(p, "cancel_state")
    /\ UNCHANGED <<task, chan, queue, objects, connected, on, msg, result, signals, yes, granted>>

\* set_state, then the event: a failed send leaves with an error.
CancelState(p) ==
    /\ pc[p] = "cancel_state"
    /\ task' = [task EXCEPT ![on[p]].state = "Canceled"]
    /\ \/ Goto(p, "cancel_running") /\ UNCHANGED <<on, msg>>
       \/ EmitMayFail /\ Return(p)
    /\ UNCHANGED <<asks, chan, queue, objects, connected, result, signals, yes, granted>>

\* A running task is left for its worker to finish.
CancelRunning(p) ==
    /\ pc[p] = "cancel_running"
    /\ \/ task[on[p]].running /\ Return(p)
       \/ ~task[on[p]].running /\ Goto(p, "cancel_swap") /\ UNCHANGED <<on, msg>>
    /\ UNCHANGED <<task, asks, chan, queue, objects, connected, result, signals, yes, granted>>

\* Mutant: finished is stored, not swapped.
CancelSwapStore(p) ==
    /\ pc[p] = "cancel_swap"
    /\ task' = [task EXCEPT ![on[p]].finished = TRUE]
    /\ Goto(p, "cancel_signal") /\ UNCHANGED <<on, msg>>
    /\ UNCHANGED <<asks, chan, queue, objects, connected, result, signals, yes, granted>>

CancelSwap(p) ==
    LET t == on[p] IN
    /\ pc[p] = "cancel_swap"
    /\ task' = [task EXCEPT ![t].finished = TRUE]
    /\ \/ task[t].finished /\ Return(p)
       \/ ~task[t].finished /\ Goto(p, "cancel_signal") /\ UNCHANGED <<on, msg>>
    /\ UNCHANGED <<asks, chan, queue, objects, connected, result, signals, yes, granted>>

\* Mutant: the cancellation is reported with the code of an error.
CancelSignalFailed(p) ==
    /\ pc[p] = "cancel_signal"
    /\ \/ Finish(on[p], "Failed")
       \/ EmitMayFail /\ UNCHANGED signals
    /\ Return(p)
    /\ UNCHANGED <<task, asks, chan, queue, objects, connected, result, yes, granted>>

CancelSignal(p) ==
    /\ pc[p] = "cancel_signal"
    /\ \/ Finish(on[p], "Canceled")
       \/ EmitMayFail /\ UNCHANGED signals
    /\ Return(p)
    /\ UNCHANGED <<task, asks, chan, queue, objects, connected, result, yes, granted>>

-----------------------------------------------------------------------------
(* caller_disconnected, run once by the watcher of the task.               *)

OwnerGone(p) ==
    /\ pc[p] = "gone" /\ on[p] \notin connected
    /\ asks' = [asks EXCEPT ![on[p]] = {}]
    /\ Goto(p, "gone_read")
    /\ UNCHANGED <<task, chan, queue, objects, connected, on, msg, result, signals, yes, granted>>

\* should_cancel is read under the mutex and used after its release.
GoneRead(p) ==
    /\ pc[p] = "gone_read"
    /\ \/ task[on[p]].state = "Pending" /\ Goto(p, "gone_swap") /\ UNCHANGED <<on, msg>>
       \/ task[on[p]].state # "Pending" /\ Return(p)
    /\ UNCHANGED <<task, asks, chan, queue, objects, connected, result, signals, yes, granted>>

GoneSwap(p) ==
    LET t == on[p] IN
    /\ pc[p] = "gone_swap"
    /\ task' = [task EXCEPT ![t].finished = TRUE]
    /\ \/ task[t].finished /\ Return(p)
       \/ ~task[t].finished /\ Goto(p, "gone_flag") /\ UNCHANGED <<on, msg>>
    /\ UNCHANGED <<asks, chan, queue, objects, connected, result, signals, yes, granted>>

GoneFlag(p) ==
    /\ pc[p] = "gone_flag"
    /\ task' = [task EXCEPT ![on[p]].canceled = TRUE]
    /\ Goto(p, "gone_state")
    /\ UNCHANGED <<asks, chan, queue, objects, connected, on, msg, result, signals, yes, granted>>

GoneState(p) ==
    /\ pc[p] = "gone_state"
    /\ task' = [task EXCEPT ![on[p]].state = "Canceled"]
    /\ Goto(p, "gone_signal")
    /\ UNCHANGED <<asks, chan, queue, objects, connected, on, msg, result, signals, yes, granted>>

GoneSignal(p) ==
    /\ pc[p] = "gone_signal"
    /\ \/ Finish(on[p], "Canceled")
       \/ EmitMayFail /\ UNCHANGED signals
    /\ Goto(p, "gone_remove")
    /\ UNCHANGED <<task, asks, chan, queue, objects, connected, on, msg, result, yes, granted>>

GoneRemove(p) ==
    /\ pc[p] = "gone_remove"
    /\ objects' = objects \ {on[p]}
    /\ Return(p)
    /\ UNCHANGED <<task, asks, chan, queue, connected, result, signals, yes, granted>>

-----------------------------------------------------------------------------
(* ReplyInteraction: remove the sender, then send on it.                   *)

\* An id that is not active is refused.
Reply(p) ==
    LET t == on[p] IN
    /\ pc[p] = "reply"
    /\ \/ /\ msg[p].id \in asks[t]
          /\ asks' = [asks EXCEPT ![t] = @ \ {msg[p].id}]
          /\ yes' = IF msg[p].yes THEN [yes EXCEPT ![t] = @ \cup {msg[p].id}] ELSE yes
          /\ Goto(p, "reply_send")
          /\ UNCHANGED <<on, msg>>
       \/ /\ msg[p].id \notin asks[t]
          /\ Return(p)
          /\ UNCHANGED <<asks, yes>>
    /\ UNCHANGED <<task, chan, queue, objects, connected, result, signals, granted>>

\* try_send fails when the job has dropped its receiver.
ReplySend(p) ==
    LET t == on[p]
        i == msg[p].id IN
    /\ pc[p] = "reply_send"
    /\ chan' = IF chan[t][i] = "open"
               THEN [chan EXCEPT ![t][i] = IF msg[p].yes THEN "yes" ELSE "no"]
               ELSE chan
    /\ Return(p)
    /\ UNCHANGED <<task, asks, queue, objects, connected, result, signals, yes, granted>>

Handler(p) ==
    \/ Start(p) \/ StartEvent(p) \/ TimerFires(p)
    \/ EnqueueStarted(p) \/ EnqueueFinished(p) \/ Push(p) \/ Spawn(p)
    \/ CancelEnter(p) \/ CancelFlag(p) \/ CancelClear(p) \/ CancelState(p)
    \/ CancelRunning(p) \/ CancelSwap(p) \/ CancelSignal(p)
    \/ OwnerGone(p) \/ GoneRead(p) \/ GoneSwap(p) \/ GoneFlag(p)
    \/ GoneState(p) \/ GoneSignal(p) \/ GoneRemove(p)
    \/ Reply(p) \/ ReplySend(p)

-----------------------------------------------------------------------------
(* TaskQueue::run and run_task.                                            *)

\* Mutant: the worker retires without giving its claim back.
PopKeepsClaim(w) ==
    /\ pc[w] = "pop"
    /\ \/ /\ queue.pending = <<>>
          /\ Goto(w, "idle")
          /\ UNCHANGED <<queue, on>>
       \/ /\ queue.pending # <<>>
          /\ queue' = [queue EXCEPT !.pending = Tail(@)]
          /\ on' = [on EXCEPT ![w] = Head(queue.pending)]
          /\ Goto(w, "check")
    /\ UNCHANGED <<task, asks, chan, objects, connected, msg, result, signals, yes, granted>>

\* The next future, or the worker retires, in one critical section.
Pop(w) ==
    /\ pc[w] = "pop"
    /\ \/ /\ queue.pending = <<>>
          /\ queue' = [queue EXCEPT !.running = FALSE]
          /\ Goto(w, "idle")
          /\ UNCHANGED on
       \/ /\ queue.pending # <<>>
          /\ queue' = [queue EXCEPT !.pending = Tail(@)]
          /\ on' = [on EXCEPT ![w] = Head(queue.pending)]
          /\ Goto(w, "check")
    /\ UNCHANGED <<task, asks, chan, objects, connected, msg, result, signals, yes, granted>>

Check(w) ==
    /\ pc[w] = "check"
    /\ Goto(w, IF task[on[w]].finished THEN "remove" ELSE "raise")
    /\ UNCHANGED <<task, asks, chan, queue, objects, connected, on, msg, result, signals, yes, granted>>

Raise(w) ==
    /\ pc[w] = "raise"
    /\ task' = [task EXCEPT ![on[w]].running = TRUE]
    /\ Goto(w, "recheck")
    /\ UNCHANGED <<asks, chan, queue, objects, connected, on, msg, result, signals, yes, granted>>

Recheck(w) ==
    /\ pc[w] = "recheck"
    /\ Goto(w, IF task[on[w]].finished THEN "lower" ELSE "take")
    /\ UNCHANGED <<task, asks, chan, queue, objects, connected, on, msg, result, signals, yes, granted>>

Lower(w) ==
    /\ pc[w] = "lower"
    /\ task' = [task EXCEPT ![on[w]].running = FALSE]
    /\ Goto(w, "remove")
    /\ UNCHANGED <<asks, chan, queue, objects, connected, on, msg, result, signals, yes, granted>>

TakeJob(w) ==
    /\ pc[w] = "take"
    /\ task' = [task EXCEPT ![on[w]].job = FALSE]
    /\ Goto(w, IF task[on[w]].job THEN "process" ELSE "lower")
    /\ UNCHANGED <<asks, chan, queue, objects, connected, on, msg, result, signals, yes, granted>>

\* set_state(Processing) whatever the state is by now, then the job begins.
Process(w) ==
    /\ pc[w] = "process"
    /\ task' = [task EXCEPT ![on[w]].state = "Processing"]
    /\ Goto(w, "job")
    /\ UNCHANGED <<asks, chan, queue, objects, connected, on, msg, result, signals, yes, granted>>

\* The job ends: TaskCompletion::new, failed, canceled, or Err.
JobReturn(w, r) ==
    /\ pc[w] = "job"
    /\ result' = [result EXCEPT ![w] = r]
    /\ Goto(w, "job_lower")
    /\ UNCHANGED <<task, asks, chan, queue, objects, connected, on, msg, signals, yes, granted>>

\* A panic unwinds the worker: nothing after the job is executed, and
\* TaskQueueInner.running stays set.
JobPanic(w) ==
    /\ JobMayPanic
    /\ pc[w] = "job"
    /\ Goto(w, "dead")
    /\ UNCHANGED <<task, asks, chan, queue, objects, connected, on, msg, result, signals, yes, granted>>

JobLower(w) ==
    /\ pc[w] = "job_lower"
    /\ task' = [task EXCEPT ![on[w]].running = FALSE]
    /\ Goto(w, "job_swap")
    /\ UNCHANGED <<asks, chan, queue, objects, connected, on, msg, result, signals, yes, granted>>

JobSwap(w) ==
    LET t == on[w] IN
    /\ pc[w] = "job_swap"
    /\ task' = [task EXCEPT ![t].finished = TRUE]
    /\ Goto(w, IF task[t].finished THEN "remove" ELSE "job_canceled")
    /\ UNCHANGED <<asks, chan, queue, objects, connected, on, msg, result, signals, yes, granted>>

JobCanceled(w) ==
    /\ pc[w] = "job_canceled"
    /\ Goto(w, IF task[on[w]].canceled THEN "job_signal_canceled" ELSE "job_state")
    /\ UNCHANGED <<task, asks, chan, queue, objects, connected, on, msg, result, signals, yes, granted>>

JobState(w) ==
    /\ pc[w] = "job_state"
    /\ task' = [task EXCEPT ![on[w]].state = result[w]]
    /\ Goto(w, "job_signal")
    /\ UNCHANGED <<asks, chan, queue, objects, connected, on, msg, result, signals, yes, granted>>

JobSignal(w) ==
    /\ \/ pc[w] = "job_signal" /\ Finish(on[w], result[w])
       \/ pc[w] = "job_signal_canceled" /\ Finish(on[w], "Canceled")
       \/ /\ EmitMayFail /\ pc[w] \in {"job_signal", "job_signal_canceled"}
          /\ UNCHANGED signals
    /\ Goto(w, "remove")
    /\ UNCHANGED <<task, asks, chan, queue, objects, connected, on, msg, result, yes, granted>>

\* The object leaves the object server once its future is done.
Remove(w) ==
    /\ pc[w] = "remove"
    /\ objects' = objects \ {on[w]}
    /\ Goto(w, "pop")
    /\ on' = [on EXCEPT ![w] = NoTask]
    /\ msg' = [msg EXCEPT ![w] = NoMsg]
    /\ result' = [result EXCEPT ![w] = "Failed"]
    /\ UNCHANGED <<task, asks, chan, queue, connected, signals, yes, granted>>

-----------------------------------------------------------------------------
(* TaskContext::request_interaction, called by the job.                    *)

\* is_canceled is FALSE, and the id is fresh.
Ask(w, i) ==
    /\ pc[w] = "job"
    /\ ~task[on[w]].canceled
    /\ chan[on[w]][i] = "none"
    /\ \A j \in 1..(i - 1) : chan[on[w]][j] # "none"
    /\ msg' = [msg EXCEPT ![w] = [id |-> i, yes |-> FALSE]]
    /\ chan' = [chan EXCEPT ![on[w]][i] = "open"]
    /\ Goto(w, "ask_open")
    /\ UNCHANGED <<task, asks, queue, objects, connected, on, result, signals, yes, granted>>

\* One interaction at a time; a failed signal takes the entry back.
AskOpen(w) ==
    LET t == on[w]
        i == msg[w].id IN
    /\ pc[w] = "ask_open"
    /\ \/ /\ asks[t] # {}
          /\ Goto(w, "job")
          /\ msg' = [msg EXCEPT ![w] = NoMsg]
          /\ chan' = [chan EXCEPT ![t][i] = "dropped"]
          /\ UNCHANGED asks
       \/ /\ asks[t] = {}
          /\ asks' = [asks EXCEPT ![t] = {i}]
          /\ Goto(w, "ask_wait")
          /\ UNCHANGED <<chan, msg>>
    /\ UNCHANGED <<task, queue, objects, connected, on, result, signals, yes, granted>>

\* Mutant: no answer counts as a yes (unwrap_or(true)).
AskWaitConsents(w) ==
    /\ pc[w] = "ask_wait"
    /\ msg' = [msg EXCEPT ![w].yes = chan[on[w]][msg[w].id] # "no"]
    /\ Goto(w, "ask_close")
    /\ UNCHANGED <<task, asks, chan, queue, objects, connected, on, result, signals, yes, granted>>

\* Mutant: the answer is awaited without the timer.
AskWaitForever(w) ==
    /\ pc[w] = "ask_wait"
    /\ chan[on[w]][msg[w].id] \in {"yes", "no"}
    /\ msg' = [msg EXCEPT ![w].yes = chan[on[w]][msg[w].id] = "yes"]
    /\ Goto(w, "ask_close")
    /\ UNCHANGED <<task, asks, chan, queue, objects, connected, on, result, signals, yes, granted>>

\* recv raced against the 180 s timer: an answer, or none.  The timer, a
\* channel whose senders were cleared and a signal that could not be sent
\* all end the wait without one.
AskWait(w) ==
    LET t == on[w]
        i == msg[w].id IN
    /\ pc[w] = "ask_wait"
    /\ \/ /\ chan[t][i] \in {"yes", "no"}
          /\ msg' = [msg EXCEPT ![w].yes = chan[t][i] = "yes"]
       \/ UNCHANGED msg
    /\ Goto(w, "ask_close")
    /\ UNCHANGED <<task, asks, chan, queue, objects, connected, on, result, signals, yes, granted>>

AskClose(w) ==
    LET t == on[w]
        i == msg[w].id IN
    /\ pc[w] = "ask_close"
    /\ asks' = [asks EXCEPT ![t] = @ \ {i}]
    /\ chan' = [chan EXCEPT ![t][i] = "dropped"]
    /\ granted' = IF msg[w].yes THEN [granted EXCEPT ![t] = @ \cup {i}] ELSE granted
    /\ msg' = [msg EXCEPT ![w] = NoMsg]
    /\ Goto(w, "job")
    /\ UNCHANGED <<task, queue, objects, connected, on, result, signals, yes>>

Worker(w) ==
    \/ Pop(w) \/ Check(w) \/ Raise(w) \/ Recheck(w) \/ Lower(w) \/ TakeJob(w)
    \/ Process(w) \/ JobPanic(w) \/ JobLower(w) \/ JobSwap(w)
    \/ JobCanceled(w) \/ JobState(w) \/ JobSignal(w) \/ Remove(w)
    \/ AskOpen(w) \/ AskWait(w) \/ AskClose(w)
    \/ \E r \in Outcomes : JobReturn(w, r)
    \/ \E i \in Asks : Ask(w, i)

Next ==
    \/ \E t \in Tasks : OwnerLeaves(t)
    \/ \E c \in Calls, t \in Tasks :
         \/ CallStart(c, t) \/ CallCancel(c, t)
         \/ \E i \in Asks, b \in BOOLEAN : CallReply(c, t, i, b)
    \/ \E p \in Handlers : Handler(p)
    \/ \E w \in Workers : Worker(w)

\* The executor runs every spawned future; a job returns.
Fairness ==
    /\ \A p \in Handlers : WF_vars(Handler(p))
    /\ \A w \in Workers : WF_vars(Worker(w))

Spec     == Init /\ [][Next]_vars
FairSpec == Spec /\ Fairness

-----------------------------------------------------------------------------
(* Properties.                                                             *)

Active == {w \in Workers : pc[w] \notin {"idle", "dead"}}
Running(t) == \E w \in Workers : pc[w] \in JobPcs /\ on[w] = t

\* The variables have their types.
TypeOK ==
    /\ task \in [Tasks -> TaskInner]
    /\ asks \in [Tasks -> SUBSET Asks]
    /\ chan \in [Tasks -> [Asks -> {"none", "open", "yes", "no", "dropped"}]]
    /\ queue \in [pending: Seq(Tasks), running: BOOLEAN]
    /\ objects \subseteq Tasks /\ connected \subseteq Tasks
    /\ pc \in [Procs -> Pcs]
    /\ on \in [Procs -> Tasks \cup {NoTask}]
    /\ msg \in [Procs -> Messages]
    /\ result \in [Workers -> Outcomes]
    /\ signals \in [Tasks -> Seq(Outcomes)]
    /\ yes \in [Tasks -> SUBSET Asks]
    /\ granted \in [Tasks -> SUBSET Asks]

\* The owner hears TaskFinished at most once, whichever of Cancel, the
\* disconnection and the worker finish the task.
FinishedOnce == \A t \in Tasks : Len(signals[t]) <= 1

\* Jobs of one queue never overlap: a worker being spawned, popping or
\* running excludes any other, across retirement and respawn.
OneWorker == \A v, w \in Active : v = w

\* No lost wake-up: while futures wait, a worker runs or is being spawned; only
\* a job that panicked can have left the claim of its worker behind.
QueueServed ==
    queue.pending # <<>> => \/ Active # {}
                            \/ \E p \in Procs : pc[p] \in {"spawn", "dead"}

\* A job proceeds on an interaction only if the owner answered yes to that
\* very interaction: no timeout, cancellation or late reply to another one
\* counts as consent.
GrantedByOwner == \A t \in Tasks : granted[t] \subseteq yes[t]

\* The name of the test at task.rs:871, read of every task: TaskFinished is
\* never out while the job is still executing.
FinishedAfterJob == \A t \in Tasks : Running(t) => signals[t] = <<>>

\* The queue seen as TaskPromise: a job has begun when it was taken out of its
\* TaskInner.
Begun     == {t \in Tasks : ~task[t].job}
Executing == {t \in Tasks : Running(t)}
Promise   == INSTANCE TaskPromise WITH begun <- Begun, active <- Executing

\* Every step of the code is a step of TaskPromise or leaves it unchanged.
ImplementsPromise == Promise!Spec

\* Once in the queue a task finishes, whatever Cancel, the disconnection and
\* the other tasks do; its object is then removed.
QueuedFinishes ==
    \A t \in Tasks : (t \in {queue.pending[i] : i \in DOMAIN queue.pending})
                        ~> (Len(signals[t]) = 1 /\ t \notin objects)

\* No task survives its owner: pending it is canceled, started it finishes.
OwnerlessFinishes == \A t \in Tasks : t \notin connected ~> Len(signals[t]) = 1

\* Every task that is queued, or whose owner is gone, comes to its end.
TasksFinish == QueuedFinishes /\ OwnerlessFinishes
=============================================================================
