-------------------------- MODULE TaskClientProofs --------------------------
(***************************************************************************)
(* Theorems about TaskService, for any number of tasks, calls and workers; *)
(* and about TaskClient, whose steps are steps of TaskService or of its    *)
(* clients, on the bus or with a daemon of their own.                      *)
(***************************************************************************)
EXTENDS TaskClient, TLAPS

LEMMA PcFacts ==
    {"idle", "dead", "start", "start_event", "timer", "enqueue", "enqueue_finished",
     "push", "spawn", "cancel", "cancel_flag", "cancel_clear", "cancel_state",
     "cancel_running", "cancel_swap", "cancel_signal", "gone", "gone_read",
     "gone_swap", "gone_flag", "gone_state", "gone_signal", "gone_remove", "reply",
     "reply_send", "process", "job", "ask_open", "ask_wait", "ask_close", "pop",
     "check", "raise", "recheck", "lower", "take", "job_lower", "job_swap",
     "job_canceled", "job_state", "job_signal", "job_signal_canceled", "remove"} = Pcs
BY DEF Pcs, StartPcs, CancelPcs, GonePcs, ReplyPcs, JobPcs, RunPcs

LEMMA MsgFacts == NoMsg \in Messages /\ \A m \in Messages, b \in BOOLEAN, i \in Asks :
    /\ [id |-> i, yes |-> b] \in Messages
    /\ [m EXCEPT !.yes = b] \in Messages
BY TaskAssumption DEF NoMsg, Messages, Asks

-----------------------------------------------------------------------------
(* What the processes are at: the part of the type invariant the others    *)
(* rest on.                                                                *)

\* A process in the midst of something works on a task.
OnATask == \A p \in Procs : pc[p] \notin {"idle", "dead", "pop"} => on[p] \in Tasks

\* A job that asks its client has the id of its interaction.
OnAnAsk == \A p \in Procs : pc[p] \in {"ask_open", "ask_wait", "ask_close"}
                                => msg[p].id \in Asks

LocalsOK ==
    /\ pc \in [Procs -> Pcs]
    /\ on \in [Procs -> Tasks \cup {NoTask}]
    /\ msg \in [Procs -> Messages]
    /\ queue \in [pending: Seq(Tasks), running: BOOLEAN]
    /\ OnATask /\ OnAnAsk

\* A process that goes on with what it is at.
LEMMA MoveKeeps ==
    ASSUME LocalsOK, NEW p \in Procs, pc[p] \notin {"idle", "dead", "pop"},
           NEW l \in Pcs \ {"ask_open", "ask_wait", "ask_close"},
           Goto(p, l), UNCHANGED <<on, msg, queue>>
    PROVE  LocalsOK'
BY DEF LocalsOK, OnATask, OnAnAsk, Goto

\* A handler that ends.
LEMMA ReturnKeeps ==
    ASSUME LocalsOK, NEW p \in Procs, Return(p), UNCHANGED queue
    PROVE  LocalsOK'
BY PcFacts, MsgFacts DEF LocalsOK, OnATask, OnAnAsk, Return

LEMMA LocalsInit == Init => LocalsOK
<1> SUFFICES ASSUME Init PROVE LocalsOK
  OBVIOUS
<1> USE DEF Init, LocalsOK, OnATask, OnAnAsk
<1>1. pc \in [Procs -> Pcs]
  BY PcFacts
<1>2. \A p \in Agents : p[2] \in Tasks
  BY DEF Agents, Watcher, Timer
<1>3. on \in [Procs -> Tasks \cup {NoTask}]
  BY <1>2
<1>4. msg \in [Procs -> Messages]
  BY MsgFacts
<1>5. queue \in [pending: Seq(Tasks), running: BOOLEAN]
  OBVIOUS
<1>6. \A p \in Procs : pc[p] # "idle" => p \in Agents
  BY TaskAssumption DEF Agents
<1>7. OnATask
  BY <1>2, <1>6
<1>8. OnAnAsk
  OBVIOUS
<1> QED BY <1>1, <1>3, <1>4, <1>5, <1>7, <1>8

LEMMA PushTypes ==
    ASSUME LocalsOK, NEW t \in Tasks,
           queue' = [pending |-> Append(queue.pending, t), running |-> TRUE]
    PROVE  queue' \in [pending: Seq(Tasks), running: BOOLEAN]
BY DEF LocalsOK

LEMMA LocalsStep == LocalsOK /\ [Next]_vars => LocalsOK'
<1> SUFFICES ASSUME LocalsOK, [Next]_vars PROVE LocalsOK'
  OBVIOUS
<1>1. ASSUME NEW p \in Handlers, Handler(p) PROVE LocalsOK'
  <2> p \in Procs BY DEF Procs
  <2>1. CASE Start(p)
    BY <2>1, MoveKeeps, ReturnKeeps, PcFacts DEF Start
  <2>2. CASE StartEvent(p)
    BY <2>2, MoveKeeps, ReturnKeeps, PcFacts DEF StartEvent
  <2>3. CASE TimerFires(p)
    BY <2>3, MoveKeeps, ReturnKeeps, PcFacts DEF TimerFires
  <2>4. CASE EnqueueStarted(p)
    BY <2>4, MoveKeeps, ReturnKeeps, PcFacts DEF EnqueueStarted
  <2>5. CASE EnqueueFinished(p)
    BY <2>5, MoveKeeps, ReturnKeeps, PcFacts DEF EnqueueFinished
  <2>6. CASE Push(p)
    <3>1. on[p] \in Tasks
      BY <2>6 DEF Push, LocalsOK, OnATask
    <3>2. queue' \in [pending: Seq(Tasks), running: BOOLEAN]
      BY <2>6, <3>1, PushTypes DEF Push
    <3>3. \/ Return(p)
          \/ Goto(p, "spawn") /\ UNCHANGED <<on, msg>>
      BY <2>6 DEF Push
    <3> QED BY <2>6, <3>1, <3>2, <3>3, PcFacts, MsgFacts
            DEF LocalsOK, OnATask, OnAnAsk, Goto, Return
  <2>7. CASE Spawn(p)
    <3>1. PICK w \in Workers : pc' = [pc EXCEPT ![p] = "idle", ![w] = "pop"]
      BY <2>7 DEF Spawn
    <3> QED BY <2>7, <3>1, PcFacts, MsgFacts DEF Spawn, LocalsOK, OnATask, OnAnAsk
  <2>8. CASE CancelEnter(p)
    BY <2>8, MoveKeeps, ReturnKeeps, PcFacts DEF CancelEnter
  <2>9. CASE CancelFlag(p)
    BY <2>9, MoveKeeps, ReturnKeeps, PcFacts DEF CancelFlag
  <2>10. CASE CancelClear(p)
    BY <2>10, MoveKeeps, ReturnKeeps, PcFacts DEF CancelClear
  <2>11. CASE CancelState(p)
    BY <2>11, MoveKeeps, ReturnKeeps, PcFacts DEF CancelState
  <2>12. CASE CancelRunning(p)
    BY <2>12, MoveKeeps, ReturnKeeps, PcFacts DEF CancelRunning
  <2>13. CASE CancelSwap(p)
    BY <2>13, MoveKeeps, ReturnKeeps, PcFacts DEF CancelSwap
  <2>14. CASE CancelSignal(p)
    BY <2>14, MoveKeeps, ReturnKeeps, PcFacts DEF CancelSignal
  <2>15. CASE OwnerGone(p)
    BY <2>15, MoveKeeps, ReturnKeeps, PcFacts DEF OwnerGone
  <2>16. CASE GoneRead(p)
    BY <2>16, MoveKeeps, ReturnKeeps, PcFacts DEF GoneRead
  <2>17. CASE GoneSwap(p)
    BY <2>17, MoveKeeps, ReturnKeeps, PcFacts DEF GoneSwap
  <2>18. CASE GoneFlag(p)
    BY <2>18, MoveKeeps, ReturnKeeps, PcFacts DEF GoneFlag
  <2>19. CASE GoneState(p)
    BY <2>19, MoveKeeps, ReturnKeeps, PcFacts DEF GoneState
  <2>20. CASE GoneSignal(p)
    BY <2>20, MoveKeeps, ReturnKeeps, PcFacts DEF GoneSignal
  <2>21. CASE GoneRemove(p)
    BY <2>21, MoveKeeps, ReturnKeeps, PcFacts DEF GoneRemove
  <2>22. CASE Reply(p)
    BY <2>22, MoveKeeps, ReturnKeeps, PcFacts DEF Reply
  <2>23. CASE ReplySend(p)
    BY <2>23, MoveKeeps, ReturnKeeps, PcFacts DEF ReplySend
  <2> QED BY <1>1, <2>1, <2>2, <2>3, <2>4, <2>5, <2>6, <2>7, <2>8, <2>9, <2>10,
         <2>11, <2>12, <2>13, <2>14, <2>15, <2>16, <2>17, <2>18, <2>19, <2>20, <2>21,
         <2>22, <2>23
      DEF Handler
<1>2. ASSUME NEW w \in Workers, Worker(w) PROVE LocalsOK'
  <2> w \in Procs BY DEF Procs
  <2>1. CASE Pop(w)
    <3> queue \in [pending: Seq(Tasks), running: BOOLEAN]
      BY DEF LocalsOK
    <3>1. CASE queue.pending = <<>>
      BY <2>1, <3>1, PcFacts DEF Pop, LocalsOK, OnATask, OnAnAsk, Goto
    <3>2. CASE queue.pending # <<>>
      <4>1. Head(queue.pending) \in Tasks /\ Tail(queue.pending) \in Seq(Tasks)
        BY <3>2
      <4>2. queue' \in [pending: Seq(Tasks), running: BOOLEAN]
        BY <2>1, <3>2, <4>1 DEF Pop
      <4> QED BY <2>1, <3>2, <4>1, <4>2, PcFacts DEF Pop, LocalsOK, OnATask, OnAnAsk, Goto
    <3> QED BY <3>1, <3>2
  <2>2. CASE Check(w)
    BY <2>2, MoveKeeps, PcFacts DEF Check
  <2>3. CASE Raise(w)
    BY <2>3, MoveKeeps, PcFacts DEF Raise
  <2>4. CASE Recheck(w)
    BY <2>4, MoveKeeps, PcFacts DEF Recheck
  <2>5. CASE Lower(w)
    BY <2>5, MoveKeeps, PcFacts DEF Lower
  <2>6. CASE TakeJob(w)
    BY <2>6, MoveKeeps, PcFacts DEF TakeJob
  <2>7. CASE Process(w)
    BY <2>7, MoveKeeps, PcFacts DEF Process
  <2>8. CASE JobPanic(w)
    BY <2>8, PcFacts, MsgFacts DEF JobPanic, LocalsOK, OnATask, OnAnAsk, Goto
  <2>9. CASE JobLower(w)
    BY <2>9, MoveKeeps, PcFacts DEF JobLower
  <2>10. CASE JobSwap(w)
    BY <2>10, MoveKeeps, PcFacts DEF JobSwap
  <2>11. CASE JobCanceled(w)
    BY <2>11, MoveKeeps, PcFacts DEF JobCanceled
  <2>12. CASE JobState(w)
    BY <2>12, MoveKeeps, PcFacts DEF JobState
  <2>13. CASE JobSignal(w)
    BY <2>13, MoveKeeps, PcFacts DEF JobSignal
  <2>14. CASE Remove(w)
    BY <2>14, PcFacts, MsgFacts DEF Remove, LocalsOK, OnATask, OnAnAsk, Goto
  <2>15. CASE AskOpen(w)
    BY <2>15, PcFacts, MsgFacts DEF AskOpen, LocalsOK, OnATask, OnAnAsk, Goto
  <2>16. CASE AskWait(w)
    <3> DEFINE b == chan[on[w]][msg[w].id] = "yes"
    <3>1. msg[w] \in Messages /\ b \in BOOLEAN
      BY DEF LocalsOK
    <3>2. /\ [msg[w] EXCEPT !.yes = b] \in Messages
          /\ [msg[w] EXCEPT !.yes = b].id = msg[w].id
      BY <3>1 DEF Messages
    <3>3. msg' \in [Procs -> Messages]
      BY <2>16, <3>2 DEF AskWait, LocalsOK
    <3> QED BY <2>16, <3>2, <3>3, PcFacts DEF AskWait, LocalsOK, OnATask, OnAnAsk, Goto
  <2>17. CASE AskClose(w)
    BY <2>17, PcFacts, MsgFacts DEF AskClose, LocalsOK, OnATask, OnAnAsk, Goto
  <2>18. ASSUME NEW r \in Outcomes, JobReturn(w, r) PROVE LocalsOK'
    BY <2>18, MoveKeeps, PcFacts DEF JobReturn
  <2>19. ASSUME NEW i \in Asks, Ask(w, i) PROVE LocalsOK'
    BY <2>19, PcFacts, MsgFacts DEF Ask, LocalsOK, OnATask, OnAnAsk, Goto
  <2> QED BY <1>2, <2>1, <2>2, <2>3, <2>4, <2>5, <2>6, <2>7, <2>8, <2>9, <2>10,
         <2>11, <2>12, <2>13, <2>14, <2>15, <2>16, <2>17, <2>18, <2>19
      DEF Worker
<1>3. ASSUME NEW c \in Calls, NEW t \in Tasks, NEW l \in {"start", "cancel", "reply"},
             Dispatch(c, t, l), msg' \in [Procs -> Messages],
             \A q \in Procs : q # c => msg'[q] = msg[q]
      PROVE  LocalsOK'
  <2> c \in Procs
    BY DEF Procs, Handlers
  <2> QED BY <1>3, PcFacts DEF Dispatch, LocalsOK, OnATask, OnAnAsk, Goto
<1>4. ASSUME NEW c \in Calls, NEW t \in Tasks, NEW i \in Asks, NEW b \in BOOLEAN,
             CallReply(c, t, i, b)
      PROVE  LocalsOK'
  <2>1. /\ msg' \in [Procs -> Messages]
        /\ \A q \in Procs : q # c => msg'[q] = msg[q]
    BY <1>4, MsgFacts DEF CallReply, LocalsOK
  <2> QED BY <1>3, <1>4, <2>1 DEF CallReply
<1>5. ASSUME NEW c \in Calls, NEW t \in Tasks, CallStart(c, t) \/ CallCancel(c, t)
      PROVE  LocalsOK'
  BY <1>3, <1>5 DEF CallStart, CallCancel, LocalsOK
<1>6. ASSUME NEW t \in Tasks, OwnerLeaves(t) PROVE LocalsOK'
  BY <1>6 DEF OwnerLeaves, LocalsOK, OnATask, OnAnAsk
<1>7. CASE UNCHANGED vars
  BY <1>7 DEF vars, LocalsOK, OnATask, OnAnAsk
<1> QED BY <1>1, <1>2, <1>4, <1>5, <1>6, <1>7 DEF Next

-----------------------------------------------------------------------------
(* The claim on the queue: the one process that is spawning a worker, or   *)
(* the worker.  Its holder and the flag running go together, unless a job  *)
(* panicked.                                                               *)

Claim(p) == pc[p] \in {"spawn"} \cup RunPcs

ClaimInv ==
    /\ \A w \in Workers : pc[w] \in {"idle", "dead"} \cup RunPcs
    /\ \A p \in Handlers : pc[p] \notin {"dead"} \cup RunPcs
    /\ \A p, q \in Procs : Claim(p) /\ Claim(q) => p = q
    /\ \A p \in Procs : Claim(p) => queue.running
    /\ queue.running => \E p \in Procs : Claim(p) \/ pc[p] = "dead"
    /\ queue.pending # <<>> => queue.running

\* A handler that neither claims the queue nor gives the claim away.
LEMMA HandlerMoves ==
    ASSUME LocalsOK, ClaimInv, NEW p \in Handlers, pc[p] # "spawn", UNCHANGED queue,
           NEW l, l \notin {"spawn", "dead"} \cup RunPcs, pc' = [pc EXCEPT ![p] = l]
    PROVE  ClaimInv'
BY ProcAssumption DEF LocalsOK, ClaimInv, Claim, Procs, RunPcs, JobPcs

\* A worker that goes on.
LEMMA WorkerMoves ==
    ASSUME LocalsOK, ClaimInv, NEW w \in Workers, pc[w] \in RunPcs, UNCHANGED queue,
           NEW l \in RunPcs, pc' = [pc EXCEPT ![w] = l]
    PROVE  ClaimInv'
BY ProcAssumption DEF LocalsOK, ClaimInv, Claim, Procs, RunPcs, JobPcs

LEMMA ClaimInit == Init => ClaimInv
<1> SUFFICES ASSUME Init PROVE ClaimInv
  OBVIOUS
<1>1. \A p \in Procs : pc[p] \in {"gone", "timer", "idle"}
  BY DEF Init
<1>2. \A w \in Workers : w \in Procs /\ w \notin Agents
  BY ProcAssumption DEF Procs, Handlers
<1>3. \A w \in Workers : pc[w] = "idle"
  BY <1>2, TaskAssumption DEF Init, Agents
<1>4. \A p \in Procs : ~Claim(p)
  BY <1>1 DEF Claim, RunPcs, JobPcs
<1>5. queue.running = FALSE /\ queue.pending = <<>>
  BY DEF Init
<1>6. \A p \in Handlers : pc[p] \notin {"dead"} \cup RunPcs
  BY <1>1 DEF Procs, RunPcs, JobPcs
<1> QED BY <1>3, <1>4, <1>5, <1>6 DEF ClaimInv

LEMMA ClaimStep == LocalsOK /\ ClaimInv /\ [Next]_vars => ClaimInv'
<1> SUFFICES ASSUME LocalsOK, ClaimInv, [Next]_vars PROVE ClaimInv'
  OBVIOUS
<1>0. /\ \A p \in Handlers : p \in Procs /\ p \notin Workers
      /\ \A w \in Workers : w \in Procs /\ w \notin Handlers
  BY ProcAssumption DEF Procs
<1>1. ASSUME NEW p \in Handlers, Handler(p) PROVE ClaimInv'
  <2> USE DEF RunPcs, JobPcs
  <2>1. CASE Start(p)
    BY <2>1, HandlerMoves DEF Start, Goto, Return
  <2>2. CASE StartEvent(p)
    BY <2>2, HandlerMoves DEF StartEvent, Goto, Return
  <2>3. CASE TimerFires(p)
    BY <2>3, HandlerMoves DEF TimerFires, Goto, Return
  <2>4. CASE EnqueueStarted(p)
    BY <2>4, HandlerMoves DEF EnqueueStarted, Goto, Return
  <2>5. CASE EnqueueFinished(p)
    BY <2>5, HandlerMoves DEF EnqueueFinished, Goto, Return
  <2>6. CASE Push(p)
    <3>1. queue'.running
      BY <2>6 DEF Push
    <3>2. CASE queue.running /\ Return(p)
      BY <1>0, <2>6, <3>1, <3>2 DEF Push, Return, LocalsOK, ClaimInv, Claim
    <3>3. CASE ~queue.running /\ Goto(p, "spawn")
      BY <1>0, <2>6, <3>1, <3>3 DEF Push, Goto, LocalsOK, ClaimInv, Claim
    <3> QED BY <2>6, <3>2, <3>3 DEF Push
  <2>7. CASE Spawn(p)
    <3>1. PICK w \in Workers : pc[w] = "idle" /\ pc' = [pc EXCEPT ![p] = "idle", ![w] = "pop"]
      BY <2>7 DEF Spawn
    <3>2. w # p /\ pc[p] = "spawn" /\ UNCHANGED queue
      BY <1>0, <2>7 DEF Spawn
    <3> QED BY <1>0, <3>1, <3>2 DEF LocalsOK, ClaimInv, Claim
  <2>8. CASE CancelEnter(p)
    BY <2>8, HandlerMoves DEF CancelEnter, Goto, Return
  <2>9. CASE CancelFlag(p)
    BY <2>9, HandlerMoves DEF CancelFlag, Goto, Return
  <2>10. CASE CancelClear(p)
    BY <2>10, HandlerMoves DEF CancelClear, Goto, Return
  <2>11. CASE CancelState(p)
    BY <2>11, HandlerMoves DEF CancelState, Goto, Return
  <2>12. CASE CancelRunning(p)
    BY <2>12, HandlerMoves DEF CancelRunning, Goto, Return
  <2>13. CASE CancelSwap(p)
    BY <2>13, HandlerMoves DEF CancelSwap, Goto, Return
  <2>14. CASE CancelSignal(p)
    BY <2>14, HandlerMoves DEF CancelSignal, Goto, Return
  <2>15. CASE OwnerGone(p)
    BY <2>15, HandlerMoves DEF OwnerGone, Goto, Return
  <2>16. CASE GoneRead(p)
    BY <2>16, HandlerMoves DEF GoneRead, Goto, Return
  <2>17. CASE GoneSwap(p)
    BY <2>17, HandlerMoves DEF GoneSwap, Goto, Return
  <2>18. CASE GoneFlag(p)
    BY <2>18, HandlerMoves DEF GoneFlag, Goto, Return
  <2>19. CASE GoneState(p)
    BY <2>19, HandlerMoves DEF GoneState, Goto, Return
  <2>20. CASE GoneSignal(p)
    BY <2>20, HandlerMoves DEF GoneSignal, Goto, Return
  <2>21. CASE GoneRemove(p)
    BY <2>21, HandlerMoves DEF GoneRemove, Goto, Return
  <2>22. CASE Reply(p)
    BY <2>22, HandlerMoves DEF Reply, Goto, Return
  <2>23. CASE ReplySend(p)
    BY <2>23, HandlerMoves DEF ReplySend, Goto, Return
  <2> QED BY <1>1, <2>1, <2>2, <2>3, <2>4, <2>5, <2>6, <2>7, <2>8, <2>9, <2>10,
         <2>11, <2>12, <2>13, <2>14, <2>15, <2>16, <2>17, <2>18, <2>19, <2>20, <2>21,
         <2>22, <2>23
      DEF Handler
<1>2. ASSUME NEW w \in Workers, Worker(w) PROVE ClaimInv'
  <2> USE DEF RunPcs, JobPcs
  <2>1. CASE Pop(w)
    <3>1. CASE queue.pending = <<>>
      BY <1>0, <2>1, <3>1 DEF Pop, Goto, LocalsOK, ClaimInv, Claim
    <3>2. CASE queue.pending # <<>>
      <4>1. Claim(w) /\ queue.running /\ w \in Procs
        BY <1>0, <2>1 DEF Pop, ClaimInv, Claim
      <4>2. queue'.running
        BY <2>1, <3>2, <4>1 DEF Pop, LocalsOK
      <4>3. pc' = [pc EXCEPT ![w] = "check"]
        BY <2>1, <3>2 DEF Pop, Goto
      <4> QED BY <1>0, <4>1, <4>2, <4>3 DEF LocalsOK, ClaimInv, Claim
    <3> QED BY <3>1, <3>2
  <2>2. CASE Check(w)
    BY <2>2, WorkerMoves DEF Check, Goto
  <2>3. CASE Raise(w)
    BY <2>3, WorkerMoves DEF Raise, Goto
  <2>4. CASE Recheck(w)
    BY <2>4, WorkerMoves DEF Recheck, Goto
  <2>5. CASE Lower(w)
    BY <2>5, WorkerMoves DEF Lower, Goto
  <2>6. CASE TakeJob(w)
    BY <2>6, WorkerMoves DEF TakeJob, Goto
  <2>7. CASE Process(w)
    BY <2>7, WorkerMoves DEF Process, Goto
  <2>8. CASE JobPanic(w)
    BY <1>0, <2>8 DEF JobPanic, Goto, LocalsOK, ClaimInv, Claim
  <2>9. CASE JobLower(w)
    BY <2>9, WorkerMoves DEF JobLower, Goto
  <2>10. CASE JobSwap(w)
    BY <2>10, WorkerMoves DEF JobSwap, Goto
  <2>11. CASE JobCanceled(w)
    BY <2>11, WorkerMoves DEF JobCanceled, Goto
  <2>12. CASE JobState(w)
    BY <2>12, WorkerMoves DEF JobState, Goto
  <2>13. CASE JobSignal(w)
    BY <2>13, WorkerMoves DEF JobSignal, Goto
  <2>14. CASE Remove(w)
    BY <2>14, WorkerMoves DEF Remove, Goto
  <2>15. CASE AskOpen(w)
    BY <2>15, WorkerMoves DEF AskOpen, Goto
  <2>16. CASE AskWait(w)
    BY <2>16, WorkerMoves DEF AskWait, Goto
  <2>17. CASE AskClose(w)
    BY <2>17, WorkerMoves DEF AskClose, Goto
  <2>18. ASSUME NEW r \in Outcomes, JobReturn(w, r) PROVE ClaimInv'
    BY <2>18, WorkerMoves DEF JobReturn, Goto
  <2>19. ASSUME NEW i \in Asks, Ask(w, i) PROVE ClaimInv'
    BY <2>19, WorkerMoves DEF Ask, Goto
  <2> QED BY <1>2, <2>1, <2>2, <2>3, <2>4, <2>5, <2>6, <2>7, <2>8, <2>9, <2>10,
         <2>11, <2>12, <2>13, <2>14, <2>15, <2>16, <2>17, <2>18, <2>19
      DEF Worker
<1>3. ASSUME NEW c \in Calls, NEW t \in Tasks,
             \/ CallStart(c, t) \/ CallCancel(c, t)
             \/ \E i \in Asks, b \in BOOLEAN : CallReply(c, t, i, b)
      PROVE  ClaimInv'
  <2> c \in Handlers
    BY DEF Handlers
  <2>1. PICK l \in {"start", "cancel", "reply"} : Dispatch(c, t, l)
    BY <1>3 DEF CallStart, CallCancel, CallReply
  <2> QED BY <2>1, HandlerMoves DEF Dispatch, Goto, RunPcs, JobPcs
<1>4. ASSUME NEW t \in Tasks, OwnerLeaves(t) PROVE ClaimInv'
  BY <1>4 DEF OwnerLeaves, ClaimInv, Claim
<1>5. CASE UNCHANGED vars
  BY <1>5 DEF vars, ClaimInv, Claim
<1> QED BY <1>1, <1>2, <1>3, <1>4, <1>5 DEF Next

\* TaskQueue never runs two futures at once, however many calls enqueue,
\* spawn and retire its worker at the same time.
THEOREM OneWorkerHolds == Spec => []OneWorker
<1>1. LocalsOK /\ ClaimInv => OneWorker
  BY DEF ClaimInv, Claim, OneWorker, Active, Procs
<1> QED BY <1>1, LocalsInit, LocalsStep, ClaimInit, ClaimStep, PTL DEF Spec

\* A future that waits in TaskQueue has a worker, or one being spawned, unless
\* a job panicked: the check of the flag and the push are not to be separated.
THEOREM QueueServedHolds == Spec => []QueueServed
<1>1. LocalsOK /\ ClaimInv => QueueServed
  BY ProcAssumption DEF ClaimInv, Claim, QueueServed, Active, Procs, RunPcs, JobPcs
<1> QED BY <1>1, LocalsInit, LocalsStep, ClaimInit, ClaimStep, PTL DEF Spec
-----------------------------------------------------------------------------
(* The rest of the type invariant.                                         *)

Channels == {"none", "open", "yes", "no", "dropped"}

DataOK ==
    /\ task \in [Tasks -> TaskInner]
    /\ asks \in [Tasks -> SUBSET Asks]
    /\ chan \in [Tasks -> [Asks -> Channels]]
    /\ objects \subseteq Tasks /\ connected \subseteq Tasks
    /\ result \in [Workers -> Outcomes]
    /\ signals \in [Tasks -> Seq(Outcomes)]
    /\ yes \in [Tasks -> SUBSET Asks]
    /\ granted \in [Tasks -> SUBSET Asks]

LEMMA NameFacts ==
    /\ {"Pending", "Queued", "Processing", "Canceled", "Failed", "Succeed"} = States
    /\ {"Canceled", "Failed", "Succeed"} = Outcomes
    /\ Outcomes \subseteq States
BY DEF States, Outcomes

LEMMA DataInit == Init => DataOK
<1> SUFFICES ASSUME Init PROVE DataOK
  OBVIOUS
<1>1. \A t \in Tasks : InitInner(t) \in TaskInner
  BY NameFacts DEF InitInner, TaskInner
<1>2. task \in [Tasks -> TaskInner]
  BY <1>1 DEF Init
<1>3. chan \in [Tasks -> [Asks -> Channels]]
  BY DEF Init, Channels
<1>4. objects \subseteq Tasks /\ connected \subseteq Tasks
  BY TaskAssumption DEF Init
<1>5. signals \in [Tasks -> Seq(Outcomes)] /\ result \in [Workers -> Outcomes]
  BY NameFacts DEF Init
<1> QED BY <1>2, <1>3, <1>4, <1>5 DEF Init, DataOK

\* What a step does to a snapshot or a flag of one task.
LEMMA InnerTypes ==
    ASSUME DataOK, NEW t \in Tasks
    PROVE  /\ \A s \in States : [task EXCEPT ![t].state = s] \in [Tasks -> TaskInner]
           /\ [task EXCEPT ![t].started = TRUE] \in [Tasks -> TaskInner]
           /\ [task EXCEPT ![t].canceled = TRUE] \in [Tasks -> TaskInner]
           /\ [task EXCEPT ![t].finished = TRUE] \in [Tasks -> TaskInner]
           /\ [task EXCEPT ![t].job = FALSE] \in [Tasks -> TaskInner]
           /\ \A b \in BOOLEAN : [task EXCEPT ![t].running = b] \in [Tasks -> TaskInner]
BY DEF DataOK, TaskInner

\* A TaskFinished signal.
LEMMA SignalTypes ==
    ASSUME DataOK, NEW t \in Tasks, NEW o \in Outcomes, Finish(t, o)
    PROVE  signals' \in [Tasks -> Seq(Outcomes)]
<1>1. signals[t] \in Seq(Outcomes)
  BY DEF DataOK
<1>2. Append(signals[t], o) \in Seq(Outcomes)
  BY <1>1
<1>3. signals' = [signals EXCEPT ![t] = Append(signals[t], o)]
  BY DEF Finish
<1> QED BY <1>2, <1>3 DEF DataOK

\* A function that keeps its type where it is updated.
LEMMA UpdateTypes ==
    ASSUME NEW S, NEW T, NEW f \in [S -> T], NEW x \in S, NEW y \in T, NEW g,
           g = f \/ g = [f EXCEPT ![x] = y]
    PROVE  g \in [S -> T]
OBVIOUS

LEMMA DataStep == LocalsOK /\ DataOK /\ [Next]_vars => DataOK'
<1> SUFFICES ASSUME LocalsOK, DataOK, [Next]_vars PROVE DataOK'
  OBVIOUS
<1>0. \A p \in Procs : pc[p] \notin {"idle", "dead", "pop"} => on[p] \in Tasks
  BY DEF LocalsOK, OnATask
<1>1. ASSUME NEW p \in Handlers, Handler(p) PROVE DataOK'
  <2> p \in Procs BY DEF Procs
  <2>1. CASE Start(p)
    <3>1. on[p] \in Tasks
      BY <1>0, <2>1 DEF Start
    <3>2. UNCHANGED task \/ task' = [task EXCEPT ![on[p]].state = "Queued"]
      BY <2>1 DEF Start
    <3>3. [task EXCEPT ![on[p]].state = "Queued"] \in [Tasks -> TaskInner]
      BY <3>1, InnerTypes, NameFacts
    <3>4. task \in [Tasks -> TaskInner]
      BY DEF DataOK
    <3>5. task' \in [Tasks -> TaskInner]
      BY <3>2, <3>3, <3>4
    <3> QED BY <2>1, <3>5 DEF Start, DataOK
  <2>2. CASE StartEvent(p)
    BY <1>0, <2>2 DEF StartEvent, DataOK
  <2>3. CASE TimerFires(p)
    BY <1>0, <2>3 DEF TimerFires, DataOK
  <2>4. CASE EnqueueStarted(p)
    <3>1. on[p] \in Tasks
      BY <1>0, <2>4 DEF EnqueueStarted
    <3>2. task' \in [Tasks -> TaskInner]
      BY <2>4, <3>1, InnerTypes, NameFacts DEF EnqueueStarted
    <3> QED BY <2>4, <3>2 DEF EnqueueStarted, DataOK
  <2>5. CASE EnqueueFinished(p)
    BY <1>0, <2>5 DEF EnqueueFinished, DataOK
  <2>6. CASE Push(p)
    BY <1>0, <2>6 DEF Push, DataOK
  <2>7. CASE Spawn(p)
    BY <1>0, <2>7 DEF Spawn, DataOK
  <2>8. CASE CancelEnter(p)
    BY <1>0, <2>8 DEF CancelEnter, DataOK
  <2>9. CASE CancelFlag(p)
    <3>1. on[p] \in Tasks
      BY <1>0, <2>9 DEF CancelFlag
    <3>2. task' \in [Tasks -> TaskInner]
      BY <2>9, <3>1, InnerTypes, NameFacts DEF CancelFlag
    <3> QED BY <2>9, <3>2 DEF CancelFlag, DataOK
  <2>10. CASE CancelClear(p)
    BY <1>0, <2>10 DEF CancelClear, DataOK
  <2>11. CASE CancelState(p)
    <3>1. on[p] \in Tasks
      BY <1>0, <2>11 DEF CancelState
    <3>2. task' \in [Tasks -> TaskInner]
      BY <2>11, <3>1, InnerTypes, NameFacts DEF CancelState
    <3> QED BY <2>11, <3>2 DEF CancelState, DataOK
  <2>12. CASE CancelRunning(p)
    BY <1>0, <2>12 DEF CancelRunning, DataOK
  <2>13. CASE CancelSwap(p)
    <3>1. on[p] \in Tasks
      BY <1>0, <2>13 DEF CancelSwap
    <3>2. task' \in [Tasks -> TaskInner]
      BY <2>13, <3>1, InnerTypes, NameFacts DEF CancelSwap
    <3> QED BY <2>13, <3>2 DEF CancelSwap, DataOK
  <2>14. CASE CancelSignal(p)
    <3>1. on[p] \in Tasks
      BY <1>0, <2>14 DEF CancelSignal
    <3>2. signals' \in [Tasks -> Seq(Outcomes)]
      BY <2>14, <3>1, SignalTypes, NameFacts DEF CancelSignal, DataOK
    <3> QED BY <2>14, <3>2 DEF CancelSignal, DataOK
  <2>15. CASE OwnerGone(p)
    BY <1>0, <2>15 DEF OwnerGone, DataOK
  <2>16. CASE GoneRead(p)
    BY <1>0, <2>16 DEF GoneRead, DataOK
  <2>17. CASE GoneSwap(p)
    <3>1. on[p] \in Tasks
      BY <1>0, <2>17 DEF GoneSwap
    <3>2. task' \in [Tasks -> TaskInner]
      BY <2>17, <3>1, InnerTypes, NameFacts DEF GoneSwap
    <3> QED BY <2>17, <3>2 DEF GoneSwap, DataOK
  <2>18. CASE GoneFlag(p)
    <3>1. on[p] \in Tasks
      BY <1>0, <2>18 DEF GoneFlag
    <3>2. task' \in [Tasks -> TaskInner]
      BY <2>18, <3>1, InnerTypes, NameFacts DEF GoneFlag
    <3> QED BY <2>18, <3>2 DEF GoneFlag, DataOK
  <2>19. CASE GoneState(p)
    <3>1. on[p] \in Tasks
      BY <1>0, <2>19 DEF GoneState
    <3>2. task' \in [Tasks -> TaskInner]
      BY <2>19, <3>1, InnerTypes, NameFacts DEF GoneState
    <3> QED BY <2>19, <3>2 DEF GoneState, DataOK
  <2>20. CASE GoneSignal(p)
    <3>1. on[p] \in Tasks
      BY <1>0, <2>20 DEF GoneSignal
    <3>2. signals' \in [Tasks -> Seq(Outcomes)]
      BY <2>20, <3>1, SignalTypes, NameFacts DEF GoneSignal, DataOK
    <3> QED BY <2>20, <3>2 DEF GoneSignal, DataOK
  <2>21. CASE GoneRemove(p)
    BY <1>0, <2>21 DEF GoneRemove, DataOK
  <2>22. CASE Reply(p)
    <3>1. on[p] \in Tasks
      BY <1>0, <2>22 DEF Reply
    <3>2. CASE msg[p].id \in asks[on[p]]
      <4>1. msg[p].id \in Asks
        BY <3>1, <3>2 DEF DataOK
      <4>2. asks' \in [Tasks -> SUBSET Asks]
        BY <2>22, <3>1, <3>2 DEF Reply, DataOK
      <4>3. yes' = yes \/ yes' = [yes EXCEPT ![on[p]] = yes[on[p]] \cup {msg[p].id}]
        BY <2>22, <3>2 DEF Reply
      <4>4. yes \in [Tasks -> SUBSET Asks] /\ yes[on[p]] \cup {msg[p].id} \in SUBSET Asks
        BY <3>1, <4>1 DEF DataOK
      <4>5. yes' \in [Tasks -> SUBSET Asks]
        BY <3>1, <4>3, <4>4, UpdateTypes
      <4> QED BY <2>22, <4>2, <4>5 DEF Reply, DataOK
    <3>3. CASE msg[p].id \notin asks[on[p]]
      BY <2>22, <3>3 DEF Reply, DataOK
    <3> QED BY <3>2, <3>3
  <2>23. CASE ReplySend(p)
    <3>1. on[p] \in Tasks /\ msg[p] \in Messages
      BY <1>0, <2>23 DEF ReplySend, LocalsOK
    <3> QED BY <2>23, <3>1 DEF ReplySend, DataOK, Channels, Messages, LocalsOK, OnAnAsk
  <2> QED BY <1>1, <2>1, <2>2, <2>3, <2>4, <2>5, <2>6, <2>7, <2>8, <2>9, <2>10,
         <2>11, <2>12, <2>13,
         <2>14, <2>15, <2>16, <2>17, <2>18, <2>19, <2>20, <2>21, <2>22, <2>23
      DEF Handler
<1>2. ASSUME NEW w \in Workers, Worker(w) PROVE DataOK'
  <2> w \in Procs BY DEF Procs
  <2>1. CASE Pop(w)
    BY <1>0, <2>1 DEF Pop, DataOK
  <2>2. CASE Check(w)
    BY <1>0, <2>2 DEF Check, DataOK
  <2>3. CASE Raise(w)
    <3>1. on[w] \in Tasks
      BY <1>0, <2>3 DEF Raise
    <3>2. task' \in [Tasks -> TaskInner]
      BY <2>3, <3>1, InnerTypes, NameFacts DEF Raise
    <3> QED BY <2>3, <3>2 DEF Raise, DataOK
  <2>4. CASE Recheck(w)
    BY <1>0, <2>4 DEF Recheck, DataOK
  <2>5. CASE Lower(w)
    <3>1. on[w] \in Tasks
      BY <1>0, <2>5 DEF Lower
    <3>2. task' \in [Tasks -> TaskInner]
      BY <2>5, <3>1, InnerTypes, NameFacts DEF Lower
    <3> QED BY <2>5, <3>2 DEF Lower, DataOK
  <2>6. CASE TakeJob(w)
    <3>1. on[w] \in Tasks
      BY <1>0, <2>6 DEF TakeJob
    <3>2. task' \in [Tasks -> TaskInner]
      BY <2>6, <3>1, InnerTypes, NameFacts DEF TakeJob
    <3> QED BY <2>6, <3>2 DEF TakeJob, DataOK
  <2>7. CASE Process(w)
    <3>1. on[w] \in Tasks
      BY <1>0, <2>7 DEF Process
    <3>2. task' \in [Tasks -> TaskInner]
      BY <2>7, <3>1, InnerTypes, NameFacts DEF Process
    <3> QED BY <2>7, <3>2 DEF Process, DataOK
  <2>8. CASE JobPanic(w)
    BY <1>0, <2>8 DEF JobPanic, DataOK
  <2>9. CASE JobLower(w)
    <3>1. on[w] \in Tasks
      BY <1>0, <2>9 DEF JobLower
    <3>2. task' \in [Tasks -> TaskInner]
      BY <2>9, <3>1, InnerTypes, NameFacts DEF JobLower
    <3> QED BY <2>9, <3>2 DEF JobLower, DataOK
  <2>10. CASE JobSwap(w)
    <3>1. on[w] \in Tasks
      BY <1>0, <2>10 DEF JobSwap
    <3>2. task' \in [Tasks -> TaskInner]
      BY <2>10, <3>1, InnerTypes, NameFacts DEF JobSwap
    <3> QED BY <2>10, <3>2 DEF JobSwap, DataOK
  <2>11. CASE JobCanceled(w)
    BY <1>0, <2>11 DEF JobCanceled, DataOK
  <2>12. CASE JobState(w)
    <3>1. on[w] \in Tasks
      BY <1>0, <2>12 DEF JobState
    <3>3. result[w] \in States
      BY NameFacts DEF DataOK
    <3>2. task' \in [Tasks -> TaskInner]
      BY <2>12, <3>1, <3>3, InnerTypes, NameFacts DEF JobState
    <3> QED BY <2>12, <3>2 DEF JobState, DataOK
  <2>13. CASE JobSignal(w)
    <3>1. on[w] \in Tasks
      BY <1>0, <2>13 DEF JobSignal
    <3>2. signals' \in [Tasks -> Seq(Outcomes)]
      BY <2>13, <3>1, SignalTypes, NameFacts DEF JobSignal, DataOK
    <3> QED BY <2>13, <3>2 DEF JobSignal, DataOK
  <2>14. CASE Remove(w)
    BY <2>14, NameFacts DEF Remove, DataOK
  <2>15. CASE AskOpen(w)
    <3>1. on[w] \in Tasks /\ msg[w].id \in Asks
      BY <1>0, <2>15 DEF AskOpen, LocalsOK, OnAnAsk
    <3>2. asks \in [Tasks -> SUBSET Asks] /\ {msg[w].id} \in SUBSET Asks
      BY <3>1 DEF DataOK
    <3>3. asks' = asks \/ asks' = [asks EXCEPT ![on[w]] = {msg[w].id}]
      BY <2>15 DEF AskOpen
    <3>4. asks' \in [Tasks -> SUBSET Asks]
      BY <3>1, <3>2, <3>3, UpdateTypes
    <3>5. /\ chan \in [Tasks -> [Asks -> Channels]]
          /\ [chan EXCEPT ![on[w]][msg[w].id] = "dropped"] \in [Tasks -> [Asks -> Channels]]
      BY <3>1 DEF DataOK, Channels
    <3>6. chan' = chan \/ chan' = [chan EXCEPT ![on[w]][msg[w].id] = "dropped"]
      BY <2>15 DEF AskOpen
    <3>7. chan' \in [Tasks -> [Asks -> Channels]]
      BY <3>5, <3>6
    <3> QED BY <2>15, <3>4, <3>7 DEF AskOpen, DataOK
  <2>16. CASE AskWait(w)
    BY <1>0, <2>16 DEF AskWait, DataOK
  <2>17. CASE AskClose(w)
    <3>1. on[w] \in Tasks /\ msg[w] \in Messages
      BY <1>0, <2>17 DEF AskClose, LocalsOK
    <3> QED BY <2>17, <3>1 DEF AskClose, DataOK, Channels, Messages, LocalsOK, OnAnAsk
  <2>18. ASSUME NEW r \in Outcomes, JobReturn(w, r) PROVE DataOK'
    BY <2>18 DEF JobReturn, DataOK
  <2>19. ASSUME NEW i \in Asks, Ask(w, i) PROVE DataOK'
    BY <1>0, <2>19 DEF Ask, DataOK, Channels
  <2> QED BY <1>2, <2>1, <2>2, <2>3, <2>4, <2>5, <2>6, <2>7, <2>8, <2>9, <2>10,
         <2>11, <2>12, <2>13,
         <2>14, <2>15, <2>16, <2>17, <2>18, <2>19
      DEF Worker
<1>3. ASSUME NEW c \in Calls, NEW t \in Tasks,
             \/ CallStart(c, t) \/ CallCancel(c, t)
             \/ \E i \in Asks, b \in BOOLEAN : CallReply(c, t, i, b)
      PROVE  DataOK'
  BY <1>3 DEF CallStart, CallCancel, CallReply, Dispatch, DataOK
<1>4. ASSUME NEW t \in Tasks, OwnerLeaves(t) PROVE DataOK'
  BY <1>4 DEF OwnerLeaves, DataOK
<1>5. CASE UNCHANGED vars
  BY <1>5 DEF vars, DataOK
<1> QED BY <1>1, <1>2, <1>3, <1>4, <1>5 DEF Next

\* Every variable keeps its type, whatever the number of tasks, of calls in
\* progress and of executor slots.
THEOREM TypeOKHolds == Spec => []TypeOK
<1>1. LocalsOK /\ DataOK => TypeOK
  BY DEF LocalsOK, DataOK, TypeOK, Channels
<1> QED BY <1>1, LocalsInit, LocalsStep, DataInit, DataStep, PTL DEF Spec

-----------------------------------------------------------------------------
(* The swap of finished elects one process per task: the one that found it *)
(* FALSE has yet to send the signal, and no other may.                     *)

Posted == {"cancel_signal", "gone_flag", "gone_state", "gone_signal", "job_canceled",
           "job_state", "job_signal", "job_signal_canceled"}

FinishInv ==
    /\ \A p \in Procs : pc[p] \in Posted => task[on[p]].finished /\ signals[on[p]] = <<>>
    /\ \A p, q \in Procs : pc[p] \in Posted /\ pc[q] \in Posted /\ on[p] = on[q] => p = q
    /\ \A t \in Tasks : ~task[t].finished => signals[t] = <<>>
    /\ \A t \in Tasks : Len(signals[t]) <= 1

SameFinished == \A t \in Tasks : task'[t].finished = task[t].finished

LEMMA FlagFacts ==
    ASSUME DataOK, NEW t \in Tasks
    PROVE  /\ \A s \in States, u \in Tasks :
                 [task EXCEPT ![t].state = s][u].finished = task[u].finished
           /\ \A u \in Tasks : [task EXCEPT ![t].started = TRUE][u].finished = task[u].finished
           /\ \A u \in Tasks : [task EXCEPT ![t].canceled = TRUE][u].finished = task[u].finished
           /\ \A u \in Tasks : [task EXCEPT ![t].job = FALSE][u].finished = task[u].finished
           /\ \A b \in BOOLEAN, u \in Tasks :
                 [task EXCEPT ![t].running = b][u].finished = task[u].finished
BY DEF DataOK, TaskInner

\* A process that posts nothing afterwards, and sends nothing now.
LEMMA QuietMoves ==
    ASSUME LocalsOK, FinishInv, NEW p \in Procs, NEW l, l \notin Posted,
           pc' = [pc EXCEPT ![p] = l], \A q \in Procs \ {p} : on'[q] = on[q],
           SameFinished, UNCHANGED signals
    PROVE  FinishInv'
<1>1. \A q \in Procs : pc'[q] \in Posted => q # p /\ pc[q] \in Posted /\ on'[q] = on[q]
  BY DEF LocalsOK
<1>2. \A q \in Procs : pc[q] \in Posted => on[q] \in Tasks
  BY DEF LocalsOK, OnATask, Posted
<1> QED BY <1>1, <1>2 DEF FinishInv, SameFinished

\* The elected process goes on.
LEMMA PostedMoves ==
    ASSUME LocalsOK, FinishInv, NEW p \in Procs, pc[p] \in Posted, NEW l \in Posted,
           Goto(p, l), UNCHANGED <<on, signals>>, SameFinished
    PROVE  FinishInv'
<1>1. \A q \in Procs : pc'[q] \in Posted => pc[q] \in Posted
  BY DEF LocalsOK, Goto
<1>2. \A q \in Procs : pc[q] \in Posted => on[q] \in Tasks
  BY DEF LocalsOK, OnATask, Posted
<1> QED BY <1>1, <1>2 DEF FinishInv, SameFinished

\* A swap that finds FALSE.
LEMMA SwapElects ==
    ASSUME LocalsOK, DataOK, FinishInv, NEW p \in Procs, pc[p] \notin Posted,
           on[p] \in Tasks, ~task[on[p]].finished,
           task' = [task EXCEPT ![on[p]].finished = TRUE],
           NEW l \in Posted, Goto(p, l), UNCHANGED <<on, signals>>
    PROVE  FinishInv'
<1>1. /\ task'[on[p]].finished
      /\ \A t \in Tasks \ {on[p]} : task'[t] = task[t]
  BY DEF DataOK, TaskInner
<1>2. \A q \in Procs : pc[q] \in Posted => on[q] \in Tasks /\ on[q] # on[p]
  BY DEF LocalsOK, OnATask, Posted, FinishInv
<1>3. \A q \in Procs : pc'[q] \in Posted => q = p \/ pc[q] \in Posted
  BY DEF LocalsOK, Goto
<1> QED BY <1>1, <1>2, <1>3 DEF FinishInv

\* A swap that finds TRUE.
LEMMA SwapLoses ==
    ASSUME LocalsOK, DataOK, FinishInv, NEW p \in Procs, on[p] \in Tasks,
           task[on[p]].finished, task' = [task EXCEPT ![on[p]].finished = TRUE],
           NEW l, l \notin Posted, pc' = [pc EXCEPT ![p] = l],
           \A q \in Procs \ {p} : on'[q] = on[q], UNCHANGED signals
    PROVE  FinishInv'
<1>1. SameFinished
  BY DEF DataOK, TaskInner, SameFinished
<1> QED BY <1>1, QuietMoves

\* The elected process sends the signal, or fails to, and is done.
LEMMA SignalSpends ==
    ASSUME LocalsOK, DataOK, FinishInv, NEW p \in Procs, pc[p] \in Posted,
           NEW o \in Outcomes, Finish(on[p], o) \/ UNCHANGED signals,
           NEW l, l \notin Posted, pc' = [pc EXCEPT ![p] = l],
           \A q \in Procs \ {p} : on'[q] = on[q], UNCHANGED task
    PROVE  FinishInv'
<1>1. SameFinished
  BY DEF SameFinished
<1>2. CASE UNCHANGED signals
  BY <1>1, <1>2, QuietMoves
<1>3. CASE Finish(on[p], o)
  <2>1. on[p] \in Tasks /\ signals[on[p]] = <<>> /\ task[on[p]].finished
    BY DEF LocalsOK, OnATask, Posted, FinishInv
  <2>2. /\ signals'[on[p]] = Append(<<>>, o)
        /\ \A t \in Tasks \ {on[p]} : signals'[t] = signals[t]
    BY <1>3, <2>1 DEF Finish, DataOK
  <2>3. Len(signals'[on[p]]) <= 1
    BY <2>2
  <2>4. \A q \in Procs : pc'[q] \in Posted => q # p /\ pc[q] \in Posted /\ on'[q] = on[q]
    BY DEF LocalsOK
  <2>5. \A q \in Procs : q # p /\ pc[q] \in Posted => on[q] \in Tasks \ {on[p]}
    BY DEF LocalsOK, OnATask, Posted, FinishInv
  <2>6. \A q \in Procs : pc'[q] \in Posted =>
          task'[on'[q]].finished /\ signals'[on'[q]] = <<>>
    BY <2>2, <2>4, <2>5 DEF FinishInv
  <2>7. \A q, r \in Procs :
          pc'[q] \in Posted /\ pc'[r] \in Posted /\ on'[q] = on'[r] => q = r
    BY <2>4 DEF FinishInv
  <2>8. \A t \in Tasks : /\ ~task'[t].finished => signals'[t] = <<>>
                         /\ Len(signals'[t]) <= 1
    BY <2>1, <2>2, <2>3 DEF FinishInv
  <2> QED BY <2>6, <2>7, <2>8 DEF FinishInv
<1> QED BY <1>2, <1>3

LEMMA FinishInit == Init => FinishInv
<1> SUFFICES ASSUME Init PROVE FinishInv
  OBVIOUS
<1>1. \A p \in Procs : pc[p] \notin Posted
  BY DEF Init, Posted
<1>2. \A t \in Tasks : signals[t] = <<>> /\ Len(signals[t]) <= 1
  BY DEF Init
<1> QED BY <1>1, <1>2 DEF FinishInv

LEMMA FinishStep == LocalsOK /\ DataOK /\ FinishInv /\ [Next]_vars => FinishInv'
<1> SUFFICES ASSUME LocalsOK, DataOK, FinishInv, [Next]_vars PROVE FinishInv'
  OBVIOUS
<1>0. \A p \in Procs : pc[p] \notin {"idle", "dead", "pop"} => on[p] \in Tasks
  BY DEF LocalsOK, OnATask
<1>1. ASSUME NEW p \in Handlers, Handler(p) PROVE FinishInv'
  <2> p \in Procs BY DEF Procs
  <2>1. CASE Start(p)
    <3>1. on[p] \in Tasks
      BY <1>0, <2>1 DEF Start
    <3>2. UNCHANGED task \/ task' = [task EXCEPT ![on[p]].state = "Queued"]
      BY <2>1 DEF Start
    <3>3. ASSUME task' = [task EXCEPT ![on[p]].state = "Queued"]
          PROVE  SameFinished
      <4>1. "Queued" \in States
        BY DEF States
      <4>2. \A u \in Tasks :
              [task EXCEPT ![on[p]].state = "Queued"][u].finished = task[u].finished
        BY <3>1, <4>1, FlagFacts
      <4> QED BY <3>3, <4>2 DEF SameFinished
    <3>4. ASSUME UNCHANGED task PROVE SameFinished
      BY <3>4 DEF SameFinished
    <3>5. SameFinished
      BY <3>2, <3>3, <3>4
    <3> QED BY <2>1, <3>5, QuietMoves DEF Start, Goto, Return, LocalsOK, Posted
  <2>2. CASE StartEvent(p)
    BY <2>2, QuietMoves DEF StartEvent, Goto, Return, LocalsOK, Posted, SameFinished
  <2>3. CASE TimerFires(p)
    BY <2>3, QuietMoves DEF TimerFires, Goto, Return, LocalsOK, Posted, SameFinished
  <2>4. CASE EnqueueStarted(p)
    <3>1. SameFinished
      BY <1>0, <2>4, FlagFacts, NameFacts DEF EnqueueStarted, SameFinished
    <3> QED BY <2>4, <3>1, QuietMoves DEF EnqueueStarted, Goto, Return, LocalsOK, Posted
  <2>5. CASE EnqueueFinished(p)
    BY <2>5, QuietMoves DEF EnqueueFinished, Goto, Return, LocalsOK, Posted, SameFinished
  <2>6. CASE Push(p)
    BY <2>6, QuietMoves DEF Push, Goto, Return, LocalsOK, Posted, SameFinished
  <2>7. CASE Spawn(p)
    <3>1. PICK w \in Workers : pc[w] = "idle" /\ pc' = [pc EXCEPT ![p] = "idle", ![w] = "pop"]
      BY <2>7 DEF Spawn
    <3>2. \A q \in Procs : pc'[q] \in Posted =>
            q # p /\ pc[q] \in Posted /\ on'[q] = on[q] /\ on[q] \in Tasks
      BY <2>7, <1>0, <3>1 DEF Spawn, LocalsOK, Posted
    <3> QED BY <2>7, <3>2 DEF Spawn, FinishInv
  <2>8. CASE CancelEnter(p)
    BY <2>8, QuietMoves DEF CancelEnter, Goto, Return, LocalsOK, Posted, SameFinished
  <2>9. CASE CancelFlag(p)
    <3>1. SameFinished
      BY <1>0, <2>9, FlagFacts, NameFacts DEF CancelFlag, SameFinished
    <3> QED BY <2>9, <3>1, QuietMoves DEF CancelFlag, Goto, Return, LocalsOK, Posted
  <2>10. CASE CancelClear(p)
    BY <2>10, QuietMoves DEF CancelClear, Goto, Return, LocalsOK, Posted, SameFinished
  <2>11. CASE CancelState(p)
    <3>1. SameFinished
      BY <1>0, <2>11, FlagFacts, NameFacts DEF CancelState, SameFinished
    <3> QED BY <2>11, <3>1, QuietMoves DEF CancelState, Goto, Return, LocalsOK, Posted
  <2>12. CASE CancelRunning(p)
    BY <2>12, QuietMoves DEF CancelRunning, Goto, Return, LocalsOK, Posted, SameFinished
  <2>13. CASE CancelSwap(p)
    <3>1. on[p] \in Tasks
      BY <1>0, <2>13 DEF CancelSwap
    <3>2. CASE task[on[p]].finished
      BY <2>13, <3>1, <3>2, SwapLoses DEF CancelSwap, Goto, Return, LocalsOK, Posted
    <3>3. CASE ~task[on[p]].finished
      BY <2>13, <3>1, <3>3, SwapElects DEF CancelSwap, Posted
    <3> QED BY <3>2, <3>3
  <2>14. CASE CancelSignal(p)
    BY <2>14, SignalSpends, NameFacts DEF CancelSignal, Goto, Return, Posted, LocalsOK
  <2>15. CASE OwnerGone(p)
    BY <2>15, QuietMoves DEF OwnerGone, Goto, Return, LocalsOK, Posted, SameFinished
  <2>16. CASE GoneRead(p)
    BY <2>16, QuietMoves DEF GoneRead, Goto, Return, LocalsOK, Posted, SameFinished
  <2>17. CASE GoneSwap(p)
    <3>1. on[p] \in Tasks
      BY <1>0, <2>17 DEF GoneSwap
    <3>2. CASE task[on[p]].finished
      BY <2>17, <3>1, <3>2, SwapLoses DEF GoneSwap, Goto, Return, LocalsOK, Posted
    <3>3. CASE ~task[on[p]].finished
      BY <2>17, <3>1, <3>3, SwapElects DEF GoneSwap, Posted
    <3> QED BY <3>2, <3>3
  <2>18. CASE GoneFlag(p)
    <3>1. SameFinished
      BY <1>0, <2>18, FlagFacts, NameFacts DEF GoneFlag, SameFinished
    <3> QED BY <2>18, <3>1, PostedMoves DEF GoneFlag, Posted
  <2>19. CASE GoneState(p)
    <3>1. SameFinished
      BY <1>0, <2>19, FlagFacts, NameFacts DEF GoneState, SameFinished
    <3> QED BY <2>19, <3>1, PostedMoves DEF GoneState, Posted
  <2>20. CASE GoneSignal(p)
    BY <2>20, SignalSpends, NameFacts DEF GoneSignal, Goto, Return, Posted, LocalsOK
  <2>21. CASE GoneRemove(p)
    BY <2>21, QuietMoves DEF GoneRemove, Goto, Return, LocalsOK, Posted, SameFinished
  <2>22. CASE Reply(p)
    BY <2>22, QuietMoves DEF Reply, Goto, Return, LocalsOK, Posted, SameFinished
  <2>23. CASE ReplySend(p)
    BY <2>23, QuietMoves DEF ReplySend, Goto, Return, LocalsOK, Posted, SameFinished
  <2> QED BY <1>1, <2>1, <2>2, <2>3, <2>4, <2>5, <2>6, <2>7, <2>8, <2>9, <2>10,
         <2>11, <2>12, <2>13,
         <2>14, <2>15, <2>16, <2>17, <2>18, <2>19, <2>20, <2>21, <2>22, <2>23
      DEF Handler
<1>2. ASSUME NEW w \in Workers, Worker(w) PROVE FinishInv'
  <2> w \in Procs BY DEF Procs
  <2>1. CASE Pop(w)
    BY <2>1, QuietMoves DEF Pop, Goto, LocalsOK, Posted, SameFinished
  <2>2. CASE Check(w)
    BY <2>2, QuietMoves DEF Check, Goto, LocalsOK, Posted, SameFinished
  <2>3. CASE Raise(w)
    <3>1. SameFinished
      BY <1>0, <2>3, FlagFacts, NameFacts DEF Raise, SameFinished
    <3> QED BY <2>3, <3>1, QuietMoves DEF Raise, Goto, LocalsOK, Posted
  <2>4. CASE Recheck(w)
    BY <2>4, QuietMoves DEF Recheck, Goto, LocalsOK, Posted, SameFinished
  <2>5. CASE Lower(w)
    <3>1. SameFinished
      BY <1>0, <2>5, FlagFacts, NameFacts DEF Lower, SameFinished
    <3> QED BY <2>5, <3>1, QuietMoves DEF Lower, Goto, LocalsOK, Posted
  <2>6. CASE TakeJob(w)
    <3>1. SameFinished
      BY <1>0, <2>6, FlagFacts, NameFacts DEF TakeJob, SameFinished
    <3> QED BY <2>6, <3>1, QuietMoves DEF TakeJob, Goto, LocalsOK, Posted
  <2>7. CASE Process(w)
    <3>1. SameFinished
      BY <1>0, <2>7, FlagFacts, NameFacts DEF Process, SameFinished
    <3> QED BY <2>7, <3>1, QuietMoves DEF Process, Goto, LocalsOK, Posted
  <2>8. CASE JobPanic(w)
    BY <2>8, QuietMoves DEF JobPanic, Goto, LocalsOK, Posted, SameFinished
  <2>9. CASE JobLower(w)
    <3>1. SameFinished
      BY <1>0, <2>9, FlagFacts, NameFacts DEF JobLower, SameFinished
    <3> QED BY <2>9, <3>1, QuietMoves DEF JobLower, Goto, LocalsOK, Posted
  <2>10. CASE JobSwap(w)
    <3>1. on[w] \in Tasks
      BY <1>0, <2>10 DEF JobSwap
    <3>2. CASE task[on[w]].finished
      BY <2>10, <3>1, <3>2, SwapLoses DEF JobSwap, Goto, LocalsOK, Posted
    <3>3. CASE ~task[on[w]].finished
      BY <2>10, <3>1, <3>3, SwapElects DEF JobSwap, Posted
    <3> QED BY <3>2, <3>3
  <2>11. CASE JobCanceled(w)
    BY <2>11, PostedMoves DEF JobCanceled, Posted, SameFinished
  <2>12. CASE JobState(w)
    <3>1. SameFinished
      BY <1>0, <2>12, FlagFacts, NameFacts DEF JobState, DataOK, SameFinished
    <3> QED BY <2>12, <3>1, PostedMoves DEF JobState, Posted
  <2>13. CASE JobSignal(w)
    BY <2>13, SignalSpends, NameFacts DEF JobSignal, Goto, Posted, LocalsOK, DataOK
  <2>14. CASE Remove(w)
    BY <2>14, QuietMoves DEF Remove, Goto, LocalsOK, Posted, SameFinished
  <2>15. CASE AskOpen(w)
    BY <2>15, QuietMoves DEF AskOpen, Goto, LocalsOK, Posted, SameFinished
  <2>16. CASE AskWait(w)
    BY <2>16, QuietMoves DEF AskWait, Goto, LocalsOK, Posted, SameFinished
  <2>17. CASE AskClose(w)
    BY <2>17, QuietMoves DEF AskClose, Goto, LocalsOK, Posted, SameFinished
  <2>18. ASSUME NEW r \in Outcomes, JobReturn(w, r) PROVE FinishInv'
    BY <2>18, QuietMoves DEF JobReturn, Goto, LocalsOK, Posted, SameFinished
  <2>19. ASSUME NEW i \in Asks, Ask(w, i) PROVE FinishInv'
    BY <2>19, QuietMoves DEF Ask, Goto, LocalsOK, Posted, SameFinished
  <2> QED BY <1>2, <2>1, <2>2, <2>3, <2>4, <2>5, <2>6, <2>7, <2>8, <2>9, <2>10,
         <2>11, <2>12, <2>13,
         <2>14, <2>15, <2>16, <2>17, <2>18, <2>19
      DEF Worker
<1>3. ASSUME NEW c \in Calls, NEW t \in Tasks,
             \/ CallStart(c, t) \/ CallCancel(c, t)
             \/ \E i \in Asks, b \in BOOLEAN : CallReply(c, t, i, b)
      PROVE  FinishInv'
  <2> c \in Procs
    BY DEF Procs, Handlers
  <2>1. PICK l \in {"start", "cancel", "reply"} : Dispatch(c, t, l)
    BY <1>3 DEF CallStart, CallCancel, CallReply
  <2> QED BY <2>1, QuietMoves DEF Dispatch, Goto, LocalsOK, Posted, SameFinished
<1>4. ASSUME NEW t \in Tasks, OwnerLeaves(t) PROVE FinishInv'
  BY <1>4 DEF OwnerLeaves, FinishInv
<1>5. CASE UNCHANGED vars
  BY <1>5 DEF vars, FinishInv
<1> QED BY <1>1, <1>2, <1>3, <1>4, <1>5 DEF Next

\* No interleaving of Cancel, the disconnection and the worker sends
\* TaskFinished twice for one task.
THEOREM FinishedOnceHolds == Spec => []FinishedOnce
<1>1. FinishInv => FinishedOnce
  BY DEF FinishInv, FinishedOnce
<1> QED BY <1>1, LocalsInit, LocalsStep, DataInit, DataStep, FinishInit, FinishStep,
           PTL DEF Spec

-----------------------------------------------------------------------------
(* A yes goes a long way from the client to the job: through a handler, a  *)
(* channel and the worker that waits, each with its own idea of the task   *)
(* and of the interaction.                                                 *)

Carrying == {"reply_send", "ask_close"}
Opening  == {"ask_open", "ask_wait"}

AnswerInv ==
    /\ \A t \in Tasks, i \in Asks : chan[t][i] = "yes" => i \in yes[t]
    /\ \A p \in Procs : pc[p] \in Carrying /\ msg[p].yes => msg[p].id \in yes[on[p]]
    /\ \A p \in Procs : pc[p] \in Opening => ~msg[p].yes
    /\ GrantedByOwner

\* A process that carries nothing afterwards.
LEMMA AnswerQuiet ==
    ASSUME LocalsOK, AnswerInv, NEW p \in Procs, NEW l, l \notin Carrying \cup Opening,
           pc' = [pc EXCEPT ![p] = l],
           \A q \in Procs \ {p} : on'[q] = on[q] /\ msg'[q] = msg[q],
           UNCHANGED <<chan, yes, granted>>
    PROVE  AnswerInv'
<1>1. \A q \in Procs : pc'[q] \in Carrying \cup Opening =>
        pc[q] = pc'[q] /\ on'[q] = on[q] /\ msg'[q] = msg[q]
  BY DEF LocalsOK
<1> QED BY <1>1 DEF AnswerInv, GrantedByOwner

LEMMA AnswerInit == Init => AnswerInv
<1> SUFFICES ASSUME Init PROVE AnswerInv
  OBVIOUS
<1>1. \A p \in Procs : pc[p] \notin Carrying \cup Opening
  BY DEF Init, Carrying, Opening
<1>2. GrantedByOwner
  BY DEF Init, GrantedByOwner
<1>3. \A t \in Tasks, i \in Asks : chan[t][i] # "yes"
  BY DEF Init
<1> QED BY <1>1, <1>2, <1>3 DEF AnswerInv

LEMMA AnswerStep == LocalsOK /\ DataOK /\ AnswerInv /\ [Next]_vars => AnswerInv'
<1> SUFFICES ASSUME LocalsOK, DataOK, AnswerInv, [Next]_vars PROVE AnswerInv'
  OBVIOUS
<1>0. /\ \A p \in Procs : pc[p] \notin {"idle", "dead", "pop"} => on[p] \in Tasks
      /\ \A p \in Procs : pc[p] \in Opening \cup {"ask_close"} => msg[p].id \in Asks
  BY DEF LocalsOK, OnATask, OnAnAsk, Opening
<1>1. ASSUME NEW p \in Handlers, Handler(p) PROVE AnswerInv'
  <2> p \in Procs BY DEF Procs
  <2> USE DEF Goto, Return, LocalsOK, Carrying, Opening
  <2>1. CASE Start(p)
    BY <2>1, AnswerQuiet DEF Start
  <2>2. CASE StartEvent(p)
    BY <2>2, AnswerQuiet DEF StartEvent
  <2>3. CASE TimerFires(p)
    BY <2>3, AnswerQuiet DEF TimerFires
  <2>4. CASE EnqueueStarted(p)
    BY <2>4, AnswerQuiet DEF EnqueueStarted
  <2>5. CASE EnqueueFinished(p)
    BY <2>5, AnswerQuiet DEF EnqueueFinished
  <2>6. CASE Push(p)
    BY <2>6, AnswerQuiet DEF Push
  <2>8. CASE CancelEnter(p)
    BY <2>8, AnswerQuiet DEF CancelEnter
  <2>9. CASE CancelFlag(p)
    BY <2>9, AnswerQuiet DEF CancelFlag
  <2>10. CASE CancelClear(p)
    BY <2>10, AnswerQuiet DEF CancelClear
  <2>11. CASE CancelState(p)
    BY <2>11, AnswerQuiet DEF CancelState
  <2>12. CASE CancelRunning(p)
    BY <2>12, AnswerQuiet DEF CancelRunning
  <2>13. CASE CancelSwap(p)
    BY <2>13, AnswerQuiet DEF CancelSwap
  <2>14. CASE CancelSignal(p)
    BY <2>14, AnswerQuiet DEF CancelSignal
  <2>15. CASE OwnerGone(p)
    BY <2>15, AnswerQuiet DEF OwnerGone
  <2>16. CASE GoneRead(p)
    BY <2>16, AnswerQuiet DEF GoneRead
  <2>17. CASE GoneSwap(p)
    BY <2>17, AnswerQuiet DEF GoneSwap
  <2>18. CASE GoneFlag(p)
    BY <2>18, AnswerQuiet DEF GoneFlag
  <2>19. CASE GoneState(p)
    BY <2>19, AnswerQuiet DEF GoneState
  <2>20. CASE GoneSignal(p)
    BY <2>20, AnswerQuiet DEF GoneSignal
  <2>21. CASE GoneRemove(p)
    BY <2>21, AnswerQuiet DEF GoneRemove
  <2>7. CASE Spawn(p)
    <3>1. PICK w \in Workers : pc[w] = "idle" /\ pc' = [pc EXCEPT ![p] = "idle", ![w] = "pop"]
      BY <2>7 DEF Spawn
    <3>2. \A q \in Procs : pc'[q] \in Carrying \cup Opening =>
            pc[q] = pc'[q] /\ on'[q] = on[q] /\ msg'[q] = msg[q]
      BY <2>7, <3>1 DEF Spawn
    <3> QED BY <2>7, <3>2 DEF Spawn, AnswerInv, GrantedByOwner
  <2>22. CASE Reply(p)
    <3> DEFINE t == on[p]
               i == msg[p].id
    <3>1. CASE i \notin asks[t]
      BY <2>22, <3>1, AnswerQuiet DEF Reply
    <3>2. CASE i \in asks[t]
      <4>1. /\ yes' = IF msg[p].yes THEN [yes EXCEPT ![t] = @ \cup {i}] ELSE yes
            /\ pc' = [pc EXCEPT ![p] = "reply_send"] /\ UNCHANGED <<on, msg, chan, granted>>
        BY <2>22, <3>2 DEF Reply
      <4>2. t \in Tasks
        BY <1>0, <2>22 DEF Reply
      <4>3. /\ \A u \in Tasks : yes[u] \subseteq yes'[u]
            /\ msg[p].yes => i \in yes'[t]
        BY <4>1, <4>2 DEF DataOK
      <4>4. \A q \in Procs : pc'[q] \in Carrying \cup Opening => q = p \/ pc[q] = pc'[q]
        BY <4>1
      <4>5. \A q \in Procs : pc[q] \in Carrying => on[q] \in Tasks
        BY <1>0
      <4>6. ASSUME NEW q \in Procs, pc'[q] \in Carrying, msg'[q].yes PROVE msg'[q].id \in yes'[on'[q]]
        BY <4>1, <4>3, <4>4, <4>5, <4>6 DEF AnswerInv
      <4>7. \A q \in Procs : pc'[q] \in Opening => ~msg'[q].yes
        BY <4>1, <4>4 DEF AnswerInv
      <4>8. GrantedByOwner' /\ \A u \in Tasks, j \in Asks : chan'[u][j] = "yes" => j \in yes'[u]
        BY <4>1, <4>3 DEF AnswerInv, GrantedByOwner
      <4> QED BY <4>6, <4>7, <4>8 DEF AnswerInv
    <3> QED BY <3>1, <3>2
  <2>23. CASE ReplySend(p)
    <3> DEFINE t == on[p]
               i == msg[p].id
               a == IF msg[p].yes THEN "yes" ELSE "no"
    <3>1. t \in Tasks /\ pc[p] = "reply_send"
      BY <1>0, <2>23 DEF ReplySend
    <3>2. msg[p].yes => i \in yes[t]
      BY <3>1 DEF AnswerInv
    <3>3. chan' = chan \/ chan' = [chan EXCEPT ![t][i] = a]
      BY <2>23 DEF ReplySend
    <3>4. ASSUME NEW u \in Tasks, NEW j \in Asks, chan'[u][j] = "yes" PROVE j \in yes[u]
      <4>1. CASE chan'[u][j] = chan[u][j]
        BY <3>4, <4>1 DEF AnswerInv
      <4>2. CASE chan'[u][j] # chan[u][j]
        <5>1. u = t /\ j = i /\ chan'[u][j] = a
          BY <3>1, <3>3, <4>2 DEF DataOK
        <5> QED BY <3>2, <3>4, <5>1
      <4> QED BY <4>1, <4>2
    <3>5. \A q \in Procs : pc'[q] \in Carrying \cup Opening =>
            pc[q] = pc'[q] /\ on'[q] = on[q] /\ msg'[q] = msg[q]
      BY <2>23 DEF ReplySend
    <3> QED BY <2>23, <3>4, <3>5 DEF ReplySend, AnswerInv, GrantedByOwner
  <2> QED BY <1>1, <2>1, <2>2, <2>3, <2>4, <2>5, <2>6, <2>7, <2>8, <2>9, <2>10,
         <2>11, <2>12, <2>13, <2>14, <2>15, <2>16, <2>17, <2>18, <2>19, <2>20, <2>21,
         <2>22, <2>23
      DEF Handler
<1>2. ASSUME NEW w \in Workers, Worker(w) PROVE AnswerInv'
  <2> w \in Procs BY DEF Procs
  <2> USE DEF Goto, LocalsOK, Carrying, Opening
  <2>0. \A q \in Procs : pc[q] \in Carrying \cup Opening => on[q] \in Tasks
    BY <1>0
  <2>1. CASE Pop(w)
    BY <2>1, AnswerQuiet DEF Pop
  <2>2. CASE Check(w)
    BY <2>2, AnswerQuiet DEF Check
  <2>3. CASE Raise(w)
    BY <2>3, AnswerQuiet DEF Raise
  <2>4. CASE Recheck(w)
    BY <2>4, AnswerQuiet DEF Recheck
  <2>5. CASE Lower(w)
    BY <2>5, AnswerQuiet DEF Lower
  <2>6. CASE TakeJob(w)
    BY <2>6, AnswerQuiet DEF TakeJob
  <2>7. CASE Process(w)
    BY <2>7, AnswerQuiet DEF Process
  <2>8. CASE JobPanic(w)
    BY <2>8, AnswerQuiet DEF JobPanic
  <2>9. CASE JobLower(w)
    BY <2>9, AnswerQuiet DEF JobLower
  <2>10. CASE JobSwap(w)
    BY <2>10, AnswerQuiet DEF JobSwap
  <2>11. CASE JobCanceled(w)
    BY <2>11, AnswerQuiet DEF JobCanceled
  <2>12. CASE JobState(w)
    BY <2>12, AnswerQuiet DEF JobState
  <2>13. CASE JobSignal(w)
    BY <2>13, AnswerQuiet DEF JobSignal
  <2>14. CASE Remove(w)
    BY <2>14, AnswerQuiet DEF Remove
  <2>18. ASSUME NEW r \in Outcomes, JobReturn(w, r) PROVE AnswerInv'
    BY <2>18, AnswerQuiet DEF JobReturn
  <2>15. CASE AskOpen(w)
    <3> DEFINE t == on[w]
               i == msg[w].id
    <3>1. t \in Tasks /\ i \in Asks /\ ~msg[w].yes
      BY <1>0, <2>15 DEF AskOpen, AnswerInv
    <3>2. CASE pc' = [pc EXCEPT ![w] = "job"] /\ chan' = [chan EXCEPT ![t][i] = "dropped"]
      <4>1. \A u \in Tasks, j \in Asks : chan'[u][j] = "yes" => chan[u][j] = "yes"
        BY <3>1, <3>2 DEF DataOK
      <4>2. \A q \in Procs : pc'[q] \in Carrying \cup Opening =>
              pc[q] = pc'[q] /\ on'[q] = on[q] /\ msg'[q] = msg[q]
        BY <2>15, <3>2 DEF AskOpen
      <4> QED BY <2>15, <4>1, <4>2 DEF AskOpen, AnswerInv, GrantedByOwner
    <3>3. CASE pc' = [pc EXCEPT ![w] = "ask_wait"] /\ UNCHANGED <<chan, msg>>
      BY <2>15, <3>1, <3>3 DEF AskOpen, AnswerInv, GrantedByOwner
    <3> QED BY <2>15, <3>2, <3>3 DEF AskOpen
  <2>16. CASE AskWait(w)
    <3> DEFINE t == on[w]
               i == msg[w].id
    <3>1. t \in Tasks /\ i \in Asks /\ ~msg[w].yes /\ msg[w] \in Messages
      BY <1>0, <2>16 DEF AskWait, AnswerInv
    <3>2. /\ pc' = [pc EXCEPT ![w] = "ask_close"] /\ UNCHANGED <<on, chan, yes, granted>>
          /\ \/ msg' = [msg EXCEPT ![w].yes = chan[t][i] = "yes"]
             \/ UNCHANGED msg
      BY <2>16 DEF AskWait
    <3>3. msg'[w].id = i /\ (msg'[w].yes => chan[t][i] = "yes")
      <4>1. CASE UNCHANGED msg
        BY <3>1, <4>1
      <4>2. CASE msg' = [msg EXCEPT ![w].yes = chan[t][i] = "yes"]
        BY <3>1, <4>2 DEF Messages
      <4> QED BY <3>2, <4>1, <4>2
    <3>4. \A q \in Procs \ {w} : msg'[q] = msg[q] /\ pc'[q] = pc[q]
      BY <3>2
    <3>5. msg'[w].yes => msg'[w].id \in yes[t]
      BY <3>1, <3>3 DEF AnswerInv
    <3> QED BY <3>2, <3>4, <3>5 DEF AnswerInv, GrantedByOwner
  <2>17. CASE AskClose(w)
    <3> DEFINE t == on[w]
               i == msg[w].id
    <3>1. t \in Tasks /\ i \in Asks /\ (msg[w].yes => i \in yes[t])
      BY <1>0, <2>17 DEF AskClose, AnswerInv
    <3>2. /\ pc' = [pc EXCEPT ![w] = "job"] /\ UNCHANGED <<on, yes>>
          /\ chan' = [chan EXCEPT ![t][i] = "dropped"]
          /\ granted' = IF msg[w].yes THEN [granted EXCEPT ![t] = @ \cup {i}] ELSE granted
      BY <2>17 DEF AskClose
    <3>3. \A u \in Tasks, j \in Asks : chan'[u][j] = "yes" => chan[u][j] = "yes"
      BY <3>1, <3>2 DEF DataOK
    <3>4. \A u \in Tasks : granted'[u] \subseteq granted[u] \cup (IF u = t /\ msg[w].yes THEN {i} ELSE {})
      BY <3>1, <3>2 DEF DataOK
    <3>5. GrantedByOwner'
      BY <3>1, <3>2, <3>4 DEF AnswerInv, GrantedByOwner
    <3>6. \A q \in Procs : pc'[q] \in Carrying \cup Opening =>
            pc[q] = pc'[q] /\ on'[q] = on[q] /\ msg'[q] = msg[q]
      BY <2>17, <3>2 DEF AskClose
    <3> QED BY <3>2, <3>3, <3>5, <3>6 DEF AnswerInv
  <2>19. ASSUME NEW i \in Asks, Ask(w, i) PROVE AnswerInv'
    <3> DEFINE t == on[w]
    <3>1. t \in Tasks
      BY <1>0, <2>19 DEF Ask
    <3>2. /\ msg' = [msg EXCEPT ![w] = [id |-> i, yes |-> FALSE]]
          /\ chan' = [chan EXCEPT ![t][i] = "open"]
          /\ pc' = [pc EXCEPT ![w] = "ask_open"] /\ UNCHANGED <<on, yes, granted>>
      BY <2>19 DEF Ask
    <3>3. \A u \in Tasks, j \in Asks : chan'[u][j] = "yes" => chan[u][j] = "yes"
      BY <3>1, <3>2 DEF DataOK
    <3>4. ~msg'[w].yes /\ pc'[w] = "ask_open" /\ \A q \in Procs \ {w} : msg'[q] = msg[q] /\ pc'[q] = pc[q]
      BY <3>2
    <3> QED BY <3>2, <3>3, <3>4 DEF AnswerInv, GrantedByOwner
  <2> QED BY <1>2, <2>1, <2>2, <2>3, <2>4, <2>5, <2>6, <2>7, <2>8, <2>9, <2>10,
         <2>11, <2>12, <2>13, <2>14, <2>15, <2>16, <2>17, <2>18, <2>19
      DEF Worker
<1>3. ASSUME NEW c \in Calls, NEW t \in Tasks,
             \/ CallStart(c, t) \/ CallCancel(c, t)
             \/ \E i \in Asks, b \in BOOLEAN : CallReply(c, t, i, b)
      PROVE  AnswerInv'
  <2> c \in Procs
    BY DEF Procs, Handlers
  <2>1. PICK l \in {"start", "cancel", "reply"} : Dispatch(c, t, l)
    BY <1>3 DEF CallStart, CallCancel, CallReply
  <2>2. \A q \in Procs \ {c} : on'[q] = on[q] /\ msg'[q] = msg[q]
    BY <1>3, <2>1 DEF CallStart, CallCancel, CallReply, Dispatch, LocalsOK
  <2>3. l \notin Carrying \cup Opening
    BY DEF Carrying, Opening
  <2> QED BY <1>3, <2>1, <2>2, <2>3, AnswerQuiet DEF Dispatch, Goto, CallStart, CallCancel, CallReply
<1>4. ASSUME NEW t \in Tasks, OwnerLeaves(t) PROVE AnswerInv'
  BY <1>4 DEF OwnerLeaves, AnswerInv, GrantedByOwner
<1>5. CASE UNCHANGED vars
  BY <1>5 DEF vars, AnswerInv, GrantedByOwner
<1> QED BY <1>1, <1>2, <1>3, <1>4, <1>5 DEF Next

\* No timeout, cancellation, failed signal or late reply to another interaction
\* makes a job go on as if its owner had said yes.
THEOREM GrantedByOwnerHolds == Spec => []GrantedByOwner
<1>1. AnswerInv => GrantedByOwner
  BY DEF AnswerInv
<1> QED BY <1>1, LocalsInit, LocalsStep, DataInit, DataStep, AnswerInit, AnswerStep,
           PTL DEF Spec

-----------------------------------------------------------------------------
(* The refinement of TaskPromise.  A job has begun when a worker took it,  *)
(* and whatever a worker still has to do about a job shows that it had one. *)

Taken == JobPcs \cup {"job_lower", "job_swap", "job_canceled", "job_state", "job_signal",
                      "job_signal_canceled"}

BegunInv == \A w \in Workers : pc[w] \in Taken => on[w] \in Begun

\* A step as the promise sees it.
Promised == [Promise!Next]_(Promise!vars)

SameJobs == \A t \in Tasks : task'[t].job = task[t].job

\* A worker that neither begins nor ends a job, and reports nothing.
Plain(w) ==
    /\ SameJobs /\ UNCHANGED signals
    /\ pc'[w] \in JobPcs <=> pc[w] \in JobPcs
    /\ pc'[w] \in Taken => pc[w] \in Taken /\ on'[w] = on[w]
    /\ \A q \in Procs \ {w} : pc'[q] = pc[q] /\ on'[q] = on[q]

LEMMA JobFacts ==
    ASSUME DataOK, NEW t \in Tasks
    PROVE  /\ \A x : \A u \in Tasks : [task EXCEPT ![t].state = x][u].job = task[u].job
           /\ \A u \in Tasks : [task EXCEPT ![t].started = TRUE][u].job = task[u].job
           /\ \A u \in Tasks : [task EXCEPT ![t].canceled = TRUE][u].job = task[u].job
           /\ \A u \in Tasks : [task EXCEPT ![t].finished = TRUE][u].job = task[u].job
           /\ \A b \in BOOLEAN, u \in Tasks :
                 [task EXCEPT ![t].running = b][u].job = task[u].job
BY DEF DataOK, TaskInner

\* No handler takes a job or moves a worker that has one.
LEMMA HandlerPlain ==
    ASSUME LocalsOK, DataOK, ClaimInv, NEW p \in Handlers, Handler(p)
    PROVE  /\ SameJobs
           /\ \A w \in Workers : /\ on'[w] = on[w]
                                 /\ \/ pc'[w] = pc[w]
                                    \/ pc'[w] \notin Taken /\ pc[w] \notin Taken
<1>0. /\ p \in Procs /\ p \notin Workers /\ \A w \in Workers : w \in Procs
      /\ pc[p] \notin {"idle", "dead", "pop"} => on[p] \in Tasks
  BY ProcAssumption DEF Procs, LocalsOK, OnATask
<1> USE DEF LocalsOK
<1>1. CASE Start(p)
  <2>1. UNCHANGED task \/ task' = [task EXCEPT ![on[p]].state = "Queued"]
    BY <1>1 DEF Start
  <2>2. on[p] \in Tasks
    BY <1>0, <1>1 DEF Start
  <2>3. \A u \in Tasks : [task EXCEPT ![on[p]].state = "Queued"][u].job = task[u].job
    BY <2>2, JobFacts
  <2>4. SameJobs
    BY <2>1, <2>3 DEF SameJobs
  <2> QED BY <1>0, <1>1, <2>4 DEF Start, Goto, Return
<1>2. CASE StartEvent(p)
  BY <1>0, <1>2 DEF StartEvent, Goto, Return, SameJobs
<1>3. CASE TimerFires(p)
  BY <1>0, <1>3 DEF TimerFires, Goto, Return, SameJobs
<1>4. CASE EnqueueStarted(p)
  <2>1. SameJobs
    BY <1>0, <1>4, JobFacts DEF EnqueueStarted, SameJobs
  <2> QED BY <1>0, <1>4, <2>1 DEF EnqueueStarted, Goto, Return
<1>5. CASE EnqueueFinished(p)
  BY <1>0, <1>5 DEF EnqueueFinished, Goto, Return, SameJobs
<1>6. CASE Push(p)
  BY <1>0, <1>6 DEF Push, Goto, Return, SameJobs
<1>8. CASE CancelEnter(p)
  BY <1>0, <1>8 DEF CancelEnter, Goto, Return, SameJobs
<1>9. CASE CancelFlag(p)
  <2>1. SameJobs
    BY <1>0, <1>9, JobFacts DEF CancelFlag, SameJobs
  <2> QED BY <1>0, <1>9, <2>1 DEF CancelFlag, Goto, Return
<1>10. CASE CancelClear(p)
  BY <1>0, <1>10 DEF CancelClear, Goto, Return, SameJobs
<1>11. CASE CancelState(p)
  <2>1. SameJobs
    BY <1>0, <1>11, JobFacts DEF CancelState, SameJobs
  <2> QED BY <1>0, <1>11, <2>1 DEF CancelState, Goto, Return
<1>12. CASE CancelRunning(p)
  BY <1>0, <1>12 DEF CancelRunning, Goto, Return, SameJobs
<1>13. CASE CancelSwap(p)
  <2>1. SameJobs
    BY <1>0, <1>13, JobFacts DEF CancelSwap, SameJobs
  <2> QED BY <1>0, <1>13, <2>1 DEF CancelSwap, Goto, Return
<1>14. CASE CancelSignal(p)
  BY <1>0, <1>14 DEF CancelSignal, Goto, Return, SameJobs
<1>15. CASE OwnerGone(p)
  BY <1>0, <1>15 DEF OwnerGone, Goto, Return, SameJobs
<1>16. CASE GoneRead(p)
  BY <1>0, <1>16 DEF GoneRead, Goto, Return, SameJobs
<1>17. CASE GoneSwap(p)
  <2>1. SameJobs
    BY <1>0, <1>17, JobFacts DEF GoneSwap, SameJobs
  <2> QED BY <1>0, <1>17, <2>1 DEF GoneSwap, Goto, Return
<1>18. CASE GoneFlag(p)
  <2>1. SameJobs
    BY <1>0, <1>18, JobFacts DEF GoneFlag, SameJobs
  <2> QED BY <1>0, <1>18, <2>1 DEF GoneFlag, Goto, Return
<1>19. CASE GoneState(p)
  <2>1. SameJobs
    BY <1>0, <1>19, JobFacts DEF GoneState, SameJobs
  <2> QED BY <1>0, <1>19, <2>1 DEF GoneState, Goto, Return
<1>20. CASE GoneSignal(p)
  BY <1>0, <1>20 DEF GoneSignal, Goto, Return, SameJobs
<1>21. CASE GoneRemove(p)
  BY <1>0, <1>21 DEF GoneRemove, Goto, Return, SameJobs
<1>22. CASE Reply(p)
  BY <1>0, <1>22 DEF Reply, Goto, Return, SameJobs
<1>23. CASE ReplySend(p)
  BY <1>0, <1>23 DEF ReplySend, Goto, Return, SameJobs
<1>7. CASE Spawn(p)
  <2>1. PICK w \in Workers : pc[w] = "idle" /\ pc' = [pc EXCEPT ![p] = "idle", ![w] = "pop"]
    BY <1>7 DEF Spawn
  <2> QED BY <1>0, <1>7, <2>1 DEF Spawn, SameJobs, Taken, JobPcs
<1> QED BY <1>1, <1>2, <1>3, <1>4, <1>5, <1>6, <1>7, <1>8, <1>9, <1>10, <1>11, <1>12,
     <1>13, <1>14, <1>15, <1>16, <1>17, <1>18, <1>19, <1>20, <1>21, <1>22, <1>23
  DEF Handler

\* The same jobs begun and executing: only a report can be left to match.
LEMMA SameView ==
    ASSUME SameJobs,
           \A w \in Workers : \/ pc'[w] \in JobPcs /\ pc[w] \in JobPcs /\ on'[w] = on[w]
                              \/ pc'[w] \notin JobPcs /\ pc[w] \notin JobPcs
    PROVE  Begun' = Begun /\ Executing' = Executing
BY DEF SameJobs, Begun, Executing, Running

LEMMA PlainStutters ==
    ASSUME LocalsOK, ClaimInv, BegunInv, NEW w \in Workers, Plain(w)
    PROVE  Promised /\ BegunInv'
<1>1. \A v \in Workers : v \in Procs
  BY DEF Procs
<1>2. \A v \in Workers : \/ pc'[v] \in JobPcs /\ pc[v] \in JobPcs /\ on'[v] = on[v]
                         \/ pc'[v] \notin JobPcs /\ pc[v] \notin JobPcs
  BY <1>1 DEF Plain, Taken
<1>3. Begun' = Begun /\ Executing' = Executing
  BY <1>2, SameView DEF Plain
<1>4. BegunInv'
  BY <1>1, <1>3 DEF Plain, BegunInv
<1> QED BY <1>3, <1>4 DEF Promised, Promise!vars, Plain

\* The elected process reports o: the promise's Finish.
LEMMA ReportFinishes ==
    ASSUME LocalsOK, DataOK, FinishInv, NEW p \in Procs, pc[p] \in Posted,
           NEW o \in Outcomes, o # "Canceled" => on[p] \in Begun \ Executing,
           Finish(on[p], o) \/ UNCHANGED signals,
           Begun' = Begun, Executing' = Executing
    PROVE  Promised
<1>1. CASE UNCHANGED signals
  BY <1>1 DEF Promised, Promise!vars
<1>2. CASE Finish(on[p], o)
  <2>1. on[p] \in Tasks /\ signals[on[p]] = <<>>
    BY DEF LocalsOK, OnATask, Posted, FinishInv
  <2>2. Append(<<>>, o) = <<o>>
    OBVIOUS
  <2>3. signals' = [signals EXCEPT ![on[p]] = <<o>>]
    BY <1>2, <2>1, <2>2 DEF Finish
  <2>4. Promise!Finish(on[p], o)
    BY <2>1, <2>3 DEF Promise!Finish
  <2> QED BY <2>1, <2>4 DEF Promised, Promise!Next, Outcomes
<1> QED BY <1>1, <1>2

LEMMA BegunInit == Init => BegunInv /\ Promise!Init
<1> SUFFICES ASSUME Init PROVE BegunInv /\ Promise!Init
  OBVIOUS
<1>1. \A w \in Workers : pc[w] \notin Taken
  BY DEF Init, Procs, Taken, JobPcs
<1>2. Begun = {} /\ Executing = {}
  BY <1>1 DEF Init, InitInner, Begun, Executing, Running, Taken
<1> QED BY <1>1, <1>2 DEF Init, BegunInv, Promise!Init

\* Every step of the daemon is a step of the promise, or none.
LEMMA PromiseStep ==
    LocalsOK /\ DataOK /\ ClaimInv /\ FinishInv /\ BegunInv /\ [Next]_vars
        => Promised /\ BegunInv'
<1> SUFFICES ASSUME LocalsOK, DataOK, ClaimInv, FinishInv, BegunInv, [Next]_vars
             PROVE  Promised /\ BegunInv'
  OBVIOUS
<1>0. /\ \A w \in Workers : w \in Procs
      /\ \A p \in Procs : pc[p] \notin {"idle", "dead", "pop"} => on[p] \in Tasks
  BY DEF Procs, LocalsOK, OnATask
<1>1. ASSUME NEW p \in Handlers, Handler(p) PROVE Promised /\ BegunInv'
  <2>1. /\ SameJobs
        /\ \A w \in Workers : /\ on'[w] = on[w]
                              /\ \/ pc'[w] = pc[w]
                                 \/ pc'[w] \notin Taken /\ pc[w] \notin Taken
    BY <1>1, HandlerPlain
  <2>2. Begun' = Begun /\ Executing' = Executing
    BY <2>1, SameView DEF Taken
  <2>3. BegunInv'
    BY <2>1, <2>2 DEF BegunInv
  <2>4. CASE UNCHANGED signals
    BY <2>2, <2>3, <2>4 DEF Promised, Promise!vars
  <2>5. CASE signals' # signals
    <3>1. CancelSignal(p) \/ GoneSignal(p)
      BY <1>1, <2>5 DEF Handler, Start, StartEvent, TimerFires, EnqueueStarted,
         EnqueueFinished, Push, Spawn, CancelEnter, CancelFlag, CancelClear, CancelState,
         CancelRunning, CancelSwap, OwnerGone, GoneRead, GoneSwap, GoneFlag, GoneState,
         GoneRemove, Reply, ReplySend
    <3>2. p \in Procs /\ pc[p] \in Posted /\ Finish(on[p], "Canceled")
      BY <2>5, <3>1 DEF CancelSignal, GoneSignal, Posted, Procs
    <3>3. "Canceled" \in Outcomes
      BY DEF Outcomes
    <3>4. Promised
      BY <2>2, <3>2, <3>3, ReportFinishes
    <3> QED BY <2>3, <3>4
  <2> QED BY <2>4, <2>5
<1>2. ASSUME NEW w \in Workers, Worker(w) PROVE Promised /\ BegunInv'
  <2>0. /\ w \in Procs /\ \A v \in Workers : v \in Procs
        /\ pc[w] \notin {"idle", "dead", "pop"} => on[w] \in Tasks
        /\ \A v \in Workers : pc[v] \in JobPcs /\ pc[w] \in RunPcs => v = w
    BY <1>0 DEF ClaimInv, Claim, RunPcs
  <2> USE DEF LocalsOK
  <2>1. CASE Pop(w)
    <3>1. Plain(w)
      BY <2>0, <2>1 DEF Pop, Goto, Plain, Taken, JobPcs, SameJobs
    <3> QED BY <3>1, PlainStutters
  <2>2. CASE Check(w)
    <3>1. Plain(w)
      BY <2>0, <2>2 DEF Check, Goto, Plain, Taken, JobPcs, SameJobs
    <3> QED BY <3>1, PlainStutters
  <2>3. CASE Raise(w)
    <3>1. SameJobs
      BY <2>0, <2>3, JobFacts DEF Raise, SameJobs
    <3>2. Plain(w)
      BY <2>0, <2>3, <3>1 DEF Raise, Goto, Plain, Taken, JobPcs
    <3> QED BY <3>2, PlainStutters
  <2>4. CASE Recheck(w)
    <3>1. Plain(w)
      BY <2>0, <2>4 DEF Recheck, Goto, Plain, Taken, JobPcs, SameJobs
    <3> QED BY <3>1, PlainStutters
  <2>5. CASE Lower(w)
    <3>1. SameJobs
      BY <2>0, <2>5, JobFacts DEF Lower, SameJobs
    <3>2. Plain(w)
      BY <2>0, <2>5, <3>1 DEF Lower, Goto, Plain, Taken, JobPcs
    <3> QED BY <3>2, PlainStutters
  <2>7. CASE Process(w)
    <3>1. SameJobs
      BY <2>0, <2>7, JobFacts DEF Process, SameJobs
    <3>2. Plain(w)
      BY <2>0, <2>7, <3>1 DEF Process, Goto, Plain, Taken, JobPcs
    <3> QED BY <3>2, PlainStutters
  <2>9. CASE JobLower(w)
    <3>1. SameJobs
      BY <2>0, <2>9, JobFacts DEF JobLower, SameJobs
    <3>2. Plain(w)
      BY <2>0, <2>9, <3>1 DEF JobLower, Goto, Plain, Taken, JobPcs
    <3> QED BY <3>2, PlainStutters
  <2>10. CASE JobSwap(w)
    <3>1. SameJobs
      BY <2>0, <2>10, JobFacts DEF JobSwap, SameJobs
    <3>2. Plain(w)
      BY <2>0, <2>10, <3>1 DEF JobSwap, Goto, Plain, Taken, JobPcs
    <3> QED BY <3>2, PlainStutters
  <2>11. CASE JobCanceled(w)
    <3>1. Plain(w)
      BY <2>0, <2>11 DEF JobCanceled, Goto, Plain, Taken, JobPcs, SameJobs
    <3> QED BY <3>1, PlainStutters
  <2>12. CASE JobState(w)
    <3>1. SameJobs
      BY <2>0, <2>12, JobFacts DEF JobState, SameJobs
    <3>2. Plain(w)
      BY <2>0, <2>12, <3>1 DEF JobState, Goto, Plain, Taken, JobPcs
    <3> QED BY <3>2, PlainStutters
  <2>14. CASE Remove(w)
    <3>1. Plain(w)
      BY <2>0, <2>14 DEF Remove, Goto, Plain, Taken, JobPcs, SameJobs
    <3> QED BY <3>1, PlainStutters
  <2>15. CASE AskOpen(w)
    <3>1. Plain(w)
      BY <2>0, <2>15 DEF AskOpen, Goto, Plain, Taken, JobPcs, SameJobs
    <3> QED BY <3>1, PlainStutters
  <2>16. CASE AskWait(w)
    <3>1. Plain(w)
      BY <2>0, <2>16 DEF AskWait, Goto, Plain, Taken, JobPcs, SameJobs
    <3> QED BY <3>1, PlainStutters
  <2>17. CASE AskClose(w)
    <3>1. Plain(w)
      BY <2>0, <2>17 DEF AskClose, Goto, Plain, Taken, JobPcs, SameJobs
    <3> QED BY <3>1, PlainStutters
  <2>19. ASSUME NEW i \in Asks, Ask(w, i) PROVE Promised /\ BegunInv'
    <3>1. Plain(w)
      BY <2>0, <2>19 DEF Ask, Goto, Plain, Taken, JobPcs, SameJobs
    <3> QED BY <3>1, PlainStutters
  <2>6. CASE TakeJob(w)
    <3> DEFINE t == on[w]
    <3>1. t \in Tasks /\ pc[w] = "take" /\ pc[w] \in RunPcs /\ pc[w] \notin JobPcs
      BY <2>0, <2>6 DEF TakeJob, RunPcs, JobPcs
    <3>2. /\ task' = [task EXCEPT ![t].job = FALSE]
          /\ pc' = [pc EXCEPT ![w] = IF task[t].job THEN "process" ELSE "lower"]
          /\ UNCHANGED <<on, signals>>
      BY <2>6 DEF TakeJob, Goto
    <3>3. /\ \A u \in Tasks \ {t} : task'[u] = task[u]
          /\ ~task'[t].job
      BY <3>1, <3>2 DEF DataOK, TaskInner
    <3>4. \A v \in Workers : pc[v] \notin JobPcs
      BY <2>0, <3>1
    <3>5. Begun' = Begun \cup {t}
      BY <3>1, <3>3 DEF Begun
    <3>6. Executing = {}
      BY <3>4 DEF Executing, Running
    <3>7. BegunInv'
      BY <2>0, <3>2, <3>5 DEF BegunInv
    <3>8. CASE task[t].job
      <4>1. pc'[w] = "process" /\ \A v \in Workers \ {w} : pc'[v] = pc[v]
        BY <2>0, <3>2, <3>8
      <4>2. \A u \in Tasks : (\E v \in Workers : pc'[v] \in JobPcs /\ on'[v] = u) <=> u = t
        BY <3>2, <3>4, <4>1 DEF JobPcs
      <4>3. Executing' = {t}
        BY <3>1, <4>2 DEF Executing, Running
      <4>4. t \notin Begun
        BY <3>8 DEF Begun
      <4>5. Promise!Begin(t)
        BY <3>2, <3>5, <3>6, <4>3, <4>4 DEF Promise!Begin
      <4> QED BY <3>1, <3>7, <4>5 DEF Promised, Promise!Next
    <3>9. CASE ~task[t].job
      <4>1. \A v \in Workers : pc'[v] \notin JobPcs
        BY <2>0, <3>2, <3>4, <3>9 DEF JobPcs
      <4>2. Executing' = {}
        BY <4>1 DEF Executing, Running
      <4>3. Begun' = Begun
        BY <3>1, <3>5, <3>9 DEF Begun
      <4> QED BY <3>2, <3>6, <3>7, <4>2, <4>3 DEF Promised, Promise!vars
    <3> QED BY <3>8, <3>9
  <2>8. CASE JobPanic(w) \/ \E r \in Outcomes : JobReturn(w, r)
    <3> DEFINE t == on[w]
    <3>1. /\ pc[w] = "job" /\ UNCHANGED <<task, on, signals>>
          /\ pc' = [pc EXCEPT ![w] = "dead"] \/ pc' = [pc EXCEPT ![w] = "job_lower"]
      BY <2>8 DEF JobPanic, JobReturn, Goto
    <3>2. t \in Tasks /\ \A v \in Workers : pc[v] \in JobPcs => v = w
      BY <2>0, <3>1 DEF RunPcs, JobPcs
    <3>3. Executing = {t}
      BY <3>1, <3>2 DEF Executing, Running, JobPcs
    <3>4. \A v \in Workers : pc'[v] \notin JobPcs
      BY <2>0, <3>1, <3>2 DEF JobPcs
    <3>5. Executing' = {}
      BY <3>4 DEF Executing, Running
    <3>6. Begun' = Begun
      BY <3>1 DEF Begun
    <3>7. BegunInv'
      BY <2>0, <3>1, <3>6 DEF BegunInv, Taken, JobPcs
    <3>8. Promise!End(t)
      BY <3>1, <3>3, <3>5, <3>6 DEF Promise!End
    <3> QED BY <3>2, <3>7, <3>8 DEF Promised, Promise!Next
  <2>13. CASE JobSignal(w)
    <3> DEFINE t == on[w]
               o == IF pc[w] = "job_signal" THEN result[w] ELSE "Canceled"
    <3>1. /\ pc[w] \in {"job_signal", "job_signal_canceled"}
          /\ Finish(t, o) \/ UNCHANGED signals
          /\ pc' = [pc EXCEPT ![w] = "remove"] /\ UNCHANGED <<task, on>>
      BY <2>13 DEF JobSignal, Goto
    <3>2. pc[w] \in Posted /\ pc[w] \in Taken /\ pc[w] \in RunPcs /\ pc[w] \notin JobPcs
      BY <3>1 DEF Posted, Taken, RunPcs, JobPcs
    <3>3. \A v \in Workers : \/ pc'[v] \in JobPcs /\ pc[v] \in JobPcs /\ on'[v] = on[v]
                             \/ pc'[v] \notin JobPcs /\ pc[v] \notin JobPcs
      BY <2>0, <3>1, <3>2 DEF JobPcs
    <3>4. Begun' = Begun /\ Executing' = Executing
      BY <3>1, <3>3, SameView DEF SameJobs
    <3>5. t \in Begun \ Executing
      BY <2>0, <3>2 DEF BegunInv, Executing, Running
    <3>6. o \in Outcomes
      BY <3>1 DEF DataOK, Outcomes
    <3>7. Promised
      BY <2>0, <3>1, <3>2, <3>4, <3>5, <3>6, ReportFinishes
    <3>8. BegunInv'
      BY <2>0, <3>1, <3>4 DEF BegunInv, Taken, JobPcs
    <3> QED BY <3>7, <3>8
  <2> QED BY <1>2, <2>1, <2>2, <2>3, <2>4, <2>5, <2>6, <2>7, <2>8, <2>9, <2>10,
         <2>11, <2>12, <2>13, <2>14, <2>15, <2>16, <2>17, <2>19
      DEF Worker
<1>3. ASSUME NEW c \in Calls, NEW t \in Tasks,
             \/ CallStart(c, t) \/ CallCancel(c, t)
             \/ \E i \in Asks, b \in BOOLEAN : CallReply(c, t, i, b)
      PROVE  Promised /\ BegunInv'
  <2>1. PICK l \in {"start", "cancel", "reply"} : Dispatch(c, t, l)
    BY <1>3 DEF CallStart, CallCancel, CallReply
  <2>2. c \notin Workers
    BY ProcAssumption DEF Handlers
  <2>3. /\ \A w \in Workers : pc'[w] = pc[w] /\ on'[w] = on[w]
        /\ SameJobs /\ UNCHANGED signals
    BY <1>0, <2>1, <2>2 DEF Dispatch, Goto, LocalsOK, SameJobs
  <2>4. Begun' = Begun /\ Executing' = Executing
    BY <2>3, SameView
  <2> QED BY <2>3, <2>4 DEF Promised, Promise!vars, BegunInv
<1>4. CASE UNCHANGED vars \/ \E t \in Tasks : OwnerLeaves(t)
  <2>1. UNCHANGED <<task, pc, on, signals>>
    BY <1>4 DEF vars, OwnerLeaves
  <2>2. Begun' = Begun /\ Executing' = Executing
    BY <2>1 DEF Begun, Executing, Running
  <2> QED BY <2>1, <2>2 DEF Promised, Promise!vars, BegunInv
<1> QED BY <1>1, <1>2, <1>3, <1>4 DEF Next

\* The task queue implements TaskPromise: whatever the calls, the owner, the
\* timers and the workers do, each job is executed at most once and never beside
\* another, and each task is reported at most once, as anything but canceled only
\* after its job is over.
THEOREM ImplementsPromiseHolds == Spec => ImplementsPromise
<1>1. LocalsOK /\ DataOK /\ ClaimInv /\ FinishInv /\ BegunInv /\ [Next]_vars
        => [Promise!Next]_(Promise!vars)
  BY PromiseStep DEF Promised
<1> QED BY <1>1, PromiseStep, LocalsInit, LocalsStep, DataInit, DataStep, ClaimInit,
           ClaimStep, FinishInit, FinishStep, BegunInit,
           PTL DEF Spec, ImplementsPromise, Promise!Spec

-----------------------------------------------------------------------------
(* The clients' own variables.                                             *)

Fields == {"finished", "asks", "events"}

ClientOK ==
    /\ at \in [Tasks -> ClientPcs]
    /\ DOMAIN inbox = Tasks /\ DOMAIN outcome = Tasks /\ DOMAIN shown = Tasks
    /\ DOMAIN missed = Tasks /\ DOMAIN ended = Tasks
    /\ \A t \in Tasks : /\ DOMAIN inbox[t] = Fields
                        /\ inbox[t].finished \in Seq(Outcomes)
                        /\ inbox[t].asks \in Seq(Asks)
                        /\ inbox[t].events \in Seq(States)
                        /\ at[t] = "prompt" => inbox[t].asks # <<>>

\* A client makes one call at a time, cancels nothing, and is told of the end
\* of its task by nobody but the worker as long as it is there.
CallsInv ==
    /\ \A p \in Procs : /\ pc[p] \notin CancelPcs
                        /\ pc[p] \in GonePcs \ {"gone"} => on[p] \notin connected
                        /\ pc[p] \in {"start", "start_event"} => p \in Calls
    /\ \A c \in Calls : pc[c] # "idle" => at[on[c]] \in {"starting", "replying", "done"}
    /\ \A c, d \in Calls : pc[c] # "idle" /\ pc[d] # "idle" /\ on[c] = on[d] => c = d
    /\ \A t \in Tasks : at[t] \in {"starting", "poll", "prompt", "replying"} => t \in connected

\* Once a task is started its Queued event is out.
StartInv ==
    /\ \A t \in Tasks : task[t].state = "Pending" => t \notin QueuedTasks /\ ~task[t].started
    /\ \A p \in Procs :
          /\ pc[p] \in {"start_event", "enqueue"} => task[on[p]].state # "Pending"
          /\ pc[p] = "start_event" => on[p] \notin QueuedTasks /\ ~task[on[p]].started
          /\ pc[p] \in {"timer", "enqueue"} /\ p \notin Calls => on[p] \in QueuedTasks
          /\ pc[p] \in {"enqueue_finished", "push"} => task[on[p]].started
          /\ pc[p] \in RunPcs \ {"pop"} => task[on[p]].started
    /\ \A i \in DOMAIN queue.pending : task[queue.pending[i]].started

\* A worker that has the result of a job, and the end it brought.
Ending == {"job_lower", "job_swap", "job_canceled", "job_state", "job_signal",
           "job_signal_canceled"}

EndInv ==
    /\ \A t \in Tasks : /\ task[t].canceled => t \notin connected
                        /\ task[t].job \/ ~task[t].started => ended[t] = "none"
    /\ \A w \in Workers :
          /\ pc[w] \in JobPcs => ended[on[w]] = "none"
          /\ pc[w] \in Ending => ended[on[w]] = result[w]
          /\ pc[w] = "job_signal_canceled" => on[w] \notin connected

ToldInv ==
    /\ \A t \in connected : \A i \in DOMAIN inbox[t].finished :
          inbox[t].finished[i] = ended[t] /\ ended[t] \in Outcomes
    /\ \A t \in Tasks : outcome[t] \in Outcomes => ended[t] = outcome[t]

\* What a client will have shown when it has polled all that was delivered.
Latest(t) == LET left == inbox[t].events IN
             IF left = <<>> THEN shown[t] ELSE left[Len(left)]

ShownInv ==
    /\ \A t \in connected : at[t] # "done" /\ missed[t] = {} =>
          /\ inbox[t].finished # <<>> => Latest(t) = ended[t]
          /\ \A w \in Workers : pc[w] = "job_signal" /\ on[w] = t => Latest(t) = ended[t]
    /\ \A t \in Tasks : outcome[t] \in Outcomes =>
          at[t] = "done" /\ (missed[t] = {} => shown[t] = outcome[t])

-----------------------------------------------------------------------------
(* What the steps of the daemon do.                                        *)

LEMMA InnerFacts ==
    ASSUME DataOK, NEW t \in Tasks, NEW u \in Tasks, NEW x
    PROVE  /\ LET f == [task EXCEPT ![t].state = x] IN
              /\ f[u].job = task[u].job /\ f[u].started = task[u].started
              /\ f[u].canceled = task[u].canceled
              /\ f[u].state = IF u = t THEN x ELSE task[u].state
           /\ LET f == [task EXCEPT ![t].job = x] IN
              /\ f[u].state = task[u].state /\ f[u].started = task[u].started
              /\ f[u].canceled = task[u].canceled
              /\ f[u].job = IF u = t THEN x ELSE task[u].job
           /\ LET f == [task EXCEPT ![t].started = x] IN
              /\ f[u].state = task[u].state /\ f[u].job = task[u].job
              /\ f[u].canceled = task[u].canceled
              /\ f[u].started = IF u = t THEN x ELSE task[u].started
           /\ LET f == [task EXCEPT ![t].canceled = x] IN
              /\ f[u].state = task[u].state /\ f[u].job = task[u].job
              /\ f[u].started = task[u].started
              /\ f[u].canceled = IF u = t THEN x ELSE task[u].canceled
           /\ LET f == [task EXCEPT ![t].running = x] IN
              /\ f[u].state = task[u].state /\ f[u].job = task[u].job
              /\ f[u].started = task[u].started /\ f[u].canceled = task[u].canceled
           /\ LET f == [task EXCEPT ![t].finished = x] IN
              /\ f[u].state = task[u].state /\ f[u].job = task[u].job
              /\ f[u].started = task[u].started /\ f[u].canceled = task[u].canceled
BY DEF DataOK, TaskInner

\* A handler p moves itself, or a worker out of its sleep.
Mover(p) ==
    /\ UNCHANGED <<connected, result>>
    /\ \A q \in Procs \ {p} : /\ on'[q] = on[q]
                              /\ \/ pc'[q] = pc[q]
                                 \/ q \in Workers /\ pc[q] = "idle" /\ pc'[q] = "pop"
    /\ pc'[p] = "idle" \/ on'[p] = on[p]
    /\ pc'[p] \in GonePcs \ {"gone"} => pc[p] \in GonePcs /\ (pc[p] = "gone" => on[p] \notin connected)
    /\ pc'[p] \in CancelPcs => pc[p] \in CancelPcs
    /\ pc'[p] = "start_event" => /\ pc[p] = "start" /\ task[on[p]].state = "Pending"
                                 /\ task'[on[p]].state = "Queued"
    /\ pc'[p] = "enqueue" => \/ pc[p] \in {"start", "timer"} /\ task[on[p]].state = "Queued"
                             \/ pc[p] = "start_event"
    /\ pc'[p] = "enqueue_finished" => pc[p] = "enqueue"
    /\ pc'[p] = "push" => pc[p] = "enqueue_finished"
    /\ pc'[p] \notin {"start", "timer"} \cup RunPcs

\* What it does to the task t it works on, and to the queue.
Toucher(p, t) ==
    /\ \A u \in Tasks : task'[u].job = task[u].job
    /\ \A u \in Tasks \ {t} : /\ task'[u].state = task[u].state /\ signals'[u] = signals[u]
                              /\ task'[u].started = task[u].started
                              /\ task'[u].canceled = task[u].canceled
    /\ task'[t].state # task[t].state => \/ pc[p] = "start" /\ task'[t].state = "Queued"
                                         \/ pc[p] \in CancelPcs \cup GonePcs
                                            /\ task'[t].state = "Canceled"
    /\ \/ task'[t].started = task[t].started /\ pc[p] # "enqueue"
       \/ task'[t].started /\ pc[p] = "enqueue"
    /\ task'[t].canceled # task[t].canceled => pc[p] \in CancelPcs \cup {"gone_flag"}
    /\ signals'[t] # signals[t] => /\ pc[p] \in CancelPcs \cup {"gone_signal"}
                                   /\ signals'[t] = Append(signals[t], "Canceled")
    /\ UNCHANGED queue \/ (pc[p] = "push" /\ queue'.pending = Append(queue.pending, t))

LEMMA StartedOnce ==
    ASSUME DataOK, NEW t \in Tasks, NEW p, pc[p] = "enqueue", UNCHANGED <<signals, queue>>,
           task' = [task EXCEPT ![t].started = TRUE]
    PROVE  Toucher(p, t)
<1>1. \A u \in Tasks : /\ task'[u].job = task[u].job /\ task'[u].state = task[u].state
                       /\ task'[u].canceled = task[u].canceled
                       /\ task'[u].started = IF u = t THEN TRUE ELSE task[u].started
  BY DEF DataOK, TaskInner
<1> QED BY <1>1 DEF Toucher

LEMMA QueuedNow ==
    ASSUME DataOK, NEW t \in Tasks, task' = [task EXCEPT ![t].state = "Queued"]
    PROVE  task'[t].state = "Queued"
BY DEF DataOK, TaskInner

LEMMA HandlerEffect ==
    ASSUME LocalsOK, DataOK, NEW p \in Handlers, Handler(p)
    PROVE  on[p] \in Tasks /\ pc[p] \notin RunPcs \cup {"idle", "dead"} /\ Mover(p) /\ Toucher(p, on[p])
<1>0. p \in Procs
  BY DEF Procs
<1>t. on[p] \in Tasks /\ pc[p] \notin RunPcs \cup {"idle", "dead"}
  BY <1>0 DEF LocalsOK, OnATask, RunPcs, JobPcs, Handler, Start, StartEvent, TimerFires, EnqueueStarted, EnqueueFinished, Push, Spawn, CancelEnter, CancelFlag, CancelClear, CancelState, CancelRunning, CancelSwap, CancelSignal, OwnerGone, GoneRead, GoneSwap, GoneFlag, GoneState, GoneSignal, GoneRemove, Reply, ReplySend
<1> USE DEF LocalsOK, Mover, Toucher, Goto, Return, CancelPcs, GonePcs, RunPcs, JobPcs
<1>1. CASE Start(p)
  <2>1. CASE task' = [task EXCEPT ![on[p]].state = "Queued"] /\ Goto(p, "start_event")
    <3>1. task[on[p]].state = "Pending" /\ pc[p] = "start"
      BY <1>1, <2>1, <1>0 DEF Start
    <3>2. task'[on[p]].state = "Queued"
      BY <1>t, <2>1, QueuedNow
    <3>3. Mover(p)
      BY <1>0, <1>1, <2>1, <3>1, <3>2 DEF Start
    <3>4. Toucher(p, on[p])
      BY <1>0, <1>t, <1>1, <2>1, <3>1, InnerFacts DEF Start
    <3> QED BY <1>t, <3>3, <3>4
  <2>2. CASE task[on[p]].state = "Queued" /\ UNCHANGED task /\ Goto(p, "enqueue")
    BY <1>0, <1>t, <1>1, <2>2 DEF Start
  <2>3. CASE UNCHANGED task /\ Return(p)
    BY <1>0, <1>t, <1>1, <2>3 DEF Start
  <2> QED BY <1>1, <2>1, <2>2, <2>3 DEF Start
<1>2. CASE StartEvent(p)
  BY <1>0, <1>t, <1>2, InnerFacts DEF StartEvent
<1>3. CASE TimerFires(p)
  BY <1>0, <1>t, <1>3, InnerFacts DEF TimerFires
<1>4. CASE EnqueueStarted(p)
  <2>1. Mover(p)
    BY <1>0, <1>t, <1>4 DEF EnqueueStarted
  <2>2. Toucher(p, on[p])
    BY <1>t, <1>4, StartedOnce DEF EnqueueStarted
  <2> QED BY <1>t, <2>1, <2>2
<1>5. CASE EnqueueFinished(p)
  BY <1>0, <1>t, <1>5, InnerFacts DEF EnqueueFinished
<1>6. CASE Push(p)
  BY <1>0, <1>t, <1>6, InnerFacts DEF Push
<1>7. CASE Spawn(p)
  BY <1>0, <1>t, <1>7, InnerFacts DEF Spawn
<1>8. CASE CancelEnter(p)
  BY <1>0, <1>t, <1>8, InnerFacts DEF CancelEnter
<1>9. CASE CancelFlag(p)
  BY <1>0, <1>t, <1>9, InnerFacts DEF CancelFlag
<1>10. CASE CancelClear(p)
  BY <1>0, <1>t, <1>10, InnerFacts DEF CancelClear
<1>11. CASE CancelState(p)
  BY <1>0, <1>t, <1>11, InnerFacts DEF CancelState
<1>12. CASE CancelRunning(p)
  BY <1>0, <1>t, <1>12, InnerFacts DEF CancelRunning
<1>13. CASE CancelSwap(p)
  BY <1>0, <1>t, <1>13, InnerFacts DEF CancelSwap
<1>14. CASE CancelSignal(p)
  <2>1. /\ \A u \in Tasks \ {on[p]} : signals'[u] = signals[u]
        /\ UNCHANGED signals \/ signals'[on[p]] = Append(signals[on[p]], "Canceled")
    BY <1>t, <1>14 DEF CancelSignal, Finish, DataOK
  <2> QED BY <1>0, <1>t, <1>14, <2>1 DEF CancelSignal
<1>15. CASE OwnerGone(p)
  BY <1>0, <1>t, <1>15, InnerFacts DEF OwnerGone
<1>16. CASE GoneRead(p)
  BY <1>0, <1>t, <1>16, InnerFacts DEF GoneRead
<1>17. CASE GoneSwap(p)
  BY <1>0, <1>t, <1>17, InnerFacts DEF GoneSwap
<1>18. CASE GoneFlag(p)
  BY <1>0, <1>t, <1>18, InnerFacts DEF GoneFlag
<1>19. CASE GoneState(p)
  BY <1>0, <1>t, <1>19, InnerFacts DEF GoneState
<1>20. CASE GoneSignal(p)
  <2>1. /\ \A u \in Tasks \ {on[p]} : signals'[u] = signals[u]
        /\ UNCHANGED signals \/ signals'[on[p]] = Append(signals[on[p]], "Canceled")
    BY <1>t, <1>20 DEF GoneSignal, Finish, DataOK
  <2> QED BY <1>0, <1>t, <1>20, <2>1 DEF GoneSignal
<1>21. CASE GoneRemove(p)
  BY <1>0, <1>t, <1>21, InnerFacts DEF GoneRemove
<1>22. CASE Reply(p)
  BY <1>0, <1>t, <1>22, InnerFacts DEF Reply
<1>23. CASE ReplySend(p)
  BY <1>0, <1>t, <1>23, InnerFacts DEF ReplySend
<1> QED BY <1>1, <1>2, <1>3, <1>4, <1>5, <1>6, <1>7, <1>8, <1>9, <1>10, <1>11, <1>12, <1>13, <1>14, <1>15, <1>16, <1>17, <1>18, <1>19, <1>20, <1>21, <1>22, <1>23, <1>t DEF Handler

\* A worker w moves itself, and has one task from its queue to the end of it.
Goer(w) ==
    /\ UNCHANGED connected /\ pc[w] \in RunPcs /\ pc'[w] \in RunPcs \cup {"idle", "dead"}
    /\ \A q \in Procs \ {w} : pc'[q] = pc[q] /\ on'[q] = on[q]
    /\ \A v \in Workers \ {w} : result'[v] = result[v]
    /\ \/ pc[w] = "pop" /\ pc'[w] = "idle" /\ UNCHANGED <<task, signals>> /\ queue'.pending = <<>>
       \/ /\ pc[w] = "pop" /\ pc'[w] = "check" /\ UNCHANGED <<task, signals>>
          /\ queue.pending # <<>> /\ queue'.pending = Tail(queue.pending)
          /\ on'[w] = Head(queue.pending)
       \/ pc[w] = "remove" /\ pc'[w] = "pop" /\ UNCHANGED <<task, signals, queue>>
       \/ pc[w] \notin {"pop", "remove"} /\ pc'[w] # "pop" /\ on'[w] = on[w] /\ UNCHANGED queue
    /\ pc'[w] \in JobPcs => pc[w] \in JobPcs \/ (pc[w] = "take" /\ task[on[w]].job)
    /\ pc'[w] \in Ending => \/ pc'[w] = "job_lower" /\ pc[w] = "job"
                            \/ pc'[w] # "job_lower" /\ pc[w] \in Ending /\ UNCHANGED result
    /\ pc'[w] = "job_signal" => pc[w] = "job_state"
    /\ pc'[w] = "job_signal_canceled" => pc[w] = "job_canceled" /\ task[on[w]].canceled

\* What it does to the task t it works on.
Worked(w, t) ==
    /\ \A u \in Tasks : /\ task'[u].started = task[u].started
                        /\ task'[u].canceled = task[u].canceled
                        /\ task'[u].job => task[u].job
                        /\ task'[u].state = "Pending" => task[u].state = "Pending"
    /\ \A u \in Tasks \ {t} : task'[u].job = task[u].job /\ signals'[u] = signals[u]
    /\ task'[t].job # task[t].job => pc[w] = "take"
    /\ signals'[t] # signals[t] =>
          \/ pc[w] = "job_signal" /\ signals'[t] = Append(signals[t], result[w])
          \/ pc[w] = "job_signal_canceled" /\ signals'[t] = Append(signals[t], "Canceled")

LEMMA WorkerEffect ==
    ASSUME LocalsOK, DataOK, NEW w \in Workers, Worker(w)
    PROVE  /\ Goer(w)
           /\ pc[w] # "pop" => on[w] \in Tasks
           /\ IF pc[w] = "pop" THEN UNCHANGED <<task, signals>> ELSE Worked(w, on[w])
<1>0. w \in Procs
  BY DEF Procs
<1>1. CASE Pop(w)
  <2>1. CASE queue.pending = <<>>
    BY <1>0, <1>1, <2>1 DEF Pop, Goto, LocalsOK, Goer, RunPcs, JobPcs, Ending
  <2>2. CASE queue.pending # <<>>
    BY <1>0, <1>1, <2>2 DEF Pop, Goto, LocalsOK, Goer, RunPcs, JobPcs, Ending
  <2> QED BY <2>1, <2>2
<1>2. CASE ~Pop(w)
  <2>t. on[w] \in Tasks /\ pc[w] # "pop"
    BY <1>0, <1>2 DEF LocalsOK, OnATask, Worker, Check, Raise, Recheck, Lower, TakeJob, Process, JobPanic, JobLower, JobSwap, JobCanceled, JobState, JobSignal, Remove, AskOpen, AskWait, AskClose, JobReturn, Ask
  <2> USE DEF LocalsOK, Goer, Worked, Goto, RunPcs, JobPcs, Ending
  <2>1. CASE Check(w)
    BY <1>0, <2>t, <2>1, InnerFacts DEF Check
  <2>2. CASE Raise(w)
    BY <1>0, <2>t, <2>2, InnerFacts DEF Raise
  <2>3. CASE Recheck(w)
    BY <1>0, <2>t, <2>3, InnerFacts DEF Recheck
  <2>4. CASE Lower(w)
    BY <1>0, <2>t, <2>4, InnerFacts DEF Lower
  <2>5. CASE TakeJob(w)
    BY <1>0, <2>t, <2>5, InnerFacts DEF TakeJob
  <2>6. CASE Process(w)
    BY <1>0, <2>t, <2>6, InnerFacts DEF Process
  <2>7. CASE JobPanic(w)
    BY <1>0, <2>t, <2>7, InnerFacts DEF JobPanic
  <2>8. CASE JobLower(w)
    BY <1>0, <2>t, <2>8, InnerFacts DEF JobLower
  <2>9. CASE JobSwap(w)
    BY <1>0, <2>t, <2>9, InnerFacts DEF JobSwap
  <2>10. CASE JobCanceled(w)
    BY <1>0, <2>t, <2>10, InnerFacts DEF JobCanceled
  <2>11. CASE JobState(w)
    <3>1. result[w] # "Pending"
      BY DEF DataOK, Outcomes
    <3> QED BY <1>0, <2>t, <2>11, <3>1, InnerFacts DEF JobState
  <2>12. CASE JobSignal(w)
    BY <1>0, <2>t, <2>12, InnerFacts DEF JobSignal, DataOK, Finish
  <2>13. CASE Remove(w)
    BY <1>0, <2>t, <2>13, InnerFacts DEF Remove
  <2>14. CASE AskOpen(w)
    BY <1>0, <2>t, <2>14, InnerFacts DEF AskOpen
  <2>15. CASE AskWait(w)
    BY <1>0, <2>t, <2>15, InnerFacts DEF AskWait
  <2>16. CASE AskClose(w)
    BY <1>0, <2>t, <2>16, InnerFacts DEF AskClose
  <2>17. ASSUME NEW r \in Outcomes, JobReturn(w, r) PROVE Goer(w) /\ Worked(w, on[w])
    BY <1>0, <2>t, <2>17 DEF JobReturn, DataOK
  <2>18. ASSUME NEW i \in Asks, Ask(w, i) PROVE Goer(w) /\ Worked(w, on[w])
    BY <1>0, <2>t, <2>18 DEF Ask
  <2> QED BY <1>2, <2>t, <2>1, <2>2, <2>3, <2>4, <2>5, <2>6, <2>7, <2>8, <2>9, <2>10, <2>11, <2>12, <2>13, <2>14, <2>15, <2>16, <2>17, <2>18 DEF Worker
<1> QED BY <1>1, <1>2

-----------------------------------------------------------------------------
(* What is delivered.                                                      *)

\* What the streams of t become when p has sent something.
Delivered(t, p) ==
    /\ \A u \in Tasks \ {t} : inbox'[u] = inbox[u] /\ missed'[u] = missed[u]
    /\ at[t] = "done" => inbox'[t] = inbox[t] /\ missed'[t] = missed[t]
    /\ at[t] # "done" =>
          /\ \/ inbox'[t].finished = inbox[t].finished
             \/ inbox'[t].finished = inbox[t].finished \o Last(t)
          /\ \/ inbox'[t].asks = inbox[t].asks
             \/ inbox'[t].asks = inbox[t].asks \o Question(p)
          /\ \/ inbox'[t].events = inbox[t].events \o Events(p)
             \/ inbox'[t].events = inbox[t].events /\ "events" \in missed'[t]
          /\ missed[t] \subseteq missed'[t]
    /\ DOMAIN inbox' = Tasks /\ DOMAIN missed' = Tasks
    /\ \A u \in Tasks : DOMAIN inbox'[u] = Fields

LEMMA DeliveredOnce ==
    ASSUME ClientOK, NEW t \in Tasks, NEW p, Deliver(t, p), Events(p) \in Seq(States)
    PROVE  Delivered(t, p)
<1> DEFINE sent == [finished |-> Last(t), asks |-> Question(p), events |-> Events(p)]
           kept == [s \in DOMAIN sent |-> IF s \in subs[t] THEN sent[s] ELSE <<>>]
<1>1. CASE at[t] = "done"
  BY <1>1 DEF Deliver, Delivered, ClientOK
<1>2. CASE at[t] # "done"
  <2>1. /\ inbox' = [inbox EXCEPT ![t] = [s \in DOMAIN sent |-> inbox[t][s] \o kept[s]]]
        /\ missed' = [missed EXCEPT ![t] = missed[t] \cup {s \in DOMAIN sent : kept[s] # sent[s]}]
    BY <1>2 DEF Deliver
  <2>2. DOMAIN sent = Fields
    BY DEF Fields
  <2>3. /\ inbox'[t] = [s \in Fields |-> inbox[t][s] \o kept[s]]
        /\ \A u \in Tasks \ {t} : inbox'[u] = inbox[u] /\ missed'[u] = missed[u]
        /\ missed'[t] = missed[t] \cup {s \in Fields : kept[s] # sent[s]}
        /\ DOMAIN inbox' = Tasks /\ DOMAIN missed' = Tasks
    BY <2>1, <2>2 DEF ClientOK
  <2>4. /\ inbox[t].finished \in Seq(Outcomes) /\ inbox[t].asks \in Seq(Asks)
        /\ inbox[t].events \in Seq(States)
    BY DEF ClientOK
  <2>5. /\ kept["finished"] \in {<<>>, Last(t)} /\ kept["asks"] \in {<<>>, Question(p)}
        /\ kept["events"] \in {<<>>, Events(p)}
    BY <2>2 DEF Fields
  <2>6. /\ inbox'[t].finished = inbox[t].finished \o kept["finished"]
        /\ inbox'[t].asks = inbox[t].asks \o kept["asks"]
        /\ inbox'[t].events = inbox[t].events \o kept["events"]
    BY <2>3 DEF Fields
  <2>7. kept["events"] = Events(p) \/ "events" \in missed'[t]
    BY <2>3 DEF Fields
  <2>8. \A f \in {inbox[t].finished, inbox[t].asks, inbox[t].events} : f \o <<>> = f
    BY <2>4
  <2> HIDE DEF sent, kept
  <2>9. \A u \in Tasks : DOMAIN inbox'[u] = Fields
    BY <2>3 DEF ClientOK
  <2> QED BY <1>2, <2>3, <2>5, <2>6, <2>7, <2>8, <2>9 DEF Delivered
<1> QED BY <1>1, <1>2

LEMMA LastOf ==
    ASSUME DataOK, NEW t \in Tasks, NEW o \in Outcomes,
           signals'[t] = signals[t] \/ signals'[t] = Append(signals[t], o)
    PROVE  Last(t) \in {<<>>, <<o>>} /\ (signals'[t] = signals[t] => Last(t) = <<>>)
<1>1. CASE signals'[t] = signals[t]
  BY <1>1 DEF Last
<1>2. CASE signals'[t] # signals[t]
  <2>1. signals[t] \in Seq(Outcomes)
    BY DEF DataOK
  <2>2. signals'[t][Len(signals'[t])] = o
    BY <1>2, <2>1
  <2> QED BY <1>2, <2>2 DEF Last
<1> QED BY <1>1, <1>2

\* A handler sends the Queued event, or the end of a task it has canceled.
LEMMA HandlerSends ==
    ASSUME LocalsOK, DataOK, NEW p \in Handlers, Handler(p)
    PROVE  /\ Events(p) \in Seq(States) /\ Question(p) = <<>>
           /\ Events(p) # <<>> => pc[p] = "start_event"
           /\ Last(on[p]) \in {<<>>, <<"Canceled">>}
           /\ Last(on[p]) # <<>> => pc[p] \in CancelPcs \cup {"gone_signal"}
<1>1. /\ on[p] \in Tasks /\ pc[p] \notin {"process", "job_state", "ask_open"}
      /\ Toucher(p, on[p])
  BY HandlerEffect DEF RunPcs, JobPcs
<1>2. signals'[on[p]] = signals[on[p]] \/ signals'[on[p]] = Append(signals[on[p]], "Canceled")
  BY <1>1 DEF Toucher
<1>3. "Canceled" \in Outcomes /\ "Queued" \in States
  BY NameFacts
<1>4. Events(p) \in {<<>>, <<"Queued">>} /\ (Events(p) # <<>> => pc[p] = "start_event")
  BY <1>1 DEF Events
<1>5. Question(p) = <<>>
  BY <1>1 DEF Question
<1>6. Last(on[p]) \in {<<>>, <<"Canceled">>} /\ (signals'[on[p]] = signals[on[p]] => Last(on[p]) = <<>>)
  BY <1>1, <1>2, <1>3, LastOf
<1>7. Events(p) \in Seq(States)
  <2>1. <<"Queued">> \in Seq(States) /\ <<>> \in Seq(States)
    BY <1>3
  <2> QED BY <1>4, <2>1
<1> QED BY <1>1, <1>4, <1>5, <1>6, <1>7 DEF Toucher

\* A worker sends the other states, the questions of a job and its end.
LEMMA WorkerSends ==
    ASSUME LocalsOK, DataOK, NEW w \in Workers, Worker(w), on[w] \in Tasks
    PROVE  /\ Events(w) \in Seq(States) /\ Question(w) \in Seq(Asks)
           /\ Events(w) # <<>> => \/ pc[w] = "process"
                                  \/ pc[w] = "job_state" /\ Events(w) = <<result[w]>>
           /\ Last(on[w]) # <<>> =>
                 \/ pc[w] = "job_signal" /\ Last(on[w]) = <<result[w]>>
                 \/ pc[w] = "job_signal_canceled" /\ Last(on[w]) = <<"Canceled">>
<1>0. w \in Procs /\ result[w] \in Outcomes
  BY DEF Procs, DataOK
<1>1. result[w] \in States /\ "Processing" \in States /\ "Canceled" \in Outcomes
  BY <1>0, NameFacts
<1>2. Events(w) \in Seq(States)
  <2>1. pc'[w] # "enqueue"
    BY WorkerEffect DEF Goer, RunPcs, JobPcs
  <2> QED BY <1>1, <2>1 DEF Events
<1>3. Events(w) # <<>> => \/ pc[w] = "process"
                          \/ pc[w] = "job_state" /\ Events(w) = <<result[w]>>
  <2>1. pc'[w] # "enqueue"
    BY WorkerEffect DEF Goer, RunPcs, JobPcs
  <2> QED BY <2>1 DEF Events
<1>4. Question(w) \in Seq(Asks)
  <2>1. pc[w] = "ask_open" => msg[w].id \in Asks
    BY <1>0 DEF LocalsOK, OnAnAsk
  <2> QED BY <2>1 DEF Question
<1>5. CASE pc[w] = "pop"
  BY <1>2, <1>3, <1>4, <1>5, WorkerEffect DEF Last
<1>6. CASE pc[w] # "pop"
  <2>1. Worked(w, on[w])
    BY <1>6, WorkerEffect
  <2>2. CASE signals'[on[w]] = signals[on[w]]
    BY <1>2, <1>3, <1>4, <2>2 DEF Last
  <2>3. CASE pc[w] = "job_signal" /\ signals'[on[w]] = Append(signals[on[w]], result[w])
    BY <1>0, <1>2, <1>3, <1>4, <2>3, LastOf
  <2>4. CASE pc[w] = "job_signal_canceled" /\ signals'[on[w]] = Append(signals[on[w]], "Canceled")
    BY <1>1, <1>2, <1>3, <1>4, <2>4, LastOf
  <2> QED BY <2>1, <2>2, <2>3, <2>4 DEF Worked
<1> QED BY <1>5, <1>6

-----------------------------------------------------------------------------
(* The steps of clients, sorted by what they change.                       *)

Still == UNCHANGED <<vars, at, inbox, outcome, shown, missed, ended>>

Early == {"dial", "hello", "sub_finished", "sub_asks", "sub_events"}

\* A client goes on, or gives up.
Walks(t) ==
    /\ UNCHANGED <<vars, inbox, outcome, shown, missed, ended>>
    /\ \E m \in ClientPcs :
          /\ at' = [at EXCEPT ![t] = m]
          /\ \/ at[t] \in Early /\ m \in Early \cup {"start"}
             \/ at[t] = "poll" /\ m = "prompt" /\ inbox[t].asks # <<>>

Errs(t) == Leave(t, "error") /\ UNCHANGED <<vars, inbox, shown, missed, ended>>

\* The steps of one client.
Client(t) == \/ Walks(t) \/ Errs(t) \/ PollEvent(t) \/ PollFinished(t)
             \/ CallsStart(t) \/ Answer(t) \/ ClientExits(t)

LEMMA ClientCases ==
    ASSUME [ClientNext]_allVars
    PROVE  \/ Still
           \/ \E t \in Tasks : Client(t)
           \/ \E c \in Calls : Serve(c)
           \/ \E p \in Agents : Spontaneous(p)
           \/ \E w \in Workers : Work(w)
<1>1. CASE UNCHANGED allVars
  BY <1>1 DEF allVars, client, Still
<1>2. CASE Bind \/ Deadline \/ PeerExits \/ Killed \/ \E t \in Tasks : Accept(t)
  BY <1>2 DEF Bind, Deadline, PeerExits, Killed, Accept, Still
<1>3. ASSUME NEW t \in Tasks, RunTask(t) PROVE Client(t)
  <2> USE DEF Walks, Early, ClientPcs
  <2>1. CASE Dial(t)
    BY <2>1 DEF Dial, Client
  <2>2. CASE Hello(t)
    BY <2>2 DEF Hello, Client
  <2>3. CASE GiveUp(t) \/ Broken(t) \/ NoObject(t) \/ AnswerLate(t)
    BY <2>3 DEF GiveUp, Broken, NoObject, AnswerLate, Errs, Client
  <2>4. CASE SubscribeFinished(t)
    BY <2>4 DEF SubscribeFinished, Subscribe, Client
  <2>5. CASE SubscribeAsks(t)
    BY <2>5 DEF SubscribeAsks, Subscribe, Client
  <2>6. CASE SubscribeEvents(t)
    BY <2>6 DEF SubscribeEvents, Subscribe, Client
  <2>7. CASE PollAsk(t)
    BY <2>7 DEF PollAsk, Client
  <2> QED BY <1>3, <2>1, <2>2, <2>3, <2>4, <2>5, <2>6, <2>7 DEF RunTask, Client
<1>4. ASSUME NEW p \in Procs, Daemon(p)
      PROVE  \/ p \in Calls /\ Serve(p)
             \/ p \in Workers /\ Work(p)
             \/ p \in Agents /\ Spontaneous(p)
  BY <1>4 DEF Daemon, Procs, Handlers
<1>5. CASE \E t \in Tasks : ClientExits(t)
  BY <1>5 DEF Client
<1> QED BY <1>1, <1>2, <1>3, <1>4, <1>5 DEF ClientNext

\* The daemon goes on as TaskService says.
LEMMA ClientOfService ==
    ASSUME ClientOK, [ClientNext]_allVars
    PROVE  [Next]_vars
<1>1. CASE Still
  BY <1>1 DEF Still
<1>2. ASSUME NEW t \in Tasks, Client(t) PROVE [Next]_vars
  <2>1. CASE Walks(t) \/ Errs(t) \/ PollEvent(t) \/ PollFinished(t)
    BY <2>1 DEF Walks, Errs, PollEvent, PollFinished
  <2>2. CASE CallsStart(t)
    BY <2>2 DEF CallsStart, Next
  <2>3. CASE Answer(t)
    <3>1. Head(inbox[t].asks) \in Asks
      BY <2>3 DEF Answer, ClientOK
    <3> QED BY <2>3, <3>1 DEF Answer, Next
  <2>4. CASE ClientExits(t)
    BY <2>4 DEF ClientExits, Next
  <2> QED BY <1>2, <2>1, <2>2, <2>3, <2>4 DEF Client
<1>3. ASSUME NEW c \in Calls, Serve(c) PROVE [Next]_vars
  BY <1>3 DEF Serve, Next, Handlers
<1>4. ASSUME NEW p \in Agents, Spontaneous(p) PROVE [Next]_vars
  BY <1>4 DEF Spontaneous, Next, Handlers
<1>5. ASSUME NEW w \in Workers, Work(w) PROVE [Next]_vars
  BY <1>5 DEF Work, Next
<1> QED BY <1>1, <1>2, <1>3, <1>4, <1>5, ClientCases

-----------------------------------------------------------------------------
(* The types of the clients' variables.                                    *)

Mail(m) == /\ DOMAIN m = Fields
           /\ m.finished \in Seq(Outcomes) /\ m.asks \in Seq(Asks) /\ m.events \in Seq(States)

LEMMA ClientInitOK == ClientInit => ClientOK
<1> SUFFICES ASSUME ClientInit PROVE ClientOK
  OBVIOUS
<1>1. at \in [Tasks -> ClientPcs]
  BY DEF ClientInit, ClientPcs
<1>2. Mail(NoMail)
  BY DEF Mail, NoMail, Fields
<1>3. \A t \in Tasks : Mail(inbox[t])
  BY <1>2 DEF ClientInit
<1>4. \A t \in Tasks : at[t] # "prompt"
  BY DEF ClientInit
<1> QED BY <1>1, <1>3, <1>4 DEF ClientInit, ClientOK, Mail

\* What is delivered has its type.
LEMMA MailKept ==
    ASSUME ClientOK, NEW t \in Tasks, NEW p, Deliver(t, p), Events(p) \in Seq(States),
           Last(t) \in Seq(Outcomes), Question(p) \in Seq(Asks)
    PROVE  /\ DOMAIN inbox' = Tasks /\ DOMAIN missed' = Tasks
           /\ \A u \in Tasks : Mail(inbox'[u])
           /\ \A u \in Tasks : inbox[u].asks # <<>> => inbox'[u].asks # <<>>
<1>1. Delivered(t, p)
  BY DeliveredOnce
<1>2. \A u \in Tasks \ {t} : inbox'[u] = inbox[u] /\ Mail(inbox[u])
  BY <1>1 DEF Delivered, ClientOK, Mail
<1>3. Mail(inbox[t])
  BY DEF ClientOK, Mail
<1>4. CASE at[t] = "done"
  BY <1>1, <1>2, <1>3, <1>4 DEF Delivered
<1>5. CASE at[t] # "done"
  <2>1. /\ inbox[t].finished \o Last(t) \in Seq(Outcomes)
        /\ inbox[t].asks \o Question(p) \in Seq(Asks)
        /\ inbox[t].events \o Events(p) \in Seq(States)
    BY <1>3 DEF Mail
  <2>2. Mail(inbox'[t])
    BY <1>1, <1>3, <1>5, <2>1 DEF Delivered, Mail
  <2>3. inbox[t].asks # <<>> => inbox[t].asks \o Question(p) # <<>>
    BY <1>3 DEF Mail
  <2>4. inbox[t].asks # <<>> => inbox'[t].asks # <<>>
    BY <1>1, <1>5, <2>3 DEF Delivered
  <2> QED BY <1>1, <1>2, <2>2, <2>4 DEF Delivered
<1> QED BY <1>4, <1>5

LEMMA ClientOKStep ==
    ASSUME LocalsOK, DataOK, ClientOK, [ClientNext]_allVars
    PROVE  ClientOK'
<1>0. /\ at \in [Tasks -> ClientPcs] /\ \A t \in Tasks : Mail(inbox[t])
      /\ DOMAIN inbox = Tasks /\ DOMAIN outcome = Tasks /\ DOMAIN shown = Tasks
      /\ DOMAIN missed = Tasks /\ DOMAIN ended = Tasks
      /\ \A t \in Tasks : at[t] = "prompt" => inbox[t].asks # <<>>
  BY DEF ClientOK, Mail
<1>s. ASSUME at' \in [Tasks -> ClientPcs], \A t \in Tasks : Mail(inbox'[t]),
             DOMAIN inbox' = Tasks, DOMAIN outcome' = Tasks, DOMAIN shown' = Tasks,
             DOMAIN missed' = Tasks, DOMAIN ended' = Tasks,
             \A t \in Tasks : at'[t] = "prompt" => inbox'[t].asks # <<>>
      PROVE  ClientOK'
  BY <1>s DEF ClientOK, Mail
<1>1. CASE Still
  BY <1>0, <1>1, <1>s DEF Still
<1>2. ASSUME NEW t \in Tasks, Client(t) PROVE ClientOK'
  <2>1. CASE Walks(t)
    <3>1. PICK m \in ClientPcs :
             /\ at' = [at EXCEPT ![t] = m]
             /\ m = "prompt" => at[t] = "poll" /\ inbox[t].asks # <<>>
      BY <2>1 DEF Walks, Early
    <3> QED BY <1>0, <1>s, <2>1, <3>1 DEF Walks
  <2>2. CASE Errs(t)
    BY <1>0, <1>s, <2>2 DEF Errs, Leave, ClientPcs
  <2>3. CASE PollEvent(t)
    <3>1. Tail(inbox[t].events) \in Seq(States)
      BY <1>0, <2>3 DEF PollEvent, Mail
    <3>2. Mail([inbox[t] EXCEPT !.events = Tail(inbox[t].events)])
      BY <1>0, <3>1 DEF Mail, Fields
    <3>3. /\ DOMAIN inbox' = Tasks /\ \A u \in Tasks \ {t} : inbox'[u] = inbox[u]
          /\ inbox'[t] = [inbox[t] EXCEPT !.events = Tail(inbox[t].events)]
      BY <1>0, <2>3 DEF PollEvent
    <3> QED BY <1>0, <1>s, <2>3, <3>2, <3>3 DEF PollEvent
  <2>4. CASE PollFinished(t)
    <3>2. Mail([inbox[t] EXCEPT !.events = <<>>])
      BY <1>0 DEF Mail, Fields
    <3>3. /\ DOMAIN inbox' = Tasks /\ \A u \in Tasks \ {t} : inbox'[u] = inbox[u]
          /\ inbox'[t] = [inbox[t] EXCEPT !.events = <<>>]
      BY <1>0, <2>4 DEF PollFinished
    <3> QED BY <1>0, <1>s, <2>4, <3>2, <3>3 DEF PollFinished, Leave, ClientPcs
  <2>5. CASE CallsStart(t)
    BY <1>0, <1>s, <2>5 DEF CallsStart, ClientPcs
  <2>6. CASE Answer(t)
    <3>1. Tail(inbox[t].asks) \in Seq(Asks)
      BY <1>0, <2>6 DEF Answer, Mail
    <3>2. Mail([inbox[t] EXCEPT !.asks = Tail(inbox[t].asks)])
      BY <1>0, <3>1 DEF Mail, Fields
    <3>3. /\ DOMAIN inbox' = Tasks /\ \A u \in Tasks \ {t} : inbox'[u] = inbox[u]
          /\ inbox'[t] = [inbox[t] EXCEPT !.asks = Tail(inbox[t].asks)]
          /\ at' = [at EXCEPT ![t] = "replying"]
      BY <1>0, <2>6 DEF Answer
    <3> QED BY <1>0, <1>s, <2>6, <3>2, <3>3 DEF Answer, ClientPcs
  <2>7. CASE ClientExits(t)
    <3>1. Mail(NoMail)
      BY DEF Mail, NoMail, Fields
    <3> QED BY <1>0, <1>s, <2>7, <3>1 DEF ClientExits, ClientPcs
  <2> QED BY <1>2, <2>1, <2>2, <2>3, <2>4, <2>5, <2>6, <2>7 DEF Client
<1>c. /\ <<>> \in Seq(Outcomes) /\ <<"Canceled">> \in Seq(Outcomes) /\ <<>> \in Seq(Asks)
      /\ \A w \in Workers : <<result[w]>> \in Seq(Outcomes)
  BY NameFacts DEF DataOK
<1>3. ASSUME NEW c \in Calls, Serve(c) PROVE ClientOK'
  <2>1. Handler(c) /\ c \in Handlers /\ Deliver(on[c], c)
    BY <1>3 DEF Serve, Handlers
  <2>2. on[c] \in Tasks
    BY <2>1, HandlerEffect
  <2>3. Last(on[c]) \in Seq(Outcomes) /\ Events(c) \in Seq(States) /\ Question(c) \in Seq(Asks)
    <3>1. Last(on[c]) \in {<<>>, <<"Canceled">>} /\ Question(c) = <<>> /\ Events(c) \in Seq(States)
      BY <2>1, HandlerSends
    <3> QED BY <1>c, <3>1
  <2>4. /\ at' \in [Tasks -> ClientPcs] /\ DOMAIN outcome' = Tasks
        /\ \A t \in Tasks : at'[t] = "prompt" => at[t] = "prompt"
    BY <1>0, <1>3, <2>2 DEF Serve, Leave, ClientPcs
  <2> QED BY <1>0, <1>3, <1>s, <2>1, <2>2, <2>3, <2>4, MailKept DEF Serve
<1>4. ASSUME NEW p \in Agents, Spontaneous(p) PROVE ClientOK'
  <2>1. Handler(p) /\ p \in Handlers /\ Deliver(on[p], p)
    BY <1>4 DEF Spontaneous, Handlers
  <2>2. on[p] \in Tasks
    BY <2>1, HandlerEffect
  <2>3. Last(on[p]) \in Seq(Outcomes) /\ Events(p) \in Seq(States) /\ Question(p) \in Seq(Asks)
    <3>1. Last(on[p]) \in {<<>>, <<"Canceled">>} /\ Question(p) = <<>> /\ Events(p) \in Seq(States)
      BY <2>1, HandlerSends
    <3> QED BY <1>c, <3>1
  <2> QED BY <1>0, <1>4, <1>s, <2>1, <2>2, <2>3, MailKept DEF Spontaneous
<1>5. ASSUME NEW w \in Workers, Work(w) PROVE ClientOK'
  <2>0. Worker(w) /\ w \in Procs /\ on[w] \in Tasks \cup {NoTask}
    BY <1>5 DEF Work, Procs, LocalsOK
  <2>1. DOMAIN ended' = Tasks
    BY <1>0, <1>5 DEF Work
  <2>2. CASE on[w] = NoTask
    BY <1>0, <1>5, <1>s, <2>1, <2>2 DEF Work
  <2>3. CASE on[w] # NoTask
    <3>1. on[w] \in Tasks /\ Deliver(on[w], w)
      BY <1>5, <2>0, <2>3 DEF Work
    <3>2. /\ Last(on[w]) \in {<<>>, <<result[w]>>, <<"Canceled">>}
          /\ Events(w) \in Seq(States) /\ Question(w) \in Seq(Asks)
      BY <2>0, <3>1, WorkerSends
    <3>3. Last(on[w]) \in Seq(Outcomes)
      BY <1>c, <3>2
    <3> QED BY <1>0, <1>5, <1>s, <2>1, <3>1, <3>2, <3>3, MailKept DEF Work
  <2> QED BY <2>2, <2>3
<1> QED BY <1>1, <1>2, <1>3, <1>4, <1>5, ClientCases

-----------------------------------------------------------------------------
(* Calls and disconnections.                                               *)

LEMMA CallsInit == Init /\ ClientInit => CallsInv
<1> SUFFICES ASSUME Init, ClientInit PROVE CallsInv
  OBVIOUS
<1>1. \A p \in Procs : pc[p] \in {"gone", "timer", "idle"} /\ (p \notin Agents => pc[p] = "idle")
  BY TaskAssumption DEF Init, Agents
<1>2. \A c \in Calls : c \in Procs /\ c \notin Agents
  BY ProcAssumption DEF Procs, Handlers
<1>3. \A t \in Tasks : at[t] \notin {"starting", "poll", "prompt", "replying"}
  BY DEF ClientInit
<1> QED BY <1>1, <1>2, <1>3 DEF CallsInv, CancelPcs, GonePcs

\* A client moves, and the daemon does not.
LEMMA CallsKept ==
    ASSUME CallsInv, UNCHANGED <<pc, on, connected>>,
           \A c \in Calls : pc[c] # "idle" => on[c] \in Tasks,
           \A t \in Tasks : /\ at'[t] \in {"starting", "poll", "prompt", "replying"}
                                  => at[t] \in {"starting", "poll", "prompt", "replying"}
                            /\ at[t] \in {"starting", "replying", "done"}
                                  => at'[t] \in {"starting", "replying", "done"}
    PROVE  CallsInv'
BY DEF CallsInv

LEMMA CallsStep ==
    ASSUME LocalsOK, DataOK, ClaimInv, ClientOK, CallsInv, [ClientNext]_allVars
    PROVE  CallsInv'
<1>0. /\ at \in [Tasks -> ClientPcs] /\ connected \subseteq Tasks
      /\ pc \in [Procs -> Pcs] /\ on \in [Procs -> Tasks \cup {NoTask}]
      /\ \A c \in Calls : c \in Procs
      /\ \A c \in Calls : pc[c] # "idle" => on[c] \in Tasks
  BY DEF ClientOK, DataOK, LocalsOK, OnATask, ClaimInv, Procs, Handlers, RunPcs
<1>1. CASE Still
  BY <1>0, <1>1, CallsKept DEF Still, vars
<1>2. ASSUME NEW t \in Tasks, Client(t) PROVE CallsInv'
  <2>1. CASE Walks(t)
    BY <1>0, <2>1, CallsKept DEF Walks, Early, vars
  <2>2. CASE Errs(t)
    BY <1>0, <2>2, CallsKept DEF Errs, Leave, vars
  <2>3. CASE PollEvent(t)
    BY <1>0, <2>3, CallsKept DEF PollEvent, vars
  <2>4. CASE PollFinished(t)
    BY <1>0, <2>4, CallsKept DEF PollFinished, Leave, vars
  <2>5. CASE CallsStart(t)
    <3>1. PICK c \in Calls : CallStart(c, t)
      BY <2>5 DEF CallsStart
    <3>2. /\ pc[c] = "idle" /\ t \in connected /\ pc' = [pc EXCEPT ![c] = "start"]
          /\ on' = [on EXCEPT ![c] = t] /\ UNCHANGED connected
      BY <3>1 DEF CallStart, Dispatch, Goto
    <3>3. at[t] = "start" /\ at' = [at EXCEPT ![t] = "starting"]
      BY <2>5 DEF CallsStart
    <3> QED BY <1>0, <3>2, <3>3 DEF CallsInv, CancelPcs, GonePcs
  <2>6. CASE Answer(t)
    <3>1. PICK c \in Calls, b \in BOOLEAN : CallReply(c, t, Head(inbox[t].asks), b)
      BY <2>6 DEF Answer
    <3>2. /\ pc[c] = "idle" /\ t \in connected /\ pc' = [pc EXCEPT ![c] = "reply"]
          /\ on' = [on EXCEPT ![c] = t] /\ UNCHANGED connected
      BY <3>1 DEF CallReply, Dispatch, Goto
    <3>3. at[t] = "prompt" /\ at' = [at EXCEPT ![t] = "replying"]
      BY <2>6 DEF Answer
    <3> QED BY <1>0, <3>2, <3>3 DEF CallsInv, CancelPcs, GonePcs
  <2>7. CASE ClientExits(t)
    <3>1. /\ connected' = connected \ {t} /\ UNCHANGED <<pc, on>>
          /\ at' = [at EXCEPT ![t] = "done"]
      BY <2>7 DEF ClientExits, OwnerLeaves
    <3> QED BY <1>0, <3>1 DEF CallsInv
  <2> QED BY <1>2, <2>1, <2>2, <2>3, <2>4, <2>5, <2>6, <2>7 DEF Client
<1>3. ASSUME NEW c \in Calls, Serve(c) PROVE CallsInv'
  <2>1. Handler(c) /\ c \in Handlers /\ c \in Procs
    BY <1>3 DEF Serve, Handlers, Procs
  <2>2. on[c] \in Tasks /\ pc[c] # "idle" /\ Mover(c)
    BY <2>1, HandlerEffect
  <2>3. \A d \in Calls \ {c} : pc'[d] = pc[d] /\ on'[d] = on[d]
    BY <1>0, <2>2, ProcAssumption DEF Mover, Handlers
  <2>4. \/ UNCHANGED at
        \/ pc'[c] = "idle" /\ \E m \in {"poll", "done"} :
              /\ at' = [at EXCEPT ![on[c]] = m]
              /\ at[on[c]] # "done"
    BY <1>3 DEF Serve, Leave
  <2>5. at[on[c]] \in {"starting", "replying", "done"}
    BY <2>2 DEF CallsInv
  <2>6. \A t \in Tasks : at'[t] \in {"starting", "poll", "prompt", "replying"} => t \in connected'
    BY <1>0, <2>2, <2>4, <2>5 DEF CallsInv, Mover
  <2>7. \A p \in Procs : /\ pc'[p] \notin CancelPcs
                         /\ pc'[p] \in GonePcs \ {"gone"} => on'[p] \notin connected'
                         /\ pc'[p] \in {"start", "start_event"} => p \in Calls
    BY <1>0, <2>2 DEF CallsInv, Mover, CancelPcs, GonePcs
  <2>8. \A d \in Calls : pc'[d] # "idle" => pc[d] # "idle" /\ on'[d] = on[d]
    BY <2>2, <2>3 DEF Mover
  <2>9. \A d \in Calls : pc'[d] # "idle" => at'[on[d]] = at[on[d]]
    BY <1>0, <2>2, <2>4, <2>8 DEF CallsInv
  <2> QED BY <2>6, <2>7, <2>8, <2>9 DEF CallsInv
<1>4. ASSUME NEW p \in Agents, Spontaneous(p) PROVE CallsInv'
  <2>1. Handler(p) /\ p \in Handlers /\ UNCHANGED at
    BY <1>4 DEF Spontaneous, Handlers
  <2>2. Mover(p)
    BY <2>1, HandlerEffect
  <2>3. \A d \in Calls : d \in Procs \ {p} /\ d \notin Workers
    BY <1>0, ProcAssumption DEF Handlers
  <2>4. \A d \in Calls : pc'[d] = pc[d] /\ on'[d] = on[d]
    BY <2>2, <2>3 DEF Mover
  <2>5. \A q \in Procs : /\ pc'[q] \notin CancelPcs
                         /\ pc'[q] \in GonePcs \ {"gone"} => on'[q] \notin connected'
                         /\ pc'[q] \in {"start", "start_event"} => q \in Calls
    BY <1>0, <2>2 DEF CallsInv, Mover, CancelPcs, GonePcs
  <2> QED BY <2>1, <2>2, <2>4, <2>5 DEF CallsInv, Mover
<1>5. ASSUME NEW w \in Workers, Work(w) PROVE CallsInv'
  <2>1. Worker(w) /\ UNCHANGED at /\ w \in Procs
    BY <1>5 DEF Work, Procs
  <2>2. Goer(w)
    BY <2>1, WorkerEffect
  <2>3. \A d \in Calls : pc'[d] = pc[d] /\ on'[d] = on[d]
    BY <1>0, <2>2, ProcAssumption DEF Goer, Handlers
  <2>4. \A q \in Procs : /\ pc'[q] \notin CancelPcs
                         /\ pc'[q] \in GonePcs \ {"gone"} => on'[q] \notin connected'
                         /\ pc'[q] \in {"start", "start_event"} => q \in Calls
    BY <2>2 DEF CallsInv, Goer, CancelPcs, GonePcs, RunPcs, JobPcs
  <2> QED BY <2>1, <2>2, <2>3, <2>4 DEF CallsInv, Goer
<1> QED BY <1>1, <1>2, <1>3, <1>4, <1>5, ClientCases

-----------------------------------------------------------------------------
(* Starts.                                                                 *)

LEMMA StartInit == Init => StartInv
<1> SUFFICES ASSUME Init PROVE StartInv
  OBVIOUS
<1>1. \A p \in Procs : pc[p] = "timer" => on[p] \in QueuedTasks
  <2> SUFFICES ASSUME NEW p \in Procs, pc[p] = "timer" PROVE on[p] \in QueuedTasks
    OBVIOUS
  <2>1. PICK t \in QueuedTasks : p = Timer(t)
    BY DEF Init
  <2>2. p \in Agents /\ p[2] = t
    BY <2>1, TaskAssumption DEF Agents, Timer
  <2> QED BY <2>2 DEF Init
<1>2. \A p \in Procs : pc[p] \in {"gone", "timer", "idle"}
  BY DEF Init
<1>3. \A t \in Tasks : task[t].state = "Pending" => t \notin QueuedTasks /\ ~task[t].started
  BY DEF Init, InitInner
<1>4. queue.pending = <<>>
  BY DEF Init
<1> QED BY <1>1, <1>2, <1>3, <1>4 DEF StartInv, RunPcs, JobPcs

\* A handler raises started only where no Queued event is still to come.
LEMMA StartHandler ==
    ASSUME LocalsOK, DataOK, ClaimInv, CallsInv, StartInv, NEW p \in Handlers, Handler(p)
    PROVE  StartInv'
<1>0. /\ on[p] \in Tasks /\ p \in Procs /\ Mover(p) /\ Toucher(p, on[p])
      /\ pc[p] \notin RunPcs \cup {"idle", "dead"}
  BY HandlerEffect DEF Procs
<1>1. \A t \in Tasks : /\ task'[t].state = "Pending" => task[t].state = "Pending"
                       /\ task[t].started => task'[t].started
                       /\ ~task[t].started /\ task'[t].started => t = on[p] /\ pc[p] = "enqueue"
  BY <1>0 DEF Toucher
<1>2. \A q \in Procs : pc[q] \notin {"idle", "dead", "pop"} => on[q] \in Tasks
  BY DEF LocalsOK, OnATask
<1>3. \A t \in Tasks : task'[t].state = "Pending" => t \notin QueuedTasks /\ ~task'[t].started
  BY <1>0, <1>1 DEF StartInv
<1>4. ASSUME NEW q \in Procs \ {p}
      PROVE  /\ pc'[q] \in {"start_event", "enqueue"} => task'[on'[q]].state # "Pending"
             /\ pc'[q] = "start_event" => on'[q] \notin QueuedTasks /\ ~task'[on'[q]].started
             /\ pc'[q] \in {"timer", "enqueue"} /\ q \notin Calls => on'[q] \in QueuedTasks
             /\ pc'[q] \in {"enqueue_finished", "push"} => task'[on'[q]].started
             /\ pc'[q] \in RunPcs \ {"pop"} => task'[on'[q]].started
  <2>1. on'[q] = on[q] /\ (pc'[q] = pc[q] \/ pc'[q] = "pop")
    BY <1>0 DEF Mover
  <2>2. CASE pc'[q] = "pop"
    BY <2>2
  <2>3. CASE pc'[q] = pc[q]
    <3>1. pc[q] = "start_event" => on[q] # on[p] \/ pc[p] # "enqueue"
      BY <1>0 DEF CallsInv, StartInv
    <3> QED BY <1>1, <1>2, <2>1, <2>3, <3>1 DEF StartInv, RunPcs, JobPcs
  <2> QED BY <2>1, <2>2, <2>3
<1>5. /\ pc'[p] \in {"start_event", "enqueue"} => task'[on[p]].state # "Pending"
      /\ pc'[p] = "start_event" => on[p] \notin QueuedTasks /\ ~task'[on[p]].started
      /\ pc'[p] \in {"timer", "enqueue"} /\ p \notin Calls => on[p] \in QueuedTasks
      /\ pc'[p] \in {"enqueue_finished", "push"} => task'[on[p]].started
      /\ pc'[p] \notin RunPcs
  <2>1. pc'[p] = "start_event" => /\ pc[p] = "start" /\ task[on[p]].state = "Pending"
                                  /\ on[p] \notin QueuedTasks /\ ~task'[on[p]].started
    BY <1>0, <1>1 DEF Mover, StartInv
  <2>2. pc'[p] = "start_event" => task'[on[p]].state # "Pending"
    BY <1>0, <1>1, <1>3, <2>1 DEF Mover, Toucher
  <2>3. pc'[p] = "enqueue" => task'[on[p]].state # "Pending"
    BY <1>0, <1>1 DEF Mover, StartInv
  <2>4. pc'[p] \in {"timer", "enqueue"} /\ p \notin Calls => on[p] \in QueuedTasks
    BY <1>0 DEF Mover, StartInv, CallsInv
  <2>5. pc'[p] \in {"enqueue_finished", "push"} => task'[on[p]].started
    BY <1>0, <1>1 DEF Mover, StartInv, Toucher
  <2>6. pc'[p] \notin RunPcs
    BY <1>0 DEF Mover
  <2> QED BY <2>1, <2>2, <2>3, <2>4, <2>5, <2>6
<1>6. \A i \in DOMAIN queue'.pending : task'[queue'.pending[i]].started
  <2>1. \A i \in DOMAIN queue.pending : queue.pending[i] \in Tasks
    BY DEF LocalsOK
  <2>2. CASE UNCHANGED queue
    BY <1>1, <2>1, <2>2 DEF StartInv
  <2>3. CASE pc[p] = "push" /\ queue'.pending = Append(queue.pending, on[p])
    BY <1>0, <1>1, <2>1, <2>3 DEF StartInv, LocalsOK
  <2> QED BY <1>0, <2>2, <2>3 DEF Toucher
<1>7. pc'[p] \in {"idle"} \/ on'[p] = on[p]
  BY <1>0 DEF Mover
<1> QED BY <1>3, <1>4, <1>5, <1>6, <1>7 DEF StartInv

LEMMA StartWorker ==
    ASSUME LocalsOK, DataOK, StartInv, NEW w \in Workers, Worker(w)
    PROVE  StartInv'
<1>0. /\ w \in Procs /\ Goer(w) /\ pc[w] \in RunPcs
      /\ IF pc[w] = "pop" THEN UNCHANGED <<task, signals>> ELSE Worked(w, on[w])
  BY WorkerEffect DEF Procs, Goer
<1>1. \A t \in Tasks : /\ task'[t].state = "Pending" => task[t].state = "Pending"
                       /\ task'[t].started = task[t].started
  BY <1>0 DEF Worked
<1>2. \A q \in Procs : pc[q] \notin {"idle", "dead", "pop"} => on[q] \in Tasks
  BY DEF LocalsOK, OnATask
<1>3. \A i \in DOMAIN queue.pending : queue.pending[i] \in Tasks
  BY DEF LocalsOK
<1>4. \A q \in Procs \ {w} : pc'[q] = pc[q] /\ on'[q] = on[q]
  BY <1>0 DEF Goer
<1>5. pc'[w] \in RunPcs \ {"pop"} => task'[on'[w]].started
  <2>1. CASE pc[w] = "pop" /\ pc'[w] = "check"
    <3>1. queue.pending # <<>> /\ on'[w] = Head(queue.pending)
      BY <1>0, <2>1 DEF Goer
    <3>2. Head(queue.pending) = queue.pending[1] /\ 1 \in DOMAIN queue.pending
      BY <3>1 DEF LocalsOK
    <3> QED BY <1>1, <1>3, <3>1, <3>2 DEF StartInv
  <2>2. CASE pc[w] \notin {"pop", "remove"} /\ on'[w] = on[w]
    BY <1>0, <1>1, <1>2, <2>2 DEF StartInv, RunPcs, JobPcs
  <2> QED BY <1>0, <2>1, <2>2 DEF Goer, RunPcs, JobPcs
<1>6. \A i \in DOMAIN queue'.pending : task'[queue'.pending[i]].started
  <2>1. CASE UNCHANGED queue
    BY <1>1, <1>3, <2>1 DEF StartInv
  <2>2. CASE queue'.pending = <<>>
    BY <2>2
  <2>3. CASE queue.pending # <<>> /\ queue'.pending = Tail(queue.pending)
    BY <1>1, <1>3, <2>3 DEF StartInv, LocalsOK
  <2> QED BY <1>0, <2>1, <2>2, <2>3 DEF Goer
<1>7. pc'[w] \notin {"start_event", "enqueue", "timer", "enqueue_finished", "push"}
  BY <1>0 DEF Goer, RunPcs, JobPcs
<1> QED BY <1>1, <1>2, <1>4, <1>5, <1>6, <1>7 DEF StartInv, RunPcs, JobPcs

LEMMA StartStep ==
    ASSUME LocalsOK, DataOK, ClaimInv, ClientOK, CallsInv, StartInv, [ClientNext]_allVars
    PROVE  StartInv'
<1>0. \A p \in Procs : pc[p] \notin {"idle", "dead", "pop"} => on[p] \in Tasks
  BY DEF LocalsOK, OnATask
<1>1. CASE UNCHANGED <<task, queue, pc, on>>
  BY <1>1 DEF StartInv
<1>2. ASSUME NEW t \in Tasks, NEW c \in Calls, NEW l \in {"start", "reply"}, Dispatch(c, t, l)
      PROVE  StartInv'
  BY <1>0, <1>2 DEF Dispatch, Goto, StartInv, LocalsOK, RunPcs, JobPcs
<1>3. ASSUME NEW t \in Tasks, Client(t) PROVE StartInv'
  BY <1>1, <1>2, <1>3 DEF Client, Walks, Errs, PollEvent, PollFinished, CallsStart, Answer,
     ClientExits, OwnerLeaves, CallStart, CallReply, vars
<1>4. ASSUME NEW c \in Calls, Serve(c) PROVE StartInv'
  BY <1>4, StartHandler DEF Serve, Handlers
<1>5. ASSUME NEW p \in Agents, Spontaneous(p) PROVE StartInv'
  BY <1>5, StartHandler DEF Spontaneous, Handlers
<1>6. ASSUME NEW w \in Workers, Work(w) PROVE StartInv'
  BY <1>6, StartWorker DEF Work
<1> QED BY <1>1, <1>3, <1>4, <1>5, <1>6, ClientCases DEF Still, vars

-----------------------------------------------------------------------------
(* Ends.                                                                   *)

LEMMA EndInit == Init /\ ClientInit => EndInv
<1> SUFFICES ASSUME Init, ClientInit PROVE EndInv
  OBVIOUS
<1>1. \A t \in Tasks : ~task[t].canceled /\ ended[t] = "none"
  BY DEF Init, ClientInit, InitInner
<1>2. \A w \in Workers : pc[w] \in {"gone", "timer", "idle"}
  BY DEF Init, Procs
<1> QED BY <1>1, <1>2 DEF EndInv, JobPcs, Ending

LEMMA EndHandler ==
    ASSUME LocalsOK, DataOK, CallsInv, EndInv, UNCHANGED ended,
           NEW p \in Handlers, Handler(p)
    PROVE  EndInv'
<1>1. /\ on[p] \in Tasks /\ p \in Procs /\ Mover(p) /\ Toucher(p, on[p])
  BY HandlerEffect DEF Procs
<1>2. \A w \in Workers : /\ w \in Procs \ {p} /\ on'[w] = on[w] /\ result'[w] = result[w]
                         /\ pc'[w] = pc[w] \/ pc'[w] = "pop"
  BY <1>1, ProcAssumption DEF Mover, Procs
<1>3. \A t \in Tasks : /\ task'[t].job = task[t].job
                       /\ task[t].started => task'[t].started
                       /\ task'[t].canceled = task[t].canceled \/ t \notin connected
  <2>1. task'[on[p]].canceled = task[on[p]].canceled \/ on[p] \notin connected
    BY <1>1 DEF Toucher, CallsInv, GonePcs
  <2> QED BY <1>1, <2>1 DEF Toucher
<1>4. \A t \in Tasks : /\ task'[t].canceled => t \notin connected'
                       /\ task'[t].job \/ ~task'[t].started => ended'[t] = "none"
  BY <1>1, <1>3 DEF EndInv, Mover
<1>5. \A w \in Workers : /\ pc'[w] \in JobPcs => ended'[on'[w]] = "none"
                         /\ pc'[w] \in Ending => ended'[on'[w]] = result'[w]
                         /\ pc'[w] = "job_signal_canceled" => on'[w] \notin connected'
  BY <1>1, <1>2 DEF EndInv, Mover, JobPcs, Ending
<1> QED BY <1>4, <1>5 DEF EndInv

\* Only the return of its job ends a task.
EndedBy(w) == ended' = IF pc[w] = "job" /\ pc'[w] = "job_lower"
                       THEN [ended EXCEPT ![on[w]] = result'[w]] ELSE ended

LEMMA EndedOnce ==
    ASSUME LocalsOK, ClientOK, EndInv, NEW w \in Workers, EndedBy(w)
    PROVE  /\ \A t \in Tasks : ended'[t] # ended[t] => t = on[w] /\ ended[t] = "none" /\ pc[w] = "job"
           /\ pc[w] = "job" /\ pc'[w] = "job_lower" => ended'[on[w]] = result'[w]
<1>1. pc[w] = "job" => on[w] \in Tasks /\ ended[on[w]] = "none"
  BY DEF LocalsOK, OnATask, Procs, EndInv, JobPcs
<1> QED BY <1>1 DEF EndedBy, ClientOK

LEMMA EndWorker ==
    ASSUME LocalsOK, DataOK, ClaimInv, BegunInv, ClientOK, StartInv, EndInv,
           NEW w \in Workers, Worker(w), EndedBy(w)
    PROVE  EndInv'
<1>1. /\ w \in Procs /\ Goer(w)
      /\ pc[w] # "pop" => on[w] \in Tasks
      /\ IF pc[w] = "pop" THEN UNCHANGED <<task, signals>> ELSE Worked(w, on[w])
  BY WorkerEffect DEF Procs
<1>2. \A t \in Tasks : /\ task'[t].started = task[t].started
                       /\ task'[t].canceled = task[t].canceled
                       /\ task'[t].job => task[t].job
  BY <1>1 DEF Worked
<1>3. pc[w] = "job" => ~task[on[w]].job /\ task[on[w]].started
  BY <1>1 DEF BegunInv, Taken, Begun, StartInv, RunPcs, JobPcs
<1>4. \A t \in Tasks : /\ task'[t].canceled => t \notin connected'
                       /\ task'[t].job \/ ~task'[t].started => ended'[t] = "none"
  BY <1>1, <1>2, <1>3, EndedOnce DEF EndInv, Goer
<1>5. \A v \in Workers \ {w} : pc'[v] \in {"idle", "dead"}
  BY <1>1 DEF ClaimInv, Claim, Goer, Procs
<1>6. pc'[w] \in JobPcs => ended'[on'[w]] = "none"
  <2> SUFFICES ASSUME pc'[w] \in JobPcs PROVE ended'[on'[w]] = "none"
    OBVIOUS
  <2>1. pc[w] \in JobPcs \/ (pc[w] = "take" /\ task[on[w]].job)
    BY <1>1 DEF Goer
  <2>2. on'[w] = on[w] /\ on[w] \in Tasks
    BY <1>1, <2>1 DEF Goer, JobPcs
  <2>3. ended[on[w]] = "none"
    BY <2>1, <2>2 DEF EndInv
  <2>4. pc'[w] # "job_lower"
    BY DEF JobPcs
  <2> QED BY <2>2, <2>3, <2>4 DEF EndedBy
<1>7. pc'[w] \in Ending => ended'[on'[w]] = result'[w]
  <2>1. CASE pc'[w] = "job_lower" /\ pc[w] = "job"
    BY <1>1, <2>1, EndedOnce DEF Goer
  <2>2. CASE pc'[w] # "job_lower" /\ pc[w] \in Ending /\ UNCHANGED result
    <3>1. on'[w] = on[w] /\ on[w] \in Tasks
      BY <1>1, <2>2 DEF Goer, Ending
    <3> QED BY <2>2, <3>1 DEF EndInv, EndedBy
  <2> QED BY <1>1, <2>1, <2>2 DEF Goer
<1>8. pc'[w] = "job_signal_canceled" => on'[w] \notin connected'
  <2> SUFFICES ASSUME pc'[w] = "job_signal_canceled" PROVE on'[w] \notin connected'
    OBVIOUS
  <2>1. pc[w] = "job_canceled" /\ task[on[w]].canceled
    BY <1>1 DEF Goer
  <2> QED BY <1>1, <2>1 DEF EndInv, Goer
<1> QED BY <1>4, <1>5, <1>6, <1>7, <1>8 DEF EndInv, JobPcs, Ending

LEMMA EndStep ==
    ASSUME LocalsOK, DataOK, ClaimInv, BegunInv, ClientOK, CallsInv, StartInv, EndInv,
           [ClientNext]_allVars
    PROVE  EndInv'
<1>1. ASSUME UNCHANGED <<task, result, ended>>, connected' \subseteq connected,
             \A w \in Workers : pc'[w] = pc[w] /\ on'[w] = on[w]
      PROVE  EndInv'
  BY <1>1 DEF EndInv
<1>2. ASSUME NEW t \in Tasks, NEW c \in Calls, NEW l, Dispatch(c, t, l)
      PROVE  /\ UNCHANGED <<task, result, connected>>
             /\ \A w \in Workers : pc'[w] = pc[w] /\ on'[w] = on[w]
  BY <1>2, ProcAssumption DEF Dispatch, Goto, LocalsOK, Handlers, Procs
<1>3. ASSUME NEW t \in Tasks, Client(t) PROVE EndInv'
  <2>1. CASE Walks(t) \/ Errs(t) \/ PollEvent(t) \/ PollFinished(t)
    BY <1>1, <2>1 DEF Walks, Errs, PollEvent, PollFinished, vars
  <2>2. CASE CallsStart(t)
    <3>1. PICK c \in Calls : CallStart(c, t)
      BY <2>2 DEF CallsStart
    <3> QED BY <1>1, <1>2, <2>2, <3>1 DEF CallsStart, CallStart
  <2>3. CASE Answer(t)
    <3>1. PICK c \in Calls, b \in BOOLEAN : CallReply(c, t, Head(inbox[t].asks), b)
      BY <2>3 DEF Answer
    <3> QED BY <1>1, <1>2, <2>3, <3>1 DEF Answer, CallReply
  <2>4. CASE ClientExits(t)
    BY <1>1, <2>4 DEF ClientExits, OwnerLeaves
  <2> QED BY <1>3, <2>1, <2>2, <2>3, <2>4 DEF Client
<1>4. ASSUME NEW c \in Calls, Serve(c) PROVE EndInv'
  BY <1>4, EndHandler DEF Serve, Handlers
<1>5. ASSUME NEW p \in Agents, Spontaneous(p) PROVE EndInv'
  BY <1>5, EndHandler DEF Spontaneous, Handlers
<1>6. ASSUME NEW w \in Workers, Work(w) PROVE EndInv'
  BY <1>6, EndWorker DEF Work, EndedBy
<1>7. CASE Still
  BY <1>1, <1>7 DEF Still, vars
<1> QED BY <1>3, <1>4, <1>5, <1>6, <1>7, ClientCases

-----------------------------------------------------------------------------
(* What a client is told.                                                  *)

LEMMA ToldInit == Init /\ ClientInit => ToldInv
<1> SUFFICES ASSUME Init, ClientInit PROVE ToldInv
  OBVIOUS
<1>1. \A t \in Tasks : inbox[t].finished = <<>> /\ outcome[t] = "none"
  BY DEF ClientInit, NoMail
<1>2. connected \subseteq Tasks
  BY TaskAssumption DEF Init
<1> QED BY <1>1, <1>2 DEF ToldInv, Outcomes

\* One more end in the stream of t is the end of t, or has no reader.
LEMMA ToldDelivered ==
    ASSUME ClientOK, ToldInv, NEW t \in Tasks, NEW p, Delivered(t, p),
           UNCHANGED <<connected, outcome>>, connected \subseteq Tasks,
           \A u \in Tasks : ended[u] \in Outcomes => ended'[u] = ended[u],
           \/ Last(t) = <<>>
           \/ t \notin connected
           \/ Last(t) = <<ended[t]>> /\ ended[t] \in Outcomes
    PROVE  ToldInv'
<1>1. \A u \in Tasks \ {t} : inbox'[u] = inbox[u]
  BY DEF Delivered
<1>2. ASSUME t \in connected, NEW i \in DOMAIN inbox'[t].finished
      PROVE  inbox'[t].finished[i] = ended[t] /\ ended[t] \in Outcomes
  <2>1. inbox[t].finished \in Seq(Outcomes)
    BY DEF ClientOK
  <2>2. CASE inbox'[t].finished = inbox[t].finished
    BY <1>2, <2>2 DEF ToldInv
  <2>3. CASE inbox'[t].finished = inbox[t].finished \o Last(t)
    <3>1. CASE Last(t) = <<>>
      BY <1>2, <2>1, <2>3, <3>1 DEF ToldInv
    <3>2. CASE Last(t) = <<ended[t]>> /\ ended[t] \in Outcomes
      BY <1>2, <2>1, <2>3, <3>2 DEF ToldInv
    <3> QED BY <1>2, <3>1, <3>2
  <2> QED BY <2>2, <2>3 DEF Delivered
<1>3. \A u \in connected : \A i \in DOMAIN inbox'[u].finished :
          inbox'[u].finished[i] = ended[u] /\ ended[u] \in Outcomes
  BY <1>1, <1>2 DEF ToldInv
<1> QED BY <1>3 DEF ToldInv

LEMMA ToldHandler ==
    ASSUME LocalsOK, DataOK, ClientOK, CallsInv, ToldInv, NEW p \in Handlers, Handler(p),
           Deliver(on[p], p), UNCHANGED <<outcome, ended>>
    PROVE  ToldInv'
<1>1. on[p] \in Tasks /\ UNCHANGED connected /\ connected \subseteq Tasks /\ p \in Procs
  BY HandlerEffect DEF Mover, DataOK, Procs
<1>2. /\ Events(p) \in Seq(States)
      /\ Last(on[p]) # <<>> => pc[p] \in CancelPcs \cup {"gone_signal"}
  BY HandlerSends
<1>3. Last(on[p]) = <<>> \/ on[p] \notin connected
  BY <1>1, <1>2 DEF CallsInv, GonePcs
<1>4. Delivered(on[p], p)
  BY <1>1, <1>2, DeliveredOnce
<1> QED BY <1>1, <1>3, <1>4, ToldDelivered

LEMMA ToldWorker ==
    ASSUME LocalsOK, DataOK, ClientOK, EndInv, ToldInv, NEW w \in Workers, Worker(w),
           EndedBy(w), IF on[w] = NoTask THEN UNCHANGED inbox ELSE Deliver(on[w], w),
           UNCHANGED outcome
    PROVE  ToldInv'
<1>1. /\ UNCHANGED connected /\ connected \subseteq Tasks /\ w \in Procs
      /\ on[w] \in Tasks \cup {NoTask} /\ result[w] \in Outcomes
  BY WorkerEffect DEF Goer, DataOK, LocalsOK, Procs
<1>2. \A u \in Tasks : ended[u] \in Outcomes => ended'[u] = ended[u]
  BY EndedOnce DEF Outcomes
<1>3. CASE on[w] = NoTask
  BY <1>1, <1>2, <1>3 DEF ToldInv
<1>4. CASE on[w] # NoTask
  <2>1. on[w] \in Tasks /\ Deliver(on[w], w)
    BY <1>1, <1>4
  <2>2. /\ Events(w) \in Seq(States)
        /\ Last(on[w]) # <<>> =>
              \/ pc[w] = "job_signal" /\ Last(on[w]) = <<result[w]>>
              \/ pc[w] = "job_signal_canceled" /\ Last(on[w]) = <<"Canceled">>
    BY <2>1, WorkerSends
  <2>3. pc[w] = "job_signal" => ended[on[w]] = result[w]
    BY DEF EndInv, Ending
  <2>4. \/ Last(on[w]) = <<>>
        \/ on[w] \notin connected
        \/ Last(on[w]) = <<ended[on[w]]>> /\ ended[on[w]] \in Outcomes
    BY <1>1, <2>2, <2>3 DEF EndInv
  <2>5. Delivered(on[w], w)
    BY <2>1, <2>2, DeliveredOnce
  <2> QED BY <1>1, <1>2, <2>1, <2>4, <2>5, ToldDelivered
<1> QED BY <1>3, <1>4

LEMMA ToldStep ==
    ASSUME LocalsOK, DataOK, ClientOK, CallsInv, EndInv, ToldInv, [ClientNext]_allVars
    PROVE  ToldInv'
<1>0. connected \subseteq Tasks
  BY DEF DataOK
<1>1. ASSUME UNCHANGED <<ended, outcome>>, connected' \subseteq connected,
             \A t \in connected' : inbox'[t].finished = inbox[t].finished
      PROVE  ToldInv'
  BY <1>1 DEF ToldInv
<1>2. ASSUME NEW t \in Tasks, Client(t) PROVE ToldInv'
  <2>1. CASE Walks(t)
    BY <1>1, <2>1 DEF Walks, vars
  <2>2. CASE Errs(t)
    <3>1. \A u \in Tasks : outcome'[u] \in Outcomes => outcome'[u] = outcome[u]
      BY <2>2 DEF Errs, Leave, ClientOK, Outcomes
    <3> QED BY <2>2, <3>1 DEF Errs, vars, ToldInv
  <2>3. CASE PollEvent(t)
    <3>1. \A u \in Tasks : inbox'[u].finished = inbox[u].finished
      BY <2>3 DEF PollEvent, ClientOK, Fields
    <3> QED BY <1>0, <1>1, <2>3, <3>1 DEF PollEvent, vars
  <2>4. CASE PollFinished(t)
    <3>1. \A u \in Tasks : inbox'[u].finished = inbox[u].finished
      BY <2>4 DEF PollFinished, ClientOK, Fields
    <3>2. /\ t \in connected /\ inbox[t].finished # <<>> /\ UNCHANGED <<connected, ended>>
          /\ outcome' = [outcome EXCEPT ![t] = Head(inbox[t].finished)]
      BY <2>4 DEF PollFinished, CallsInv, vars, Leave
    <3>3. /\ Head(inbox[t].finished) = inbox[t].finished[1]
          /\ 1 \in DOMAIN inbox[t].finished
      BY <3>2 DEF ClientOK
    <3>4. Head(inbox[t].finished) = ended[t]
      BY <3>2, <3>3 DEF ToldInv
    <3>5. \A u \in Tasks : outcome'[u] \in Outcomes => ended[u] = outcome'[u]
      BY <3>2, <3>4 DEF ToldInv, ClientOK
    <3> QED BY <1>0, <3>1, <3>2, <3>5 DEF ToldInv
  <2>5. CASE CallsStart(t)
    BY <1>1, <2>5 DEF CallsStart, CallStart, Dispatch
  <2>6. CASE Answer(t)
    <3>1. \A u \in Tasks : inbox'[u].finished = inbox[u].finished
      BY <2>6 DEF Answer, ClientOK, Fields
    <3> QED BY <1>0, <1>1, <2>6, <3>1 DEF Answer, CallReply, Dispatch
  <2>7. CASE ClientExits(t)
    <3>1. \A u \in Tasks \ {t} : inbox'[u].finished = inbox[u].finished
      BY <2>7 DEF ClientExits, ClientOK
    <3> QED BY <1>0, <1>1, <2>7, <3>1 DEF ClientExits, OwnerLeaves
  <2> QED BY <1>2, <2>1, <2>2, <2>3, <2>4, <2>5, <2>6, <2>7 DEF Client
<1>3. ASSUME NEW c \in Calls, Serve(c) PROVE ToldInv'
  <2>1. c \in Handlers /\ Handler(c) /\ Deliver(on[c], c) /\ UNCHANGED ended
    BY <1>3 DEF Serve, Handlers
  <2>2. CASE UNCHANGED outcome
    BY <2>1, <2>2, ToldHandler
  <2>3. CASE Leave(on[c], "error")
    <3>1. \A u \in Tasks : outcome'[u] \in Outcomes => outcome'[u] = outcome[u]
      BY <2>3 DEF Leave, ClientOK, Outcomes
    <3>2. on[c] \in Tasks /\ UNCHANGED connected /\ c \in Procs
      BY <2>1, HandlerEffect DEF Mover, Procs
    <3>3. /\ Events(c) \in Seq(States)
          /\ Last(on[c]) # <<>> => pc[c] \in CancelPcs \cup {"gone_signal"}
      BY <2>1, HandlerSends
    <3>4. Delivered(on[c], c) /\ (Last(on[c]) = <<>> \/ on[c] \notin connected)
      BY <2>1, <3>2, <3>3, DeliveredOnce DEF CallsInv, GonePcs
    <3>5. inbox[on[c]].finished \o <<>> = inbox[on[c]].finished
      BY <3>2 DEF ClientOK
    <3>6. \A u \in connected : inbox'[u].finished = inbox[u].finished
      BY <1>0, <3>4, <3>5 DEF Delivered
    <3> QED BY <2>1, <3>1, <3>2, <3>6 DEF ToldInv
  <2> QED BY <1>3, <2>2, <2>3 DEF Serve
<1>4. ASSUME NEW p \in Agents, Spontaneous(p) PROVE ToldInv'
  BY <1>4, ToldHandler DEF Spontaneous, Handlers
<1>5. ASSUME NEW w \in Workers, Work(w) PROVE ToldInv'
  BY <1>5, ToldWorker DEF Work, EndedBy
<1>6. CASE Still
  BY <1>1, <1>6 DEF Still, vars
<1> QED BY <1>2, <1>3, <1>4, <1>5, <1>6, ClientCases

-----------------------------------------------------------------------------
(* What a client shows.                                                    *)

\* The states of t are all delivered, and its client is still to show them.
Watching(t) == t \in connected /\ at[t] # "done" /\ missed[t] = {}

LEMMA ShownInit == Init /\ ClientInit => ShownInv
<1> SUFFICES ASSUME Init, ClientInit PROVE ShownInv
  OBVIOUS
<1>1. \A t \in Tasks : inbox[t].finished = <<>> /\ outcome[t] = "none"
  BY DEF ClientInit, NoMail
<1>2. \A w \in Workers : pc[w] \in {"gone", "timer", "idle"}
  BY DEF Init, Procs
<1>3. connected \subseteq Tasks
  BY TaskAssumption DEF Init
<1> QED BY <1>1, <1>2, <1>3 DEF ShownInv, Outcomes

\* The end of a sequence outlives its head.
LEMMA TailEnd ==
    ASSUME NEW S, NEW s \in Seq(S), s # <<>>
    PROVE  IF Tail(s) = <<>> THEN Head(s) = s[Len(s)]
                             ELSE Tail(s)[Len(Tail(s))] = s[Len(s)]
<1>1. Len(s) \in Nat \ {0} /\ Head(s) = s[1]
  OBVIOUS
<1>2. Tail(s) \in Seq(S) /\ Len(Tail(s)) = Len(s) - 1
  OBVIOUS
<1>3. \A i \in 1..Len(Tail(s)) : Tail(s)[i] = s[i + 1]
  OBVIOUS
<1>4. Tail(s) = <<>> <=> Len(s) = 1
  <2>1. Tail(s) = <<>> <=> Len(Tail(s)) = 0
    <3> DEFINE f == Tail(s)
    <3>1. f \in Seq(S)
      BY <1>2
    <3> HIDE DEF f
    <3>2. f = <<>> <=> Len(f) = 0
      BY <3>1
    <3> QED BY <3>2 DEF f
  <2>2. Len(s) - 1 = 0 <=> Len(s) = 1
    BY <1>1
  <2> QED BY <1>2, <2>1, <2>2
<1>5. CASE Len(s) = 1
  BY <1>1, <1>4, <1>5
<1>6. CASE Len(s) # 1
  <2>1. Tail(s)[Len(s) - 1] = s[Len(s)]
    BY <1>1, <1>2, <1>3, <1>6
  <2> QED BY <1>1, <1>2, <1>4, <1>6, <2>1
<1> QED BY <1>5, <1>6

\* What is shown when all is polled.
LEMMA LatestKept ==
    ASSUME ClientOK, NEW t \in Tasks, shown'[t] = shown[t],
           inbox'[t].events = inbox[t].events \o <<>>
    PROVE  Latest(t)' = Latest(t)
<1>1. inbox'[t].events = inbox[t].events
  BY DEF ClientOK
<1> QED BY <1>1 DEF Latest

LEMMA LatestSent ==
    ASSUME ClientOK, NEW t \in Tasks, NEW s \in States,
           inbox'[t].events = inbox[t].events \o <<s>>
    PROVE  Latest(t)' = s
<1>1. inbox[t].events \in Seq(States)
  BY DEF ClientOK
<1>2. /\ inbox'[t].events # <<>>
      /\ inbox'[t].events[Len(inbox'[t].events)] = s
  BY <1>1
<1> QED BY <1>2 DEF Latest

\* No end of a task is in a stream before it was.
LEMMA NotYet ==
    ASSUME ClientOK, ToldInv, NEW t \in connected, t \in Tasks, ended[t] = "none"
    PROVE  inbox[t].finished = <<>>
<1>1. inbox[t].finished \in Seq(Outcomes)
  BY DEF ClientOK
<1>2. 1 \notin DOMAIN inbox[t].finished
  BY DEF ToldInv, Outcomes
<1>3. Len(inbox[t].finished) = 0
  BY <1>1, <1>2
<1> QED BY <1>1, <1>3

\* The tasks a step of p does not concern, and the outcomes there are.
LEMMA ShownDelivered ==
    ASSUME ClientOK, ShownInv, NEW t \in Tasks, NEW p, Delivered(t, p),
           UNCHANGED <<connected, shown>>, connected \subseteq Tasks,
           \A u \in Tasks \ {t} : at'[u] = at[u] /\ ended'[u] = ended[u],
           at[t] = "done" => at'[t] = "done",
           \A u \in Tasks : outcome'[u] \in Outcomes => outcome'[u] = outcome[u],
           \A w \in Workers : pc'[w] = "job_signal" =>
               on'[w] = t \/ (pc[w] = "job_signal" /\ on'[w] = on[w]),
           Watching(t) /\ Watching(t)' =>
               /\ inbox'[t].finished # <<>> => Latest(t)' = ended'[t]
               /\ \A w \in Workers : pc'[w] = "job_signal" /\ on'[w] = t => Latest(t)' = ended'[t]
    PROVE  ShownInv'
<1>1. \A u \in Tasks : Watching(u)' => Watching(u)
  BY DEF Watching, Delivered
<1>2. \A u \in Tasks \ {t} : Latest(u)' = Latest(u) /\ inbox'[u] = inbox[u]
  BY DEF Latest, Delivered
<1>3. ASSUME NEW u \in connected', at'[u] # "done", missed'[u] = {}
      PROVE  /\ inbox'[u].finished # <<>> => Latest(u)' = ended'[u]
             /\ \A w \in Workers : pc'[w] = "job_signal" /\ on'[w] = u => Latest(u)' = ended'[u]
  <2>1. Watching(u) /\ Watching(u)' /\ u \in Tasks
    BY <1>1, <1>3 DEF Watching
  <2>2. CASE u = t
    BY <2>1, <2>2
  <2>3. CASE u # t
    BY <1>2, <2>1, <2>3 DEF ShownInv, Watching
  <2> QED BY <2>2, <2>3
<1>4. ASSUME NEW u \in Tasks, outcome'[u] \in Outcomes
      PROVE  at'[u] = "done" /\ (missed'[u] = {} => shown'[u] = outcome'[u])
  <2>1. at[u] = "done" /\ (missed[u] = {} => shown[u] = outcome[u]) /\ outcome'[u] = outcome[u]
    BY <1>4 DEF ShownInv
  <2> QED BY <2>1 DEF Delivered
<1> QED BY <1>3, <1>4 DEF ShownInv

\* A handler posts nothing to a client that has anything to show of the end.
LEMMA ShownHandler ==
    ASSUME LocalsOK, DataOK, ClientOK, CallsInv, StartInv, EndInv, ToldInv, ShownInv,
           NEW p \in Handlers, Handler(p), NEW t \in Tasks, on[p] = t, Deliver(t, p),
           UNCHANGED <<shown, ended>>, \A u \in Tasks \ {t} : at'[u] = at[u],
           at[t] = "done" => at'[t] = "done",
           \A u \in Tasks : outcome'[u] \in Outcomes => outcome'[u] = outcome[u]
    PROVE  ShownInv'
<1>1. /\ UNCHANGED connected /\ connected \subseteq Tasks /\ p \in Procs
      /\ Mover(p)
  BY HandlerEffect DEF Mover, DataOK, Procs
<1>2. /\ Events(p) \in Seq(States)
      /\ Events(p) # <<>> => pc[p] = "start_event"
      /\ Last(t) # <<>> => pc[p] \in CancelPcs \cup {"gone_signal"}
  BY HandlerSends
<1>3. Delivered(t, p)
  BY <1>1, <1>2, DeliveredOnce
<1>4. \A w \in Workers : pc'[w] = "job_signal" => pc[w] = "job_signal" /\ on'[w] = on[w]
  BY <1>1, ProcAssumption DEF Mover, Procs
<1>5. ASSUME Watching(t), Watching(t)'
      PROVE  /\ inbox'[t].finished # <<>> => Latest(t)' = ended'[t]
             /\ \A w \in Workers : pc'[w] = "job_signal" /\ on'[w] = t => Latest(t)' = ended'[t]
  <2>1. Last(t) = <<>>
    BY <1>1, <1>2, <1>5 DEF CallsInv, GonePcs, Watching
  <2>2. inbox'[t].finished = inbox[t].finished /\ inbox'[t].events = inbox[t].events \o Events(p)
    <3>1. inbox[t].finished \o <<>> = inbox[t].finished
      BY <1>1 DEF ClientOK
    <3> QED BY <1>3, <1>5, <2>1, <3>1 DEF Delivered, Watching
  <2>3. CASE Events(p) = <<>>
    <3>1. Latest(t)' = Latest(t)
      BY <1>1, <2>2, <2>3, LatestKept
    <3> QED BY <1>1, <1>4, <1>5, <2>2, <3>1 DEF ShownInv, Watching
  <2>4. CASE Events(p) # <<>>
    <3>1. ~task[t].started
      BY <1>1, <1>2, <2>4 DEF StartInv
    <3>2. inbox[t].finished = <<>>
      BY <1>1, <1>5, <3>1, NotYet DEF EndInv, Watching
    <3>3. \A w \in Workers : ~(pc[w] = "job_signal" /\ on[w] = t)
      BY <3>1 DEF StartInv, RunPcs, Procs
    <3> QED BY <1>4, <2>2, <3>2, <3>3
  <2> QED BY <2>3, <2>4
<1> QED BY <1>1, <1>3, <1>4, <1>5, ShownDelivered

\* The state a worker posts before the end is the end.
LEMMA ShownWorker ==
    ASSUME LocalsOK, DataOK, ClaimInv, ClientOK, StartInv, EndInv, ToldInv, ShownInv,
           NEW w \in Workers, Worker(w), EndedBy(w), NEW t \in Tasks, on[w] = t, Deliver(t, w),
           UNCHANGED <<shown, at, outcome>>
    PROVE  ShownInv'
<1>1. /\ UNCHANGED connected /\ connected \subseteq Tasks /\ w \in Procs /\ Goer(w)
      /\ result[w] \in States
  BY WorkerEffect, NameFacts DEF Goer, DataOK, Procs
<1>2. /\ Events(w) \in Seq(States)
      /\ Events(w) # <<>> => \/ pc[w] = "process"
                             \/ pc[w] = "job_state" /\ Events(w) = <<result[w]>>
      /\ Last(t) # <<>> => pc[w] \in {"job_signal", "job_signal_canceled"}
  BY WorkerSends
<1>3. Delivered(t, w)
  BY <1>2, DeliveredOnce
<1>4. /\ \A v \in Workers \ {w} : pc'[v] # "job_signal"
      /\ pc'[w] = "job_signal" => pc[w] = "job_state" /\ on'[w] = t
  BY <1>1 DEF ClaimInv, Claim, Goer, RunPcs, Procs
<1>5. \A u \in Tasks : ended'[u] # ended[u] => u = t /\ ended[u] = "none" /\ pc[w] = "job"
  BY EndedOnce
<1>6. ASSUME Watching(t), Watching(t)'
      PROVE  /\ inbox'[t].finished # <<>> => Latest(t)' = ended'[t]
             /\ \A v \in Workers : pc'[v] = "job_signal" /\ on'[v] = t => Latest(t)' = ended'[t]
  <2>1. inbox'[t].events = inbox[t].events \o Events(w)
    BY <1>3, <1>6 DEF Delivered, Watching
  <2>2. Last(t) = <<>> => inbox'[t].finished = inbox[t].finished
    <3>1. inbox[t].finished \o <<>> = inbox[t].finished
      BY DEF ClientOK
    <3> QED BY <1>3, <1>6, <3>1 DEF Delivered, Watching
  <2>3. Events(w) = <<>> => Latest(t)' = Latest(t)
    BY <2>1, LatestKept
  <2>4. ended[t] = "none" => inbox[t].finished = <<>>
    BY <1>6, NotYet DEF Watching
  <2>5. CASE pc[w] \in {"process", "job"}
    <3>1. inbox[t].finished = <<>>
      BY <2>4, <2>5 DEF EndInv, JobPcs
    <3> QED BY <1>2, <1>4, <2>2, <2>5, <3>1
  <2>6. CASE pc[w] = "job_state"
    <3>1. Events(w) = <<result[w]>> /\ Last(t) = <<>>
      BY <1>2, <2>6 DEF Events
    <3>2. Latest(t)' = result[w]
      BY <1>1, <2>1, <3>1, LatestSent
    <3>3. ended'[t] = result[w]
      BY <1>5, <2>6 DEF EndInv, Ending
    <3> QED BY <3>2, <3>3
  <2>7. CASE pc[w] = "job_signal"
    <3>1. Latest(t) = ended[t] /\ ended'[t] = ended[t]
      BY <1>5, <1>6, <2>7 DEF ShownInv, Watching
    <3> QED BY <1>2, <2>3, <2>7, <3>1
  <2>8. CASE pc[w] = "job_signal_canceled"
    BY <1>6, <2>8 DEF EndInv, Watching
  <2>9. CASE pc[w] \notin {"process", "job", "job_state", "job_signal", "job_signal_canceled"}
    <3>1. Events(w) = <<>> /\ Last(t) = <<>> /\ ended'[t] = ended[t]
      BY <1>2, <1>5, <2>9
    <3> QED BY <1>4, <1>6, <2>2, <2>3, <2>9, <3>1 DEF ShownInv, Watching
  <2> QED BY <2>5, <2>6, <2>7, <2>8, <2>9
<1>7. \A u \in Tasks \ {t} : at'[u] = at[u] /\ ended'[u] = ended[u]
  BY <1>5
<1>8. \A v \in Workers : pc'[v] = "job_signal" => on'[v] = t
  BY <1>4
<1> QED BY <1>1, <1>3, <1>6, <1>7, <1>8, ShownDelivered

\* A step of the client of t alone.
LEMMA ShownByClient ==
    ASSUME ShownInv, NEW t \in Tasks, connected' \subseteq connected, connected \subseteq Tasks,
           UNCHANGED <<missed, ended>>,
           \A w \in Workers : pc'[w] = pc[w] /\ on'[w] = on[w],
           \A u \in Tasks \ {t} : /\ at'[u] = at[u] /\ inbox'[u] = inbox[u]
                                  /\ outcome'[u] = outcome[u] /\ shown'[u] = shown[u],
           \/ at'[t] = "done"
           \/ at[t] # "done" /\ Latest(t)' = Latest(t) /\ inbox'[t].finished = inbox[t].finished,
           outcome'[t] \in Outcomes =>
               at'[t] = "done" /\ (missed[t] = {} => shown'[t] = outcome'[t])
    PROVE  ShownInv'
<1>1. \A u \in Tasks \ {t} : Latest(u)' = Latest(u)
  BY DEF Latest
<1>2. ASSUME NEW u \in connected', at'[u] # "done", missed'[u] = {}
      PROVE  /\ inbox'[u].finished # <<>> => Latest(u)' = ended'[u]
             /\ \A w \in Workers : pc'[w] = "job_signal" /\ on'[w] = u => Latest(u)' = ended'[u]
  <2>1. u \in Tasks /\ u \in connected
    OBVIOUS
  <2>2. CASE u = t
    BY <1>2, <2>1, <2>2 DEF ShownInv
  <2>3. CASE u # t
    BY <1>1, <1>2, <2>1, <2>3 DEF ShownInv
  <2> QED BY <2>2, <2>3
<1>3. \A u \in Tasks : outcome'[u] \in Outcomes =>
          at'[u] = "done" /\ (missed'[u] = {} => shown'[u] = outcome'[u])
  BY DEF ShownInv
<1> QED BY <1>2, <1>3 DEF ShownInv

LEMMA ShownClient ==
    ASSUME LocalsOK, DataOK, ClientOK, CallsInv, ToldInv, ShownInv, NEW t \in Tasks, Client(t)
    PROVE  ShownInv'
<1>0. connected \subseteq Tasks
  BY DEF DataOK
<1>d. ASSUME NEW c \in Calls, NEW l, Dispatch(c, t, l)
      PROVE  UNCHANGED connected /\ \A w \in Workers : pc'[w] = pc[w] /\ on'[w] = on[w]
  BY <1>d, ProcAssumption DEF Dispatch, Goto, LocalsOK, Handlers, Procs
<1>n. at[t] # "done" => outcome[t] \notin Outcomes
  BY DEF ShownInv
<1>1. CASE Walks(t)
  <2>1. at[t] # "done" /\ Latest(t)' = Latest(t) /\ inbox'[t].finished = inbox[t].finished
    BY <1>1 DEF Walks, Early, Latest
  <2>2. \A u \in Tasks \ {t} : at'[u] = at[u]
    BY <1>1 DEF Walks, ClientOK
  <2> QED BY <1>0, <1>1, <1>n, <2>1, <2>2, ShownByClient DEF Walks, vars
<1>2. CASE Errs(t)
  <2>1. /\ \A u \in Tasks \ {t} : at'[u] = at[u] /\ outcome'[u] = outcome[u]
        /\ at'[t] = "done" /\ outcome'[t] \notin Outcomes
    BY <1>2 DEF Errs, Leave, ClientOK, Outcomes
  <2> QED BY <1>0, <1>2, <2>1, ShownByClient DEF Errs, vars
<1>3. CASE PollEvent(t)
  <2>1. inbox[t].events # <<>> /\ inbox[t].events \in Seq(States) /\ at[t] = "poll"
    BY <1>3 DEF PollEvent, ClientOK
  <2>2. /\ inbox'[t].events = Tail(inbox[t].events) /\ inbox'[t].finished = inbox[t].finished
        /\ shown'[t] = Head(inbox[t].events)
        /\ \A u \in Tasks \ {t} : inbox'[u] = inbox[u] /\ shown'[u] = shown[u]
    BY <1>3 DEF PollEvent, ClientOK, Fields
  <2>3. Latest(t)' = Latest(t)
    <3>1. IF Tail(inbox[t].events) = <<>>
          THEN Head(inbox[t].events) = inbox[t].events[Len(inbox[t].events)]
          ELSE Tail(inbox[t].events)[Len(Tail(inbox[t].events))]
                   = inbox[t].events[Len(inbox[t].events)]
      BY <2>1, TailEnd
    <3> QED BY <2>1, <2>2, <3>1 DEF Latest
  <2> QED BY <1>0, <1>3, <1>n, <2>1, <2>2, <2>3, ShownByClient DEF PollEvent, vars
<1>4. CASE PollFinished(t)
  <2>1. at[t] = "poll" /\ inbox[t].finished # <<>> /\ t \in connected
    BY <1>4 DEF PollFinished, CallsInv
  <2>2. /\ \A u \in Tasks \ {t} : /\ at'[u] = at[u] /\ outcome'[u] = outcome[u]
                                  /\ inbox'[u] = inbox[u] /\ shown'[u] = shown[u]
        /\ at'[t] = "done" /\ outcome'[t] = Head(inbox[t].finished) /\ shown'[t] = Latest(t)
    BY <1>4 DEF PollFinished, Leave, ClientOK, Latest
  <2>3. Head(inbox[t].finished) = ended[t]
    <3>1. 1 \in DOMAIN inbox[t].finished /\ Head(inbox[t].finished) = inbox[t].finished[1]
      BY <2>1 DEF ClientOK
    <3> QED BY <2>1, <3>1 DEF ToldInv
  <2>4. missed[t] = {} => shown'[t] = outcome'[t]
    BY <2>1, <2>2, <2>3 DEF ShownInv
  <2> QED BY <1>0, <1>4, <2>2, <2>4, ShownByClient DEF PollFinished, vars
<1>5. CASE CallsStart(t)
  <2>1. PICK c \in Calls : CallStart(c, t)
    BY <1>5 DEF CallsStart
  <2>2. UNCHANGED connected /\ \A w \in Workers : pc'[w] = pc[w] /\ on'[w] = on[w]
    BY <1>d, <2>1 DEF CallStart
  <2>3. at[t] # "done" /\ \A u \in Tasks \ {t} : at'[u] = at[u]
    BY <1>5 DEF CallsStart, ClientOK
  <2>4. Latest(t)' = Latest(t) /\ inbox'[t].finished = inbox[t].finished
    BY <1>5 DEF CallsStart, Latest
  <2> QED BY <1>0, <1>5, <1>n, <2>2, <2>3, <2>4, ShownByClient DEF CallsStart
<1>6. CASE Answer(t)
  <2>1. PICK c \in Calls, b \in BOOLEAN : CallReply(c, t, Head(inbox[t].asks), b)
    BY <1>6 DEF Answer
  <2>2. UNCHANGED connected /\ \A w \in Workers : pc'[w] = pc[w] /\ on'[w] = on[w]
    BY <1>d, <2>1 DEF CallReply
  <2>3. /\ at[t] # "done" /\ \A u \in Tasks \ {t} : at'[u] = at[u] /\ inbox'[u] = inbox[u]
        /\ inbox'[t].events = inbox[t].events /\ inbox'[t].finished = inbox[t].finished
    BY <1>6 DEF Answer, ClientOK, Fields
  <2>4. Latest(t)' = Latest(t)
    BY <1>6, <2>3 DEF Answer, Latest
  <2> QED BY <1>0, <1>6, <1>n, <2>2, <2>3, <2>4, ShownByClient DEF Answer
<1>7. CASE ClientExits(t)
  <2>1. at'[t] = "done" /\ \A u \in Tasks \ {t} : at'[u] = at[u] /\ inbox'[u] = inbox[u]
    BY <1>7 DEF ClientExits, ClientOK
  <2> QED BY <1>0, <1>7, <2>1, ShownByClient DEF ClientExits, OwnerLeaves, ShownInv
<1> QED BY <1>1, <1>2, <1>3, <1>4, <1>5, <1>6, <1>7 DEF Client

LEMMA ShownStep ==
    ASSUME LocalsOK, DataOK, ClaimInv, ClientOK, CallsInv, StartInv, EndInv, ToldInv, ShownInv,
           [ClientNext]_allVars
    PROVE  ShownInv'
<1>1. ASSUME NEW c \in Calls, Serve(c) PROVE ShownInv'
  <2>1. c \in Handlers /\ Handler(c) /\ Deliver(on[c], c) /\ UNCHANGED <<shown, ended>>
    BY <1>1 DEF Serve, Handlers
  <2>2. on[c] \in Tasks
    BY <2>1, HandlerEffect
  <2>3. /\ \A u \in Tasks \ {on[c]} : at'[u] = at[u]
        /\ at[on[c]] = "done" => at'[on[c]] = "done"
        /\ \A u \in Tasks : outcome'[u] \in Outcomes => outcome'[u] = outcome[u]
    BY <1>1, <2>2 DEF Serve, Leave, ClientOK, Outcomes
  <2> QED BY <2>1, <2>2, <2>3, ShownHandler
<1>2. ASSUME NEW p \in Agents, Spontaneous(p) PROVE ShownInv'
  <2>1. p \in Handlers /\ Handler(p) /\ Deliver(on[p], p) /\ UNCHANGED <<at, outcome, shown, ended>>
    BY <1>2 DEF Spontaneous, Handlers
  <2>2. on[p] \in Tasks
    BY <2>1, HandlerEffect
  <2> QED BY <2>1, <2>2, ShownHandler
<1>3. ASSUME NEW w \in Workers, Work(w) PROVE ShownInv'
  <2>1. Worker(w) /\ EndedBy(w) /\ w \in Procs
    BY <1>3 DEF Work, EndedBy, Procs
  <2>2. CASE on[w] = NoTask
    <3>1. /\ pc[w] = "pop" /\ Goer(w) /\ UNCHANGED connected
      BY <2>1, <2>2, WorkerEffect, TaskAssumption DEF Goer
    <3>2. \A v \in Workers : pc'[v] # "job_signal"
      BY <2>1, <3>1 DEF ClaimInv, Claim, Goer, RunPcs, Procs
    <3>3. UNCHANGED <<inbox, missed, shown, ended, at, outcome>>
      BY <1>3, <2>2, <3>1 DEF Work
    <3> QED BY <3>1, <3>2, <3>3 DEF ShownInv, Latest
  <2>3. CASE on[w] # NoTask
    <3>1. on[w] \in Tasks /\ Deliver(on[w], w) /\ UNCHANGED <<shown, at, outcome>>
      BY <1>3, <2>1, <2>3 DEF Work, LocalsOK
    <3> QED BY <2>1, <3>1, ShownWorker
  <2> QED BY <2>2, <2>3
<1>4. CASE Still
  BY <1>4 DEF Still, vars, ShownInv, Latest
<1> QED BY <1>1, <1>2, <1>3, <1>4, ClientCases, ShownClient

-----------------------------------------------------------------------------
ClientInv ==
    /\ LocalsOK /\ DataOK /\ ClaimInv /\ FinishInv /\ BegunInv
    /\ ClientOK /\ CallsInv /\ StartInv /\ EndInv /\ ToldInv /\ ShownInv

\* run_task returns how the job of its own task ended, once it has, and the
\* last state it printed says the same: no matter how the handlers of task.rs,
\* the watcher, the worker, the two streams and the daemon's death interleave,
\* for any number of clients and tasks.
THEOREM InformedHolds == ClientSpec => []Informed
<1>1. Init /\ ClientInit => ClientInv
  BY LocalsInit, DataInit, ClaimInit, FinishInit, BegunInit, ClientInitOK, CallsInit,
     StartInit, EndInit, ToldInit, ShownInit DEF ClientInv
<1>2. ClientInv /\ [ClientNext]_allVars => ClientInv'
  <2> SUFFICES ASSUME ClientInv, [ClientNext]_allVars PROVE ClientInv'
    OBVIOUS
  <2> USE DEF ClientInv
  <2>1. [Next]_vars
    BY ClientOfService
  <2>2. LocalsOK' /\ DataOK' /\ ClaimInv' /\ FinishInv' /\ BegunInv'
    BY <2>1, LocalsStep, DataStep, ClaimStep, FinishStep, PromiseStep
  <2>3. ClientOK' /\ CallsInv' /\ StartInv' /\ EndInv' /\ ToldInv' /\ ShownInv'
    BY ClientOKStep, CallsStep, StartStep, EndStep, ToldStep, ShownStep
  <2> QED BY <2>2, <2>3
<1>3. ClientInv => Informed
  <2> SUFFICES ASSUME ClientInv PROVE Informed
    OBVIOUS
  <2>1. ASSUME NEW t \in Tasks, outcome[t] \in Outcomes PROVE ended[t] = outcome[t] /\ ~Running(t)
    BY <2>1 DEF ClientInv, ToldInv, EndInv, Running, Outcomes
  <2>2. Shown
    BY DEF ClientInv, ShownInv, Shown
  <2> QED BY <2>1, <2>2 DEF Informed, Told
<1> QED BY <1>1, <1>2, <1>3, PTL DEF ClientSpec
=============================================================================
