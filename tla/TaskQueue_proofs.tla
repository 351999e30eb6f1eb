-------------------------- MODULE TaskQueue_proofs --------------------------
(***************************************************************************)
(* NoDoubleRun, EndedStaysEnded and RetriesHonoured for every number of    *)
(* queues, tasks, workers, loads and failing writes.                       *)
(*                                                                         *)
(* NoDoubleRun has to be joined by: workers only exist up to the present   *)
(* generation, work on tasks of their queue, and a queue with a busy       *)
(* worker exists, so CreateQueue never resets the row of a task that one   *)
(* of its own workers holds.                                               *)
(*                                                                         *)
(* RetriesHonoured bounds the failures of a task by its attempts, and for  *)
(* that needs an account of every attempt the row counts: it failed, was   *)
(* lost, or is in the hands of a worker of the present service.            *)
(***************************************************************************)
EXTENDS TaskQueue, TLAPS

Shapes ==
  /\ status \in [Task -> {"none", "pending", "running", "purged"} \cup Terminal]
  /\ wk = [w \in Slot |-> wk[w]]
  /\ conc = [q \in Queue |-> conc[q]]
  /\ gen \in Nat /\ svc \in Services

\* What a worker that moves on with its task becomes.
Working(w, pc) == [pc |-> pc, task |-> wk[w].task, attempt |-> wk[w].attempt]

\* What the workers of all generations may hold.
Workers ==
  \A w \in Slot : Busy(w) => /\ wk[w] = Working(w, wk[w].pc)
                             /\ wk[w].task \in Task /\ QueueOf[wk[w].task] = w[1]
                             /\ w[3] <= gen

\* A busy worker's queue exists.
QueueKnown == svc # "down" => \A w \in Current : Busy(w) => conc[w[1]] # 0

QInv == Shapes /\ Workers /\ QueueKnown /\ NoDoubleRun

LEMMA SlotType ==
  \A w \in Slot : w[1] \in Queue /\ w[2] \in Nat /\ w[2] > 0 /\ w[3] \in Nat /\ w[3] > 0
  BY QueueAssumption DEF Slot

LEMMA QInvInit == Init => QInv
  BY DEF Init, QInv, Shapes, Workers, Working, QueueKnown, NoDoubleRun, Busy, Idle, Services, Holds

\* The calls and timers that leave the workers alone and change no row that is
\* running.
LEMMA RowStep ==
  ASSUME QInv, UNCHANGED <<gen, svc, conc, wk>>,
         status' \in [Task -> {"none", "pending", "running", "purged"} \cup Terminal],
         \A t \in Task : status[t] = "running" => status'[t] = "running"
  PROVE  QInv'
  <1>1. Shapes' /\ Workers' /\ QueueKnown'
    BY DEF QInv, Shapes, Workers, Working, QueueKnown, Busy, Current
  <1>2. NoDoubleRun'
    BY DEF QInv, NoDoubleRun, Current, Holds, Busy
  <1> QED BY <1>1, <1>2 DEF QInv

\* A worker that holds a task lets go of it, or goes on with it, and writes at most
\* the row of that task, as the holder of an open handle.
LEMMA WorkerKeeps ==
  ASSUME QInv, NEW w \in Slot, Busy(w), UNCHANGED <<gen, svc, conc, status>>,
         wk' = [v \in Slot |-> wk'[v]], \A v \in Slot : v # w => wk'[v] = wk[v],
         wk'[w] = Idle \/ \E pc : wk'[w] = Working(w, pc)
  PROVE  QInv'
  <1>2. Shapes' /\ Workers' /\ QueueKnown'
    BY DEF QInv, Shapes, Workers, QueueKnown, Busy, Current, Idle, Working
  <1>3. \A v \in Slot, t \in Task : Holds(v, t)' => Holds(v, t)
    BY DEF Holds, Busy, Idle, Working
  <1>4. NoDoubleRun'
    BY <1>3 DEF QInv, NoDoubleRun, Current
  <1> QED BY <1>2, <1>4 DEF QInv

LEMMA MovesOn ==
  ASSUME QInv, NEW w \in Slot, Busy(w), NEW pc, UNCHANGED <<gen, svc, conc, status>>,
         wk' = [wk EXCEPT ![w].pc = pc]
  PROVE  QInv'
  <1>1. wk' = [wk EXCEPT ![w] = [wk[w] EXCEPT !.pc = pc]]
    OBVIOUS
  <1>2. [wk[w] EXCEPT !.pc = pc] = Working(w, pc)
    <2>1. wk[w] = Working(w, wk[w].pc)
      BY DEF QInv, Workers
    <2>2. [Working(w, wk[w].pc) EXCEPT !.pc = pc] = Working(w, pc)
      BY DEF Working
    <2> QED BY <2>1, <2>2
  <1>3. wk' = [wk EXCEPT ![w] = Working(w, pc)]
    BY <1>1, <1>2
  <1>4. /\ wk' = [v \in Slot |-> wk'[v]] /\ wk'[w] = Working(w, pc)
        /\ \A v \in Slot : v # w => wk'[v] = wk[v]
    BY <1>3 DEF QInv, Shapes
  <1> QED BY <1>4, WorkerKeeps

LEMMA LetsGo ==
  ASSUME QInv, NEW w \in Slot, Busy(w), UNCHANGED <<gen, svc, conc, status>>,
         wk' = [wk EXCEPT ![w] = Idle]
  PROVE  QInv'
  <1>1. /\ wk' = [v \in Slot |-> wk'[v]] /\ wk'[w] = Idle
        /\ \A v \in Slot : v # w => wk'[v] = wk[v]
    BY DEF QInv, Shapes
  <1> QED BY <1>1, WorkerKeeps

LEMMA WorkerWrites ==
  ASSUME QInv, NEW w \in Slot, Busy(w), UNCHANGED <<gen, svc, conc>>, DbOpen(w[3]),
         wk' = [wk EXCEPT ![w] = Idle],
         status' = [status EXCEPT ![wk[w].task] = status'[wk[w].task]],
         status'[wk[w].task] \in {"pending", "completed", "failed"}
  PROVE  QInv'
  <1> DEFINE t0 == wk[w].task
  <1>1. t0 \in Task /\ w \in Current
    BY DEF QInv, Workers, Current, DbOpen
  <1>2. \A v \in Slot : v # w => wk'[v] = wk[v]
    BY DEF QInv, Shapes
  <1>3. wk'[w] = Idle
    BY DEF QInv, Shapes
  <1>4. Shapes' /\ Workers' /\ QueueKnown'
    BY <1>1, <1>2, <1>3 DEF QInv, Shapes, Workers, Working, QueueKnown, Busy, Current, Idle, Terminal
  <1>5. \A v \in Slot, t \in Task : Holds(v, t)' => Holds(v, t) /\ v # w
    BY <1>2, <1>3 DEF Holds, Busy, Idle
  <1>6. \A v \in Current : Holds(v, t0) => v = w
    BY <1>1 DEF QInv, NoDoubleRun, Holds, DbOpen
  <1>7. \A t \in Task : t # t0 => status'[t] = status[t]
    BY DEF QInv, Shapes
  <1>8. NoDoubleRun'
    BY <1>5, <1>6, <1>7 DEF QInv, NoDoubleRun, Current
  <1> QED BY <1>4, <1>8 DEF QInv

LEMMA RevertStep ==
  ASSUME QInv, NEW w \in Slot, Busy(w), UNCHANGED <<gen, svc, conc>>,
         wk' = [wk EXCEPT ![w] = Idle], RevertTaskToPending(wk[w].task, w[3])
  PROVE  QInv'
  <1>1. wk'[w] = Idle
    BY DEF QInv, Shapes
  <1>2. CASE UNCHANGED status
    BY <1>2, LetsGo
  <1>3. CASE DbOpen(w[3]) /\ status' = [status EXCEPT ![wk[w].task] = "pending"]
    <2>1. status'[wk[w].task] = "pending"
      BY <1>3 DEF QInv, Shapes, Workers, Working
    <2> QED BY <1>3, <2>1, WorkerWrites
  <1> QED BY <1>2, <1>3 DEF RevertTaskToPending

LEMMA ReturnedStep ==
  ASSUME QInv, NEW w \in Slot, Busy(w), NEW ok \in BOOLEAN, NEW ran \in BOOLEAN,
         Returned(w, ok, ran)
  PROVE  QInv'
  <1>1. UNCHANGED <<gen, svc, conc>>
    BY DEF Returned, svcVars
  <1>2. CASE Cancelled(w[3])
    BY <1>1, <1>2, RevertStep DEF Returned
  <1>3. CASE ~Cancelled(w[3])
    <2>1. /\ wk' = [wk EXCEPT ![w].pc = IF ok THEN "complete" ELSE "fail"]
          /\ UNCHANGED status
      BY <1>3 DEF Returned
    <2> QED BY <1>1, <2>1, MovesOn
  <1> QED BY <1>2, <1>3

LEMMA DequeueStep ==
  ASSUME QInv, NEW w \in Slot, NEW t \in Task, Dequeue(w, t) PROVE QInv'
  <1>1. /\ UNCHANGED <<gen, svc, conc>> /\ w \in Current /\ ~Busy(w)
        /\ svc # "down" /\ QueueOf[t] = w[1] /\ status[t] = "pending"
        /\ status' = [status EXCEPT ![t] = "running"]
    BY DEF Dequeue, Takes, Current, Cancelled, svcVars
  <1>2. conc[w[1]] # 0
    BY SlotType DEF Dequeue
  <1>3. /\ \A v \in Slot : v # w => wk'[v] = wk[v]
        /\ wk'[w].task = t /\ wk'[w].pc # "idle"
        /\ wk' = [v \in Slot |-> wk'[v]]
        /\ wk'[w] = [pc |-> wk'[w].pc, task |-> wk'[w].task, attempt |-> wk'[w].attempt]
    BY DEF Dequeue, QInv, Shapes
  <1>4. Shapes' /\ Workers' /\ QueueKnown'
    BY <1>1, <1>2, <1>3 DEF QInv, Shapes, Workers, Working, QueueKnown, Busy, Current
  <1>5. \A v \in Current : ~Holds(v, t)
    BY <1>1 DEF QInv, NoDoubleRun
  <1>6. \A v \in Slot, u \in Task : Holds(v, u)' <=> (IF v = w THEN u = t ELSE Holds(v, u))
    BY <1>3 DEF Holds, Busy
  <1>7. \A u \in Task : status'[u] = IF u = t THEN "running" ELSE status[u]
    BY <1>1 DEF QInv, Shapes
  <1>8. NoDoubleRun'
    BY <1>1, <1>5, <1>6, <1>7 DEF QInv, NoDoubleRun, Current
  <1> QED BY <1>4, <1>8 DEF QInv

LEMMA SaveStep ==
  ASSUME QInv, NEW w \in Slot, NEW dbErr \in BOOLEAN, Save(w, dbErr) PROVE QInv'
  <1>1. Busy(w) /\ UNCHANGED <<gen, svc, conc>> /\ wk' = [wk EXCEPT ![w] = Idle]
    BY DEF Save, Busy, svcVars
  <1>2. wk'[w] = Idle
    BY <1>1 DEF QInv, Shapes
  <1>3. CASE UNCHANGED status
    BY <1>1, <1>3, LetsGo
  <1>4. CASE /\ ~Cancelled(w[3])
             /\ \E s \in {"completed", "failed", "pending"} :
                  status' = [status EXCEPT ![wk[w].task] = s]
    <2>1. DbOpen(w[3])
      BY <1>4 DEF Cancelled, DbOpen
    <2>2. PICK s \in {"completed", "failed", "pending"} :
            status' = [status EXCEPT ![wk[w].task] = s]
      BY <1>4
    <2>3. status'[wk[w].task] = s
      BY <1>1, <2>2 DEF QInv, Shapes, Workers, Working
    <2> QED BY <1>1, <2>1, <2>2, <2>3, WorkerWrites
  <1> QED BY <1>3, <1>4 DEF Save

LEMMA WorkerInv ==
  ASSUME QInv, NEW w \in Slot, WorkerStep(w) \/ Save(w, TRUE) PROVE QInv'
  <1>1. CASE LimiterWait(w)
    <2>1. Busy(w) /\ UNCHANGED <<gen, svc, conc>>
      BY <1>1 DEF LimiterWait, Busy, svcVars
    <2>2. CASE Cancelled(w[3])
      BY <1>1, <2>1, <2>2, RevertStep DEF LimiterWait
    <2>3. CASE ~Cancelled(w[3])
      <3>1. wk' = [wk EXCEPT ![w].pc = "call"] /\ UNCHANGED status
        BY <1>1, <2>3 DEF LimiterWait
      <3> QED BY <2>1, <3>1, MovesOn
    <2> QED BY <2>2, <2>3
  <1>2. CASE InvokeCallback(w)
    <2>1. Busy(w)
      BY <1>2 DEF InvokeCallback, Busy
    <2>2. CASE wk' = [wk EXCEPT ![w].pc = "exec"] /\ UNCHANGED <<rowVars, svcVars>>
      BY <2>1, <2>2, MovesOn DEF rowVars, svcVars
    <2>3. CASE Returned(w, FALSE, FALSE)
      BY <2>1, <2>3, ReturnedStep
    <2> QED BY <1>2, <2>2, <2>3 DEF InvokeCallback
  <1>3. ASSUME NEW ok \in BOOLEAN, CallbackReturns(w, ok) PROVE QInv'
    BY <1>3, ReturnedStep DEF CallbackReturns, Busy
  <1> QED BY <1>1, <1>2, <1>3, DequeueStep, SaveStep DEF WorkerStep

LEMMA CreateQueueStep ==
  ASSUME QInv, NEW q \in Queue, NEW c, CreateQueue(q, c) PROVE QInv'
  <1>1. /\ UNCHANGED <<gen, svc, wk>> /\ svc # "down" /\ conc[q] = 0
        /\ conc' = [conc EXCEPT ![q] = ClampConcurrency(c)]
        /\ status' = ResetRunning({t \in Task : QueueOf[t] = q})
    BY DEF CreateQueue, DbOpen
  <1>2. \A w \in Current : Busy(w) => w[1] # q
    BY <1>1 DEF QInv, QueueKnown
  <1>3. Shapes' /\ Workers'
    BY <1>1 DEF QInv, Shapes, Workers, Working, Busy, ResetRunning
  <1>4. QueueKnown'
    BY <1>1, <1>2 DEF QInv, Shapes, QueueKnown, Busy, Current
  <1>5. \A w \in Current, t \in Task : Holds(w, t) => status'[t] = status[t]
    BY <1>1, <1>2 DEF QInv, Workers, Holds, Current, ResetRunning
  <1>6. NoDoubleRun'
    BY <1>1, <1>5 DEF QInv, NoDoubleRun, Current, Holds, Busy
  <1> QED BY <1>3, <1>4, <1>6 DEF QInv

LEMMA ServiceStep ==
  ASSUME QInv, Open \/ UnloadPlugin \/ StopManager \/ Shutdown \/ Crash PROVE QInv'
  <1>1. CASE Open
    <2>1. /\ svc = "down" /\ gen' = gen + 1 /\ svc' = "up" /\ UNCHANGED <<status, wk>>
          /\ conc' = [q \in Queue |-> 0]
      BY <1>1 DEF Open, rowVars
    <2>2. \A w \in Current' : ~Busy(w)
      BY <2>1, SlotType DEF QInv, Shapes, Workers, Working, Current
    <2>3. Shapes' /\ Workers'
      BY <2>1, SlotType DEF QInv, Shapes, Workers, Working, Busy, Services
    <2>4. QueueKnown' /\ NoDoubleRun'
      BY <2>1, <2>2 DEF QueueKnown, NoDoubleRun, Holds, Busy
    <2> QED BY <2>3, <2>4 DEF QInv
  <1>2. CASE UnloadPlugin \/ StopManager \/ BeginClose \/ LockManager
    <2>1. UNCHANGED <<status, gen, conc, wk>> /\ svc # "down" /\ svc' \in Services
      BY <1>2 DEF UnloadPlugin, StopManager, BeginClose, LockManager, ChangeService, rowVars, Services
    <2> QED BY <2>1 DEF QInv, Shapes, Workers, Working, QueueKnown, NoDoubleRun, Current, Holds, Busy
  <1>3. CASE FinishClose
    <2>1. UNCHANGED <<gen, conc, wk>> /\ svc' = "down" /\ status' = ResetRunning(Task)
      BY <1>3 DEF FinishClose
    <2>2. Shapes' /\ Workers'
      BY <2>1 DEF QInv, Shapes, Workers, Working, Busy, ResetRunning, Services
    <2> QED BY <2>1, <2>2 DEF QInv, QueueKnown, NoDoubleRun
  <1>4. CASE Crash
    <2>1. UNCHANGED <<gen, conc, status>> /\ svc' = "down" /\ wk' = [w \in Slot |-> Idle]
      BY <1>4 DEF Crash, rowVars
    <2>2. Shapes' /\ Workers'
      BY <2>1 DEF QInv, Shapes, Workers, Working, Busy, Idle, Services
    <2> QED BY <2>1, <2>2 DEF QInv, QueueKnown, NoDoubleRun
  <1> QED BY <1>1, <1>2, <1>3, <1>4 DEF Shutdown

LEMMA CallStep ==
  ASSUME QInv, \/ \E q \in Queue : ClearQueue(q)
               \/ \E t \in Task : Enqueue(t) \/ Cancel(t) \/ BackoffExpires(t) \/ RunCleanup(t)
  PROVE  QInv'
  <1>1. ASSUME NEW q \in Queue, ClearQueue(q) PROVE QInv'
    BY <1>1, RowStep DEF ClearQueue, svcVars, QInv, Shapes, Terminal
  <1>2. ASSUME NEW t \in Task, Enqueue(t) \/ Cancel(t) \/ RunCleanup(t) PROVE QInv'
    BY <1>2, RowStep DEF Enqueue, Cancel, RunCleanup, svcVars, QInv, Shapes, Terminal
  <1>3. ASSUME NEW t \in Task, BackoffExpires(t) PROVE QInv'
    BY <1>3, RowStep DEF BackoffExpires, svcVars, QInv, Shapes
  <1> QED BY <1>1, <1>2, <1>3

LEMMA QInvStep == QInv /\ [Next]_vars => QInv'
  <1> SUFFICES ASSUME QInv, [Next]_vars PROVE QInv'
    OBVIOUS
  <1>1. CASE Next
    BY <1>1, WorkerInv, CreateQueueStep, ServiceStep, CallStep DEF Next
  <1>2. CASE UNCHANGED vars
    BY <1>2, RowStep DEF vars, rowVars, svcVars, QInv, Shapes
  <1> QED BY <1>1, <1>2

LEMMA QInvAlways == Spec => []QInv
  BY QInvInit, QInvStep, PTL DEF Spec

\* However the plugin is unloaded, stopped, killed and loaded again, and whatever
\* writes fail: within one service a task is in the hands of one worker at most,
\* and its row is running for as long.
THEOREM NoDoubleRunCorrect == Spec => []NoDoubleRun
  <1>1. QInv => NoDoubleRun
    BY DEF QInv
  <1> QED BY <1>1, QInvAlways, PTL

\* What one step may do to one row.
RowKept(t) ==
  status'[t] # status[t] => /\ status[t] \in Terminal => status'[t] = "purged"
                            /\ status'[t] = "purged" => status[t] \in Terminal

\* The statements of plugin calls, timers and the service.
LEMMA CallsKeepRows ==
  ASSUME QInv, NEW t \in Task,
         \/ Open \/ UnloadPlugin \/ StopManager \/ Shutdown \/ Crash
         \/ \E q \in Queue : ClearQueue(q) \/ \E c \in 1..(MaxConcurrency + 1) : CreateQueue(q, c)
         \/ \E u \in Task : Enqueue(u) \/ Cancel(u) \/ BackoffExpires(u) \/ RunCleanup(u)
  PROVE  RowKept(t)
  <1>1. CASE Open \/ UnloadPlugin \/ StopManager \/ Shutdown \/ Crash
    BY <1>1 DEF Open, UnloadPlugin, StopManager, Shutdown, BeginClose, LockManager, FinishClose, Crash,
                ChangeService, rowVars, ResetRunning, RowKept, Terminal
  <1>2. ASSUME NEW q \in Queue, ClearQueue(q) \/ \E c \in 1..(MaxConcurrency + 1) : CreateQueue(q, c)
        PROVE  RowKept(t)
    BY <1>2 DEF ClearQueue, CreateQueue, ResetRunning, RowKept, Terminal
  <1>3. ASSUME NEW u \in Task, Enqueue(u) \/ Cancel(u) \/ BackoffExpires(u) \/ RunCleanup(u)
        PROVE  RowKept(t)
    BY <1>3 DEF Enqueue, Cancel, BackoffExpires, RunCleanup, RowKept, Terminal, QInv, Shapes
  <1> QED BY <1>1, <1>2, <1>3

\* A worker that writes has an open handle, so by NoDoubleRun the row it writes is
\* running: the task cannot have ended meanwhile.
LEMMA WorkersKeepRows ==
  ASSUME QInv, NEW t \in Task, NEW w \in Slot, WorkerStep(w) \/ Save(w, TRUE)
  PROVE  RowKept(t)
  <1>1. ASSUME NEW u \in Task, Dequeue(w, u) PROVE RowKept(t)
    BY <1>1 DEF Dequeue, Takes, RowKept, Terminal, QInv, Shapes
  <1>2. ASSUME Busy(w), RevertTaskToPending(wk[w].task, w[3]) PROVE RowKept(t)
    BY <1>2 DEF RevertTaskToPending, RowKept, Terminal, QInv, Shapes
  <1>3. ASSUME Busy(w), NEW ok \in BOOLEAN, NEW ran \in BOOLEAN, Returned(w, ok, ran) PROVE RowKept(t)
    BY <1>2, <1>3 DEF Returned, RowKept
  <1>4. ASSUME NEW dbErr \in BOOLEAN, Save(w, dbErr) PROVE RowKept(t)
    <2>1. CASE UNCHANGED status
      BY <2>1 DEF RowKept
    <2>2. CASE ~Cancelled(w[3]) /\ \E s \in {"completed", "failed", "pending"} :
                  status' = [status EXCEPT ![wk[w].task] = s]
      <3>1. Busy(w) /\ wk[w].task \in Task /\ w \in Current /\ svc # "down"
        BY <1>4, <2>2 DEF Save, Busy, QInv, Workers, Cancelled, Current
      <3>2. status[wk[w].task] = "running"
        BY <3>1 DEF QInv, NoDoubleRun, Holds
      <3> QED BY <2>2, <3>1, <3>2 DEF RowKept, Terminal, QInv, Shapes
    <2> QED BY <1>4, <2>1, <2>2 DEF Save
  <1>5. CASE LimiterWait(w)
    BY <1>2, <1>5 DEF LimiterWait, Busy, RowKept
  <1>6. CASE InvokeCallback(w)
    BY <1>3, <1>6 DEF InvokeCallback, Busy, RowKept, rowVars
  <1>7. ASSUME NEW ok \in BOOLEAN, CallbackReturns(w, ok) PROVE RowKept(t)
    BY <1>3, <1>7 DEF CallbackReturns, Busy
  <1> QED BY <1>1, <1>4, <1>5, <1>6, <1>7 DEF WorkerStep

\* A task that was completed, failed or cancelled is never brought back, by no late
\* worker, reset or shutdown, and no row is removed before its task has ended.
THEOREM EndedStaysEndedCorrect == Spec => EndedStaysEnded
  <1>1. QInv /\ [Next]_vars => [\A t \in Task : RowKept(t)]_vars
    BY CallsKeepRows, WorkersKeepRows DEF Next
  <1>2. QInv /\ [Next]_vars =>
          [\A t \in Task : status'[t] # status[t] =>
             /\ status[t] \in Terminal => status'[t] = "purged"
             /\ status'[t] = "purged" => status[t] \in Terminal]_vars
    BY <1>1 DEF RowKept
  <1> QED BY <1>2, QInvAlways, PTL DEF Spec, EndedStaysEnded

-----------------------------------------------------------------------------
(* Types: what QInv does not say of the rows.  A retry is only scheduled by *)
(* a worker, for the task it holds.                                         *)

Counters ==
  /\ attempt \in [Task -> Nat] /\ waiting \subseteq Task /\ gen <= MaxGen

LEMMA RevertTyped ==
  ASSUME Counters, NEW t \in Task, NEW g, RevertTaskToPending(t, g)
  PROVE  attempt' \in [Task -> Nat]
  BY DEF Counters, RevertTaskToPending

LEMMA WorkerTyped ==
  ASSUME QInv, Counters, NEW w \in Slot, WorkerStep(w) \/ Save(w, TRUE) PROVE Counters'
  <1>1. Busy(w) => wk[w].task \in Task
    BY DEF QInv, Workers
  <1>2. ASSUME NEW t \in Task, Dequeue(w, t) PROVE Counters'
    BY <1>2 DEF Dequeue, Counters, svcVars
  <1>3. ASSUME Busy(w), NEW ok \in BOOLEAN, NEW ran \in BOOLEAN, Returned(w, ok, ran) PROVE Counters'
    <2>1. attempt' \in [Task -> Nat]
      BY <1>1, <1>3, RevertTyped DEF Returned, Counters
    <2> QED BY <1>3, <2>1 DEF Returned, Counters, svcVars
  <1>4. ASSUME NEW dbErr \in BOOLEAN, Save(w, dbErr) PROVE Counters'
    <2>1. wk[w].task \in Task
      BY <1>1, <1>4 DEF Save, Busy
    <2>2. UNCHANGED <<attempt, gen>> /\ waiting' \subseteq waiting \cup {wk[w].task}
      BY <1>4 DEF Save, svcVars
    <2> QED BY <2>1, <2>2 DEF Counters
  <1>5. CASE LimiterWait(w)
    <2>1. attempt' \in [Task -> Nat]
      BY <1>1, <1>5, RevertTyped DEF LimiterWait, Busy, Counters
    <2> QED BY <1>5, <2>1 DEF LimiterWait, Counters, svcVars
  <1>6. CASE InvokeCallback(w)
    BY <1>3, <1>6 DEF InvokeCallback, Busy, Counters, rowVars, svcVars
  <1>7. ASSUME NEW ok \in BOOLEAN, CallbackReturns(w, ok) PROVE Counters'
    BY <1>3, <1>7 DEF CallbackReturns, Busy
  <1> QED BY <1>2, <1>4, <1>5, <1>6, <1>7 DEF WorkerStep

LEMMA CountersStep == QInv /\ Counters /\ [Next]_vars => Counters'
  <1> SUFFICES ASSUME QInv, Counters, [Next]_vars PROVE Counters'
    OBVIOUS
  <1>1. CASE UNCHANGED vars \/ UnloadPlugin \/ StopManager \/ Shutdown \/ Crash
    BY <1>1 DEF vars, UnloadPlugin, StopManager, Shutdown, BeginClose, LockManager, FinishClose,
                Crash, ChangeService, Counters, rowVars, svcVars
  <1>2. CASE Open
    BY <1>2, QueueAssumption DEF Open, Counters, rowVars, QInv, Shapes
  <1>3. ASSUME NEW q \in Queue, ClearQueue(q) \/ \E c \in 1..(MaxConcurrency + 1) : CreateQueue(q, c)
        PROVE  Counters'
    BY <1>3 DEF ClearQueue, CreateQueue, Counters, svcVars
  <1>4. ASSUME NEW t \in Task, Enqueue(t) \/ Cancel(t) \/ BackoffExpires(t) \/ RunCleanup(t)
        PROVE  Counters'
    BY <1>4 DEF Enqueue, Cancel, BackoffExpires, RunCleanup, Counters, svcVars
  <1> QED BY <1>1, <1>2, <1>3, <1>4, WorkerTyped DEF Next

\* Rows and workers stay well formed, and a worker only ever holds tasks of its own
\* queue, across every load, crash and late return.
THEOREM TypeCorrect == Spec => []TypeOK
  <1>1. Init => Counters
    BY QueueAssumption DEF Init, Counters
  <1>2. Spec => []Counters
    BY <1>1, CountersStep, QInvAlways, PTL DEF Spec
  <1>3. QInv /\ Counters => TypeOK
    BY QueueAssumption DEF QInv, Shapes, Workers, Counters, TypeOK
  <1> QED BY <1>2, <1>3, QInvAlways, PTL

-----------------------------------------------------------------------------
(* The account of a task's attempts.  Each attempt the row counts ended in a *)
(* failure or was lost, except the one a worker has in hand or the one that  *)
(* completed the task; and a task is taken again only while its attempts,    *)
(* the lost ones aside, are within the retries.                              *)

Tallies == fails \in [Task -> Nat] /\ lost \in [Task -> Nat]

InHand(t) == svc # "down" /\ \E w \in Current : Holds(w, t)

Settled == {"completed", "failed", "purged"}

Account(t) ==
  /\ fails[t] <= attempt[t]
  /\ attempt[t] <= fails[t] + lost[t] + 1
  /\ attempt[t] <= MaxRetries[QueueOf[t]] + lost[t] + 1
  /\ ~InHand(t) /\ status[t] \notin Settled =>
       attempt[t] <= fails[t] + lost[t] /\ attempt[t] <= MaxRetries[QueueOf[t]] + lost[t]
  /\ status[t] = "failed" => fails[t] + lost[t] > MaxRetries[QueueOf[t]]

\* What a worker of the present service knows of the attempt it has in hand.
Carried(w, t) ==
  /\ wk[w].attempt = attempt[t]
  /\ wk[w].pc = "fail" => attempt[t] <= fails[t] + lost[t]
  /\ wk[w].pc # "fail" => fails[t] < attempt[t]

Accounts ==
  \A t \in Task : /\ Account(t)
                  /\ svc # "down" => \A w \in Current : Holds(w, t) => Carried(w, t)

RInv == QInv /\ Counters /\ Tallies /\ Accounts

\* The account of t and what its workers know of it, after a step.
Good(t) == Account(t)' /\ (svc' # "down" => \A w \in Current' : Holds(w, t)' => Carried(w, t)')

LEMMA RetriesType ==
  \A t \in Task : QueueOf[t] \in Queue /\ MaxRetries[QueueOf[t]] \in Nat
  BY QueueAssumption

\* Counting yields counts, one more for the tasks counted.
LEMMA CountFacts ==
  ASSUME NEW c \in [Task -> Nat], NEW S
  PROVE  /\ Count(S, c) \in [Task -> Nat]
         /\ \A t \in Task : Count(S, c)[t] = IF t \in S THEN c[t] + 1 ELSE c[t]
  BY DEF Count

\* Steps that leave t in the hands it is in, or pay for the attempt they drop.
LEMMA AccountKept ==
  ASSUME RInv, Tallies', Counters', NEW t \in Task,
         attempt'[t] = attempt[t], fails'[t] = fails[t], lost'[t] >= lost[t],
         status[t] \in Settled => status'[t] \in Settled,
         status'[t] = "failed" => status[t] = "failed",
         \A w \in Slot : svc' # "down" /\ w \in Current' /\ Holds(w, t)' =>
            /\ svc # "down" /\ w \in Current /\ Holds(w, t)
            /\ wk'[w].attempt = wk[w].attempt /\ (wk'[w].pc = "fail" <=> wk[w].pc = "fail"),
         InHand(t) => InHand(t)' \/ lost'[t] > lost[t]
  PROVE  Good(t)
  <1>1. /\ attempt[t] \in Nat /\ fails[t] \in Nat /\ lost[t] \in Nat /\ lost'[t] \in Nat
        /\ MaxRetries[QueueOf[t]] \in Nat
    BY RetriesType DEF RInv, Counters, Tallies
  <1>2. Account(t)
    BY DEF RInv, Accounts
  <1>3. Account(t)'
    <2>1. CASE InHand(t)' \/ ~InHand(t)
      BY <1>1, <1>2, <2>1 DEF Account
    <2>2. CASE lost'[t] > lost[t]
      BY <1>1, <1>2, <2>2 DEF Account
    <2> QED BY <2>1, <2>2
  <1>4. ASSUME svc' # "down", NEW w \in Current', Holds(w, t)' PROVE Carried(w, t)'
    <2>1. w \in Slot
      BY DEF Current
    <2>2. Carried(w, t)
      BY <1>4, <2>1 DEF RInv, Accounts
    <2>3. wk'[w].attempt = wk[w].attempt /\ (wk'[w].pc = "fail" <=> wk[w].pc = "fail")
      BY <1>4, <2>1
    <2> QED BY <1>1, <2>2, <2>3 DEF Carried
  <1> QED BY <1>3, <1>4 DEF Good

LEMMA TalliesStep == ASSUME RInv, [Next]_vars PROVE Tallies'
  <1>1. CASE UNCHANGED history
    BY <1>1 DEF RInv, Tallies, history
  <1>2. ASSUME NEW w \in Slot, NEW ok \in BOOLEAN, NEW ran \in BOOLEAN, Returned(w, ok, ran)
        PROVE  Tallies'
    BY <1>1, <1>2, CountFacts DEF Returned, RInv, Tallies
  <1>3. ASSUME NEW w \in Slot, NEW dbErr \in BOOLEAN, Save(w, dbErr) PROVE Tallies'
    BY <1>3, CountFacts DEF Save, RInv, Tallies
  <1>4. CASE FinishClose \/ Crash
    BY <1>4, CountFacts DEF FinishClose, Crash, RInv, Tallies
  <1>5. ASSUME NEW w \in Slot, WorkerStep(w) PROVE Tallies'
    BY <1>1, <1>2, <1>3, <1>5 DEF WorkerStep, Dequeue, LimiterWait, InvokeCallback, CallbackReturns
  <1>6. CASE \E q \in Queue : ClearQueue(q) \/ \E c \in 1..(MaxConcurrency + 1) : CreateQueue(q, c)
    BY <1>1, <1>6 DEF ClearQueue, CreateQueue
  <1>7. CASE \E t \in Task : Enqueue(t) \/ Cancel(t) \/ BackoffExpires(t) \/ RunCleanup(t)
    BY <1>1, <1>7 DEF Enqueue, Cancel, BackoffExpires, RunCleanup
  <1>8. CASE Open \/ UnloadPlugin \/ StopManager \/ BeginClose \/ LockManager \/ UNCHANGED vars
    BY <1>1, <1>8 DEF Open, UnloadPlugin, StopManager, BeginClose, LockManager, ChangeService, vars
  <1> QED BY <1>3, <1>4, <1>5, <1>6, <1>7, <1>8 DEF Next, Shutdown

\* Calls, timers and the service.
LEMMA CallsAccounted ==
  ASSUME RInv, Tallies', Counters', NEW t \in Task,
         \/ \E q \in Queue : ClearQueue(q) \/ \E c \in 1..(MaxConcurrency + 1) : CreateQueue(q, c)
         \/ \E u \in Task : Enqueue(u) \/ Cancel(u) \/ BackoffExpires(u) \/ RunCleanup(u)
         \/ UnloadPlugin \/ StopManager \/ BeginClose \/ LockManager \/ UNCHANGED vars
  PROVE  Good(t)
  <1> DEFINE Calm == /\ UNCHANGED <<attempt, gen, wk, fails, lost>>
                     /\ svc' = "down" <=> svc = "down"
                     /\ status[t] \in Settled => status'[t] \in Settled
                     /\ status'[t] = "failed" => status[t] = "failed"
  <1>1. CASE Calm
    <2>1. lost'[t] >= lost[t]
      BY <1>1 DEF RInv, Tallies
    <2>2. \A w \in Slot : svc' # "down" /\ w \in Current' /\ Holds(w, t)' =>
            svc # "down" /\ w \in Current /\ Holds(w, t)
      BY <1>1 DEF Current, Holds, Busy
    <2>3. InHand(t) => InHand(t)'
      BY <1>1 DEF InHand, Current, Holds, Busy
    <2> QED BY <1>1, <2>1, <2>2, <2>3, AccountKept
  <1>2. ASSUME NEW q \in Queue, ClearQueue(q) \/ \E c \in 1..(MaxConcurrency + 1) : CreateQueue(q, c)
        PROVE  Calm
    BY <1>2 DEF ClearQueue, CreateQueue, ResetRunning, Settled, svcVars, history
  <1>3. ASSUME NEW u \in Task, Enqueue(u) \/ Cancel(u) \/ BackoffExpires(u) \/ RunCleanup(u)
        PROVE  Calm
    BY <1>3 DEF Enqueue, Cancel, BackoffExpires, RunCleanup, Settled, svcVars, history, Terminal,
                RInv, QInv, Shapes
  <1>4. CASE UnloadPlugin \/ StopManager \/ BeginClose \/ LockManager \/ UNCHANGED vars
    <2>1. Calm
      BY <1>4 DEF UnloadPlugin, StopManager, BeginClose, LockManager, ChangeService, vars,
                  rowVars, svcVars, history
    <2> QED BY <1>1, <2>1
  <1> QED BY <1>1, <1>2, <1>3, <1>4

LEMMA RestartsAccounted ==
  ASSUME RInv, Tallies', Counters', NEW t \in Task, Open \/ FinishClose \/ Crash
  PROVE  Good(t)
  <1>0. attempt[t] \in Nat /\ fails[t] \in Nat /\ lost[t] \in Nat
    BY DEF RInv, Counters, Tallies
  <1>1. CASE Open
    <2>1. /\ svc = "down" /\ gen' = gen + 1 /\ UNCHANGED <<status, attempt, wk, fails, lost>>
      BY <1>1 DEF Open, rowVars, history
    <2>2. \A w \in Slot : w \in Current' => ~Busy(w)'
      BY <2>1, SlotType DEF RInv, QInv, Shapes, Workers, Current, Busy
    <2>3. ~InHand(t)
      BY <2>1 DEF InHand
    <2> QED BY <1>0, <2>1, <2>2, <2>3, AccountKept DEF Holds
  <1>2. CASE FinishClose
    <2>1. /\ svc' = "down" /\ svc # "down" /\ UNCHANGED <<attempt, fails>>
          /\ lost' = Count(HeldNow, lost) /\ status' = ResetRunning(Task)
      BY <1>2 DEF FinishClose
    <2>2. lost'[t] = IF InHand(t) THEN lost[t] + 1 ELSE lost[t]
      BY <2>1, CountFacts DEF HeldNow, InHand, RInv, Tallies
    <2>3. status[t] \in Settled => status'[t] \in Settled
      BY <2>1 DEF ResetRunning, Settled
    <2>4. status'[t] = "failed" => status[t] = "failed"
      BY <2>1 DEF ResetRunning
    <2>5. lost'[t] >= lost[t] /\ (InHand(t) => lost'[t] > lost[t])
      BY <1>0, <2>2
    <2> QED BY <2>1, <2>3, <2>4, <2>5, AccountKept
  <1>3. CASE Crash
    <2>1. /\ svc' = "down" /\ svc # "down" /\ UNCHANGED <<status, attempt, fails>>
          /\ lost' = Count({u \in HeldNow : status[u] = "running"}, lost)
      BY <1>3 DEF Crash, rowVars
    <2>2. InHand(t) => status[t] = "running"
      BY DEF InHand, RInv, QInv, NoDoubleRun
    <2>3. lost'[t] = IF InHand(t) THEN lost[t] + 1 ELSE lost[t]
      BY <2>1, <2>2, CountFacts DEF HeldNow, InHand, RInv, Tallies
    <2>5. lost'[t] >= lost[t] /\ (InHand(t) => lost'[t] > lost[t])
      BY <1>0, <2>3
    <2> QED BY <2>1, <2>5, AccountKept
  <1> QED BY <1>1, <1>2, <1>3

\* A worker's step does to a task that is not in its hands nothing at all; the
\* workers of an earlier service, or of one that is down, can only add to lost.
LEMMA OthersAccounted ==
  ASSUME RInv, Tallies', Counters', NEW t \in Task, NEW w \in Slot,
         UNCHANGED <<gen, svc>>, \A v \in Slot : v # w => wk'[v] = wk[v],
         UNCHANGED <<attempt, fails, status>> \/
            (attempt'[t] = attempt[t] /\ fails'[t] = fails[t] /\ status'[t] = status[t]),
         lost'[t] >= lost[t],
         \/ ~Holds(w, t) /\ ~Holds(w, t)'
         \/ ~(svc # "down" /\ w \in Current)
  PROVE  Good(t)
  <1>1. \A v \in Slot : svc' # "down" /\ v \in Current' /\ Holds(v, t)' =>
            /\ svc # "down" /\ v \in Current /\ Holds(v, t)
            /\ wk'[v].attempt = wk[v].attempt /\ (wk'[v].pc = "fail" <=> wk[v].pc = "fail")
    BY DEF Current, Holds, Busy
  <1>2. InHand(t) => InHand(t)'
    BY DEF InHand, Current, Holds, Busy
  <1> QED BY <1>1, <1>2, AccountKept

\* What the present service's worker w knows of the task it holds.
LEMMA OwnTask ==
  ASSUME RInv, NEW w \in Slot, Busy(w), svc # "down", w \in Current
  PROVE  /\ wk[w].task \in Task /\ Account(wk[w].task) /\ Carried(w, wk[w].task)
         /\ status[wk[w].task] = "running" /\ InHand(wk[w].task)
         /\ \A v \in Current : Holds(v, wk[w].task) => v = w
         /\ attempt[wk[w].task] \in Nat /\ fails[wk[w].task] \in Nat /\ lost[wk[w].task] \in Nat
         /\ MaxRetries[QueueOf[wk[w].task]] \in Nat
  <1>1. wk[w].task \in Task
    BY DEF RInv, QInv, Workers
  <1>2. Holds(w, wk[w].task)
    BY DEF Holds
  <1>3. Account(wk[w].task) /\ Carried(w, wk[w].task)
    BY <1>1, <1>2 DEF RInv, Accounts
  <1>4. /\ status[wk[w].task] = "running"
        /\ \A v \in Current : Holds(v, wk[w].task) => v = w
    BY <1>1, <1>2 DEF RInv, QInv, NoDoubleRun
  <1> QED BY <1>1, <1>2, <1>3, <1>4, RetriesType DEF InHand, RInv, Counters, Tallies

LEMMA DequeueAccounted ==
  ASSUME RInv, Tallies', Counters', NEW w \in Slot, NEW u \in Task, Dequeue(w, u), NEW t \in Task
  PROVE  Good(t)
  <1>1. /\ UNCHANGED <<gen, svc, fails, lost>> /\ w \in Current /\ svc # "down" /\ ~Busy(w)
        /\ status[u] = "pending"
        /\ status' = [status EXCEPT ![u] = "running"]
        /\ attempt' = [attempt EXCEPT ![u] = @ + 1]
    BY DEF Dequeue, Takes, Current, Cancelled, svcVars, history
  <1>2. /\ \A v \in Slot : v # w => wk'[v] = wk[v]
        /\ wk'[w].task = u /\ wk'[w].pc \notin {"idle", "fail"} /\ wk'[w].attempt = attempt[u] + 1
    BY DEF Dequeue, RInv, QInv, Shapes
  <1>3. CASE t # u
    <2>1. attempt'[t] = attempt[t] /\ status'[t] = status[t] /\ lost'[t] >= lost[t]
      BY <1>1, <1>3 DEF RInv, QInv, Shapes, Counters, Tallies
    <2>2. ~Holds(w, t) /\ ~Holds(w, t)'
      BY <1>1, <1>2, <1>3 DEF Holds
    <2> QED BY <1>1, <1>2, <2>1, <2>2, OthersAccounted
  <1>4. CASE t = u
    <2>1. /\ attempt[u] \in Nat /\ fails[u] \in Nat /\ lost[u] \in Nat
          /\ MaxRetries[QueueOf[u]] \in Nat /\ Account(u)
      BY RetriesType DEF RInv, Counters, Tallies, Accounts
    <2>2. \A v \in Current : ~Holds(v, u)
      BY <1>1 DEF RInv, QInv, NoDoubleRun
    <2>3. ~InHand(u)
      BY <2>2 DEF InHand
    <2>4. attempt[u] <= fails[u] + lost[u] /\ attempt[u] <= MaxRetries[QueueOf[u]] + lost[u]
      BY <1>1, <2>1, <2>3 DEF Account, Settled
    <2>5. attempt'[u] = attempt[u] + 1 /\ status'[u] = "running"
      BY <1>1 DEF RInv, QInv, Shapes, Counters
    <2>6. \A v \in Current' : Holds(v, u)' => v = w
      BY <1>1, <1>2, <2>2 DEF Holds, Busy, Current
    <2>7. InHand(u)'
      BY <1>1, <1>2 DEF InHand, Holds, Busy, Current
    <2>8. Account(u)'
      BY <1>1, <2>1, <2>4, <2>5, <2>7 DEF Account
    <2>9. Carried(w, u)'
      BY <1>1, <1>2, <2>1, <2>5 DEF Carried, Account
    <2> QED BY <1>4, <2>6, <2>8, <2>9 DEF Good
  <1> QED BY <1>3, <1>4

\* A worker lets go of its task and puts it back, or has no handle to do so.
LEMMA RevertAccounted ==
  ASSUME RInv, Tallies', Counters', NEW w \in Slot, Busy(w), wk[w].pc # "fail", NEW t \in Task,
         UNCHANGED <<gen, svc, fails, lost>>, wk' = [wk EXCEPT ![w] = Idle],
         RevertTaskToPending(wk[w].task, w[3])
  PROVE  Good(t)
  <1>1. PICK u \in Task : u = wk[w].task
    BY DEF RInv, QInv, Workers
  <1>2. wk'[w] = Idle /\ \A v \in Slot : v # w => wk'[v] = wk[v]
    BY DEF RInv, QInv, Shapes
  <1>3. ~Busy(w)' /\ lost'[t] >= lost[t]
    BY <1>2 DEF Busy, Idle, RInv, Tallies
  <1>4. CASE ~DbOpen(w[3])
    <2>1. UNCHANGED <<status, attempt>> /\ ~(svc # "down" /\ w \in Current)
      BY <1>4 DEF RevertTaskToPending, DbOpen, Current
    <2> QED BY <1>2, <1>3, <2>1, OthersAccounted
  <1>5. CASE DbOpen(w[3])
    <2>1. svc # "down" /\ w \in Current
      BY <1>5 DEF DbOpen, Current
    <2>2. /\ Account(u) /\ Carried(w, u) /\ status[u] = "running"
          /\ \A v \in Current : Holds(v, u) => v = w
          /\ attempt[u] \in Nat /\ fails[u] \in Nat /\ lost[u] \in Nat
          /\ MaxRetries[QueueOf[u]] \in Nat
      BY <1>1, <2>1, OwnTask
    <2>3. /\ status' = [status EXCEPT ![u] = "pending"]
          /\ attempt' = [attempt EXCEPT ![u] = IF @ > 1 THEN @ - 1 ELSE 0]
      BY <1>1, <1>5, <2>2 DEF RevertTaskToPending
    <2>4. CASE t # u
      <3>1. attempt'[t] = attempt[t] /\ status'[t] = status[t]
        BY <1>1, <2>3, <2>4 DEF RInv, QInv, Shapes, Counters
      <3>2. ~Holds(w, t) /\ ~Holds(w, t)'
        BY <1>1, <1>3, <2>4 DEF Holds
      <3> QED BY <1>2, <1>3, <3>1, <3>2, OthersAccounted
    <2>5. CASE t = u
      <3>1. attempt'[u] = attempt[u] - 1 /\ status'[u] = "pending" /\ attempt[u] > fails[u]
        <4>1. attempt[u] > fails[u]
          BY <2>2 DEF Carried
        <4>2. attempt[u] > 0
          BY <2>2, <4>1
        <4>3. attempt'[u] = IF attempt[u] > 1 THEN attempt[u] - 1 ELSE 0
          BY <1>1, <2>3 DEF RInv, Counters
        <4>4. attempt'[u] = attempt[u] - 1
          BY <2>2, <4>2, <4>3
        <4>5. status'[u] = "pending"
          BY <1>1, <2>3 DEF RInv, QInv, Shapes
        <4> QED BY <4>1, <4>4, <4>5
      <3>2. Account(u)'
        BY <2>2, <3>1 DEF Account
      <3>3. \A v \in Current' : ~Holds(v, u)'
        BY <1>2, <1>3, <2>2 DEF Holds, Busy, Current
      <3> QED BY <2>5, <3>2, <3>3 DEF Good
    <2> QED BY <2>4, <2>5
  <1> QED BY <1>4, <1>5

\* What MovesOn makes of the worker.
LEMMA MovedOn ==
  ASSUME RInv, NEW w \in Slot, Busy(w), NEW pc, wk' = [wk EXCEPT ![w].pc = pc]
  PROVE  /\ wk'[w].pc = pc /\ wk'[w].task = wk[w].task /\ wk'[w].attempt = wk[w].attempt
         /\ \A v \in Slot : v # w => wk'[v] = wk[v]
  <1>1. wk[w] = Working(w, wk[w].pc)
    BY DEF RInv, QInv, Workers
  <1>2. wk' = [wk EXCEPT ![w] = [wk[w] EXCEPT !.pc = pc]]
    OBVIOUS
  <1>3. [Working(w, wk[w].pc) EXCEPT !.pc = pc] = Working(w, pc)
    BY DEF Working
  <1>4. wk'[w] = Working(w, pc)
    BY <1>1, <1>2, <1>3 DEF RInv, QInv, Shapes
  <1>5. \A v \in Slot : v # w => wk'[v] = wk[v]
    BY DEF RInv, QInv, Shapes
  <1> QED BY <1>4, <1>5 DEF Working

LEMMA MoveAccounted ==
  ASSUME RInv, Tallies', Counters', NEW w \in Slot, Busy(w), wk[w].pc # "fail", NEW t \in Task,
         NEW pc \in {"call", "exec"}, wk' = [wk EXCEPT ![w].pc = pc],
         UNCHANGED <<status, attempt, gen, svc, fails, lost>>
  PROVE  Good(t)
  <1>1. /\ wk'[w].pc = pc /\ wk'[w].task = wk[w].task /\ wk'[w].attempt = wk[w].attempt
        /\ \A v \in Slot : v # w => wk'[v] = wk[v]
    BY MovedOn
  <1>2. \A v \in Slot : svc' # "down" /\ v \in Current' /\ Holds(v, t)' =>
            /\ svc # "down" /\ v \in Current /\ Holds(v, t)
            /\ wk'[v].attempt = wk[v].attempt /\ (wk'[v].pc = "fail" <=> wk[v].pc = "fail")
    BY <1>1 DEF Current, Holds, Busy
  <1>3. InHand(t) => InHand(t)'
    BY <1>1 DEF InHand, Current, Holds, Busy
  <1>4. lost'[t] >= lost[t]
    BY DEF RInv, Tallies
  <1> QED BY <1>2, <1>3, <1>4, AccountKept

\* The callback came back: a failure it ran to is counted as one, and as lost
\* when the plugin never saw the call.
LEMMA ReturnAccounted ==
  ASSUME RInv, Tallies', Counters', NEW w \in Slot, Busy(w), wk[w].pc # "fail", NEW t \in Task,
         NEW ok \in BOOLEAN, NEW ran \in BOOLEAN, ok => ran, Returned(w, ok, ran)
  PROVE  Good(t)
  <1>0. UNCHANGED <<gen, svc>>
    BY DEF Returned, svcVars
  <1>1. CASE Cancelled(w[3])
    BY <1>0, <1>1, RevertAccounted DEF Returned, history
  <1>2. CASE ~Cancelled(w[3])
    <2>1. PICK u \in Task : u = wk[w].task
      BY DEF RInv, QInv, Workers
    <2>2. svc # "down" /\ w \in Current
      BY <1>2 DEF Cancelled, Current
    <2>3. /\ Account(u) /\ Carried(w, u) /\ InHand(u)
          /\ \A v \in Current : Holds(v, u) => v = w
          /\ attempt[u] \in Nat /\ fails[u] \in Nat /\ lost[u] \in Nat
          /\ MaxRetries[QueueOf[u]] \in Nat
      BY <2>1, <2>2, OwnTask
    <2>4. /\ wk' = [wk EXCEPT ![w].pc = IF ok THEN "complete" ELSE "fail"]
          /\ fails' = IF ran /\ ~ok THEN Count({u}, fails) ELSE fails
          /\ lost' = IF ran THEN lost ELSE Count({u}, lost)
          /\ UNCHANGED <<status, attempt>>
      BY <1>2, <2>1 DEF Returned
    <2>5. /\ ok => wk'[w].pc = "complete"
          /\ ~ok => wk'[w].pc = "fail"
          /\ wk'[w].task = u /\ wk'[w].attempt = wk[w].attempt
          /\ \A v \in Slot : v # w => wk'[v] = wk[v]
      <3>1. CASE ok
        <4>1. wk' = [wk EXCEPT ![w].pc = "complete"]
          BY <2>4, <3>1
        <4>2. /\ wk'[w].pc = "complete" /\ wk'[w].task = wk[w].task /\ wk'[w].attempt = wk[w].attempt
              /\ \A v \in Slot : v # w => wk'[v] = wk[v]
          BY <4>1, MovedOn
        <4> QED BY <2>1, <3>1, <4>2
      <3>2. CASE ~ok
        <4>1. wk' = [wk EXCEPT ![w].pc = "fail"]
          BY <2>4, <3>2
        <4>2. /\ wk'[w].pc = "fail" /\ wk'[w].task = wk[w].task /\ wk'[w].attempt = wk[w].attempt
              /\ \A v \in Slot : v # w => wk'[v] = wk[v]
          BY <4>1, MovedOn
        <4> QED BY <2>1, <3>2, <4>2
      <3> QED BY <3>1, <3>2
    <2>6. /\ fails'[t] = IF t = u /\ ran /\ ~ok THEN fails[t] + 1 ELSE fails[t]
          /\ lost'[t] = IF t = u /\ ~ran THEN lost[t] + 1 ELSE lost[t]
          /\ fails[t] \in Nat /\ lost[t] \in Nat
      BY <2>4, CountFacts DEF RInv, Tallies
    <2>7. CASE t # u
      <3>1. ~Holds(w, t) /\ ~Holds(w, t)'
        BY <2>1, <2>5, <2>7 DEF Holds
      <3>2. fails'[t] = fails[t] /\ lost'[t] >= lost[t]
        BY <2>6, <2>7
      <3> QED BY <1>0, <2>4, <2>5, <3>1, <3>2, OthersAccounted
    <2>8. CASE t = u
      <3>1. InHand(u)'
        BY <1>0, <2>2, <2>5 DEF InHand, Holds, Busy, Current
      <3>2. fails[u] < attempt[u] /\ wk[w].attempt = attempt[u]
        BY <2>3 DEF Carried
      <3>3. /\ fails'[u] <= attempt[u] /\ fails'[u] >= fails[u] /\ lost'[u] >= lost[u]
            /\ fails'[u] \in Nat /\ lost'[u] \in Nat
            /\ ok => fails'[u] = fails[u]
            /\ ~ok => fails'[u] + lost'[u] = fails[u] + lost[u] + 1
        BY <2>3, <2>6, <2>8, <3>2
      <3>4. Account(u)'
        BY <2>3, <2>4, <3>1, <3>3 DEF Account
      <3>5. Carried(w, u)'
        BY <2>3, <2>4, <2>5, <3>2, <3>3 DEF Carried, Account
      <3>6. \A v \in Current' : Holds(v, u)' => v = w
        BY <1>0, <2>3, <2>5 DEF Holds, Busy, Current
      <3> QED BY <2>8, <3>4, <3>5, <3>6 DEF Good
    <2> QED BY <2>7, <2>8
  <1> QED BY <1>1, <1>2

LEMMA SaveAccounted ==
  ASSUME RInv, Tallies', Counters', NEW w \in Slot, NEW dbErr \in BOOLEAN, Save(w, dbErr), NEW t \in Task
  PROVE  Good(t)
  <1>0. /\ Busy(w) /\ UNCHANGED <<gen, svc, attempt, fails>> /\ wk' = [wk EXCEPT ![w] = Idle]
        /\ wk[w].pc \in {"complete", "fail"}
    BY DEF Save, Busy, svcVars
  <1>1. PICK u \in Task : u = wk[w].task
    BY <1>0 DEF RInv, QInv, Workers
  <1> DEFINE written == ~Cancelled(w[3]) /\ ~dbErr
  <1>2. wk'[w] = Idle /\ ~Busy(w)' /\ \A v \in Slot : v # w => wk'[v] = wk[v]
    BY <1>0 DEF RInv, QInv, Shapes, Busy, Idle
  <1>3. lost' = IF written THEN lost ELSE Count({u}, lost)
    BY <1>1 DEF Save
  <1>4. /\ lost'[t] = IF t = u /\ ~written THEN lost[t] + 1 ELSE lost[t]
        /\ lost[t] \in Nat
    BY <1>3, CountFacts DEF RInv, Tallies
  <1>5. lost'[t] >= lost[t]
    BY <1>4
  <1>6. /\ ~written => UNCHANGED status
        /\ written => /\ wk[w].pc = "complete" => status' = [status EXCEPT ![u] = "completed"]
                      /\ wk[w].pc = "fail" /\ wk[w].attempt > MaxRetries[QueueOf[u]] =>
                           status' = [status EXCEPT ![u] = "failed"]
                      /\ wk[w].pc = "fail" /\ ~(wk[w].attempt > MaxRetries[QueueOf[u]]) =>
                           status' = [status EXCEPT ![u] = "pending"]
    BY <1>1 DEF Save
  <1>7. CASE t # u
    <2>1. ~Holds(w, t) /\ ~Holds(w, t)'
      BY <1>1, <1>2, <1>7 DEF Holds
    <2>2. status'[t] = status[t]
      BY <1>0, <1>1, <1>6, <1>7 DEF RInv, QInv, Shapes
    <2> QED BY <1>0, <1>2, <1>5, <2>1, <2>2, OthersAccounted
  <1>8. CASE t = u /\ ~(svc # "down" /\ w \in Current)
    <2>1. ~written
      BY <1>8 DEF Cancelled, Current
    <2> QED BY <1>0, <1>2, <1>5, <1>6, <1>8, <2>1, OthersAccounted
  <1>9. CASE t = u /\ svc # "down" /\ w \in Current
    <2>1. /\ Account(u) /\ Carried(w, u) /\ status[u] = "running"
          /\ \A v \in Current : Holds(v, u) => v = w
          /\ attempt[u] \in Nat /\ fails[u] \in Nat /\ lost[u] \in Nat
          /\ MaxRetries[QueueOf[u]] \in Nat
      BY <1>0, <1>1, <1>9, OwnTask
    <2>2. \A v \in Current' : ~Holds(v, u)'
      BY <1>0, <1>2, <2>1 DEF Holds, Busy, Current
    <2>3. Account(u)'
      <3>1. CASE ~written
        <4>1. lost'[u] = lost[u] + 1 /\ status'[u] = "running"
          BY <1>4, <1>6, <1>9, <2>1, <3>1
        <4> QED BY <1>0, <2>1, <4>1 DEF Account
      <3>2. CASE written /\ wk[w].pc = "complete"
        <4>1. lost'[u] = lost[u] /\ status'[u] = "completed"
          BY <1>4, <1>6, <1>9, <3>2 DEF RInv, QInv, Shapes
        <4> QED BY <1>0, <2>1, <4>1 DEF Account, Settled
      <3>3. CASE written /\ wk[w].pc = "fail" /\ wk[w].attempt > MaxRetries[QueueOf[u]]
        <4>1. lost'[u] = lost[u] /\ status'[u] = "failed"
          BY <1>4, <1>6, <1>9, <3>3 DEF RInv, QInv, Shapes
        <4> QED BY <1>0, <2>1, <3>3, <4>1 DEF Account, Carried, Settled
      <3>4. CASE written /\ wk[w].pc = "fail" /\ ~(wk[w].attempt > MaxRetries[QueueOf[u]])
        <4>1. lost'[u] = lost[u] /\ status'[u] = "pending"
          BY <1>4, <1>6, <1>9, <3>4 DEF RInv, QInv, Shapes
        <4> QED BY <1>0, <2>1, <3>4, <4>1 DEF Account, Carried
      <3> QED BY <1>0, <3>1, <3>2, <3>3, <3>4
    <2> QED BY <1>9, <2>2, <2>3 DEF Good
  <1> QED BY <1>7, <1>8, <1>9

LEMMA WorkerAccounted ==
  ASSUME RInv, Tallies', Counters', NEW w \in Slot, WorkerStep(w) \/ Save(w, TRUE), NEW t \in Task
  PROVE  Good(t)
  <1>1. CASE LimiterWait(w)
    <2>1. Busy(w) /\ wk[w].pc # "fail" /\ UNCHANGED <<gen, svc, fails, lost>>
      BY <1>1 DEF LimiterWait, Busy, svcVars, history
    <2>2. CASE Cancelled(w[3])
      BY <1>1, <2>1, <2>2, RevertAccounted DEF LimiterWait
    <2>3. CASE ~Cancelled(w[3])
      BY <1>1, <2>1, <2>3, MoveAccounted DEF LimiterWait
    <2> QED BY <2>2, <2>3
  <1>2. CASE InvokeCallback(w)
    <2>1. Busy(w) /\ wk[w].pc # "fail"
      BY <1>2 DEF InvokeCallback, Busy
    <2>2. CASE wk' = [wk EXCEPT ![w].pc = "exec"] /\ UNCHANGED <<rowVars, svcVars, history>>
      BY <2>1, <2>2, MoveAccounted DEF rowVars, svcVars, history
    <2>3. CASE Returned(w, FALSE, FALSE)
      BY <2>1, <2>3, ReturnAccounted
    <2> QED BY <1>2, <2>2, <2>3 DEF InvokeCallback
  <1>3. ASSUME NEW ok \in BOOLEAN, CallbackReturns(w, ok) PROVE Good(t)
    BY <1>3, ReturnAccounted DEF CallbackReturns, Busy
  <1> QED BY <1>1, <1>2, <1>3, DequeueAccounted, SaveAccounted DEF WorkerStep

LEMMA RInvStep == RInv /\ [Next]_vars => RInv'
  <1> SUFFICES ASSUME RInv, [Next]_vars PROVE RInv'
    OBVIOUS
  <1>1. QInv' /\ Counters' /\ Tallies'
    BY QInvStep, CountersStep, TalliesStep DEF RInv
  <1>2. ASSUME NEW t \in Task PROVE Good(t)
    BY <1>1, CallsAccounted, RestartsAccounted, WorkerAccounted DEF Next, Shutdown
  <1>3. Accounts'
    BY <1>2 DEF Good, Accounts
  <1> QED BY <1>1, <1>3 DEF RInv

LEMMA RInvInit == Init => RInv
  <1> SUFFICES ASSUME Init PROVE RInv
    OBVIOUS
  <1>1. QInv /\ Counters /\ Tallies
    BY QInvInit, QueueAssumption DEF Init, Counters, Tallies
  <1>2. Accounts
    BY RetriesType DEF Init, Accounts, Account, InHand
  <1> QED BY <1>1, <1>2 DEF RInv

\* A task is given up only after more failures and lost attempts than its queue
\* retries, and its callback fails no more often than that, attempts that were
\* lost aside: however often the plugin is unloaded, stopped, killed and loaded
\* again, whatever writes fail, and whoever still works on it from before.
THEOREM RetriesHonouredCorrect == Spec => []RetriesHonoured
  <1>1. RInv => RetriesHonoured
    <2> SUFFICES ASSUME RInv, NEW t \in Task
                 PROVE  /\ status[t] = "failed" => fails[t] + lost[t] > MaxRetries[QueueOf[t]]
                        /\ fails[t] <= MaxRetries[QueueOf[t]] + 1 + lost[t]
      BY DEF RetriesHonoured
    <2>1. /\ attempt[t] \in Nat /\ fails[t] \in Nat /\ lost[t] \in Nat
          /\ MaxRetries[QueueOf[t]] \in Nat /\ Account(t)
      BY RetriesType DEF RInv, Counters, Tallies, Accounts
    <2> QED BY <2>1 DEF Account
  <1> QED BY <1>1, RInvInit, RInvStep, PTL DEF Spec
=============================================================================
