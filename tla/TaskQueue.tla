----------------------------- MODULE TaskQueue -----------------------------
(***************************************************************************)
(* The persistent task queues of a plugin (plugins/host_taskqueue.go): the *)
(* rows of taskqueue.db, the service and its workers, and the plugin's     *)
(* manager unloading, stopping and loading it again.                       *)
(*                                                                         *)
(* Each load creates a new service with a database handle, a context and   *)
(* workers of its own: generation gen.  A worker that outlives Close's     *)
(* timeout keeps running with a cancelled context and a closed handle.     *)
(* Time is kept as the one comparison the code makes: a pending task is    *)
(* due or its next_run_at lies ahead (waiting); due tasks are taken in any *)
(* order.  The poll every 5 seconds makes the signal channel a matter of   *)
(* latency, so idle workers just look for work.                            *)
(***************************************************************************)
EXTENDS Naturals, FiniteSets, FiniteSetsExt

CONSTANTS Queue, Task,
          QueueOf,        \* Task -> the queue it is enqueued in
          MaxRetries,     \* Queue -> QueueConfig.MaxRetries
          Delayed,        \* the queues with a DelayMs, hence a rate limiter
          MaxConcurrency, \* the plugin manifest's budget
          MayCrash,       \* whether the process may die
          MaxGen,         \* bound on loads of the plugin; the last one stays
          MaxFaults       \* bound on database writes that fail

ASSUME QueueAssumption ==
  /\ QueueOf \in [Task -> Queue] /\ MaxRetries \in [Queue -> Nat]
  /\ Delayed \subseteq Queue /\ MaxConcurrency \in Nat \ {0}
  /\ MayCrash \in BOOLEAN /\ MaxGen \in Nat /\ MaxFaults \in Nat

VARIABLES
  status,   \* Task -> tasks.status, "none" before Enqueue, "purged" after cleanup
  attempt,  \* Task -> tasks.attempt
  waiting,  \* tasks whose next_run_at lies ahead
  gen, svc, \* the latest service and what it is doing
  conc,     \* Queue -> workers the service started for it, 0 without queue
  wk,       \* Slot -> what the worker is doing
  fails,    \* Task -> callbacks that ran to an error (history)
  lost,     \* Task -> attempts used up by anything else (history)
  faults    \* writes that may still fail

rowVars == <<status, attempt, waiting>>
svcVars == <<gen, svc, conc>>
history == <<fails, lost>>
vars == <<rowVars, svcVars, wk, history, faults>>

Slot == Queue \X (1..MaxConcurrency) \X (1..MaxGen)
Idle == [pc |-> "idle"]
Terminal == {"completed", "failed", "cancelled"}

\* up         the plugin is loaded and its workers run
\* unloading  unloadPlugin took the plugin out of the manager's map
\* cancelled  Close was called: the context is cancelled
\* stopping   Manager.Stop cancelled the context
\* locked     Manager.Stop calls Close with the manager's mutex held
\* down       no service
Services == {"up", "unloading", "cancelled", "stopping", "locked", "down"}

Init ==
  /\ status = [t \in Task |-> "none"] /\ attempt = [t \in Task |-> 0] /\ waiting = {}
  /\ gen = 0 /\ svc = "down" /\ conc = [q \in Queue |-> 0]
  /\ wk = [w \in Slot |-> Idle]
  /\ fails = [t \in Task |-> 0] /\ lost = [t \in Task |-> 0]
  /\ faults = MaxFaults

-----------------------------------------------------------------------------
\* The handle of a closed service is closed, its context cancelled.
DbOpen(g) == g = gen /\ svc # "down"
Cancelled(g) == g # gen \/ svc \notin {"up", "unloading"}

Busy(w) == wk[w].pc # "idle"
Holds(w, t) == Busy(w) /\ wk[w].task = t
Current == {w \in Slot : w[3] = gen}
HeldNow == {t \in Task : \E w \in Current : Holds(w, t)}

Count(S, c) == [t \in Task |-> IF t \in S THEN c[t] + 1 ELSE c[t]]

-----------------------------------------------------------------------------
(* What the plugin asks for, at any time while the handle is open. *)

\* newTaskQueueService, when the manager loads the plugin.
Open ==
  /\ svc = "down" /\ gen < MaxGen
  /\ gen' = gen + 1 /\ svc' = "up" /\ conc' = [q \in Queue |-> 0]
  /\ UNCHANGED <<rowVars, wk, history, faults>>

Available == MaxConcurrency - MapThenSumSet(LAMBDA q : conc[q], Queue)
ClampConcurrency(c) == IF c > Available THEN Available ELSE c

\* The rows an earlier run left behind as running are pending again.
NoReset(T) == status
ResetUnfinished(T) ==
  [t \in Task |-> IF t \in T /\ status[t] \notin {"none", "completed", "purged"} THEN "pending" ELSE status[t]]
ResetRunning(T) == [t \in Task |-> IF t \in T /\ status[t] = "running" THEN "pending" ELSE status[t]]

\* Creating a queue that exists, or one beyond the budget, is an error.
CreateQueueAgain(q, c) ==
  /\ DbOpen(gen) /\ Available > 0
  /\ conc' = [conc EXCEPT ![q] = @ + ClampConcurrency(c)]
  /\ status' = ResetRunning({t \in Task : QueueOf[t] = q})
  /\ UNCHANGED <<attempt, waiting, gen, svc, wk, history, faults>>
CreateQueue(q, c) ==
  /\ DbOpen(gen) /\ Available > 0 /\ conc[q] = 0
  /\ conc' = [conc EXCEPT ![q] = ClampConcurrency(c)]
  /\ status' = ResetRunning({t \in Task : QueueOf[t] = q})
  /\ UNCHANGED <<attempt, waiting, gen, svc, wk, history, faults>>

Enqueue(t) ==
  /\ DbOpen(gen) /\ conc[QueueOf[t]] > 0 /\ status[t] = "none"
  /\ status' = [status EXCEPT ![t] = "pending"]
  /\ UNCHANGED <<attempt, waiting, svcVars, wk, history, faults>>

Cancel(t) ==
  /\ DbOpen(gen) /\ status[t] = "pending"
  /\ status' = [status EXCEPT ![t] = "cancelled"]
  /\ UNCHANGED <<attempt, waiting, svcVars, wk, history, faults>>

ClearQueue(q) ==
  /\ DbOpen(gen) /\ conc[q] > 0
  /\ status' = [t \in Task |-> IF QueueOf[t] = q /\ status[t] = "pending" THEN "cancelled" ELSE status[t]]
  /\ UNCHANGED <<attempt, waiting, svcVars, wk, history, faults>>

-----------------------------------------------------------------------------
(* A worker: worker, drainQueue, processTask. *)

\* The UPDATE ... RETURNING that takes a due task of the worker's queue.
Takes(w, t) == QueueOf[t] = w[1] /\ status[t] = "pending" /\ t \notin waiting
Dequeue(w, t) ==
  /\ w[3] = gen /\ ~Cancelled(gen) /\ w[2] <= conc[w[1]] /\ ~Busy(w)
  /\ Takes(w, t)
  /\ status' = [status EXCEPT ![t] = "running"]
  /\ attempt' = [attempt EXCEPT ![t] = @ + 1]
  /\ wk' = [wk EXCEPT ![w] = [pc |-> IF w[1] \in Delayed THEN "limited" ELSE "call",
                              task |-> t, attempt |-> attempt[t] + 1]]
  /\ UNCHANGED <<waiting, svcVars, history, faults>>

\* revertTaskToPending, through the handle of generation g.
RevertUncounted(t, g) ==
  IF DbOpen(g) /\ status[t] = "running"
  THEN status' = [status EXCEPT ![t] = "pending"] /\ UNCHANGED attempt
  ELSE UNCHANGED <<status, attempt>>
RevertTaskToPending(t, g) ==
  IF DbOpen(g) /\ status[t] = "running"
  THEN /\ status' = [status EXCEPT ![t] = "pending"]
       /\ attempt' = [attempt EXCEPT ![t] = IF @ > 1 THEN @ - 1 ELSE 0]
  ELSE UNCHANGED <<status, attempt>>

\* limiter.Wait: a token, or the context's end.
LimiterWait(w) ==
  /\ wk[w].pc = "limited"
  /\ IF Cancelled(w[3])
     THEN wk' = [wk EXCEPT ![w] = Idle] /\ RevertTaskToPending(wk[w].task, w[3])
     ELSE wk' = [wk EXCEPT ![w].pc = "call"] /\ UNCHANGED <<status, attempt>>
  /\ UNCHANGED <<waiting, svcVars, history, faults>>

\* invokeCallbackFn is back with an error or without; ran: the plugin saw the call.
Returned(w, ok, ran) ==
  LET t == wk[w].task
  IN /\ IF Cancelled(w[3])
        THEN /\ wk' = [wk EXCEPT ![w] = Idle]
             /\ RevertTaskToPending(t, w[3])
             /\ UNCHANGED history
        ELSE /\ wk' = [wk EXCEPT ![w].pc = IF ok THEN "complete" ELSE "fail"]
             /\ fails' = IF ran /\ ~ok THEN Count({t}, fails) ELSE fails
             /\ lost' = IF ran THEN lost ELSE Count({t}, lost)
             /\ UNCHANGED <<status, attempt>>
     /\ UNCHANGED <<waiting, svcVars, faults>>

\* defaultInvokeCallback looks the plugin up under the manager's mutex: it blocks
\* while Stop holds it, and fails on a plugin that is not loaded.
InvokeCallback(w) ==
  /\ wk[w].pc = "call" /\ svc # "locked"
  /\ \/ /\ svc \in {"up", "stopping"}
        /\ wk' = [wk EXCEPT ![w].pc = "exec"]
        /\ UNCHANGED <<rowVars, svcVars, history, faults>>
     \/ /\ svc \notin {"up", "stopping"}
        /\ Returned(w, FALSE, FALSE)

CallbackReturns(w, ok) == wk[w].pc = "exec" /\ Returned(w, ok, TRUE)

\* completeTask and handleTaskFailure.  Their writes fail when the context was
\* cancelled since processTask looked at it, or when the database does (dbErr).
Save(w, dbErr) ==
  LET t == wk[w].task
      written == ~Cancelled(w[3]) /\ ~dbErr
      final == wk[w].attempt > MaxRetries[QueueOf[t]]
  IN /\ wk[w].pc \in {"complete", "fail"}
     /\ dbErr => faults > 0
     /\ faults' = IF dbErr THEN faults - 1 ELSE faults
     /\ wk' = [wk EXCEPT ![w] = Idle]
     /\ \/ /\ written /\ wk[w].pc = "complete"
           /\ status' = [status EXCEPT ![t] = "completed"] /\ UNCHANGED waiting
        \/ /\ written /\ wk[w].pc = "fail" /\ final
           /\ status' = [status EXCEPT ![t] = "failed"] /\ UNCHANGED waiting
        \/ /\ written /\ wk[w].pc = "fail" /\ ~final
           /\ status' = [status EXCEPT ![t] = "pending"] /\ waiting' = waiting \cup {t}
        \/ ~written /\ UNCHANGED <<status, waiting>>
     /\ lost' = IF written THEN lost ELSE Count({t}, lost)
     /\ UNCHANGED <<attempt, svcVars, fails>>

\* The backoff passes.
BackoffExpires(t) ==
  /\ t \in waiting
  /\ waiting' = waiting \ {t}
  /\ UNCHANGED <<status, attempt, svcVars, wk, history, faults>>

\* runCleanup: a terminal row past its retention.
RunCleanup(t) ==
  /\ ~Cancelled(gen) /\ conc[QueueOf[t]] > 0 /\ status[t] \in Terminal
  /\ status' = [status EXCEPT ![t] = "purged"]
  /\ UNCHANGED <<attempt, waiting, svcVars, wk, history, faults>>

-----------------------------------------------------------------------------
(* Shutting down. *)

ChangeService(from, to) ==
  /\ svc = from /\ svc' = to
  /\ UNCHANGED <<rowVars, gen, conc, wk, history, faults>>

\* unloadPlugin deletes the plugin from the map, then calls Close, which cancels.
UnloadPlugin == gen < MaxGen /\ ChangeService("up", "unloading")
BeginClose == ChangeService("unloading", "cancelled")

\* Manager.Stop cancels first and closes the plugins with the mutex held.
StopManager == gen < MaxGen /\ ChangeService("up", "stopping")
LockManager == ChangeService("stopping", "locked")

\* What may keep a worker for longer than shutdownTimeout: the plugin's callback,
\* and the manager's mutex.  Everything else ends with the context.
Stuck(w) == wk[w].pc = "exec" \/ (wk[w].pc = "call" /\ svc = "locked")

\* Close, once the workers are done or shutdownTimeout has passed.
FinishClose ==
  /\ svc \in {"cancelled", "locked"}
  /\ \A w \in Current : Busy(w) => Stuck(w)
  /\ status' = ResetRunning(Task)
  /\ lost' = Count(HeldNow, lost)
  /\ svc' = "down"
  /\ UNCHANGED <<attempt, waiting, gen, conc, wk, fails, faults>>

\* The process dies.
Crash ==
  /\ MayCrash /\ svc # "down" /\ gen < MaxGen
  /\ svc' = "down" /\ wk' = [w \in Slot |-> Idle]
  /\ lost' = Count({t \in HeldNow : status[t] = "running"}, lost)
  /\ UNCHANGED <<rowVars, gen, conc, fails, faults>>

-----------------------------------------------------------------------------
WorkerStep(w) ==
  \/ \E t \in Task : Dequeue(w, t)
  \/ LimiterWait(w) \/ InvokeCallback(w)
  \/ \E ok \in BOOLEAN : CallbackReturns(w, ok)
  \/ Save(w, FALSE)

Shutdown == BeginClose \/ LockManager \/ FinishClose

Next ==
  \/ Open \/ UnloadPlugin \/ StopManager \/ Shutdown \/ Crash
  \/ \E q \in Queue : ClearQueue(q) \/ \E c \in 1..(MaxConcurrency + 1) : CreateQueue(q, c)
  \/ \E t \in Task : Enqueue(t) \/ Cancel(t) \/ BackoffExpires(t) \/ RunCleanup(t)
  \/ \E w \in Slot : WorkerStep(w) \/ Save(w, TRUE)

Spec == Init /\ [][Next]_vars

\* Goroutines run, callbacks return, timers fire, a shutdown proceeds, the
\* manager loads the plugin again and the plugin creates its queues.
LiveSpec ==
  /\ Spec
  /\ \A w \in Slot : WF_vars(WorkerStep(w))
  /\ \A t \in Task : WF_vars(BackoffExpires(t))
  /\ WF_vars(Shutdown) /\ WF_vars(Open)
  /\ \A q \in Queue : WF_vars(\E c \in 1..(MaxConcurrency + 1) : CreateQueue(q, c))

-----------------------------------------------------------------------------
(* Properties. *)

\* Well-formed rows and workers; also: a worker only holds tasks of its own queue.
TypeOK ==
  /\ status \in [Task -> {"none", "pending", "running", "purged"} \cup Terminal]
  /\ attempt \in [Task -> Nat] /\ waiting \subseteq Task
  /\ gen \in 0..MaxGen /\ svc \in Services /\ DOMAIN conc = Queue
  /\ \A w \in Slot : Busy(w) => wk[w].task \in Task /\ QueueOf[wk[w].task] = w[1]

\* Two workers of a service never work on one task at a time, and the row of a
\* task being worked on says so.
NoDoubleRun ==
  svc # "down" =>
    \A t \in Task : \A w \in Current : Holds(w, t) =>
       status[t] = "running" /\ \A v \in Current : Holds(v, t) => v = w

\* A task that ended stays as it ended until the cleanup removes it, and no task
\* is removed before it ended.
EndedStaysEnded ==
  [][\A t \in Task : status'[t] # status[t] =>
       /\ status[t] \in Terminal => status'[t] = "purged"
       /\ status'[t] = "purged" => status[t] \in Terminal]_vars

\* A task fails for good only when its callback failed once more than MaxRetries,
\* attempts lost to crashes, timeouts, unloading and failed writes aside; nor is
\* it tried more often than that.
RetriesHonoured ==
  \A t \in Task :
    /\ status[t] = "failed" => fails[t] + lost[t] > MaxRetries[QueueOf[t]]
    /\ fails[t] <= MaxRetries[QueueOf[t]] + 1 + lost[t]

\* Every task that waits or is worked on ends, through retries, crashes and restarts,
\* when the database no longer fails, or its queue has no workers any more: a result
\* that could not be written leaves the row running until the plugin is loaded again.
EveryTaskEnds ==
  \A t \in Task :
    /\ status[t] = "pending" \/ \E w \in Current : Holds(w, t)
    /\ faults = 0
    ~> (status[t] \in Terminal \/ [](conc[QueueOf[t]] = 0))
=============================================================================
