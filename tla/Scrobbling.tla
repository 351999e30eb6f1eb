---------------------------- MODULE Scrobbling -----------------------------
(***************************************************************************)
(* External scrobbling: the play tracker that buffers a play for every     *)
(* scrobbler (core/scrobbler/play_tracker.go), the loop of each buffered   *)
(* scrobbler that sends its rows to the service (buffered_scrobbler.go)    *)
(* and the scrobble_buffer table (persistence/scrobble_buffer_repository.  *)
(* go).                                                                    *)
(*                                                                         *)
(* An instance is one bufferedScrobbler with its goroutine.  A builtin     *)
(* service has one from the start; a plugin gets one when a request finds  *)
(* it loaded, and loses it when a request finds it gone.  An instance that *)
(* was stopped may still be sending while its successor already runs.      *)
(* The play counts of incPlay and the now-playing queue are left out: a    *)
(* now-playing dispatch matters here because it refreshes the instances.   *)
(***************************************************************************)
EXTENDS Naturals, FiniteSets

CONSTANTS Service, Plugin, Play, User,
          UserOf, TimeOf, \* Play -> its user, its play_time
          Instance,       \* the bufferedScrobblers one run may create
          ServiceOf,      \* Instance -> its service; a builtin is registered once
          Request,        \* Submit requests in progress at a time
          None,           \* no play, no user in hand
          MaxSubmits,     \* bound on plays dispatched
          MaxFaults,      \* bound on failed statements, retries, deletions and restarts
          MaxLoads        \* bound on plugins loaded and unloaded

ASSUME ScrobblingAssumption ==
  /\ Plugin \subseteq Service /\ None \notin Play \cup User \cup Instance
  /\ UserOf \in [Play -> User] /\ TimeOf \in [Play -> Nat]
  /\ ServiceOf \in [Instance -> Service]
  /\ \A i, j \in Instance : ServiceOf[i] = ServiceOf[j] /\ ServiceOf[i] \notin Plugin => i = j
  /\ MaxSubmits \in Nat /\ MaxFaults \in Nat /\ MaxLoads \in Nat

VARIABLES
  available,  \* plugins the manager has loaded: PluginNames, LoadScrobbler
  registered, \* the instances in builtinScrobblers and pluginScrobblers
  pc,         \* Instance -> where its goroutine is
  cancelled,  \* Instance -> Stop was called
  wake,       \* Instance -> wakeSignal holds a signal
  timers,     \* Instance -> retries armed with AfterFunc
  user, todo, \* Instance -> the user being processed, the ones after
  row,        \* Instance -> the entry read with Next
  ok,         \* Instance -> the result of processQueue so far
  req,        \* Request -> where Submit is
  buffer,     \* Service -> its rows in scrobble_buffer
  lastId,     \* the last row inserted
  answered,   \* Service -> rows it took or refused for good (history)
  orphans,    \* rows inserted through an instance already stopped (history)
  budget      \* what is left of MaxSubmits, MaxFaults and MaxLoads

volatile == <<registered, pc, cancelled, wake, timers, user, todo, row, ok, req>>
rows == <<buffer, lastId>>
history == <<answered, orphans>>
vars == <<available, volatile, rows, history, budget>>

Dispatching(p, left) == [pc |-> "dispatch", play |-> p, left |-> left, at |-> None]
Builtin == {i \in Instance : ServiceOf[i] \notin Plugin}
RowId == 1..(MaxSubmits * Cardinality(Service))
Row == [id : RowId, play : Play]
Nobody == [id |-> 0, play |-> None]
Idle == [pc |-> "idle", play |-> None, left |-> {}, at |-> None]

Init ==
  /\ available \in SUBSET Plugin /\ registered = Builtin
  /\ pc = [i \in Instance |-> IF i \in Builtin THEN "users" ELSE "absent"]
  /\ cancelled = [i \in Instance |-> FALSE] /\ wake = [i \in Instance |-> FALSE]
  /\ timers = [i \in Instance |-> 0]
  /\ user = [i \in Instance |-> None] /\ todo = [i \in Instance |-> {}]
  /\ row = [i \in Instance |-> Nobody] /\ ok = [i \in Instance |-> TRUE]
  /\ req = [r \in Request |-> Idle]
  /\ buffer = [s \in Service |-> {}] /\ lastId = 0
  /\ answered = [s \in Service |-> {}] /\ orphans = {}
  /\ budget = [submits |-> MaxSubmits, faults |-> MaxFaults, loads |-> MaxLoads]

-----------------------------------------------------------------------------
(* The plugin manager, as the play tracker sees it (external). *)

LoadPlugin(s) ==
  /\ s \in Plugin \ available /\ budget.loads > 0
  /\ available' = available \cup {s}
  /\ budget' = [budget EXCEPT !.loads = @ - 1]
  /\ UNCHANGED <<volatile, rows, history>>

UnloadPlugin(s) ==
  /\ s \in available /\ budget.loads > 0
  /\ available' = available \ {s}
  /\ budget' = [budget EXCEPT !.loads = @ - 1]
  /\ UNCHANGED <<volatile, rows, history>>

\* LoadScrobbler finds the plugin; the loader of a builtin always answers.
Loaded(i) == ServiceOf[i] \in available \cup (Service \ Plugin)

-----------------------------------------------------------------------------
(* The play tracker: refreshPluginScrobblers, Submit, dispatchScrobble. *)

Missing == available \ {ServiceOf[i] : i \in registered}
Gone == {i \in registered \ Builtin : ServiceOf[i] \notin available}

Absent(s) == {i \in Instance : ServiceOf[i] = s /\ pc[i] = "absent"}
Fresh(s) == CHOOSE i \in Absent(s) : TRUE

\* Mutant: an instance whose plugin is gone is forgotten and never stopped.
RefreshWithoutStop ==
  LET new == {Fresh(s) : s \in Missing} IN
  /\ \A s \in Missing : Absent(s) # {}
  /\ pc' = [i \in Instance |-> IF i \in new THEN "users" ELSE pc[i]]
  /\ registered' = (registered \cup new) \ Gone
  /\ UNCHANGED <<cancelled, wake, timers, user, todo, row, ok>>

\* newBufferedScrobblerWithLoader for each new plugin, whose goroutine starts
\* by processing the queue; Stop for each instance whose plugin is gone.
RefreshPluginScrobblers ==
  LET new == {Fresh(s) : s \in Missing} IN
  /\ \A s \in Missing : Absent(s) # {}
  /\ pc' = [i \in Instance |-> IF i \in new THEN "users" ELSE pc[i]]
  /\ registered' = (registered \cup new) \ Gone
  /\ cancelled' = [i \in Instance |-> cancelled[i] \/ i \in Gone]
  /\ UNCHANGED <<wake, timers, user, todo, row, ok>>

\* Submit counted the play; the player scrobbles and the artist is known, so
\* dispatchScrobble takes its own copy of the active scrobblers.
Submit(r, p) ==
  /\ req[r].pc = "idle" /\ budget.submits > 0
  /\ RefreshPluginScrobblers
  /\ req' = [req EXCEPT ![r] = IF registered' = {} THEN Idle
                               ELSE Dispatching(p, registered')]
  /\ budget' = [budget EXCEPT !.submits = @ - 1]
  /\ UNCHANGED <<available, rows, history>>

\* The now-playing worker refreshes the instances as well.
DispatchNowPlaying ==
  /\ RefreshPluginScrobblers
  /\ UNCHANGED <<available, req, rows, history, budget>>

Without(r, i) ==
  LET left == req[r].left \ {i} IN
  IF left = {} THEN Idle ELSE Dispatching(req[r].play, left)

\* IsAuthorized says no, or there is no plugin to ask.
NotAuthorized(r, i) ==
  /\ req[r].pc = "dispatch" /\ i \in req[r].left
  /\ req' = [req EXCEPT ![r] = Without(r, i)]
  /\ UNCHANGED <<available, registered, pc, cancelled, wake, timers, user, todo, row, ok,
                 rows, history, budget>>

Buffered(s, p) == \E t \in buffer[s] : t.play = p

\* Enqueue: a play is buffered once per service (the table's constraint).
Enqueue(r, i) ==
  LET s == ServiceOf[i]
      t == [id |-> lastId + 1, play |-> req[r].play]
  IN
  /\ req[r].pc = "dispatch" /\ i \in req[r].left /\ Loaded(i)
  /\ ~Buffered(s, req[r].play)
  /\ buffer' = [buffer EXCEPT ![s] = @ \cup {t}] /\ lastId' = lastId + 1
  /\ req' = [req EXCEPT ![r].pc = "wake", ![r].at = i]
  /\ orphans' = IF cancelled[i] THEN orphans \cup {t} ELSE orphans
  /\ UNCHANGED <<available, registered, pc, cancelled, wake, timers, user, todo, row, ok,
                 answered, budget>>

\* The insert fails: Scrobble returns the error without a signal.
EnqueueFails(r, i) ==
  /\ req[r].pc = "dispatch" /\ i \in req[r].left /\ Loaded(i)
  /\ \/ Buffered(ServiceOf[i], req[r].play) /\ UNCHANGED budget
     \/ budget.faults > 0 /\ budget' = [budget EXCEPT !.faults = @ - 1]
  /\ req' = [req EXCEPT ![r] = Without(r, i)]
  /\ UNCHANGED <<available, registered, pc, cancelled, wake, timers, user, todo, row, ok,
                 rows, history>>

\* Mutant: without its buffer the channel loses a signal sent to a busy loop.
SendUnbufferedSignal(r) ==
  /\ req[r].pc = "wake"
  /\ wake' = [wake EXCEPT ![req[r].at] = pc[req[r].at] = "wait"]
  /\ req' = [req EXCEPT ![r] = Without(r, req[r].at)]
  /\ UNCHANGED <<available, registered, pc, cancelled, timers, user, todo, row, ok, rows,
                 history, budget>>

SendWakeSignal(r) ==
  /\ req[r].pc = "wake"
  /\ wake' = [wake EXCEPT ![req[r].at] = pc[req[r].at] # "gone"]
  /\ req' = [req EXCEPT ![r] = Without(r, req[r].at)]
  /\ UNCHANGED <<available, registered, pc, cancelled, timers, user, todo, row, ok, rows,
                 history, budget>>

-----------------------------------------------------------------------------
(* The goroutine of an instance: run, processQueue, processUserQueue. *)

\* A statement fails by chance, and always once the context is cancelled.
StatementFails(i) ==
  \/ cancelled[i] /\ UNCHANGED budget
  \/ ~cancelled[i] /\ budget.faults > 0 /\ budget' = [budget EXCEPT !.faults = @ - 1]
StatementWorks(i) == ~cancelled[i] /\ UNCHANGED budget

\* processQueue returns: a failure arms a retry, then run waits.
EndQueue(i, result) ==
  /\ pc' = [pc EXCEPT ![i] = "wait"]
  /\ timers' = IF result THEN timers ELSE [timers EXCEPT ![i] = @ + 1]
  /\ user' = [user EXCEPT ![i] = None] /\ ok' = [ok EXCEPT ![i] = TRUE]
  /\ UNCHANGED todo

NextUser(i, users, result) ==
  \E u \in users :
    /\ pc' = [pc EXCEPT ![i] = "next"]
    /\ user' = [user EXCEPT ![i] = u] /\ todo' = [todo EXCEPT ![i] = users \ {u}]
    /\ ok' = [ok EXCEPT ![i] = result]
    /\ UNCHANGED timers

\* processUserQueue returns result for one user; the others still get theirs.
EndUser(i, result) ==
  IF todo[i] = {} THEN EndQueue(i, ok[i] /\ result)
                  ELSE NextUser(i, todo[i], ok[i] /\ result)

UserIDs(i) == {UserOf[t.play] : t \in buffer[ServiceOf[i]]}

\* The users come in some order: by the length of their queues, in the code.
ReadUserIDs(i) ==
  /\ pc[i] = "users"
  /\ \/ StatementFails(i) /\ EndQueue(i, FALSE)
     \/ StatementWorks(i) /\ IF UserIDs(i) = {} THEN EndQueue(i, TRUE)
                                                ELSE NextUser(i, UserIDs(i), TRUE)
  /\ UNCHANGED <<available, registered, cancelled, wake, row, req, rows, history>>

QueueOf(i) == {t \in buffer[ServiceOf[i]] : UserOf[t.play] = user[i]}
\* Mutant: the latest play first.
InReverse(q, t) == TimeOf[q.play] >= TimeOf[t.play]

InOrder(q, t) ==
  \/ TimeOf[q.play] < TimeOf[t.play]
  \/ TimeOf[q.play] = TimeOf[t.play] /\ q.id <= t.id

\* Next: the user's first row by play_time, then by insertion.
ReadNext(i) ==
  /\ pc[i] = "next" /\ StatementWorks(i)
  /\ \E t \in QueueOf(i) :
       /\ \A q \in QueueOf(i) : InOrder(t, q)
       /\ row' = [row EXCEPT ![i] = t]
  /\ pc' = [pc EXCEPT ![i] = "send"]
  /\ UNCHANGED <<available, registered, cancelled, wake, timers, user, todo, ok, req, rows,
                 history>>

NextEnds(i) ==
  /\ pc[i] = "next"
  /\ \/ StatementFails(i) /\ EndUser(i, FALSE)
     \/ StatementWorks(i) /\ QueueOf(i) = {} /\ EndUser(i, TRUE)
  /\ UNCHANGED <<available, registered, cancelled, wake, row, req, rows, history>>

\* The loader does not find the plugin.
NotAvailable(i) ==
  /\ pc[i] = "send" /\ ~Loaded(i)
  /\ EndUser(i, FALSE) /\ row' = [row EXCEPT ![i] = Nobody]
  /\ UNCHANGED <<available, registered, cancelled, wake, req, rows, history, budget>>

\* Mutant: every answer of the service is taken for ErrRetryLater.
SendAndRetry(i) ==
  /\ pc[i] = "send" /\ Loaded(i)
  /\ EndUser(i, FALSE) /\ row' = [row EXCEPT ![i] = Nobody]
  /\ UNCHANGED <<available, registered, cancelled, wake, req, rows, history, budget>>

\* The service takes the scrobble, or refuses it with an error that is final.
Send(i) ==
  /\ pc[i] = "send" /\ Loaded(i)
  /\ pc' = [pc EXCEPT ![i] = "dequeue"]
  /\ answered' = [answered EXCEPT ![ServiceOf[i]] = @ \cup {row[i]}]
  /\ UNCHANGED <<available, registered, cancelled, wake, timers, user, todo, row, ok, req,
                 rows, orphans, budget>>

\* ErrRetryLater, although the service may have taken the scrobble.
RetryLater(i) ==
  /\ pc[i] = "send" /\ Loaded(i)
  /\ budget.faults > 0 /\ budget' = [budget EXCEPT !.faults = @ - 1]
  /\ EndUser(i, FALSE) /\ row' = [row EXCEPT ![i] = Nobody]
  /\ UNCHANGED <<available, registered, cancelled, wake, req, rows, history>>

\* Dequeue deletes the row by its id; it is no error when it is gone.
Dequeue(i) ==
  /\ pc[i] = "dequeue" /\ StatementWorks(i)
  /\ buffer' = [buffer EXCEPT ![ServiceOf[i]] = @ \ {row[i]}]
  /\ pc' = [pc EXCEPT ![i] = "next"] /\ row' = [row EXCEPT ![i] = Nobody]
  /\ UNCHANGED <<available, registered, cancelled, wake, timers, user, todo, ok, req, lastId,
                 history>>

DequeueFails(i) ==
  /\ pc[i] = "dequeue" /\ StatementFails(i)
  /\ EndUser(i, FALSE) /\ row' = [row EXCEPT ![i] = Nobody]
  /\ UNCHANGED <<available, registered, cancelled, wake, req, rows, history>>

\* run: the signal starts another round, the cancelled context ends it; when
\* both are ready the select takes either.
Woken(i) ==
  /\ pc[i] = "wait" /\ wake[i]
  /\ pc' = [pc EXCEPT ![i] = "users"] /\ wake' = [wake EXCEPT ![i] = FALSE]
  /\ UNCHANGED <<available, registered, cancelled, timers, user, todo, row, ok, req, rows,
                 history, budget>>

Stopped(i) ==
  /\ pc[i] = "wait" /\ cancelled[i]
  /\ pc' = [pc EXCEPT ![i] = "gone"]
  /\ wake' = [wake EXCEPT ![i] = FALSE] /\ timers' = [timers EXCEPT ![i] = 0]
  /\ UNCHANGED <<available, registered, cancelled, user, todo, row, ok, req, rows,
                 history, budget>>

\* The timer of a failed round fires; for an instance that is gone, into a
\* channel nobody reads, so Stopped forgets its signal and its timers.
RetryTimer(i) ==
  /\ timers[i] > 0
  /\ timers' = [timers EXCEPT ![i] = @ - 1] /\ wake' = [wake EXCEPT ![i] = TRUE]
  /\ UNCHANGED <<available, registered, pc, cancelled, user, todo, row, ok, req, rows,
                 history, budget>>

-----------------------------------------------------------------------------
(* The rest of the world. *)

\* A user or a track is deleted, and its rows with it (on delete cascade).
DeleteOwner(plays) ==
  /\ buffer' = [s \in Service |-> {t \in buffer[s] : t.play \notin plays}]
  /\ buffer' # buffer
  /\ budget.faults > 0 /\ budget' = [budget EXCEPT !.faults = @ - 1]
  /\ UNCHANGED <<available, volatile, lastId, history>>

\* The server dies and starts again: only the table survives.
Restart ==
  /\ budget.faults > 0 /\ budget' = [budget EXCEPT !.faults = @ - 1]
  /\ registered' = Builtin
  /\ pc' = [i \in Instance |-> IF i \in Builtin THEN "users" ELSE "absent"]
  /\ cancelled' = [i \in Instance |-> FALSE] /\ wake' = [i \in Instance |-> FALSE]
  /\ timers' = [i \in Instance |-> 0]
  /\ user' = [i \in Instance |-> None] /\ todo' = [i \in Instance |-> {}]
  /\ row' = [i \in Instance |-> Nobody] /\ ok' = [i \in Instance |-> TRUE]
  /\ req' = [r \in Request |-> Idle]
  /\ UNCHANGED <<available, rows, history>>

Loop(i) ==
  \/ ReadUserIDs(i) \/ ReadNext(i) \/ NextEnds(i) \/ NotAvailable(i)
  \/ Send(i) \/ RetryLater(i) \/ Dequeue(i) \/ DequeueFails(i) \/ Woken(i) \/ Stopped(i)

Dispatch(r) ==
  \/ \E i \in req[r].left : NotAuthorized(r, i) \/ Enqueue(r, i) \/ EnqueueFails(r, i)
  \/ SendWakeSignal(r)

Next ==
  \/ \E s \in Plugin : LoadPlugin(s) \/ UnloadPlugin(s)
  \/ \E r \in Request, p \in Play : Submit(r, p)
  \/ \E r \in Request : Dispatch(r)
  \/ DispatchNowPlaying
  \/ \E i \in Instance : Loop(i) \/ RetryTimer(i)
  \/ \E p \in Play : DeleteOwner({p})
  \/ \E u \in User : DeleteOwner({p \in Play : UserOf[p] = u})
  \/ Restart

Spec == Init /\ [][Next]_vars

\* A goroutine that can go on does, and a timer fires.
LiveSpec ==
  /\ Spec
  /\ \A i \in Instance : WF_vars(Loop(i) \/ RetryTimer(i))
  /\ \A r \in Request : WF_vars(Dispatch(r))

-----------------------------------------------------------------------------
(* Properties. *)

Delivery == INSTANCE ScrobbleDelivery WITH pending <- buffer

\* The tracker and its loops, however many and however they fail, deliver what
\* the buffer promises: a row leaves only after its service answered for it or
\* its owner was deleted, and no row is answered before one that precedes it.
DeliveryKept == Delivery!Spec

\* The round in progress will come to the row, or another round is sure to.
Watches(i, t) ==
  \/ pc[i] = "users"
  \/ pc[i] \in {"next", "send", "dequeue"} /\ UserOf[t.play] \in todo[i] \cup {user[i]}
  \/ wake[i] \/ timers[i] > 0 \/ ~ok[i]
  \/ \E r \in Request : req[r].pc = "wake" /\ req[r].at = i

\* wakeSignal holds one signal and drops the rest, rounds fail and are retried
\* by timers: no row is left that the registered instance of its service would
\* not come to.  The exception is a row buffered through an instance that was
\* already stopped, whose signal nobody receives.
NoLostWakeup ==
  \A i \in registered : \A t \in buffer[ServiceOf[i]] \ orphans : Watches(i, t)

\* Only one loop per service is at large, next to those already stopped.
OneLoop ==
  \A i, j \in Instance :
    /\ ServiceOf[i] = ServiceOf[j] /\ i # j
    /\ pc[i] \notin {"absent", "gone"} /\ pc[j] \notin {"absent", "gone"}
    => cancelled[i] \/ cancelled[j]

Serving(s) == \E i \in registered : ServiceOf[i] = s /\ Loaded(i)
Waiting(s, n) == \E t \in buffer[s] \ orphans : t.id = n

\* While a service stays available, each of its rows leaves the buffer.
EveryScrobbleLeaves ==
  \A s \in Service, n \in RowId : <>[]Serving(s) => (Waiting(s, n) ~> ~Waiting(s, n))
=============================================================================
