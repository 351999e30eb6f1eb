--------------------------- MODULE ScanController ---------------------------
(***************************************************************************)
(* Who asks for scans and what becomes of the request: the controller with *)
(* its one-scan lock (scanner/controller.go), the watcher's debouncing     *)
(* loop (scanner/watcher.go), the scan at startup and the periodic one     *)
(* (cmd/root.go), the Subsonic API and the library service.                *)
(*                                                                         *)
(* The scan itself is LibraryScan's subject.  Here it is what that module  *)
(* shows of it: a scan that completes has read the folders of its scope as *)
(* they were when it listed the libraries; a change made later may come    *)
(* too late for it, and one that fails has promised nothing.               *)
(***************************************************************************)
EXTENDS Naturals, FiniteSets

CONSTANTS Folder,
          Known0,       \* the folders of the libraries there are at startup
          Selective,    \* scans of single folders: DevSelectiveWatcher, API targets
          MayStop,      \* whether the process may be told to stop
          MaxRequests,  \* bound on scans asked for by schedule, signal and API
          MaxChanges,   \* bound on changes of the disk and on new libraries
          MaxFaults     \* bound on failing scans and database reads

ASSUME ControllerAssumption ==
  /\ Known0 \subseteq Folder /\ Selective \in BOOLEAN /\ MayStop \in BOOLEAN
  /\ MaxRequests \in Nat /\ MaxChanges \in Nat /\ MaxFaults \in Nat

VARIABLES
  known,    \* folders of the libraries in the database
  dirty,    \* folders with a change no completed scan has read
  events,   \* changes on their way from the file system to the watcher's loop
  timer,    \* whether the watcher's trigger is armed
  targets,  \* the watcher's targets of the next scan
  calls,    \* calls of ScanFolders in progress, and scans that outlive theirs
  running,  \* the one-scan lock
  event,    \* the last ScanStatus broadcast
  lastErr,  \* whether the LastScanError property holds an error
  silent,   \* the last call returned without its final status (history)
  startup,  \* what runInitialScan is doing
  flag,     \* FullScanAfterMigration
  shutdown, \* rootCtx is cancelled
  budget

diskVars == <<known, dirty>>
watchVars == <<events, timer, targets>>
reportVars == <<event, lastErr, silent>>
bootVars == <<startup, flag>>
vars == <<diskVars, watchVars, calls, running, reportVars, bootVars, shutdown, budget>>

Init ==
  /\ known = Known0 /\ dirty \in SUBSET Known0
  /\ events = {} /\ timer = FALSE /\ targets = {}
  /\ calls = {} /\ running = FALSE
  /\ event = [scanning |-> FALSE, error |-> FALSE] /\ lastErr = FALSE
  /\ silent = FALSE
  /\ startup = "begin" /\ flag \in BOOLEAN
  /\ shutdown = FALSE
  /\ budget = [asks |-> MaxRequests, changes |-> MaxChanges, faults |-> MaxFaults]

-----------------------------------------------------------------------------
(* Calls.  pc: asked -> tracking -> releasing -> returned; its goroutine's   *)
(* scan: none -> listing -> busy -> ok, failed or warned.                    *)

NewCall(scope, full) ==
  [id |-> CHOOSE n \in 0..Cardinality(calls) : \A c \in calls : c.id # n,
   scope |-> scope, full |-> full, pc |-> "asked", scan |-> "none", reads |-> {}]
Ask(scope, full) == calls' = calls \cup {NewCall(scope, full)}
Becomes(c, d) == calls' = (calls \ {c}) \cup {d}

Holding(c) == c.pc \in {"tracking", "releasing"}
Scanning(c) == c.scan \in {"listing", "busy"}

\* lockScan, then the first status and the scan's goroutine; or ErrAlreadyScanning,
\* which every caller just logs.
AdmitAlways(c) == TRUE
Admit(c) == ~running
Enter(c) ==
  /\ c.pc = "asked"
  /\ \/ /\ Admit(c)
        /\ running' = TRUE
        /\ Becomes(c, [c EXCEPT !.pc = "tracking", !.scan = "listing"])
        /\ event' = [scanning |-> TRUE, error |-> FALSE]
        /\ silent' = FALSE
     \/ /\ ~Admit(c)
        /\ calls' = calls \ {c}
        /\ UNCHANGED <<running, event, silent>>
  /\ UNCHANGED <<diskVars, watchVars, lastErr, bootVars, shutdown, budget>>

Fault == budget.faults > 0 /\ budget' = [budget EXCEPT !.faults = @ - 1]

\* scanFolders lists the libraries.  Not being able to is a warning, no error.
ScanLists(c) ==
  /\ c.scan = "listing"
  /\ \/ /\ ~shutdown
        /\ Becomes(c, [c EXCEPT !.scan = "busy", !.reads = dirty \cap known \cap c.scope])
        /\ UNCHANGED budget
     \/ /\ Fault \/ (shutdown /\ UNCHANGED budget)
        /\ Becomes(c, [c EXCEPT !.scan = "warned"])
  /\ UNCHANGED <<diskVars, watchVars, running, reportVars, bootVars, shutdown>>

\* The scan ends well: it tells the controller whether anything changed.
ScanSucceeds(c) ==
  /\ c.scan = "busy" /\ ~shutdown
  /\ dirty' = dirty \ c.reads
  /\ Becomes(c, [c EXCEPT !.scan = "ok", !.reads = {}])
  /\ lastErr' = FALSE
  /\ UNCHANGED <<known, watchVars, running, event, silent, bootVars, shutdown, budget>>

\* It fails, early or with part of the changes in the database.  The error is
\* stored, unless preparing the libraries failed or the context is gone.
ScanFails(c) ==
  /\ c.scan = "busy" /\ (Fault \/ (shutdown /\ UNCHANGED budget))
  /\ Becomes(c, [c EXCEPT !.scan = "failed", !.reads = {}])
  /\ lastErr' \in {lastErr, lastErr \/ ~shutdown}
  /\ UNCHANGED <<diskVars, watchVars, running, event, silent, bootVars, shutdown>>

\* trackProgress broadcasts how far the scan is, with the error stored last; what
\* is still in the channel when the scan ends included.
Progress(c) ==
  /\ c.pc = "tracking" /\ c.scan # "listing"
  /\ event' = [scanning |-> TRUE, error |-> lastErr]
  /\ UNCHANGED <<diskVars, watchVars, calls, running, lastErr, silent, bootVars, shutdown, budget>>

\* trackProgress is done when the scan closed its channel, or rootCtx ended.
Tracked(c) == c.scan \in {"ok", "failed", "warned"} \/ shutdown

\* ScanFolders stores the error and sends the final status: not when the counters
\* cannot be read, and nothing is stored with a cancelled context.  The refresh event,
\* which tells the clients to load again, is left out.
StoredError(c) == lastErr \/ (c.scan = "failed" /\ ~shutdown)
StaleStatus(c) == [scanning |-> FALSE, error |-> lastErr]
FinalStatus(c) == [scanning |-> FALSE, error |-> StoredError(c)]
Report(c) ==
  /\ c.pc = "tracking" /\ Tracked(c)
  /\ lastErr' = StoredError(c)
  /\ \/ /\ ~shutdown
        /\ event' = FinalStatus(c)
        /\ UNCHANGED <<silent, budget>>
     \/ /\ Fault \/ (shutdown /\ UNCHANGED budget)
        /\ silent' = TRUE
        /\ UNCHANGED event
  /\ Becomes(c, [c EXCEPT !.pc = "releasing"])
  /\ UNCHANGED <<diskVars, watchVars, running, bootVars, shutdown>>

Release(c) ==
  /\ c.pc = "releasing"
  /\ running' = FALSE
  /\ IF Scanning(c) THEN Becomes(c, [c EXCEPT !.pc = "returned"]) ELSE calls' = calls \ {c}
  /\ UNCHANGED <<diskVars, watchVars, reportVars, bootVars, shutdown, budget>>

\* A scan whose call has returned ends with its context.
Abandoned(c) ==
  /\ c.pc = "returned"
  /\ calls' = calls \ {c}
  /\ UNCHANGED <<diskVars, watchVars, running, reportVars, bootVars, shutdown, budget>>

-----------------------------------------------------------------------------
(* The watcher's loop. *)

\* A change reaches the loop: the trigger is armed anew.
Receive(f) ==
  /\ f \in events /\ ~shutdown
  /\ events' = events \ {f} /\ targets' = targets \cup {f} /\ timer' = TRUE
  /\ UNCHANGED <<diskVars, calls, running, reportVars, bootVars, shutdown, budget>>

\* The trigger: ask for a scan, wait on while one runs, give up when the scanner's
\* status cannot be read.
NoRearm == FALSE
Rearm == TRUE
TriggerFires ==
  /\ timer /\ ~shutdown
  /\ \/ /\ running
        /\ timer' = Rearm
        /\ UNCHANGED <<targets, calls, budget>>
     \/ /\ ~running
        /\ timer' = FALSE /\ targets' = {}
        /\ Ask(IF Selective THEN targets ELSE Folder, FALSE)
        /\ UNCHANGED budget
     \/ /\ Fault
        /\ timer' = FALSE
        /\ UNCHANGED <<targets, calls>>
  /\ UNCHANGED <<diskVars, events, running, reportVars, bootVars, shutdown>>

-----------------------------------------------------------------------------
(* The other askers, and the world. *)

\* schedulePeriodicScan, startSignaller, StartScan.
AskScan(scope, full) ==
  /\ budget.asks > 0 /\ (Selective \/ scope = Folder) /\ scope # {}
  /\ Ask(scope, full)
  /\ budget' = [budget EXCEPT !.asks = @ - 1]
  /\ UNCHANGED <<diskVars, watchVars, running, reportVars, bootVars, shutdown>>

\* libraryRepositoryWrapper.Save: the row, the watcher, then go triggerScan.
SaveLibrary(f) ==
  /\ budget.changes > 0 /\ f \notin known
  /\ known' = known \cup {f} /\ dirty' = dirty \cup {f}
  /\ Ask(Folder, FALSE)
  /\ budget' = [budget EXCEPT !.changes = @ - 1]
  /\ UNCHANGED <<watchVars, running, reportVars, bootVars, shutdown>>

\* runInitialScan reads the flag, sleeps, deletes the flag and asks for the scan.
\* needed and full stand for the configuration, an unfinished scan and the PIDs.
ReadFlag ==
  /\ startup = "begin"
  /\ startup' = IF flag THEN "full" ELSE "quick"
  /\ UNCHANGED <<diskVars, watchVars, calls, running, reportVars, flag, shutdown, budget>>
InitialScan(needed, full) ==
  /\ startup \in {"full", "quick"}
  /\ startup' = "done"
  /\ flag' = (flag /\ startup = "quick")
  /\ IF startup = "full" \/ needed
     THEN Ask(Folder, startup = "full" \/ full)
     ELSE UNCHANGED calls
  /\ UNCHANGED <<diskVars, watchVars, running, reportVars, shutdown, budget>>

\* A change on disk; a scan that runs may have read the folder already.
Change(f) ==
  /\ budget.changes > 0 /\ f \in known
  /\ budget' = [budget EXCEPT !.changes = @ - 1]
  /\ dirty' = dirty \cup {f} /\ events' = events \cup {f}
  /\ calls' = {[c EXCEPT !.reads = @ \ {f}] : c \in calls}
  /\ UNCHANGED <<known, timer, targets, running, reportVars, bootVars, shutdown>>

\* The process is told to stop.
Shutdown ==
  /\ MayStop /\ ~shutdown /\ shutdown' = TRUE
  /\ UNCHANGED <<diskVars, watchVars, calls, running, reportVars, bootVars, budget>>

CallStep(c) ==
  \/ Enter(c) \/ ScanLists(c) \/ ScanSucceeds(c) \/ ScanFails(c)
  \/ Progress(c) \/ Report(c) \/ Release(c) \/ Abandoned(c)

Next ==
  \/ \E c \in calls : CallStep(c)
  \/ \E f \in Folder : Receive(f) \/ SaveLibrary(f) \/ Change(f)
  \/ TriggerFires
  \/ \E scope \in SUBSET Folder, full \in BOOLEAN : AskScan(scope, full)
  \/ ReadFlag \/ \E needed, full \in BOOLEAN : InitialScan(needed, full)
  \/ Shutdown

Spec == Init /\ [][Next]_vars

\* Goroutines run, scans end, events arrive and the timer fires.
Ids == 0..(MaxRequests + 2 * MaxChanges + 1)
LiveSpec ==
  /\ Spec
  /\ \A i \in Ids : WF_vars(\E c \in calls : c.id = i /\ CallStep(c))
  /\ \A f \in Folder : WF_vars(Receive(f))
  /\ WF_vars(TriggerFires)

-----------------------------------------------------------------------------
(* Properties. *)

\* Also: the lock is held by a call that will release it, or by none.
TypeOK ==
  /\ known \subseteq Folder /\ dirty \subseteq known /\ events \subseteq known /\ targets \subseteq known
  /\ \A c \in calls : /\ c.scope \subseteq Folder /\ c.reads \subseteq dirty
                      /\ c.pc = "asked" <=> c.scan = "none"
  /\ running <=> \E c \in calls : Holding(c)

\* "There can be only one" (controller.go:258): while the server is not stopping, one
\* scan at most is going on, and whenever one is, Status and IsScanning say so.
OneScan ==
  ~shutdown => \A c \in calls : Scanning(c) =>
                 running /\ \A d \in calls : Scanning(d) => d = c

\* When no scan is going on, the last status the clients were sent is the one
\* they would get by asking: unless the counters of the last scan could not be read.
StatusSettled ==
  ~running /\ ~shutdown /\ ~silent => event = [scanning |-> FALSE, error |-> lastErr]

\* A change the watcher is told of when the database no longer fails is read by a scan
\* in the end, whoever else asks for scans meanwhile; or the server is stopped.
ChangesScanned ==
  \A f \in Folder :
    (f \in events \cap dirty /\ budget.faults = 0) ~> (f \notin dirty \/ shutdown)
=============================================================================
