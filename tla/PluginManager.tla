--------------------------- MODULE PluginManager ---------------------------
(***************************************************************************)
(* The life of one plugin (plugins/manager*.go): its file in the plugins   *)
(* folder, its row in the database and the object in the manager's map are *)
(* brought together by requests, the start of the server, the folder's     *)
(* watcher and the deletion of users, each on a goroutine of its own.      *)
(*                                                                         *)
(* Only the map has a mutex.  Every operation reads the row first, works   *)
(* on the copy and writes the whole row back, whatever happened meanwhile. *)
(***************************************************************************)
EXTENDS Naturals, Sequences

CONSTANTS Worker,      \* goroutines that may be at work at one time
          Boot,        \* the one that runs Start
          Version,     \* what the file may contain; its SHA-256
          Installed,   \* the version the last process knew
          Broken,      \* versions whose manifest or package cannot be read
          MaxOps,      \* bound on requests and deletions of users
          MaxChanges,  \* bound on changes of the file
          MaxInputs,   \* bound on both together
          MaxFaults,   \* bound on failing statements, reads and compilations
          MaxLoads     \* bound on loads of the plugin

None == 0
ASSUME PluginAssumption ==
  /\ Boot \in Worker /\ None \notin Version
  /\ Broken \subseteq Version /\ Installed \in Version \ Broken
  /\ MaxOps \in Nat /\ MaxChanges \in Nat /\ MaxInputs \in Nat /\ MaxFaults \in Nat /\ MaxLoads \in Nat

VARIABLES
  disk,     \* the version in the folder, or None
  row,      \* the plugin's row
  objs,     \* the plugin objects built so far
  loaded,   \* the manager's map: the object, or None
  op,       \* what each worker has still to do, and what it has read
  watch,    \* the watcher: started, an event in its channel, timers, map entry;
            \* the file changed after Start read it and before that (history)
  stop,     \* how far Stop is, or crashed
  overlap,  \* two operations were at work at one time (history)
  budget

vars == <<disk, row, objs, loaded, op, watch, stop, overlap, budget>>

\* granted: the users the manifest asks for are configured, or all users.
NoRow == [there |-> FALSE, enabled |-> FALSE, sha |-> None, granted |-> FALSE]
Row == [there : {TRUE}, enabled : BOOLEAN, sha : Version, granted : BOOLEAN]
Rest(kind) == IF kind = "boot" THEN <<"watch">> ELSE <<>>
Idle == [kind |-> "idle", todo |-> <<>>, rec |-> NoRow, ver |-> None, obj |-> None]
NoWatcher == [on |-> FALSE, event |-> FALSE, timers |-> 0, entry |-> "none", missed |-> FALSE]
Busy(w) == op[w].todo # <<>>

\* Start, in a process of its own; until it reads the folder the file may still change.
Init ==
  /\ disk \in {Installed, None}
  /\ row \in {r \in Row : r.sha = Installed /\ (r.enabled => r.granted)} \cup {NoRow}
  /\ objs = <<>> /\ loaded = None
  /\ op = [w \in Worker |-> IF w = Boot THEN [Idle EXCEPT !.kind = "boot", !.todo = <<"readdir", "enabled", "watch">>]
                            ELSE Idle]
  /\ watch = NoWatcher
  /\ stop = "no" /\ overlap = FALSE
  /\ budget = [ops |-> MaxOps, changes |-> MaxChanges, faults |-> MaxFaults]

\* The bounds allow one more input.
More == (MaxOps - budget.ops) + (MaxChanges - budget.changes) < MaxInputs
Readable == disk # None /\ disk \notin Broken
Stopped == stop # "no"

-----------------------------------------------------------------------------
(* Operations are sequences of steps. *)

Unload == <<"unload", "close">>
Load == <<"check", "add", "build", "insert", "init">>

Begin(w, kind, todo, rec) ==
  /\ ~Busy(w)
  /\ op' = [op EXCEPT ![w] = [Idle EXCEPT !.kind = kind, !.todo = todo, !.rec = rec]]
  /\ overlap' = (overlap \/ \E v \in Worker : Busy(v))

Request(w, kind, todo, rec) ==
  /\ More /\ stop # "crashed" /\ budget.ops > 0 /\ budget' = [budget EXCEPT !.ops = @ - 1]
  /\ Begin(w, kind, todo, rec)
  /\ UNCHANGED <<disk, row, objs, loaded, watch, stop>>

\* EnablePlugin: the gates are checked before the plugin is loaded.
EnablePlugin(w) ==
  /\ row.there /\ ~row.enabled /\ Readable /\ row.granted
  /\ Request(w, "enable", Load \o <<"putOn">>, row)

DisablePlugin(w) ==
  /\ row.there /\ row.enabled
  /\ Request(w, "disable", Unload \o <<"put">>, [row EXCEPT !.enabled = FALSE])

\* updatePluginSettings: a manifest that cannot be read asks for no permission.
NeverRevoked(granted) == FALSE
Revoked(granted) == row.enabled /\ Readable /\ ~granted
UpdateSettings(w, granted) ==
  /\ row.there
  /\ IF Revoked(granted)
     THEN Request(w, "settings", Unload \o <<"put">>, [row EXCEPT !.granted = granted, !.enabled = FALSE])
     ELSE Request(w, "settings", <<"save">> \o (IF row.enabled THEN Unload \o Load ELSE <<>>),
                  [row EXCEPT !.granted = granted])

\* userRepositoryWrapper.Delete of the only user the plugin had.
DeleteUser(w) ==
  /\ row.there
  /\ Request(w, "deleteUser", <<"strip", "autoDisable", "disabled">>, row)

RescanPlugins(w) == Request(w, "rescan", <<"readdir">>, NoRow)

-----------------------------------------------------------------------------
(* Steps.  At(w, s): w is at step s; Go(w, steps): it goes on with them. *)

At(w, s) == Busy(w) /\ Head(op[w].todo) = s
Then(w, steps) == steps \o Tail(op[w].todo)
Go(w, steps) == op' = [op EXCEPT ![w].todo = Then(w, steps)]
GoWith(w, steps, rec) == op' = [op EXCEPT ![w].todo = Then(w, steps), ![w].rec = rec]
Quit(w, steps) == op' = [op EXCEPT ![w].todo = steps \o Rest(op[w].kind)]

Fault == budget.faults > 0 /\ budget' = [budget EXCEPT !.faults = @ - 1]

\* Get and Delete of processPluginEvent use the manager's context, which Stop cancels.
ContextFails(w) == Fault \/ (op[w].kind = "event" /\ Stopped /\ UNCHANGED budget)

\* syncPlugins reads the folder and the table; a row without a file is removed.
Remove(rec) == (IF rec.enabled THEN Unload ELSE <<>>) \o <<"delete">>
ReadDir(w) ==
  /\ At(w, "readdir")
  /\ GoWith(w, IF disk # None THEN <<"hash">> ELSE IF row.there THEN Remove(row) ELSE <<>>, row)
  /\ UNCHANGED <<disk, row, objs, loaded, watch, stop, overlap, budget>>

\* computeFileSHA256.  In syncPlugins a file that cannot be read counts as removed;
\* in processPluginEvent the row is read afterwards.
Unchanged(rec, ver) == rec.there /\ rec.sha = ver
AfterHashIfNew(rec, ver) == IF rec.there THEN <<>> ELSE <<"extract">>
AfterHash(rec, ver) == IF Unchanged(rec, ver) THEN <<>> ELSE <<"extract">>
HashFile(w) ==
  /\ At(w, "hash")
  /\ \/ /\ disk # None
        /\ Go(w, AfterHash(op[w].rec, disk))
        /\ UNCHANGED budget
     \/ /\ Fault \/ (disk = None /\ UNCHANGED budget)
        /\ Go(w, IF op[w].rec.there THEN Remove(op[w].rec) ELSE <<>>)
  /\ UNCHANGED <<disk, row, objs, loaded, watch, stop, overlap>>

HashChanged(w) ==
  /\ At(w, "hashChanged")
  /\ \/ /\ disk # None
        /\ op' = [op EXCEPT ![w].todo = Then(w, <<"get">>), ![w].ver = disk]
        /\ UNCHANGED budget
     \/ /\ Fault \/ (disk = None /\ UNCHANGED budget)
        /\ Go(w, <<>>)
  /\ UNCHANGED <<disk, row, objs, loaded, watch, stop, overlap>>

\* An error of Get is taken for a plugin that is not in the table.
GetChanged(w) ==
  /\ At(w, "get")
  /\ \/ /\ GoWith(w, AfterHash(row, op[w].ver), row)
        /\ UNCHANGED budget
     \/ /\ ContextFails(w)
        /\ GoWith(w, <<"extract">>, NoRow)
  /\ UNCHANGED <<disk, row, objs, loaded, watch, stop, overlap>>

GetRemoved(w) ==
  /\ At(w, "getRemoved")
  /\ \/ /\ GoWith(w, IF row.there THEN Remove(row) ELSE <<>>, row)
        /\ UNCHANGED budget
     \/ /\ ContextFails(w)
        /\ Go(w, <<>>)
  /\ UNCHANGED <<disk, row, objs, loaded, watch, stop, overlap>>

\* extractManifest, then addPluginToDB or updatePluginInDB, which disables the plugin;
\* a package that cannot be read disables it too.
DisablingRowOnly(rec) == <<"put">>
Disabling(rec) == (IF rec.enabled THEN Unload ELSE <<>>) \o <<"put">>
ShaOfFile(w) == disk
Extract(w) ==
  LET rec == op[w].rec IN
  /\ At(w, "extract")
  /\ \/ /\ Readable /\ ~Stopped
        /\ GoWith(w, Disabling(rec), [there |-> TRUE, enabled |-> FALSE, sha |-> ShaOfFile(w), granted |-> rec.granted])
     \/ /\ ~Readable \/ Stopped
        /\ GoWith(w, IF rec.there THEN Disabling(rec) ELSE <<>>, [rec EXCEPT !.enabled = FALSE])
  /\ UNCHANGED <<disk, row, objs, loaded, watch, stop, overlap, budget>>

-----------------------------------------------------------------------------
(* The row. *)

\* Put writes the whole row, and inserts it when it is gone.  Only EnablePlugin and
\* the first Put of updatePluginSettings care when it fails.
Put(w) ==
  /\ At(w, "put")
  /\ \/ row' = op[w].rec /\ UNCHANGED budget
     \/ Fault /\ UNCHANGED row
  /\ Go(w, <<>>)
  /\ UNCHANGED <<disk, objs, loaded, watch, stop, overlap>>

PutEnabled(w) ==
  /\ At(w, "putOn")
  /\ \/ row' = [op[w].rec EXCEPT !.enabled = TRUE] /\ Go(w, <<>>) /\ UNCHANGED budget
     \/ Fault /\ Go(w, Unload) /\ UNCHANGED row
  /\ UNCHANGED <<disk, objs, loaded, watch, stop, overlap>>

SaveSettings(w) ==
  /\ At(w, "save")
  /\ \/ row' = op[w].rec /\ Go(w, <<>>) /\ UNCHANGED budget
     \/ Fault /\ Quit(w, <<>>) /\ UNCHANGED row
  /\ UNCHANGED <<disk, objs, loaded, watch, stop, overlap>>

Delete(w) ==
  /\ At(w, "delete")
  /\ \/ row' = NoRow /\ UNCHANGED budget
     \/ ContextFails(w) /\ UNCHANGED row
  /\ Go(w, <<>>)
  /\ UNCHANGED <<disk, objs, loaded, watch, stop, overlap>>

\* cleanupPluginUserReferences: two statements; the second one is not reached when
\* the first one fails, which is logged only.
StripUser(w) ==
  /\ At(w, "strip")
  /\ \/ row' = [row EXCEPT !.granted = FALSE] /\ Go(w, <<>>) /\ UNCHANGED budget
     \/ Fault /\ UNCHANGED row /\ op' = [op EXCEPT ![w].todo = <<"disabled">>]
  /\ UNCHANGED <<disk, objs, loaded, watch, stop, overlap>>

AutoDisable(w) ==
  /\ At(w, "autoDisable")
  /\ \/ row' = [row EXCEPT !.enabled = @ /\ row.granted] /\ UNCHANGED budget
     \/ Fault /\ UNCHANGED row
  /\ Go(w, <<>>)
  /\ UNCHANGED <<disk, objs, loaded, watch, stop, overlap>>

\* UnloadDisabledPlugins
UnloadDisabled(w) ==
  /\ At(w, "disabled")
  /\ \/ /\ Go(w, IF row.there /\ ~row.enabled THEN Unload ELSE <<>>)
        /\ UNCHANGED budget
     \/ Fault /\ Go(w, <<>>)
  /\ UNCHANGED <<disk, row, objs, loaded, watch, stop, overlap>>

-----------------------------------------------------------------------------
(* The map. *)

\* unloadPlugin takes the object out of the map with the lock held, and closes it
\* without.
EntryKept == loaded
AfterUnload == None
UnloadPlugin(w) ==
  /\ At(w, "unload")
  /\ IF loaded = None
     THEN op' = [op EXCEPT ![w].todo = Tail(Tail(@))] /\ UNCHANGED loaded
     ELSE /\ loaded' = AfterUnload
          /\ op' = [op EXCEPT ![w].todo = Tail(@), ![w].obj = loaded]
  /\ UNCHANGED <<disk, row, objs, watch, stop, overlap, budget>>

ClosePlugin(w) ==
  /\ At(w, "close")
  /\ objs' = [objs EXCEPT ![op[w].obj].closes = @ + 1]
  /\ Go(w, <<>>)
  /\ UNCHANGED <<disk, row, loaded, watch, stop, overlap, budget>>

\* Every caller stores the error; all but EnablePlugin, where it is, disable the plugin.
LoadFails(w) ==
  op' = [op EXCEPT ![w].todo = <<"put">> \o Rest(op[w].kind), ![w].rec.enabled = FALSE]

\* loadPluginWithConfig: loadWg counts it from "add" on, then it looks again.
CheckStopped(w) ==
  /\ At(w, "check")
  /\ IF Stopped THEN LoadFails(w) ELSE Go(w, <<>>)
  /\ UNCHANGED <<disk, row, objs, loaded, watch, stop, overlap, budget>>

AddLoadOnly(w) ==
  /\ At(w, "add") /\ Go(w, <<>>)
  /\ UNCHANGED <<disk, row, objs, loaded, watch, stop, overlap, budget>>
AddLoad(w) ==
  /\ At(w, "add")
  /\ IF Stopped THEN LoadFails(w) ELSE Go(w, <<>>)
  /\ UNCHANGED <<disk, row, objs, loaded, watch, stop, overlap, budget>>

\* The services are created with what the row allows.  What fails after that, the
\* compilation or a check of the capabilities, leaves them open.
Build(w) ==
  /\ At(w, "build")
  /\ IF Readable
     THEN /\ Len(objs) < MaxLoads
          /\ objs' = Append(objs, [granted |-> op[w].rec.granted, closes |-> 0])
          /\ \/ /\ op' = [op EXCEPT ![w].todo = Tail(@), ![w].obj = Len(objs')]
                /\ UNCHANGED budget
             \/ Fault /\ LoadFails(w)
             \/ Stopped /\ LoadFails(w) /\ UNCHANGED budget
     ELSE LoadFails(w) /\ UNCHANGED <<objs, budget>>
  /\ UNCHANGED <<disk, row, loaded, watch, stop, overlap>>

Insert(w) ==
  /\ At(w, "insert")
  /\ loaded' = op[w].obj
  /\ Go(w, <<>>)
  /\ UNCHANGED <<disk, row, objs, watch, stop, overlap, budget>>

\* callPluginInit reads the map again, without the lock; a nil plugin is a panic that
\* the router, or loadEnabledPlugins, recovers from.
CallInit(w) ==
  /\ At(w, "init")
  /\ IF loaded = None THEN Quit(w, <<>>) ELSE Go(w, <<>>)
  /\ UNCHANGED <<disk, row, objs, loaded, watch, stop, overlap, budget>>

Loading == {w \in Worker : \E s \in {"build", "insert", "init"} : At(w, s)}

-----------------------------------------------------------------------------
(* Start, Stop and the watcher. *)

\* Start gives up, and starts no watcher, when the table cannot be read.
LoadEnabled(w) ==
  /\ At(w, "enabled")
  /\ \/ GoWith(w, IF row.enabled THEN Load ELSE <<>>, row) /\ UNCHANGED budget
     \/ Fault /\ op' = [op EXCEPT ![w].todo = <<>>]
  /\ UNCHANGED <<disk, row, objs, loaded, watch, stop, overlap>>

StartWatcher(w) ==
  /\ At(w, "watch")
  /\ watch' = [watch EXCEPT !.on = ~Stopped]
  /\ Go(w, <<>>)
  /\ UNCHANGED <<disk, row, objs, loaded, stop, overlap, budget>>

\* handleWatcherEvent: the timer in the map is stopped and replaced.  stopWatcher set
\* the map to nil: the loop may still take an event, and writing to it panics.
HandleEvent ==
  /\ watch.event
  /\ IF stop \in {"no", "stopped"}
     THEN /\ watch' = [watch EXCEPT !.event = FALSE, !.entry = "armed",
                                    !.timers = IF watch.entry = "armed" THEN @ ELSE @ + 1]
          /\ UNCHANGED <<op, stop>>
     ELSE /\ watch' = [NoWatcher EXCEPT !.missed = TRUE]
          /\ op' = [w \in Worker |-> Idle] /\ stop' = "crashed"
  /\ UNCHANGED <<disk, row, objs, loaded, overlap, budget>>

LoopEnds ==
  /\ (watch.on \/ watch.event) /\ Stopped
  /\ watch' = [watch EXCEPT !.on = FALSE, !.event = FALSE]
  /\ UNCHANGED <<disk, row, objs, loaded, op, stop, overlap, budget>>

\* A timer fires: processPluginEvent runs, and removes whatever timer the map holds.
TimerFires(w) ==
  /\ watch.timers > 0
  /\ \E theOneInTheMap \in BOOLEAN :
       /\ watch.entry = "armed" /\ watch.timers = 1 => theOneInTheMap
       /\ watch' = [watch EXCEPT !.timers = @ - 1,
                                 !.entry = IF @ = "armed" /\ theOneInTheMap THEN "fired" ELSE @]
  /\ Begin(w, "event", <<"event">>, NoRow)
  /\ UNCHANGED <<disk, row, objs, loaded, stop, budget>>

ProcessPluginEvent(w) ==
  /\ At(w, "event")
  /\ IF Stopped
     THEN Go(w, <<>>) /\ UNCHANGED watch
     ELSE /\ watch' = [watch EXCEPT !.entry = "none"]
          /\ Go(w, IF disk # None THEN <<"hashChanged">> ELSE <<"getRemoved">>)
  /\ UNCHANGED <<disk, row, objs, loaded, stop, overlap, budget>>

\* Stop: the flag and the context, the watcher and the timer its map holds, the loads
\* under way, then everything in the map.
StopStep ==
  \/ /\ stop = "no" /\ stop' = "stopped" /\ UNCHANGED <<watch, objs, loaded>>
  \/ /\ stop = "stopped" /\ stop' = "unwatched"
     /\ watch' = [watch EXCEPT !.timers = IF watch.entry = "armed" THEN @ - 1 ELSE @, !.entry = "none",
                               !.on = FALSE]
     /\ UNCHANGED <<objs, loaded>>
  \/ /\ stop = "unwatched" /\ Loading = {} /\ stop' = "waited" /\ UNCHANGED <<watch, objs, loaded>>
  \/ /\ stop = "waited" /\ stop' = "closed" /\ loaded' = None
     /\ objs' = [o \in DOMAIN objs |-> IF o = loaded THEN [objs[o] EXCEPT !.closes = @ + 1] ELSE objs[o]]
     /\ UNCHANGED watch

Stop == StopStep /\ UNCHANGED <<disk, row, op, overlap, budget>>

\* The file is written or removed.
ChangeFile(v) ==
  /\ More /\ budget.changes > 0 /\ v # disk
  /\ disk' = v
  /\ budget' = [budget EXCEPT !.changes = @ - 1]
  /\ watch' = [watch EXCEPT !.event = @ \/ watch.on, !.missed = @ \/ ~(watch.on \/ At(Boot, "readdir"))]
  /\ UNCHANGED <<row, objs, loaded, op, stop, overlap>>

-----------------------------------------------------------------------------
Step(w) ==
  \/ ReadDir(w) \/ HashFile(w) \/ HashChanged(w) \/ GetChanged(w) \/ GetRemoved(w) \/ Extract(w)
  \/ Put(w) \/ PutEnabled(w) \/ SaveSettings(w) \/ Delete(w)
  \/ StripUser(w) \/ AutoDisable(w) \/ UnloadDisabled(w)
  \/ UnloadPlugin(w) \/ ClosePlugin(w)
  \/ CheckStopped(w) \/ AddLoad(w) \/ Build(w) \/ Insert(w) \/ CallInit(w)
  \/ LoadEnabled(w) \/ StartWatcher(w) \/ ProcessPluginEvent(w)

Next ==
  \/ \E w \in Worker :
       \/ EnablePlugin(w) \/ DisablePlugin(w) \/ DeleteUser(w) \/ RescanPlugins(w)
       \/ \E granted \in BOOLEAN : UpdateSettings(w, granted)
       \/ TimerFires(w) \/ Step(w)
  \/ HandleEvent \/ LoopEnds \/ Stop
  \/ \E v \in Version \cup {None} : ChangeFile(v)

Spec == Init /\ [][Next]_vars

-----------------------------------------------------------------------------
(* Properties. *)

Calm == ~overlap /\ budget.faults = MaxFaults
Quiet == watch.on /\ ~watch.event /\ watch.timers = 0 /\ \A w \in Worker : ~Busy(w)

\* Stop is final (manager.go:179, "wait for all in-flight plugin load operations"):
\* once it has closed the plugins, no load that was under way puts one into the map.
StopIsFinal == stop = "closed" => loaded = None /\ \A w \in Worker : ~(At(w, "build") \/ At(w, "insert"))

\* Whatever runs at the same time, the services of a plugin are closed once at most,
\* and never while the manager still hands the plugin out.
ClosedOnce ==
  /\ \A o \in DOMAIN objs : objs[o].closes <= 1
  /\ loaded # None => objs[loaded].closes = 0

\* When operations came one at a time and none of their statements failed, then after
\* them the plugin is in the map if the row says it is enabled, with the permissions
\* of the row, and the services of every other object built for it are closed.
MapFollowsRow ==
  Calm /\ Quiet /\ ~Stopped =>
    /\ loaded # None <=> row.enabled
    /\ loaded # None => objs[loaded].granted = row.granted
    /\ \A o \in DOMAIN objs : o = loaded \/ objs[o].closes = 1

\* A plugin that lost its users is disabled, also when requests overlap; not when its
\* file was away while updatePluginSettings looked for the manifest.
EnabledIsGranted ==
  row.enabled /\ budget.faults = MaxFaults /\ budget.changes = MaxChanges /\ disk # None =>
    row.granted \/ \E w \in Worker : Busy(w) /\ op[w].kind \in {"settings", "deleteUser"}

\* Then, too, every change of the file the watcher was told of is in the row: through
\* the debouncing, Start, requests and changes made while one is being processed.
RowFollowsDisk ==
  Calm /\ Quiet /\ ~Stopped /\ ~watch.missed /\ disk \notin Broken =>
    /\ row.there <=> disk # None
    /\ row.there => row.sha = disk
=============================================================================
