--------------------------- MODULE LibraryWatchers ---------------------------
(***************************************************************************)
(* The watcher of each library's folder tree: the map libraryWatchers, its *)
(* instances and their goroutines (scanner/watcher.go: Run, Watch,         *)
(* StopWatching), started and stopped by the library service               *)
(* (core/library.go: Save, Update, Delete).  A call reads the row, writes  *)
(* it, updates the cache of paths (persistence/library_repository.go) and  *)
(* tells the watcher: steps that other sessions and the start of Run come  *)
(* in between.                                                             *)
(***************************************************************************)
EXTENDS Naturals, FiniteSets

CONSTANTS Library, Path,
          Default,      \* the library that can be neither moved nor deleted
          NoPath,       \* the path of a library that has no row
          Session,      \* administrators at work
          MaxInstances, \* bound on watchers started
          MaxCalls      \* bound on calls of the library service

ASSUME WatchersAssumption ==
  /\ Default \in Library /\ 0 \notin Library /\ NoPath \notin Path
  /\ MaxInstances \in Nat /\ MaxCalls \in Nat

Instance == 1..MaxInstances
Idle == [op |-> "idle"]

VARIABLES
  path,     \* Library -> its row's path, or NoPath
  used,     \* the ids the autoincrement has given out
  cache,    \* libCache: Library -> the path cached, or NoPath
  watchers, \* Library -> libraryWatchers[id], 0 without one
  inst,     \* Instance -> [lib, path] it was started for
  count,    \* instances started so far
  live,     \* instances whose goroutine runs
  dead,     \* instances whose context is cancelled
  gaveUp,   \* instances that ended by themselves (history)
  run,      \* Run: off -> started (mainCtx set) -> listing -> loop -> ended
  toWatch,  \* what is left of Run's list of libraries
  call,     \* Session -> the call of the library service it is in
  raced,    \* libraries with a call that met another, or Run's list (history)
  callBudget

instVars == <<inst, count, live, dead, gaveUp>>
rowVars == <<path, used, cache>>
watchersVars == <<rowVars, watchers, instVars, run, toWatch, call, raced, callBudget>>

WatchersInit ==
  /\ path \in [Library -> Path \cup {NoPath}]
  /\ \A k, l \in Library : k # l /\ path[k] # NoPath => path[k] # path[l]
  /\ path[Default] # NoPath
  /\ used = {l \in Library : path[l] # NoPath} /\ cache = [l \in Library |-> NoPath]
  /\ watchers = [l \in Library |-> 0]
  /\ inst = [i \in Instance |-> [lib |-> 0, path |-> NoPath]] /\ count = 0
  /\ live = {} /\ dead = {} /\ gaveUp = {}
  /\ run = "off" /\ toWatch = {}
  /\ call = [s \in Session |-> Idle] /\ raced = {} /\ callBudget = MaxCalls

-----------------------------------------------------------------------------
(* watcher.Watch and StopWatching, under the mutex. *)

LeaveRunning(l) == dead
CancelOf(l) == dead \cup ({watchers[l]} \ {0})

Watch(l, p) ==
  IF run = "off"
  THEN UNCHANGED <<watchers, instVars>>
  ELSE /\ count < MaxInstances
       /\ count' = count + 1
       /\ inst' = [inst EXCEPT ![count + 1] = [lib |-> l, path |-> p]]
       /\ live' = live \cup {count + 1}
       /\ dead' = CancelOf(l) \cup (IF run = "ended" THEN {count + 1} ELSE {})
       /\ watchers' = [watchers EXCEPT ![l] = count + 1]
       /\ UNCHANGED gaveUp

StopWatching(l) ==
  /\ dead' = CancelOf(l)
  /\ watchers' = [watchers EXCEPT ![l] = 0]
  /\ UNCHANGED <<inst, count, live, gaveUp>>

\* The goroutine of an instance returns, cancelled or because watching failed, and
\* takes itself, and only itself, out of the map.
NeverForget(i) == watchers
Forget(i) == IF watchers[inst[i].lib] = i THEN [watchers EXCEPT ![inst[i].lib] = 0] ELSE watchers
InstanceEnds(i) ==
  /\ i \in live
  /\ live' = live \ {i}
  /\ watchers' = Forget(i)
  /\ gaveUp' = IF i \in dead THEN gaveUp ELSE gaveUp \cup {i}
  /\ UNCHANGED <<rowVars, inst, count, dead, run, toWatch, call, raced, callBudget>>

-----------------------------------------------------------------------------
(* watcher.Run *)

RunStarts ==
  /\ run = "off" /\ run' = "started"
  /\ UNCHANGED <<rowVars, watchers, instVars, toWatch, call, raced, callBudget>>
RunLists ==
  /\ run = "started" /\ run' = "listing"
  /\ toWatch' = {<<l, path[l]>> : l \in {k \in Library : path[k] # NoPath}}
  /\ UNCHANGED <<rowVars, watchers, instVars, call, raced, callBudget>>
RunWatches(l, p) ==
  /\ run = "listing" /\ <<l, p>> \in toWatch
  /\ toWatch' = toWatch \ {<<l, p>>}
  /\ Watch(l, p)
  /\ UNCHANGED <<rowVars, run, call, raced, callBudget>>
RunLoops ==
  /\ run = "listing" /\ toWatch = {} /\ run' = "loop"
  /\ UNCHANGED <<rowVars, watchers, instVars, toWatch, call, raced, callBudget>>

\* The context ends: every watcher in the map is cancelled, the map emptied.
RunEnds ==
  /\ run = "loop" /\ run' = "ended"
  /\ dead' = dead \cup ({watchers[l] : l \in Library} \ {0})
  /\ watchers' = [l \in Library |-> 0]
  /\ UNCHANGED <<rowVars, inst, count, live, gaveUp, toWatch, call, raced, callBudget>>

-----------------------------------------------------------------------------
(* The library service.  Paths are unique in the database. *)

Free(p) == \A l \in Library : path[l] # p
InCall(l) == \E s \in Session : call[s] # Idle /\ call[s].lib = l
Races(l) == raced \cup (IF InCall(l) \/ run = "listing" THEN {l} ELSE {})
Begin(s, c) ==
  /\ call[s] = Idle /\ callBudget > 0
  /\ call' = [call EXCEPT ![s] = c] /\ callBudget' = callBudget - 1
  /\ raced' = Races(c.lib)

\* Save inserts the row of a new library.
Save(s, l, p) ==
  /\ l \notin used /\ Free(p)
  /\ Begin(s, [op |-> "cache", lib |-> l, path |-> p, then |-> "watch"])
  /\ path' = [path EXCEPT ![l] = p] /\ used' = used \cup {l}
  /\ UNCHANGED <<cache, watchers, instVars, run, toWatch>>

\* Update reads the row, to see later whether the path changes.
UpdateReads(s, l, p) ==
  /\ path[l] # NoPath
  /\ Begin(s, [op |-> "put", lib |-> l, path |-> p, old |-> path[l]])
  /\ UNCHANGED <<rowVars, watchers, instVars, run, toWatch>>

\* Put updates the row or, when it is gone, inserts it.
Refused(c) ==
  \/ c.lib = Default /\ path[Default] # c.path
  \/ path[c.lib] # c.path /\ ~Free(c.path)
NoRestart(c) == "done"
Restart(c) == IF c.old = c.path THEN "done" ELSE "watch"
UpdateWrites(s) ==
  LET c == call[s]
  IN /\ c.op = "put"
     /\ \/ /\ Refused(c)
           /\ call' = [call EXCEPT ![s] = Idle]
           /\ UNCHANGED <<path, raced>>
        \/ /\ ~Refused(c)
           /\ raced' = IF run = "listing" THEN raced \cup {c.lib} ELSE raced
           /\ path' = [path EXCEPT ![c.lib] = c.path]
           /\ call' = [call EXCEPT ![s] = [op |-> "cache", lib |-> c.lib, path |-> c.path,
                                           then |-> Restart(c)]]
     /\ UNCHANGED <<used, cache, watchers, instVars, run, toWatch, callBudget>>

\* Delete removes the row.
Deletable(l) == path[l] # NoPath /\ l # Default
Delete(s, l) ==
  /\ Deletable(l)
  /\ Begin(s, [op |-> "cache", lib |-> l, path |-> NoPath, then |-> "stop"])
  /\ path' = [path EXCEPT ![l] = NoPath]
  /\ UNCHANGED <<used, cache, watchers, instVars, run, toWatch>>

\* Put and Delete bring the cache up to date after the row.
Cached(c) == [cache EXCEPT ![c.lib] = c.path]
UpdateCache(s) ==
  LET c == call[s]
  IN /\ c.op = "cache"
     /\ cache' = Cached(c)
     /\ call' = [call EXCEPT ![s] = IF c.then = "done" THEN Idle
                                   ELSE [op |-> c.then, lib |-> c.lib, path |-> c.path]]
     /\ UNCHANGED <<path, used, watchers, instVars, run, toWatch, raced, callBudget>>

\* GetPath fills the cache from the rows when the library is not in it.
GetPath(l) ==
  /\ cache[l] = NoPath
  /\ cache' = [k \in Library |-> IF path[k] = NoPath THEN cache[k] ELSE path[k]]
  /\ UNCHANGED <<path, used, watchers, instVars, run, toWatch, call, raced, callBudget>>

\* Last, the watcher is told.
TellWatcher(s) ==
  LET c == call[s]
  IN /\ \/ c.op = "watch" /\ Watch(c.lib, c.path)
        \/ c.op = "stop" /\ StopWatching(c.lib)
     /\ call' = [call EXCEPT ![s] = Idle]
     /\ UNCHANGED <<rowVars, run, toWatch, raced, callBudget>>

WatchersNext ==
  \/ RunStarts \/ RunLists \/ RunLoops \/ RunEnds
  \/ \E l \in Library, p \in Path : RunWatches(l, p)
  \/ \E i \in Instance : InstanceEnds(i)
  \/ \E l \in Library : GetPath(l)
  \/ \E s \in Session :
       \/ UpdateWrites(s) \/ UpdateCache(s) \/ TellWatcher(s)
       \/ \E l \in Library : Delete(s, l) \/ \E p \in Path : Save(s, l, p) \/ UpdateReads(s, l, p)

WatchersSpec == WatchersInit /\ [][WatchersNext]_watchersVars

-----------------------------------------------------------------------------
(* Properties. *)

\* Also: the default library is there, and a library is watched by its own watcher.
WatchersTypeOK ==
  /\ path \in [Library -> Path \cup {NoPath}] /\ cache \in [Library -> Path \cup {NoPath}]
  /\ path[Default] # NoPath /\ \A l \in Library : path[l] # NoPath => l \in used
  /\ watchers \in [Library -> 0..count]
  /\ count \in 0..MaxInstances /\ live \subseteq 1..count /\ dead \subseteq 1..count
  /\ \A i \in 1..count : inst[i].lib \in Library /\ inst[i].path \in Path
  /\ \A l \in Library : watchers[l] # 0 => inst[watchers[l]].lib = l

\* A watcher that runs and was not told to stop is the one its library is listed
\* with: none is left behind that nobody could cancel any more.
NoLeakedWatcher == \A i \in live \ dead : watchers[inst[i].lib] = i

\* The map never holds a watcher that is gone.
ListedIsLive ==
  \A l \in Library : watchers[l] # 0 => watchers[l] \in live /\ (run # "ended" => watchers[l] \notin dead)

\* While Run is in its loop, a library that no call is about is watched where its
\* row says, unless its watcher gave up, and nowhere when it has no row; and at any
\* time GetPath answers with the row's path - if its calls did not overlap each
\* other or Run's way through its list.
WatchedInPlace ==
  \A l \in Library \ raced : ~InCall(l) =>
    /\ cache[l] \in {NoPath, path[l]}
    /\ run = "loop" /\ watchers[l] # 0 => inst[watchers[l]].path = path[l]
    /\ run = "loop" /\ path[l] # NoPath /\ watchers[l] = 0 =>
         \E i \in gaveUp : inst[i] = [lib |-> l, path |-> path[l]]

=============================================================================
