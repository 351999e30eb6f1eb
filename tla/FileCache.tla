------------------------------ MODULE FileCache ------------------------------
(***************************************************************************)
(* The file caches for images and transcoded streams (utils/cache/         *)
(* file_caches.go, file_haunter.go, spread_fs.go) and the goroutine that   *)
(* fills the image cache ahead of the clients (core/artwork/               *)
(* cache_warmer.go).  Requests for one key share an entry: the first one   *)
(* gets its writer, asks the source for the data and leaves a goroutine    *)
(* copying it; the others read along.  An entry is a file: it outlives a   *)
(* crash in the state it was in, and is loaded at the next start.          *)
(*                                                                         *)
(* The table of entries is the library fscache: Get gives a reader of the  *)
(* entry under a key, and a writer when there was none; Remove takes the   *)
(* entry out of the table, its readers read on.                            *)
(***************************************************************************)
EXTENDS Integers, Sequences, FiniteSets, FiniteSetsExt

CONSTANTS
    Key,         \* what is cached
    Client,      \* HTTP requests in flight
    Warmer,      \* goroutines of processBatch (4 in the code)
    Full,        \* the chunks of an item
    MaxItems, MaxSize,   \* limits of the cleanup, 0 for none
    MaxEntries,          \* entries open or in the table at a time
    MaxWarm, MaxFaults, MaxCrashes   \* bounds of a behaviour

\* Every key has a number to spare, so that a start can load all that is on disk.
ASSUME SizesAssumption ==
    /\ Key # {} /\ IsFiniteSet(Key) /\ Cardinality(Key) <= MaxEntries
    /\ Full \in Nat \ {0} /\ MaxItems \in Nat /\ MaxSize \in Nat
    /\ MaxEntries \in Nat /\ MaxWarm \in Nat /\ MaxFaults \in Nat /\ MaxCrashes \in Nat

VARIABLES
    phase,    \* starting, ready or disabled
    entries,  \* entries by number: [key, n, writer, bad]
    table,    \* key -> the number of its entry, 0 for none
    lru,      \* entries by their last access, the oldest first
    files,    \* key -> chunks in the file a crash left, -1 for none or when loaded
    req,      \* what each request is doing
    buffer,   \* cacheWarmer.buffer
    batch,    \* [todo, on]: the batch under way
    raced,    \* history: an entry was reaped before its failed request invalidated it
    budget

vars == <<phase, entries, table, lru, files, req, buffer, batch, raced, budget>>

Worker == Client \cup Warmer
Ids    == 1 .. MaxEntries
None   == 0
Idle   == [pc |-> "idle"]

\* writer: source (the reader is asked for), copy, failed (closed, about to be
\* removed) or closed.  bad is history: what failed (source, copy, crash) before
\* the item was whole.
NewEntry(k) == [key |-> k, n |-> 0, writer |-> "source", bad |-> "no"]

Holds(w, e) == req[w].pc \in {"miss", "stream", "section"} /\ req[w].e = e

InUse(e) == entries[e].writer \in {"source", "copy"} \/ \E w \in Worker : Holds(w, e)

\* The request, or the goroutine that copied, has yet to invalidate the key.
Doomed(e) == entries[e].writer = "failed" \/ \E w \in Worker : req[w].pc = "invalidate" /\ req[w].e = e

Listed == {table[k] : k \in Key} \ {None}

\* An entry nobody refers to any more is blank, its number free for the next one.
Blank == [key |-> CHOOSE k \in Key : TRUE, n |-> 0, writer |-> "closed", bad |-> "no"]

Referred(e) == e \in Listed \/ entries[e].writer # "closed"
                 \/ \E w \in Worker : "e" \in DOMAIN req[w] /\ req[w].e = e

Free == {e \in Ids : ~Referred(e)}

Swept(es) == [e \in Ids |->
    IF e \in Listed' \/ es[e].writer # "closed"
        \/ \E w \in Worker : "e" \in DOMAIN req'[w] /\ req'[w].e = e
    THEN es[e] ELSE Blank]

Touch(e) == Append(SelectSeq(lru, LAMBDA x : x # e), e)

Forget(k) ==
    /\ table' = [table EXCEPT ![k] = None]
    /\ lru' = SelectSeq(lru, LAMBDA x : x # table[k])

Init ==
    /\ phase = "starting"
    /\ entries = [e \in Ids |-> Blank]
    /\ table = [k \in Key |-> None]
    /\ lru = <<>>
    /\ files = [k \in Key |-> -1]
    /\ req = [w \in Worker |-> Idle]
    /\ buffer = {}
    /\ batch = [todo |-> {}, on |-> TRUE]
    /\ raced = FALSE
    /\ budget = [warm |-> MaxWarm, faults |-> MaxFaults, crashes |-> MaxCrashes]

----------------------------------------------------------------------------
(* Starting, in a goroutine of NewFileCache.                               *)

Loaded == {k \in Key : files[k] >= 0}

\* Reload enters every file it finds as a complete entry.
Reload(ks) ==
    /\ Len(ks) = Cardinality(Loaded) /\ {ks[i] : i \in DOMAIN ks} = Loaded
    /\ entries' = [i \in Ids |-> IF i > Len(ks) THEN Blank ELSE
            [key |-> ks[i], n |-> files[ks[i]], writer |-> "closed",
             bad |-> IF files[ks[i]] < Full THEN "crash" ELSE "no"]]
    /\ table' = [k \in Key |-> IF k \in Loaded THEN CHOOSE i \in DOMAIN ks : ks[i] = k ELSE None]
    /\ lru' = [i \in DOMAIN ks |-> i]

InitCache ==
    /\ phase = "starting"
    /\ phase' = "ready"
    /\ \E ks \in UNION {[1 .. n -> Key] : n \in 0 .. Cardinality(Key)} : Reload(ks)
    /\ files' = [k \in Key |-> -1]
    /\ UNCHANGED <<req, buffer, batch, raced, budget>>

\* A size of zero, or an error of the file system.
InitFails ==
    /\ phase = "starting"
    /\ phase' = "disabled"
    /\ UNCHANGED <<entries, table, lru, files, req, buffer, batch, raced, budget>>

----------------------------------------------------------------------------
(* fileCache.Get.                                                          *)

Begin(w, r) == req' = [req EXCEPT ![w] = r]

\* The request returns got chunks, or an error (-1); bad tells of its entry.
Done(w, got, bad) == Begin(w, [pc |-> "done", got |-> got, bad |-> bad])

\* The cache is not available: the data, or its error, comes from the source.
Direct(w, k) ==
    /\ phase # "ready"
    /\ Done(w, Full, "no") \/ Done(w, -1, "source")
    /\ UNCHANGED <<entries, table, lru>>

\* The file of the entry can be neither created nor opened.
Refused(w, k) ==
    /\ phase = "ready"
    /\ Done(w, -1, "no")
    /\ UNCHANGED <<entries, table, lru>>

Miss(w, k) ==
    /\ phase = "ready"
    /\ table[k] = None
    /\ Free # {}
    /\ LET e == CHOOSE x \in Free : TRUE
       IN /\ entries' = [entries EXCEPT ![e] = NewEntry(k)]
          /\ table' = [table EXCEPT ![k] = e]
          /\ lru' = Touch(e)
          /\ Begin(w, [pc |-> "miss", e |-> e])

\* As if the size so far were taken for the final one.
FinalAnyhow(e) == entries[e].writer # "source"

\* getFinalCachedSize: the size of the file when its writer is closed.
Final(e) == entries[e].writer \in {"failed", "closed"}

Hit(w, k) ==
    /\ phase = "ready"
    /\ table[k] # None
    /\ LET e == table[k]
       IN /\ lru' = Touch(e)
          /\ Begin(w, IF Final(e) THEN [pc |-> "section", e |-> e, size |-> entries[e].n]
                      ELSE [pc |-> "stream", e |-> e])
    /\ UNCHANGED <<entries, table>>

Get(w, k) == Direct(w, k) \/ Refused(w, k) \/ Miss(w, k) \/ Hit(w, k)

GetByClient(w, k) ==
    /\ req[w].pc \in {"idle", "done"}
    /\ Get(w, k)
    /\ UNCHANGED <<phase, files, buffer, batch, raced, budget>>

\* getReader succeeded: a goroutine copies, the request reads along.
SourceOpens(w) ==
    /\ req[w].pc = "miss"
    /\ entries' = [entries EXCEPT ![req[w].e].writer = "copy"]
    /\ Begin(w, [pc |-> "stream", e |-> req[w].e])
    /\ UNCHANGED <<phase, table, lru, files, buffer, batch, raced, budget>>

\* getReader failed: both ends are closed before the key is invalidated.
SourceFails(w) ==
    /\ req[w].pc = "miss"
    /\ budget.faults > 0
    /\ entries' = [entries EXCEPT ![req[w].e] = [@ EXCEPT !.writer = "closed", !.bad = "source"]]
    /\ Begin(w, [pc |-> "invalidate", e |-> req[w].e])
    /\ budget' = [budget EXCEPT !.faults = @ - 1]
    /\ UNCHANGED <<phase, table, lru, files, buffer, batch, raced>>

\* invalidate removes whatever entry the key has by now.
Invalidate(w) ==
    /\ req[w].pc = "invalidate"
    /\ Forget(entries[req[w].e].key)
    /\ Done(w, -1, "source")
    /\ entries' = Swept(entries)
    /\ UNCHANGED <<phase, files, buffer, batch, raced, budget>>

\* As if the writer were never closed.
CopyOnly(e) ==
    /\ entries[e].writer = "copy"
    /\ entries[e].n < Full
    /\ entries' = [entries EXCEPT ![e].n = @ + 1]
    /\ UNCHANGED <<phase, table, lru, files, req, buffer, batch, raced, budget>>

\* copyAndClose.
Copy(e) ==
    /\ entries[e].writer = "copy"
    /\ entries' = IF entries[e].n < Full THEN [entries EXCEPT ![e].n = @ + 1]
                  ELSE [entries EXCEPT ![e].writer = "closed"]
    /\ UNCHANGED <<phase, table, lru, files, req, buffer, batch, raced, budget>>

\* The source breaks off or the disk is full; the writer is closed all the same.
CopyFails(e) ==
    /\ entries[e].writer = "copy"
    /\ entries[e].n < Full
    /\ budget.faults > 0
    /\ entries' = [entries EXCEPT ![e] = [@ EXCEPT !.writer = "failed", !.bad = "copy"]]
    /\ budget' = [budget EXCEPT !.faults = @ - 1]
    /\ UNCHANGED <<phase, table, lru, files, req, buffer, batch, raced>>

\* As if the goroutine only logged the error.
DropNothing(e) ==
    /\ entries[e].writer = "failed"
    /\ UNCHANGED <<table, lru, req>>
    /\ entries' = Swept([entries EXCEPT ![e].writer = "closed"])
    /\ UNCHANGED <<phase, files, buffer, batch, raced, budget>>

\* and the goroutine invalidates the key.
Drop(e) ==
    /\ entries[e].writer = "failed"
    /\ Forget(entries[e].key)
    /\ UNCHANGED req
    /\ entries' = Swept([entries EXCEPT ![e].writer = "closed"])
    /\ UNCHANGED <<phase, files, buffer, batch, raced, budget>>

\* The reader meets the end of the data: of the section it was given, or of the
\* file once its writer is closed.
Finish(w) ==
    /\ \/ req[w].pc = "section" /\ Done(w, req[w].size, entries[req[w].e].bad)
       \/ req[w].pc = "stream" /\ Final(req[w].e) /\ Done(w, entries[req[w].e].n, entries[req[w].e].bad)
    /\ UNCHANGED table
    /\ entries' = Swept(entries)
    /\ UNCHANGED <<phase, lru, files, buffer, batch, raced, budget>>

\* A client goes away.
HangUp(w) ==
    /\ req[w].pc \in {"section", "stream"}
    /\ Begin(w, Idle)
    /\ UNCHANGED table
    /\ entries' = Swept(entries)
    /\ UNCHANGED <<phase, lru, files, buffer, batch, raced, budget>>

----------------------------------------------------------------------------
(* fileHaunter.Scrub, under the lock of the table.                         *)

Unused == {e \in Listed : ~InUse(e)}

Empty == {e \in Unused : entries[e].n = 0}

\* d was accessed before e.
Before(d, e) == \E i, j \in DOMAIN lru : i < j /\ lru[i] = d /\ lru[j] = e

SizeOf(es) == MapThenSumSet(LAMBDA e : entries[e].n, es)

WithinLimits(es) ==
    /\ MaxItems > 0 => Cardinality(es) <= MaxItems
    /\ MaxSize > 0 => SizeOf(es) <= MaxSize

\* The files accessed first go until the rest is within the limits: the ones
\* that with all those accessed later are beyond them.
Overflow == {e \in Unused : ~WithinLimits({e} \cup {d \in Unused : Before(e, d)})}

Reaped == Empty \cup Overflow

\* As if entries in use were reaped as well.
ScrubAll ==
    /\ phase = "ready"
    /\ lru # <<>>
    /\ table' = [k \in Key |-> None]
    /\ lru' = <<>>
    /\ raced' = (raced \/ \E e \in Listed : Doomed(e))
    /\ UNCHANGED req
    /\ entries' = Swept(entries)
    /\ UNCHANGED <<phase, files, buffer, batch, budget>>

Scrub ==
    /\ phase = "ready"
    /\ Reaped # {}
    /\ table' = [k \in Key |-> IF table[k] \in Reaped THEN None ELSE table[k]]
    /\ lru' = SelectSeq(lru, LAMBDA e : e \notin Reaped)
    /\ raced' = (raced \/ \E e \in Reaped : Doomed(e))
    /\ UNCHANGED req
    /\ entries' = Swept(entries)
    /\ UNCHANGED <<phase, files, buffer, batch, budget>>

----------------------------------------------------------------------------
(* cacheWarmer.                                                            *)

PreCache(k) ==
    /\ phase # "disabled"
    /\ budget.warm > 0
    /\ buffer' = buffer \cup {k}
    /\ budget' = [budget EXCEPT !.warm = @ - 1]
    /\ UNCHANGED <<phase, entries, table, lru, files, req, batch, raced>>

BatchOver == batch.todo = {} /\ \A w \in Warmer : req[w].pc \in {"idle", "done"}

\* run takes the buffer; waitSignal returns on a signal and after ten seconds.
RunBatch ==
    /\ batch.on /\ BatchOver
    /\ phase = "ready" /\ buffer # {}
    /\ batch' = [batch EXCEPT !.todo = buffer]
    /\ buffer' = {}
    /\ UNCHANGED <<phase, entries, table, lru, files, req, raced, budget>>

\* As if the loop ended also when the cache is not available yet.
RunGivesUp ==
    /\ batch.on /\ BatchOver
    /\ phase # "ready"
    /\ batch' = [batch EXCEPT !.on = FALSE]
    /\ UNCHANGED <<phase, entries, table, lru, files, req, buffer, raced, budget>>

\* run ends when the cache turns out to be disabled.
RunEnds ==
    /\ batch.on /\ BatchOver
    /\ phase = "disabled"
    /\ batch' = [batch EXCEPT !.on = FALSE]
    /\ buffer' = {}
    /\ UNCHANGED <<phase, entries, table, lru, files, req, raced, budget>>

\* doCacheImage, and the next one when it has read the image or failed.
DoCacheImage(w, k) ==
    /\ k \in batch.todo
    /\ req[w].pc \in {"idle", "done"}
    /\ Get(w, k)
    /\ batch' = [batch EXCEPT !.todo = @ \ {k}]
    /\ UNCHANGED <<phase, files, buffer, raced, budget>>

----------------------------------------------------------------------------

\* What is on disk when the process dies: the file of the key's entry, or of
\* one already removed from the table that is still open.
LeftBy(k) ==
    {e \in Ids : entries[e].key = k /\ (table[k] = e \/ (table[k] = None /\ InUse(e)))}

Crash ==
    /\ phase = "ready"
    /\ budget.crashes > 0
    /\ files' \in [Key -> -1 .. Full]
    /\ \A k \in Key : IF LeftBy(k) = {} THEN files'[k] = -1
                      ELSE \E e \in LeftBy(k) : files'[k] = entries[e].n
    /\ phase' = "starting"
    /\ entries' = [e \in Ids |-> Blank]
    /\ table' = [k \in Key |-> None]
    /\ lru' = <<>>
    /\ req' = [w \in Worker |-> Idle]
    /\ buffer' = {}
    /\ batch' = [todo |-> {}, on |-> TRUE]
    /\ raced' = FALSE
    /\ budget' = [budget EXCEPT !.crashes = @ - 1]

Next ==
    \/ InitCache \/ InitFails
    \/ \E w \in Client, k \in Key : GetByClient(w, k)
    \/ \E w \in Warmer, k \in Key : DoCacheImage(w, k)
    \/ \E w \in Worker : SourceOpens(w) \/ SourceFails(w) \/ Invalidate(w) \/ Finish(w)
    \/ \E w \in Client : HangUp(w)
    \/ \E e \in Ids : Copy(e) \/ CopyFails(e) \/ Drop(e)
    \/ Scrub
    \/ \E k \in Key : PreCache(k)
    \/ RunBatch \/ RunEnds
    \/ Crash

Spec == Init /\ [][Next]_vars

\* The cache is initialised, the source answers, copies end, clients read on or
\* leave, and the goroutines of the warmer are scheduled.
LiveSpec ==
    /\ Spec
    /\ WF_vars(InitCache \/ InitFails)
    /\ \A w \in Worker : WF_vars(SourceOpens(w) \/ SourceFails(w) \/ Invalidate(w) \/ Finish(w))
    /\ \A e \in Ids : WF_vars(Copy(e) \/ CopyFails(e) \/ Drop(e))
    /\ WF_vars(RunBatch \/ RunEnds)
    /\ \A w \in Warmer : WF_vars(\E k \in Key : DoCacheImage(w, k))

----------------------------------------------------------------------------
(* Properties.                                                             *)

\* A reader that reaches the end of a cached item has all of it, whoever wrote
\* it and however far it was written when the reader came, unless the source,
\* the copy or the process failed while that very entry was written.
ShortOnlyAfterFailure ==
    \A w \in Worker : req[w].pc = "done" /\ req[w].got \in 0 .. Full - 1 => req[w].bad # "no"

\* An incomplete item does not stay in the cache: as long as the process has
\* not died, whoever failed to write it has yet to invalidate the key.
IncompleteIsDropped ==
    budget.crashes = MaxCrashes =>
        \A k \in Key : table[k] # None /\ entries[table[k]].bad # "no" => Doomed(table[k])

\* Entries of one key are one file: never are two of them being written,
\* whatever fails and is invalidated, unless the cleanup reaped an entry
\* between its failure and its invalidation, which then takes the next one out.
OneWriterPerFile ==
    ~raced => \A d, e \in Ids :
        /\ d # e /\ entries[d].key = entries[e].key
        => ~({entries[d].writer, entries[e].writer} \subseteq {"source", "copy"})

\* Who reads along with a writer is not left hanging, also when the source
\* fails before it gave any data.
ReadersEnd == \A w \in Worker : req[w].pc = "stream" ~> req[w].pc # "stream"

\* What the scan asks to have cached is tried, also when it asked before the
\* cache was ready or while a batch was under way.
WarmedInTheEnd == \A k \in Key : k \in buffer ~> k \notin buffer \cup batch.todo
==============================================================================
