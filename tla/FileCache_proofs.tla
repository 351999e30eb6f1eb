-------------------------- MODULE FileCache_proofs --------------------------
(***************************************************************************)
(* Proofs about the file cache, for any keys, requests, sizes and limits:  *)
(* a reader misses part of an item only after a failure, an item that was  *)
(* not written whole does not stay in the cache, and no file has two       *)
(* writers.                                                                *)
(*                                                                         *)
(* The properties speak of the table, of the entries and of the requests;  *)
(* FInv ties the three together: what the request that has an entry may    *)
(* assume of it while others read it, invalidate it or clean it up.        *)
(***************************************************************************)
EXTENDS FileCache, FiniteSetTheorems, TLAPS

Opening  == {"source", "copy"}
Writers  == {"source", "copy", "failed", "closed"}
Failures == {"no", "source", "copy", "crash"}
Held     == {"miss", "stream", "section", "invalidate"}

Entry == [key : Key, n : 0 .. Full, writer : Writers, bad : Failures]

\* What a request is doing, by its pc.
Request ==
    [pc : {"idle"}]
    \cup [pc : {"done"}, got : -1 .. Full, bad : Failures]
    \cup [pc : {"miss", "stream", "invalidate"}, e : Ids]
    \cup [pc : {"section"}, e : Ids, size : 0 .. Full]

Typed ==
    /\ entries \in [Ids -> Entry]
    /\ table \in [Key -> {None} \cup Ids]
    /\ files \in [Key -> -1 .. Full]
    /\ req \in [Worker -> Request]

\* The request w has the entry e.
Has(w, e) == req[w].pc \in Held /\ req[w].e = e

Known(e) == e \in Listed \/ \E w \in Worker : Has(w, e)

\* The table has an entry under the key it was made for.
Placed == \A k \in Key : table[k] # None => entries[table[k]].key = k

\* A request that waits for the source has the writer; one that invalidates has
\* closed it; one that was given a section was given the whole file.
Matched ==
    \A w \in Worker :
        /\ req[w].pc = "miss" => entries[req[w].e].writer = "source"
        /\ req[w].pc = "invalidate" => entries[req[w].e].writer = "closed"
        /\ req[w].pc = "section" =>
             /\ entries[req[w].e].writer \in {"failed", "closed"}
             /\ req[w].size = entries[req[w].e].n

\* One request opens an entry and, if that fails, invalidates it.
Alone ==
    \A v, w \in Worker :
        /\ req[v].pc \in {"miss", "invalidate"} /\ req[w].pc \in {"miss", "invalidate"}
        /\ req[v].e = req[w].e
        => v = w

\* An entry is whole when its writer is closed, or something failed.
Whole ==
    \A e \in Ids : Known(e) /\ entries[e].writer \in {"failed", "closed"}
        => entries[e].n = Full \/ entries[e].bad # "no"

\* An entry being written or about to be invalidated is the one in the table.
InPlace ==
    ~raced => \A e \in Ids : entries[e].writer \in Opening \/ Doomed(e) => table[entries[e].key] = e

\* No request has an entry before the cache is ready.
Quiet == phase # "ready" => \A w \in Worker : req[w].pc \in {"idle", "done"}

\* Files are left by crashes only.
Spent ==
    /\ "crashes" \in DOMAIN budget
    /\ budget.crashes \in Int /\ budget.crashes <= MaxCrashes
    /\ budget.crashes = MaxCrashes => \A k \in Key : files[k] = -1

FInv ==
    /\ Typed /\ Placed /\ Matched /\ Alone /\ Whole /\ InPlace /\ Quiet /\ Spent
    /\ ShortOnlyAfterFailure /\ IncompleteIsDropped

----------------------------------------------------------------------------
(* What the types say of one request, and of the entry it has.             *)

\* A request is in one of the places, and has an entry in four of them.
LEMMA RequestFacts ==
    ASSUME NEW r \in Request
    PROVE  /\ r.pc \in {"idle", "done"} \cup Held
           /\ "e" \in DOMAIN r <=> r.pc \in Held
           /\ r.pc \in Held => r.e \in Ids
           /\ r.pc = "section" => r.size \in 0 .. Full
           /\ r.pc = "done" => r.got \in -1 .. Full /\ r.bad \in Failures
<1>1. CASE r \in [pc : {"idle"}]
    BY <1>1 DEF Held
<1>2. CASE r \in [pc : {"done"}, got : -1 .. Full, bad : Failures]
    BY <1>2 DEF Held
<1>3. CASE r \in [pc : {"miss", "stream", "invalidate"}, e : Ids]
    BY <1>3 DEF Held
<1>4. CASE r \in [pc : {"section"}, e : Ids, size : 0 .. Full]
    BY <1>4 DEF Held
<1> QED
    BY <1>1, <1>2, <1>3, <1>4 DEF Request

\* The requests an action makes are requests.
LEMMA RequestMade ==
    /\ Idle \in Request
    /\ \A got \in -1 .. Full, bad \in Failures : [pc |-> "done", got |-> got, bad |-> bad] \in Request
    /\ \A e \in Ids : /\ [pc |-> "miss", e |-> e] \in Request
                      /\ [pc |-> "stream", e |-> e] \in Request
                      /\ [pc |-> "invalidate", e |-> e] \in Request
    /\ \A e \in Ids, size \in 0 .. Full : [pc |-> "section", e |-> e, size |-> size] \in Request
    BY DEF Request, Idle

LEMMA EntryFacts ==
    ASSUME NEW x \in Entry
    PROVE  /\ x.key \in Key
           /\ x.n \in 0 .. Full
           /\ x.writer \in Writers
           /\ x.bad \in Failures
    BY DEF Entry

LEMMA BlankEntry == Blank \in Entry /\ Blank.writer = "closed"
    BY SizesAssumption DEF Blank, Entry, Writers, Failures

LEMMA NoneIsNoNumber == None \notin Ids
    BY SizesAssumption DEF None, Ids

\* The numbers in the table are known, and so are those a request has.
LEMMA TypedFacts ==
    ASSUME Typed
    PROVE  /\ \A w \in Worker : /\ req[w] \in Request
                                /\ req[w].pc \in {"idle", "done"} \cup Held
                                /\ "e" \in DOMAIN req[w] <=> req[w].pc \in Held
                                /\ req[w].pc \in Held => req[w].e \in Ids
           /\ \A e \in Ids : /\ entries[e] \in Entry
                             /\ entries[e].key \in Key
                             /\ entries[e].n \in 0 .. Full
                             /\ entries[e].writer \in Writers
                             /\ entries[e].bad \in Failures
           /\ \A k \in Key : table[k] # None => table[k] \in Ids
<1>1. \A w \in Worker : req[w] \in Request
    BY DEF Typed
<1>2. \A e \in Ids : entries[e] \in Entry
    BY DEF Typed
<1> QED
    BY <1>1, <1>2, RequestFacts, EntryFacts DEF Typed

\* Init establishes the invariant: nothing is written, nothing asked for.
LEMMA InitFInv ==
    ASSUME Init
    PROVE  FInv
<1>1. Typed
    BY BlankEntry, RequestMade, SizesAssumption DEF Init, Typed
<1>2. \A w \in Worker : req[w].pc = "idle"
    BY DEF Init, Idle
<1>3. \A e \in Ids : entries[e].writer = "closed"
    BY BlankEntry DEF Init
<1>4. \A e \in Ids : ~Doomed(e) /\ ~Known(e)
    BY <1>2, <1>3, NoneIsNoNumber DEF Doomed, Known, Has, Held, Listed, Init
<1>5. Placed /\ IncompleteIsDropped
    BY DEF Placed, IncompleteIsDropped, Init
<1>6. Matched /\ Alone /\ Quiet /\ ShortOnlyAfterFailure
    BY <1>2 DEF Matched, Alone, Quiet, ShortOnlyAfterFailure
<1>7. Whole /\ InPlace
    BY <1>3, <1>4 DEF Whole, InPlace, Opening
<1>8. Spent
    BY SizesAssumption DEF Spent, Init
<1> QED
    BY <1>1, <1>5, <1>6, <1>7, <1>8 DEF FInv

----------------------------------------------------------------------------
(* Steps that leave the table, the entries and the requests alone.         *)

LEMMA StillFInv ==
    ASSUME FInv, UNCHANGED <<entries, table, files, req, raced>>,
           phase' = phase \/ phase # "ready",
           budget'.crashes = budget.crashes, DOMAIN budget' = DOMAIN budget
    PROVE  FInv'
<1>1. \A e \in Ids : (Doomed(e)' <=> Doomed(e)) /\ (Known(e)' <=> Known(e))
    BY DEF Doomed, Known, Has, Listed
<1>2. Typed' /\ Placed' /\ Matched' /\ Alone' /\ ShortOnlyAfterFailure'
    BY DEF FInv, Typed, Placed, Matched, Alone, ShortOnlyAfterFailure
<1>3. Whole' /\ InPlace'
    BY <1>1 DEF FInv, Whole, InPlace
<1>4. IncompleteIsDropped'
    BY <1>1, TypedFacts DEF FInv, IncompleteIsDropped
<1>5. Quiet' /\ Spent'
    BY DEF FInv, Quiet, Spent
<1> QED
    BY <1>2, <1>3, <1>4, <1>5 DEF FInv

----------------------------------------------------------------------------
(* The request that made an entry: the source opens or fails.              *)

LEMMA SourceOpensFInv ==
    ASSUME FInv, NEW w \in Worker, SourceOpens(w)
    PROVE  FInv'
<1> DEFINE d == req[w].e
<1>0. /\ \A v \in Worker : req[v] \in Request /\ (req[v].pc \in Held => req[v].e \in Ids)
      /\ \A e \in Ids : entries[e] \in Entry
      /\ d \in Ids /\ req[w].pc = "miss"
    BY TypedFacts DEF FInv, SourceOpens, Held
<1>1. /\ entries' = [entries EXCEPT ![d].writer = "copy"]
      /\ req' = [req EXCEPT ![w] = [pc |-> "stream", e |-> d]]
      /\ UNCHANGED <<phase, table, files, raced, budget>>
    BY DEF SourceOpens, Begin
<1>2. Typed'
  <2>1. [pc |-> "stream", e |-> d] \in Request
    BY <1>0, RequestMade
  <2>2. [entries[d] EXCEPT !.writer = "copy"] \in Entry
    BY <1>0 DEF Entry, Writers
  <2> QED
    BY <1>1, <2>1, <2>2 DEF FInv, Typed
<1>3. /\ entries'[d].writer = "copy" /\ entries'[d].n = entries[d].n
      /\ entries'[d].key = entries[d].key /\ entries'[d].bad = entries[d].bad
      /\ \A e \in Ids : e # d => entries'[e] = entries[e]
      /\ req'[w].pc = "stream" /\ req'[w].e = d
      /\ \A v \in Worker : v # w => req'[v] = req[v]
      /\ entries[d].writer = "source"
    BY <1>0, <1>1 DEF FInv, Typed, Entry, Matched
<1>4. \A e \in Ids : entries'[e].key = entries[e].key /\ entries'[e].bad = entries[e].bad
    BY <1>3
<1> HIDE DEF d
<1>5. \A e \in Ids : /\ Doomed(e)' <=> Doomed(e)
                     /\ Known(e)' <=> Known(e)
    BY <1>0, <1>1, <1>3 DEF Doomed, Known, Has, Held, Listed, d
<1>6. Placed'
    BY <1>1, <1>4, TypedFacts DEF FInv, Placed
<1>7. \A v \in Worker : v # w /\ req[v].pc \in {"miss", "invalidate"} => req[v].e # d
    BY <1>0 DEF FInv, Alone, d
<1>8. Matched'
    BY <1>0, <1>3, <1>7 DEF FInv, Matched, Held
<1>9. Alone' /\ ShortOnlyAfterFailure'
    BY <1>3 DEF FInv, Alone, ShortOnlyAfterFailure
<1>10. Whole'
    BY <1>3, <1>5 DEF FInv, Whole
<1>11. InPlace'
    BY <1>1, <1>3, <1>4, <1>5 DEF FInv, InPlace, Opening
<1>12. IncompleteIsDropped'
    BY <1>1, <1>4, <1>5, TypedFacts DEF FInv, IncompleteIsDropped
<1>13. Quiet' /\ Spent'
    BY <1>0, <1>1 DEF FInv, Quiet, Spent
<1> QED
    BY <1>2, <1>6, <1>8, <1>9, <1>10, <1>11, <1>12, <1>13 DEF FInv

LEMMA SourceFailsFInv ==
    ASSUME FInv, NEW w \in Worker, SourceFails(w)
    PROVE  FInv'
<1> DEFINE d == req[w].e
<1>0. /\ \A v \in Worker : req[v] \in Request /\ (req[v].pc \in Held => req[v].e \in Ids)
      /\ \A e \in Ids : entries[e] \in Entry
      /\ d \in Ids /\ req[w].pc = "miss"
    BY TypedFacts DEF FInv, SourceFails, Held
<1>1. /\ entries' = [entries EXCEPT ![d] = [@ EXCEPT !.writer = "closed", !.bad = "source"]]
      /\ req' = [req EXCEPT ![w] = [pc |-> "invalidate", e |-> d]]
      /\ UNCHANGED <<phase, table, files, raced>>
      /\ budget' = [budget EXCEPT !.faults = @ - 1]
    BY DEF SourceFails, Begin
<1>2. Typed'
  <2>1. [pc |-> "invalidate", e |-> d] \in Request
    BY <1>0, RequestMade
  <2>2. [entries[d] EXCEPT !.writer = "closed", !.bad = "source"] \in Entry
    BY <1>0 DEF Entry, Writers, Failures
  <2> QED
    BY <1>1, <2>1, <2>2 DEF FInv, Typed
<1>3. /\ entries'[d].writer = "closed" /\ entries'[d].n = entries[d].n
      /\ entries'[d].key = entries[d].key /\ entries'[d].bad = "source"
      /\ \A e \in Ids : e # d => entries'[e] = entries[e]
      /\ req'[w].pc = "invalidate" /\ req'[w].e = d
      /\ \A v \in Worker : v # w => req'[v] = req[v]
      /\ entries[d].writer = "source"
    BY <1>0, <1>1 DEF FInv, Typed, Entry, Matched
<1>4. \A e \in Ids : entries'[e].key = entries[e].key
    BY <1>3
<1>a. budget'.crashes = budget.crashes
    BY <1>1
<1> HIDE DEF d
<1>5. \A e \in Ids : /\ Doomed(e)' <=> e = d \/ Doomed(e)
                     /\ Known(e)' <=> Known(e)
    BY <1>0, <1>1, <1>3 DEF Doomed, Known, Has, Held, Listed, d
<1>6. Placed'
    BY <1>1, <1>4, TypedFacts DEF FInv, Placed
<1>7. \A v \in Worker : v # w /\ req[v].pc \in {"miss", "invalidate"} => req[v].e # d
    BY <1>0 DEF FInv, Alone, d
<1>b. \A v \in Worker : req[v].pc = "section" => req[v].e # d
    BY <1>3 DEF FInv, Matched
<1>8. Matched'
    BY <1>0, <1>3, <1>7, <1>b DEF FInv, Matched, Held
<1>9. Alone' /\ ShortOnlyAfterFailure'
    BY <1>3, <1>7 DEF FInv, Alone, ShortOnlyAfterFailure
<1>10. Whole'
    BY <1>3, <1>5 DEF FInv, Whole
<1>11. InPlace'
    BY <1>0, <1>1, <1>3, <1>4, <1>5 DEF FInv, InPlace, Opening
<1>12. IncompleteIsDropped'
    BY <1>1, <1>a, <1>3, <1>5, TypedFacts DEF FInv, IncompleteIsDropped
<1>13. Quiet' /\ Spent'
    BY <1>0, <1>1, <1>a DEF FInv, Quiet, Spent
<1> QED
    BY <1>2, <1>6, <1>8, <1>9, <1>10, <1>11, <1>12, <1>13 DEF FInv

----------------------------------------------------------------------------
(* The goroutine that copies.                                              *)

LEMMA CopyFInv ==
    ASSUME FInv, NEW d \in Ids, Copy(d)
    PROVE  FInv'
<1>0. /\ \A v \in Worker : req[v].pc \in Held => req[v].e \in Ids
      /\ entries[d] \in Entry /\ entries[d].n \in 0 .. Full
      /\ entries[d].writer = "copy"
    BY TypedFacts DEF FInv, Copy
<1>1. UNCHANGED <<phase, table, files, req, raced, budget>>
    BY DEF Copy
<1>2. /\ entries' \in [Ids -> Entry]
      /\ entries'[d].key = entries[d].key /\ entries'[d].bad = entries[d].bad
      /\ \/ entries'[d].writer = "copy"
         \/ entries'[d].writer = "closed" /\ entries'[d].n = Full
      /\ \A e \in Ids : e # d => entries'[e] = entries[e]
  <2>1. CASE entries[d].n < Full
    <3>1. [entries[d] EXCEPT !.n = @ + 1] \in Entry
        BY <1>0, <2>1, SizesAssumption DEF Entry
    <3>2. entries' = [entries EXCEPT ![d].n = @ + 1]
        BY <2>1 DEF Copy, FInv, Typed
    <3> QED
        BY <1>0, <3>1, <3>2 DEF FInv, Typed, Entry
  <2>2. CASE ~(entries[d].n < Full)
    <3>1. [entries[d] EXCEPT !.writer = "closed"] \in Entry
        BY <1>0 DEF Entry, Writers
    <3>2. entries' = [entries EXCEPT ![d].writer = "closed"]
        BY <2>2 DEF Copy, FInv, Typed
    <3>3. entries[d].n = Full
        BY <1>0, <2>2, SizesAssumption
    <3> QED
        BY <1>0, <3>1, <3>2, <3>3 DEF FInv, Typed, Entry
  <2> QED
    BY <2>1, <2>2
<1>3. \A e \in Ids : entries'[e].key = entries[e].key /\ entries'[e].bad = entries[e].bad
    BY <1>2
<1>4. Typed'
    BY <1>1, <1>2 DEF FInv, Typed
<1>5. \A e \in Ids : /\ Doomed(e)' <=> Doomed(e)
                     /\ Known(e)' <=> Known(e)
    BY <1>0, <1>1, <1>2 DEF Doomed, Known, Has, Listed
<1>6. Placed'
    BY <1>1, <1>3, TypedFacts DEF FInv, Placed
<1>7. \A v \in Worker : req[v].pc \in {"miss", "invalidate", "section"} => req[v].e # d
    BY <1>0 DEF FInv, Matched
<1>8. Matched'
    BY <1>0, <1>1, <1>2, <1>7 DEF FInv, Matched, Held
<1>9. Alone' /\ ShortOnlyAfterFailure' /\ Quiet' /\ Spent'
    BY <1>1 DEF FInv, Alone, ShortOnlyAfterFailure, Quiet, Spent
<1>10. Whole'
    BY <1>2, <1>5 DEF FInv, Whole
<1>11. InPlace'
    BY <1>0, <1>1, <1>2, <1>3, <1>5 DEF FInv, InPlace, Opening
<1>12. IncompleteIsDropped'
    BY <1>1, <1>3, <1>5, TypedFacts DEF FInv, IncompleteIsDropped
<1> QED
    BY <1>4, <1>6, <1>8, <1>9, <1>10, <1>11, <1>12 DEF FInv

LEMMA CopyFailsFInv ==
    ASSUME FInv, NEW d \in Ids, CopyFails(d)
    PROVE  FInv'
<1>0. /\ \A v \in Worker : req[v].pc \in Held => req[v].e \in Ids
      /\ entries[d] \in Entry
      /\ entries[d].writer = "copy"
    BY TypedFacts DEF FInv, CopyFails
<1>1. /\ UNCHANGED <<phase, table, files, req, raced>>
      /\ budget'.crashes = budget.crashes /\ DOMAIN budget' = DOMAIN budget
    BY DEF CopyFails
<1>2. /\ entries' \in [Ids -> Entry]
      /\ entries'[d].key = entries[d].key /\ entries'[d].bad = "copy"
      /\ entries'[d].writer = "failed"
      /\ \A e \in Ids : e # d => entries'[e] = entries[e]
  <2>1. [entries[d] EXCEPT !.writer = "failed", !.bad = "copy"] \in Entry
    BY <1>0 DEF Entry, Writers, Failures
  <2> QED
    BY <1>0, <2>1 DEF CopyFails, FInv, Typed, Entry
<1>3. \A e \in Ids : entries'[e].key = entries[e].key
    BY <1>2
<1>4. Typed'
    BY <1>1, <1>2 DEF FInv, Typed
<1>5. \A e \in Ids : /\ Doomed(e)' <=> e = d \/ Doomed(e)
                     /\ Known(e)' <=> Known(e)
    BY <1>0, <1>1, <1>2 DEF Doomed, Known, Has, Listed
<1>6. Placed'
    BY <1>1, <1>3, TypedFacts DEF FInv, Placed
<1>7. \A v \in Worker : req[v].pc \in {"miss", "invalidate", "section"} => req[v].e # d
    BY <1>0 DEF FInv, Matched
<1>8. Matched'
    BY <1>0, <1>1, <1>2, <1>7 DEF FInv, Matched, Held
<1>9. Alone' /\ ShortOnlyAfterFailure' /\ Quiet' /\ Spent'
    BY <1>1 DEF FInv, Alone, ShortOnlyAfterFailure, Quiet, Spent
<1>10. Whole'
    BY <1>2, <1>5 DEF FInv, Whole
<1>11. InPlace'
    BY <1>0, <1>1, <1>2, <1>3, <1>5 DEF FInv, InPlace, Opening
<1>12. IncompleteIsDropped'
    BY <1>1, <1>2, <1>5, TypedFacts DEF FInv, IncompleteIsDropped
<1> QED
    BY <1>4, <1>6, <1>8, <1>9, <1>10, <1>11, <1>12 DEF FInv

----------------------------------------------------------------------------
(* fileCache.Get.                                                          *)

\* The request that calls Get has no entry.
Calling(w) == req[w].pc \in {"idle", "done"}

\* A request that ends without the cache, whole or with an error.
LEMMA AnsweredFInv ==
    ASSUME FInv, NEW w \in Worker, Calling(w), NEW got \in {-1, Full}, NEW bad \in Failures,
           Done(w, got, bad), UNCHANGED <<phase, entries, table, files, raced, budget>>
    PROVE  FInv'
<1>1. /\ req' = [req EXCEPT ![w] = [pc |-> "done", got |-> got, bad |-> bad]]
      /\ [pc |-> "done", got |-> got, bad |-> bad] \in Request
    BY RequestMade, SizesAssumption DEF Done, Begin
<1>2. /\ req'[w].pc = "done" /\ req'[w].got \notin 0 .. Full - 1
      /\ \A v \in Worker : v # w => req'[v] = req[v]
    BY <1>1, SizesAssumption DEF FInv, Typed
<1>3. Typed'
    BY <1>1 DEF FInv, Typed
<1>4. \A e \in Ids : (Doomed(e)' <=> Doomed(e)) /\ (Known(e)' <=> Known(e))
    BY <1>2 DEF Doomed, Known, Has, Listed, Calling, Held
<1>5. Placed'
    BY DEF FInv, Placed
<1>6. Matched' /\ Alone'
    BY <1>2 DEF FInv, Matched, Alone, Calling
<1>7. Whole' /\ InPlace'
    BY <1>4 DEF FInv, Whole, InPlace
<1>8. IncompleteIsDropped'
    BY <1>4, TypedFacts DEF FInv, IncompleteIsDropped
<1>9. ShortOnlyAfterFailure' /\ Quiet' /\ Spent'
    BY <1>2 DEF FInv, ShortOnlyAfterFailure, Quiet, Spent
<1> QED
    BY <1>3, <1>5, <1>6, <1>7, <1>8, <1>9 DEF FInv

LEMMA HitFInv ==
    ASSUME FInv, NEW w \in Worker, Calling(w), NEW k \in Key, Hit(w, k),
           UNCHANGED <<phase, files, raced, budget>>
    PROVE  FInv'
<1> DEFINE d == table[k]
<1>0. d \in Ids /\ d \in Listed /\ phase = "ready" /\ entries[d].n \in 0 .. Full
    BY TypedFacts DEF FInv, Hit, Listed
<1>1. PICK r \in Request :
        /\ req' = [req EXCEPT ![w] = r]
        /\ r.e = d
        /\ \/ r.pc = "section" /\ r.size = entries[d].n /\ entries[d].writer \in {"failed", "closed"}
           \/ r.pc = "stream"
  <2>1. CASE Final(d)
    <3>1. /\ req' = [req EXCEPT ![w] = [pc |-> "section", e |-> d, size |-> entries[d].n]]
          /\ [pc |-> "section", e |-> d, size |-> entries[d].n] \in Request
        BY <2>1, <1>0, RequestMade DEF Hit, Begin
    <3> QED
        BY <3>1, <2>1 DEF Final
  <2>2. CASE ~Final(d)
    <3>1. /\ req' = [req EXCEPT ![w] = [pc |-> "stream", e |-> d]]
          /\ [pc |-> "stream", e |-> d] \in Request
        BY <2>2, <1>0, RequestMade DEF Hit, Begin
    <3> QED
        BY <3>1
  <2> QED
    BY <2>1, <2>2
<1>2. /\ req'[w] = r
      /\ \A v \in Worker : v # w => req'[v] = req[v]
    BY <1>1 DEF FInv, Typed
<1>a. UNCHANGED <<entries, table>>
    BY DEF Hit
<1>3. Typed'
    BY <1>1, <1>a DEF FInv, Typed
<1> HIDE DEF d
<1>4. \A e \in Ids : (Doomed(e)' <=> Doomed(e)) /\ (Known(e)' <=> Known(e))
    BY <1>0, <1>1, <1>2, <1>a DEF Doomed, Known, Has, Listed, Calling, Held
<1>5. Placed'
    BY <1>a DEF FInv, Placed
<1>6. Matched' /\ Alone'
    BY <1>1, <1>2, <1>a DEF FInv, Matched, Alone, Calling
<1>7. Whole' /\ InPlace'
    BY <1>4, <1>a DEF FInv, Whole, InPlace
<1>8. IncompleteIsDropped'
    BY <1>4, <1>a, TypedFacts DEF FInv, IncompleteIsDropped
<1>9. ShortOnlyAfterFailure' /\ Quiet' /\ Spent'
    BY <1>0, <1>1, <1>2 DEF FInv, ShortOnlyAfterFailure, Quiet, Spent
<1> QED
    BY <1>3, <1>5, <1>6, <1>7, <1>8, <1>9 DEF FInv

\* A new entry has a number that neither the table nor a request knows.
LEMMA MissFInv ==
    ASSUME FInv, NEW w \in Worker, Calling(w), NEW k \in Key, Miss(w, k),
           UNCHANGED <<phase, files, raced, budget>>
    PROVE  FInv'
<1> DEFINE d == CHOOSE x \in Free : TRUE
<1>0. /\ d \in Ids /\ ~Referred(d)
      /\ phase = "ready" /\ table[k] = None
    BY DEF Miss, Free
<1>1. /\ entries' = [entries EXCEPT ![d] = NewEntry(k)]
      /\ table' = [table EXCEPT ![k] = d]
      /\ req' = [req EXCEPT ![w] = [pc |-> "miss", e |-> d]]
    BY DEF Miss, Begin
<1> HIDE DEF d
<1>2. /\ d \notin Listed /\ entries[d].writer = "closed"
      /\ \A v \in Worker : req[v].pc \in Held => req[v].e # d
    BY <1>0, TypedFacts DEF FInv, Referred
<1>3. Typed'
  <2>1. NewEntry(k) \in Entry
    BY SizesAssumption DEF NewEntry, Entry, Writers, Failures
  <2>2. [pc |-> "miss", e |-> d] \in Request
    BY <1>0, RequestMade
  <2> QED
    BY <1>0, <1>1, <2>1, <2>2 DEF FInv, Typed
<1>4. /\ entries'[d].key = k /\ entries'[d].writer = "source" /\ entries'[d].bad = "no"
      /\ \A e \in Ids : e # d => entries'[e] = entries[e]
      /\ table'[k] = d
      /\ \A j \in Key : j # k => table'[j] = table[j]
      /\ req'[w].pc = "miss" /\ req'[w].e = d
      /\ \A v \in Worker : v # w => req'[v] = req[v]
    BY <1>0, <1>1 DEF FInv, Typed, NewEntry
<1>5. \A e \in Ids : /\ Doomed(e)' <=> Doomed(e)
                     /\ Known(e)' <=> e = d \/ Known(e)
  <2>1. \A e \in Ids : Doomed(e)' <=> Doomed(e)
    BY <1>2, <1>4 DEF Doomed, Calling
  <2>2. \A e \in Ids : e \in Listed' <=> e = d \/ e \in Listed
    BY <1>0, <1>4, NoneIsNoNumber DEF Listed
  <2>3. \A e \in Ids : (\E v \in Worker : Has(v, e))' <=> e = d \/ \E v \in Worker : Has(v, e)
    BY <1>4 DEF Has, Held, Calling
  <2> QED
    BY <2>1, <2>2, <2>3 DEF Known
<1>6. ~Doomed(d)
    BY <1>2 DEF Doomed, Held
<1>7. \A j \in Key : table[j] # None => table[j] \in Ids /\ table[j] # d
    BY <1>2, TypedFacts DEF FInv, Listed
<1>8. Placed'
    BY <1>4, <1>7 DEF FInv, Placed
<1>9. Matched'
    BY <1>2, <1>4, TypedFacts DEF FInv, Matched, Held
<1>10. Alone'
    BY <1>2, <1>4 DEF FInv, Alone, Held
<1>11. Whole'
    BY <1>4, <1>5 DEF FInv, Whole
<1>12. InPlace'
  <2> SUFFICES ASSUME ~raced', NEW e \in Ids, entries'[e].writer \in Opening \/ Doomed(e)'
               PROVE  table'[entries'[e].key] = e
    BY DEF InPlace
  <2>1. CASE e = d
    BY <2>1, <1>4
  <2>2. CASE e # d
    <3>1. table[entries[e].key] = e /\ entries[e].key \in Key
        BY <2>2, <1>4, <1>5, TypedFacts DEF FInv, InPlace
    <3> QED
        BY <2>2, <3>1, <1>0, <1>4, NoneIsNoNumber
  <2> QED
    BY <2>1, <2>2
<1>13. IncompleteIsDropped'
    BY <1>4, <1>5, <1>7 DEF FInv, IncompleteIsDropped
<1>14. ShortOnlyAfterFailure' /\ Quiet' /\ Spent'
    BY <1>0, <1>4 DEF FInv, ShortOnlyAfterFailure, Quiet, Spent
<1> QED
    BY <1>3, <1>8, <1>9, <1>10, <1>11, <1>12, <1>13, <1>14 DEF FInv

LEMMA GetFInv ==
    ASSUME FInv, NEW w \in Worker, Calling(w), NEW k \in Key, Get(w, k),
           UNCHANGED <<phase, files, raced, budget>>
    PROVE  FInv'
<1>1. CASE Direct(w, k)
    BY <1>1, AnsweredFInv DEF Direct, Failures
<1>2. CASE Refused(w, k)
    BY <1>2, AnsweredFInv DEF Refused, Failures
<1>3. CASE Miss(w, k)
    BY <1>3, MissFInv
<1>4. CASE Hit(w, k)
    BY <1>4, HitFInv
<1> QED
    BY <1>1, <1>2, <1>3, <1>4 DEF Get

----------------------------------------------------------------------------
(* Steps after which an entry may be out of everybody's reach.             *)

\* Sweeping blanks only what nobody knows and nobody writes.
LEMMA SweptFacts ==
    ASSUME Typed, NEW es \in [Ids -> Entry], entries' = Swept(es),
           table' \in [Key -> {None} \cup Ids], files' = files, req' \in [Worker -> Request]
    PROVE  /\ Typed'
           /\ \A e \in Ids : Known(e)' \/ es[e].writer # "closed" => entries'[e] = es[e]
           /\ \A e \in Ids : entries'[e].writer = es[e].writer
<1>1. \A w \in Worker : "e" \in DOMAIN req'[w] <=> req'[w].pc \in Held
    BY RequestFacts
<1>2. \A e \in Ids : entries'[e] =
        IF e \in Listed' \/ es[e].writer # "closed" \/ \E w \in Worker : "e" \in DOMAIN req'[w] /\ req'[w].e = e
        THEN es[e] ELSE Blank
    BY DEF Swept
<1>3. entries' \in [Ids -> Entry]
    BY BlankEntry DEF Swept
<1> QED
    BY <1>1, <1>2, <1>3, BlankEntry DEF Typed, Known, Has

\* A reader leaves, at the end or before.
LEMMA LeavesFInv ==
    ASSUME FInv, NEW w \in Worker, req[w].pc \in {"stream", "section"},
           NEW r \in Request, r.pc \in {"idle", "done"},
           r.pc = "done" /\ r.got \in 0 .. Full - 1 => r.bad # "no",
           req' = [req EXCEPT ![w] = r], entries' = Swept(entries),
           UNCHANGED <<phase, table, files, raced, budget>>
    PROVE  FInv'
<1>1. /\ Typed'
      /\ \A e \in Ids : Known(e)' \/ entries[e].writer # "closed" => entries'[e] = entries[e]
      /\ \A e \in Ids : entries'[e].writer = entries[e].writer
    BY SweptFacts DEF FInv, Typed
<1>2. /\ req'[w] = r
      /\ \A v \in Worker : v # w => req'[v] = req[v]
    BY DEF FInv, Typed
<1>3. \A e \in Ids : Doomed(e)' <=> Doomed(e)
    BY <1>1, <1>2 DEF Doomed
<1>4. \A e \in Ids : Known(e)' => Known(e)
    BY <1>1, <1>2 DEF Known, Has, Held, Listed
<1>5. \A e \in Ids : Doomed(e) => entries'[e] = entries[e]
  <2>1. \A e \in Ids : Doomed(e)' => Known(e)' \/ entries[e].writer # "closed"
    BY <1>1 DEF Doomed, Known, Has, Held
  <2> QED
    BY <2>1, <1>1, <1>3
<1>6. \A k \in Key : table[k] # None => table[k] \in Ids /\ entries'[table[k]] = entries[table[k]]
    BY <1>1, TypedFacts DEF FInv, Known, Listed
<1>7. \A v \in Worker : req'[v].pc \in Held => v # w /\ req[v].e \in Ids /\ entries'[req[v].e] = entries[req[v].e]
    BY <1>1, <1>2, TypedFacts DEF FInv, Known, Has, Held
<1>8. Placed'
    BY <1>6 DEF FInv, Placed
<1>9. Matched' /\ Alone'
    BY <1>2, <1>7 DEF FInv, Matched, Alone, Held
<1>10. Whole'
    BY <1>1, <1>4 DEF FInv, Whole
<1>11. InPlace'
    BY <1>1, <1>3, <1>5 DEF FInv, InPlace, Opening
<1>12. IncompleteIsDropped'
    BY <1>3, <1>6 DEF FInv, IncompleteIsDropped
<1>13. ShortOnlyAfterFailure' /\ Quiet' /\ Spent'
    BY <1>2 DEF FInv, ShortOnlyAfterFailure, Quiet, Spent
<1> QED
    BY <1>1, <1>8, <1>9, <1>10, <1>11, <1>12, <1>13 DEF FInv

LEMMA FinishFInv ==
    ASSUME FInv, NEW w \in Worker, Finish(w)
    PROVE  FInv'
<1> DEFINE d == req[w].e
<1>1. /\ req[w].pc \in {"stream", "section"} /\ d \in Ids
      /\ entries[d].n \in 0 .. Full /\ entries[d].bad \in Failures
    BY TypedFacts DEF FInv, Finish, Held
<1>2. /\ entries[d].writer \in {"failed", "closed"}
      /\ Done(w, entries[d].n, entries[d].bad)
    BY DEF Finish, FInv, Matched, Final
<1>3. entries[d].n = Full \/ entries[d].bad # "no"
    BY <1>1, <1>2 DEF FInv, Whole, Known, Has, Held
<1> DEFINE r == [pc |-> "done", got |-> entries[d].n, bad |-> entries[d].bad]
<1>4. r \in Request /\ req' = [req EXCEPT ![w] = r]
    BY <1>1, <1>2, RequestMade, SizesAssumption DEF Done, Begin
<1>5. r.pc = "done" /\ (r.got \in 0 .. Full - 1 => r.bad # "no")
    BY <1>1, <1>3, SizesAssumption
<1>6. UNCHANGED <<phase, table, files, raced, budget>> /\ entries' = Swept(entries)
    BY DEF Finish
<1> HIDE DEF d, r
<1> QED
    BY <1>1, <1>4, <1>5, <1>6, LeavesFInv

LEMMA HangUpFInv ==
    ASSUME FInv, NEW w \in Client, HangUp(w)
    PROVE  FInv'
<1>1. Idle \in Request /\ Idle.pc = "idle"
    BY RequestMade DEF Idle
<1> QED
    BY <1>1, LeavesFInv DEF HangUp, Begin, Worker

\* Whoever failed to write the entry d invalidates its key; es are the entries
\* with the writer of d closed.
LEMMA DroppedFInv ==
    ASSUME FInv, NEW d \in Ids, Doomed(d), entries[d].writer \in {"failed", "closed"},
           NEW es \in [Ids -> Entry], entries' = Swept(es),
           es[d].writer = "closed", es[d].n = entries[d].n, es[d].key = entries[d].key,
           es[d].bad = entries[d].bad, \A e \in Ids : e # d => es[e] = entries[e],
           table' = [table EXCEPT ![entries[d].key] = None],
           req' \in [Worker -> Request],
           \A v \in Worker : \/ req'[v] = req[v]
                             \/ req[v].pc = "invalidate" /\ req'[v].pc = "done" /\ req'[v].got = -1,
           \A v \in Worker : req'[v].pc = "invalidate" => req'[v].e # d,
           \A v \in Worker : req[v].pc = "invalidate" /\ req[v].e # d => req'[v] = req[v],
           UNCHANGED <<phase, files, raced, budget>>
    PROVE  FInv'
<1> DEFINE k == entries[d].key
<1>0. /\ \A e \in Ids : entries[e].key \in Key
      /\ \A e \in Ids : es[e].key = entries[e].key /\ es[e].bad = entries[e].bad /\ es[e].n = entries[e].n
      /\ \A e \in Ids : es[e].writer \in Opening \cup {"failed"} => e # d
    BY TypedFacts DEF FInv, Opening
<1>1. /\ table'[k] = None
      /\ \A j \in Key : j # k => table'[j] = table[j]
      /\ table' \in [Key -> {None} \cup Ids]
    BY <1>0 DEF FInv, Typed
<1> HIDE DEF k
<1>2. /\ Typed'
      /\ \A e \in Ids : Known(e)' \/ es[e].writer # "closed" => entries'[e] = es[e]
      /\ \A e \in Ids : entries'[e].writer = es[e].writer
    BY <1>1, SweptFacts DEF FInv
<1>3. \A e \in Ids : Doomed(e)' <=> e # d /\ Doomed(e)
  <2>1. \A e \in Ids : entries'[e].writer = "failed" <=> e # d /\ entries[e].writer = "failed"
    BY <1>0, <1>2
  <2>2. \A e \in Ids : (\E v \in Worker : req'[v].pc = "invalidate" /\ req'[v].e = e)
                       <=> e # d /\ \E v \in Worker : req[v].pc = "invalidate" /\ req[v].e = e
    OBVIOUS
  <2> QED
    BY <2>1, <2>2 DEF Doomed
<1>4. \A e \in Ids : Known(e)' => Known(e)
    BY <1>1 DEF Known, Has, Held, Listed
<1>5. \A e \in Ids : Doomed(e)' => entries'[e] = entries[e]
  <2>1. \A e \in Ids : Doomed(e)' => Known(e)' \/ es[e].writer # "closed"
    BY <1>2 DEF Doomed, Known, Has, Held
  <2> QED
    BY <2>1, <1>2, <1>3
<1>6. \A j \in Key : table'[j] # None => /\ j # k /\ table'[j] = table[j] /\ table[j] \in Ids
                                         /\ entries'[table[j]] = es[table[j]]
    BY <1>1, <1>2, TypedFacts DEF FInv, Known, Listed
<1>7. \A v \in Worker : req'[v].pc \in Held => /\ req'[v] = req[v] /\ req[v].e \in Ids
                                               /\ entries'[req[v].e] = es[req[v].e]
  <2>1. \A v \in Worker : req'[v].pc \in Held => req'[v] = req[v] /\ req[v].e \in Ids
    BY TypedFacts DEF FInv, Held
  <2> QED
    BY <2>1, <1>2 DEF Known, Has
<1>8. Placed'
    BY <1>0, <1>6 DEF FInv, Placed
<1>9. Matched'
  <2>1. \A v \in Worker : req[v].pc = "miss" => req[v].e # d
    BY DEF FInv, Matched
  <2> QED
    BY <1>0, <1>7, <2>1 DEF FInv, Matched, Held
<1>a. Alone'
    BY <1>7 DEF FInv, Alone, Held
<1>10. Whole'
  <2> SUFFICES ASSUME NEW e \in Ids, Known(e)', entries'[e].writer \in {"failed", "closed"}
               PROVE  entries'[e].n = Full \/ entries'[e].bad # "no"
    BY DEF Whole
  <2>1. entries[e].writer \in {"failed", "closed"}
    BY <1>2
  <2> QED
    BY <2>1, <1>0, <1>2, <1>4 DEF FInv, Whole
<1>11. InPlace'
  <2> SUFFICES ASSUME ~raced', NEW e \in Ids, entries'[e].writer \in Opening \/ Doomed(e)'
               PROVE  table'[entries'[e].key] = e
    BY DEF InPlace
  <2>1. entries'[e].key = entries[e].key
    BY <1>0, <1>2, <1>5 DEF Opening
  <2>2. e # d
    BY <1>0, <1>2, <1>3
  <2>3. table[entries[e].key] = e
    BY <1>2, <1>3, <2>2 DEF FInv, InPlace
  <2>4. table[k] = d
    BY DEF FInv, InPlace, k
  <2> QED
    BY <2>1, <2>2, <2>3, <2>4, <1>0, <1>1
<1>12. IncompleteIsDropped'
  <2>1. \A j \in Key : /\ budget'.crashes = MaxCrashes /\ table'[j] # None
                         /\ entries'[table'[j]].bad # "no"
                         => Doomed(table[j]) /\ table[j] # d
    BY <1>0, <1>6 DEF FInv, IncompleteIsDropped, Placed, k
  <2> QED
    BY <2>1, <1>3, <1>6 DEF IncompleteIsDropped
<1>13. ShortOnlyAfterFailure' /\ Quiet' /\ Spent'
    BY DEF FInv, ShortOnlyAfterFailure, Quiet, Spent
<1> QED
    BY <1>2, <1>8, <1>9, <1>a, <1>10, <1>11, <1>12, <1>13 DEF FInv

LEMMA InvalidateFInv ==
    ASSUME FInv, NEW w \in Worker, Invalidate(w)
    PROVE  FInv'
<1> DEFINE d == req[w].e
           r == [pc |-> "done", got |-> -1, bad |-> "source"]
<1>1. /\ req[w].pc = "invalidate" /\ d \in Ids /\ Doomed(d)
      /\ entries[d].writer = "closed"
    BY TypedFacts DEF FInv, Invalidate, Held, Doomed, Matched
<1>2. /\ entries' = Swept(entries)
      /\ table' = [table EXCEPT ![entries[d].key] = None]
      /\ req' = [req EXCEPT ![w] = r]
      /\ UNCHANGED <<phase, files, raced, budget>>
    BY DEF Invalidate, Forget, Done, Begin
<1>3. r \in Request /\ r.pc = "done" /\ r.got = -1
  <2>1. -1 \in -1 .. Full /\ "source" \in Failures
    BY SizesAssumption DEF Failures
  <2> QED
    BY <2>1, RequestMade
<1> HIDE DEF r
<1>4. /\ req' \in [Worker -> Request] /\ req'[w] = r
      /\ \A v \in Worker : v # w => req'[v] = req[v]
    BY <1>2, <1>3 DEF FInv, Typed
<1>5. \A v \in Worker : v # w /\ req[v].pc = "invalidate" => req[v].e # d
    BY <1>1 DEF FInv, Alone
<1>6. entries \in [Ids -> Entry]
    BY DEF FInv, Typed
<1> HIDE DEF d
<1>7. \A v \in Worker : req'[v].pc = "invalidate" => req'[v].e # d
    BY <1>3, <1>4, <1>5
<1>8. \A v \in Worker : req[v].pc = "invalidate" /\ req[v].e # d => req'[v] = req[v]
    BY <1>4 DEF d
<1>9. \A v \in Worker : \/ req'[v] = req[v]
                        \/ req[v].pc = "invalidate" /\ req'[v].pc = "done" /\ req'[v].got = -1
    BY <1>1, <1>3, <1>4
<1> QED
    BY <1>1, <1>2, <1>4, <1>6, <1>7, <1>8, <1>9, DroppedFInv

LEMMA DropFInv ==
    ASSUME FInv, NEW d \in Ids, Drop(d)
    PROVE  FInv'
<1> DEFINE es == [entries EXCEPT ![d].writer = "closed"]
<1>1. entries[d].writer = "failed" /\ Doomed(d) /\ entries[d] \in Entry
    BY TypedFacts DEF FInv, Drop, Doomed
<1>2. /\ es \in [Ids -> Entry]
      /\ es[d].writer = "closed" /\ es[d].n = entries[d].n
      /\ es[d].key = entries[d].key /\ es[d].bad = entries[d].bad
      /\ \A e \in Ids : e # d => es[e] = entries[e]
  <2>1. [entries[d] EXCEPT !.writer = "closed"] \in Entry
    BY <1>1 DEF Entry, Writers
  <2> QED
    BY <1>1, <2>1 DEF FInv, Typed, Entry
<1>3. /\ entries' = Swept(es)
      /\ table' = [table EXCEPT ![entries[d].key] = None]
      /\ UNCHANGED <<phase, files, req, raced, budget>>
    BY DEF Drop, Forget
<1> HIDE DEF es
<1>4. req' \in [Worker -> Request]
    BY <1>3 DEF FInv, Typed
<1>5. \A v \in Worker : req'[v].pc = "invalidate" => req'[v].e # d
    BY <1>1, <1>3 DEF FInv, Matched
<1> QED
    BY <1>1, <1>2, <1>3, <1>4, <1>5, DroppedFInv

\* The cleanup takes out entries that nobody writes and no request has; when
\* it meets one that is about to be invalidated it leaves a mark.
LEMMA ScrubFInv ==
    ASSUME FInv, Scrub
    PROVE  FInv'
<1>1. \A e \in Reaped : ~InUse(e)
    BY DEF Reaped, Empty, Overflow, Unused
<1>2. /\ table' = [k \in Key |-> IF table[k] \in Reaped THEN None ELSE table[k]]
      /\ raced' = (raced \/ \E e \in Reaped : Doomed(e))
      /\ entries' = Swept(entries)
      /\ UNCHANGED <<phase, files, req, budget>>
    BY DEF Scrub
<1>3. /\ table' \in [Key -> {None} \cup Ids]
      /\ \A k \in Key : table'[k] # None => table'[k] = table[k] /\ table[k] \in Ids
    BY <1>2 DEF FInv, Typed
<1>4. /\ Typed'
      /\ \A e \in Ids : Known(e)' \/ entries[e].writer # "closed" => entries'[e] = entries[e]
      /\ \A e \in Ids : entries'[e].writer = entries[e].writer
    BY <1>2, <1>3, SweptFacts DEF FInv, Typed
<1>5. \A e \in Ids : (Doomed(e)' <=> Doomed(e)) /\ (Known(e)' => Known(e))
    BY <1>2, <1>3, <1>4 DEF Doomed, Known, Has, Listed
<1>6. \A e \in Ids : Doomed(e)' => entries'[e] = entries[e]
  <2>1. \A e \in Ids : Doomed(e)' => Known(e)' \/ entries[e].writer # "closed"
    BY <1>4 DEF Doomed, Known, Has, Held
  <2> QED
    BY <2>1, <1>4
<1>7. \A k \in Key : table'[k] # None => entries'[table'[k]] = entries[table'[k]]
    BY <1>3, <1>4 DEF Known, Listed
<1>8. \A v \in Worker : req'[v].pc \in Held => req[v].e \in Ids /\ entries'[req[v].e] = entries[req[v].e]
    BY <1>2, <1>4, TypedFacts DEF FInv, Known, Has
<1>9. Placed'
    BY <1>3, <1>7 DEF FInv, Placed
<1>10. Matched' /\ Alone'
    BY <1>2, <1>8 DEF FInv, Matched, Alone, Held
<1>11. Whole'
    BY <1>4, <1>5 DEF FInv, Whole
<1>12. InPlace'
  <2> SUFFICES ASSUME ~raced', NEW e \in Ids, entries'[e].writer \in Opening \/ Doomed(e)'
               PROVE  table'[entries'[e].key] = e
    BY DEF InPlace
  <2>1. e \notin Reaped
    BY <1>1, <1>2, <1>4, <1>5 DEF InUse, Opening
  <2>2. entries'[e] = entries[e] /\ entries[e].key \in Key
    BY <1>4, <1>6, TypedFacts DEF Opening, FInv
  <2>3. table[entries[e].key] = e
    BY <1>2, <1>4, <1>5 DEF FInv, InPlace
  <2> QED
    BY <1>2, <2>1, <2>2, <2>3
<1>13. IncompleteIsDropped'
    BY <1>2, <1>3, <1>5, <1>7 DEF FInv, IncompleteIsDropped
<1>14. ShortOnlyAfterFailure' /\ Quiet' /\ Spent'
    BY <1>2 DEF FInv, ShortOnlyAfterFailure, Quiet, Spent
<1> QED
    BY <1>4, <1>9, <1>10, <1>11, <1>12, <1>13, <1>14 DEF FInv

----------------------------------------------------------------------------
(* The process starts, and dies.                                           *)

\* Every file found is entered under its key, marked when it is not whole.
LEMMA ReloadFacts ==
    ASSUME FInv, NEW n \in 0 .. Cardinality(Key), NEW ks \in [1 .. n -> Key], Reload(ks)
    PROVE  /\ entries' \in [Ids -> Entry]
           /\ table' \in [Key -> {None} \cup Ids]
           /\ \A e \in Ids : entries'[e].writer = "closed"
           /\ \A k \in Key : table'[k] # None =>
                /\ k \in Loaded /\ entries'[table'[k]].key = k
                /\ entries'[table'[k]].n = Full \/ entries'[table'[k]].bad # "no"
<1>1. Len(ks) = n /\ DOMAIN ks = 1 .. n /\ n \in Nat /\ 1 .. n \subseteq Ids
  <2>1. Cardinality(Key) \in Nat
    BY SizesAssumption, FS_CardinalityType
  <2> QED
    BY <2>1, SizesAssumption DEF Ids
<1>2. \A i \in 1 .. n : ks[i] \in Loaded /\ files[ks[i]] \in 0 .. Full
    BY <1>1, SizesAssumption DEF Reload, Loaded, FInv, Typed
<1> DEFINE Found(i) == [key |-> ks[i], n |-> files[ks[i]], writer |-> "closed",
                        bad |-> IF files[ks[i]] < Full THEN "crash" ELSE "no"]
<1>3. \A i \in 1 .. n : /\ Found(i) \in Entry
                        /\ Found(i).key = ks[i] /\ Found(i).writer = "closed"
                        /\ Found(i).n = Full \/ Found(i).bad # "no"
  <2> SUFFICES ASSUME NEW i \in 1 .. n
               PROVE  /\ Found(i) \in Entry
                      /\ Found(i).key = ks[i] /\ Found(i).writer = "closed"
                      /\ Found(i).n = Full \/ Found(i).bad # "no"
    OBVIOUS
  <2>1. ks[i] \in Key /\ files[ks[i]] \in 0 .. Full /\ Full \in Nat
    BY <1>2, SizesAssumption
  <2>2. CASE files[ks[i]] < Full
    BY <2>1, <2>2 DEF Entry, Writers, Failures
  <2>3. CASE ~(files[ks[i]] < Full)
    BY <2>1, <2>3 DEF Entry, Writers, Failures
  <2> QED
    BY <2>2, <2>3
<1>4. \A e \in Ids : entries'[e] = IF e > n THEN Blank ELSE Found(e)
    BY <1>1 DEF Reload
<1>5. DOMAIN entries' = Ids /\ entries' = [e \in Ids |-> entries'[e]]
    BY DEF Reload
<1> HIDE DEF Found
<1>6. \A e \in Ids : e > n \/ e \in 1 .. n
    BY <1>1 DEF Ids
<1>7. \A e \in Ids : entries'[e] \in Entry /\ entries'[e].writer = "closed"
    BY <1>1, <1>3, <1>4, <1>6, BlankEntry
<1>8. table' = [k \in Key |-> IF k \in Loaded THEN CHOOSE i \in DOMAIN ks : ks[i] = k ELSE None]
    BY DEF Reload
<1>9. \A k \in Loaded : table'[k] \in 1 .. n /\ ks[table'[k]] = k
  <2> SUFFICES ASSUME NEW k \in Loaded
               PROVE  table'[k] \in 1 .. n /\ ks[table'[k]] = k
    OBVIOUS
  <2>1. \E i \in 1 .. n : ks[i] = k
    BY <1>1 DEF Reload
  <2>2. table'[k] = CHOOSE i \in 1 .. n : ks[i] = k
    BY <1>1, <1>8 DEF Loaded
  <2> QED
    BY <2>1, <2>2
<1>10. \A k \in Key : k \notin Loaded => table'[k] = None
    BY <1>8
<1>11. table' \in [Key -> {None} \cup Ids]
    BY <1>1, <1>8, <1>9, <1>10
<1>12. \A k \in Loaded : entries'[table'[k]] = Found(table'[k])
    BY <1>1, <1>4, <1>9
<1> QED
    BY <1>3, <1>5, <1>7, <1>9, <1>10, <1>11, <1>12

LEMMA InitCacheFInv ==
    ASSUME FInv, InitCache
    PROVE  FInv'
<1>1. /\ entries' \in [Ids -> Entry]
      /\ table' \in [Key -> {None} \cup Ids]
      /\ \A e \in Ids : entries'[e].writer = "closed"
      /\ \A k \in Key : table'[k] # None =>
           /\ k \in Loaded /\ entries'[table'[k]].key = k
           /\ entries'[table'[k]].n = Full \/ entries'[table'[k]].bad # "no"
  <2>1. PICK n \in 0 .. Cardinality(Key) : \E ks \in [1 .. n -> Key] : Reload(ks)
    BY DEF InitCache
  <2> QED
    BY <2>1, ReloadFacts
<1>2. /\ phase' = "ready" /\ files' = [k \in Key |-> -1]
      /\ UNCHANGED <<req, raced, budget>>
    BY DEF InitCache
<1>3. \A w \in Worker : req'[w] = req[w] /\ req[w].pc \in {"idle", "done"}
    BY <1>2 DEF InitCache, FInv, Quiet
<1>4. Typed'
    BY <1>1, <1>2, SizesAssumption DEF FInv, Typed
<1>5. \A e \in Ids : ~Doomed(e)' /\ (Known(e)' => e \in Listed')
    BY <1>1, <1>3 DEF Doomed, Known, Has, Held
<1>6. Placed' /\ Matched' /\ Alone'
    BY <1>1, <1>3 DEF Placed, Matched, Alone
<1>7. Whole'
    BY <1>1, <1>5, NoneIsNoNumber DEF Whole, Listed
<1>8. InPlace'
    BY <1>1, <1>5 DEF InPlace, Opening
<1>9. IncompleteIsDropped'
  <2>1. budget.crashes = MaxCrashes => Loaded = {}
    BY DEF FInv, Spent, Loaded
  <2> QED
    BY <1>1, <1>2, <2>1 DEF IncompleteIsDropped
<1>10. ShortOnlyAfterFailure' /\ Quiet' /\ Spent'
    BY <1>2 DEF FInv, ShortOnlyAfterFailure, Quiet, Spent
<1> QED
    BY <1>4, <1>6, <1>7, <1>8, <1>9, <1>10 DEF FInv

LEMMA CrashFInv ==
    ASSUME FInv, Crash
    PROVE  FInv'
<1>1. Typed'
    BY BlankEntry, RequestMade DEF Crash, Typed
<1>2. \A w \in Worker : req'[w].pc = "idle"
    BY DEF Crash, Idle
<1>3. \A e \in Ids : entries'[e].writer = "closed"
    BY BlankEntry DEF Crash
<1>4. \A k \in Key : table'[k] = None
    BY DEF Crash
<1>5. \A e \in Ids : ~Doomed(e)' /\ ~Known(e)'
    BY <1>2, <1>3, <1>4, NoneIsNoNumber DEF Doomed, Known, Has, Held, Listed
<1>6. Placed' /\ IncompleteIsDropped'
    BY <1>4 DEF Placed, IncompleteIsDropped
<1>7. Matched' /\ Alone' /\ Quiet' /\ ShortOnlyAfterFailure'
    BY <1>2 DEF Matched, Alone, Quiet, ShortOnlyAfterFailure
<1>8. Whole' /\ InPlace'
    BY <1>3, <1>5 DEF Whole, InPlace, Opening
<1>9. Spent'
  <2>1. /\ budget'.crashes = budget.crashes - 1
        /\ "crashes" \in DOMAIN budget'
    BY DEF Crash, FInv, Spent
  <2> QED
    BY <2>1, SizesAssumption DEF FInv, Spent
<1> QED
    BY <1>1, <1>6, <1>7, <1>8, <1>9 DEF FInv

----------------------------------------------------------------------------

LEMMA NextFInv ==
    ASSUME FInv, [Next]_vars
    PROVE  FInv'
<1>1. CASE InitCache
    BY <1>1, InitCacheFInv
<1>2. CASE InitFails \/ RunBatch \/ RunEnds
    BY <1>2, StillFInv DEF InitFails, RunBatch, RunEnds
<1>3. CASE \E w \in Client, k \in Key : GetByClient(w, k)
    BY <1>3, GetFInv DEF GetByClient, Calling, Worker
<1>4. CASE \E w \in Warmer, k \in Key : DoCacheImage(w, k)
    BY <1>4, GetFInv DEF DoCacheImage, Calling, Worker
<1>5. CASE \E w \in Worker : SourceOpens(w) \/ SourceFails(w) \/ Invalidate(w) \/ Finish(w)
    BY <1>5, SourceOpensFInv, SourceFailsFInv, InvalidateFInv, FinishFInv
<1>6. CASE \E w \in Client : HangUp(w)
    BY <1>6, HangUpFInv
<1>7. CASE \E e \in Ids : Copy(e) \/ CopyFails(e) \/ Drop(e)
    BY <1>7, CopyFInv, CopyFailsFInv, DropFInv
<1>8. CASE Scrub
    BY <1>8, ScrubFInv
<1>9. CASE \E k \in Key : PreCache(k)
    BY <1>9, StillFInv DEF PreCache
<1>10. CASE Crash
    BY <1>10, CrashFInv
<1>11. CASE UNCHANGED vars
    BY <1>11, StillFInv DEF vars
<1> QED
    BY <1>1, <1>2, <1>3, <1>4, <1>5, <1>6, <1>7, <1>8, <1>9, <1>10, <1>11 DEF Next

\* FInv holds of every behaviour.
LEMMA FInvCorrect == Spec => []FInv
<1>1. Init => FInv
    BY InitFInv
<1>2. FInv /\ [Next]_vars => FInv'
    BY NextFInv
<1> QED
    BY <1>1, <1>2, PTL DEF Spec

\* Who reads an item to its end through fileCache.Get has all of it, unless the
\* source, the copy or the process failed while that entry was written; for any
\* number of requests, sizes, limits, faults and crashes.
THEOREM ShortOnlyAfterFailureCorrect == Spec => []ShortOnlyAfterFailure
<1>1. FInv => ShortOnlyAfterFailure
    BY DEF FInv
<1> QED
    BY <1>1, FInvCorrect, PTL

\* As long as the process has not died, an entry of the table that was not
\* written whole has somebody who is about to invalidate its key.
THEOREM IncompleteIsDroppedCorrect == Spec => []IncompleteIsDropped
<1>1. FInv => IncompleteIsDropped
    BY DEF FInv
<1> QED
    BY <1>1, FInvCorrect, PTL

\* No two entries of one key, which are one file, are being written, unless the
\* cleanup reaped an entry between its failure and its invalidation.
THEOREM OneWriterPerFileCorrect == Spec => []OneWriterPerFile
<1>1. FInv => OneWriterPerFile
    BY DEF FInv, InPlace, Opening, OneWriterPerFile
<1> QED
    BY <1>1, FInvCorrect, PTL
=============================================================================
