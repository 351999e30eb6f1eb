------------------------------ MODULE Playlists ------------------------------
(***************************************************************************)
(* The tracks of a playlist (core/playlists/playlists.go, persistence/     *)
(* playlist_repository.go, playlist_track_repository.go) under requests    *)
(* that overlap.  The table playlist_tracks holds one row per position     *)
(* (unique index on playlist and position); the playlist's own row caches  *)
(* how many there are.  Removing, reordering and replacing run in a        *)
(* transaction, one step here; adding tracks and refreshing a smart        *)
(* playlist do not, so each of their statements is a step, and another     *)
(* request's transaction may commit between any two of them.               *)
(*                                                                         *)
(* One regular playlist and one smart playlist whose criteria name the     *)
(* regular one (ChildPlaylistIds) are modelled.                            *)
(***************************************************************************)
EXTENDS Integers, FiniteSets, SequencesExt

CONSTANTS
    Track,       \* ids of media files
    Worker,      \* HTTP requests in flight
    MaxPos,      \* positions a client names are 0 .. MaxPos
    MaxAdd,      \* tracks added by one request
    Chunk,       \* rows of one INSERT (200 in the code)
    MaxOps, MaxFaults, MaxLosses   \* bounds of a behaviour

ASSUME BoundsAssumption ==
    /\ IsFiniteSet(Track) /\ Track # {}
    /\ MaxPos \in Nat /\ MaxAdd \in Nat \ {0} /\ Chunk \in Nat \ {0}
    /\ MaxOps \in Nat /\ MaxFaults \in Nat /\ MaxLosses \in Nat

VARIABLES
    rows,    \* playlist_tracks of the regular playlist: position -> track
    pls,     \* its row: [exists, count]; deleted: it was deleted once
    media,   \* the ids in media_file
    smart,   \* [filled, evaluated]: the smart playlist's rows and row
    req,     \* what each request has left to do
    ragged,  \* history: a lawful cause of a gap happened since the last renumbering
    stale,   \* history: rows changed between the last count and its UPDATE
    budget

vars == <<rows, pls, media, smart, req, ragged, stale, budget>>

----------------------------------------------------------------------------
(* Rows by position.                                                       *)

Pos == 1 .. MaxPos

Adds == UNION {[1 .. n -> Track] : n \in 1 .. MaxAdd}

NoRows == <<>>

Keep(r, S) == [p \in S |-> r[p]]

Rank(S, p) == Cardinality({q \in S : q <= p})

\* The playlist as a client reads it: ORDER BY playlist_tracks.id.
ListOf(r) ==
    [i \in 1 .. Cardinality(DOMAIN r) |-> r[CHOOSE p \in DOMAIN r : Rank(DOMAIN r, p) = i]]

Dense(r) == DOMAIN r = 1 .. Cardinality(DOMAIN r)

\* An UPDATE of positions, f the new position of each row.
Rekey(r, f) == [p \in Range(f) |-> r[CHOOSE q \in DOMAIN r : f[q] = p]]

\* SQLite checks the unique index row by row: the statement goes through
\* whatever the order of the rows when no row takes the place of another one.
Accepted(r, f) ==
    /\ IsInjective(f)
    /\ \A p \in DOMAIN r : f[p] # p => f[p] \notin DOMAIN r

\* renumber, first statement.
Negated(r) == [p \in DOMAIN r |-> IF p > 0 THEN -p ELSE p]

\* As if it were ORDER BY id.
RowNumberAscending(r) == [p \in DOMAIN r |-> Rank(DOMAIN r, p)]

\* renumber, second statement: ROW_NUMBER() OVER (ORDER BY id DESC).
RowNumber(r) == [p \in DOMAIN r |-> Cardinality({q \in DOMAIN r : q >= p})]

Renumbered(r) == LET n == Rekey(r, Negated(r)) IN Rekey(n, RowNumber(n))

RenumberAccepted(r) ==
    /\ Accepted(r, Negated(r))
    /\ LET n == Rekey(r, Negated(r)) IN Accepted(n, RowNumber(n))

\* Reorder: the track steps aside, the range shifts to negative positions,
\* those are flipped back, and the track takes its new place.
Sentinel == -999999

Aside(r, pos) == [p \in DOMAIN r |-> IF p = pos THEN Sentinel ELSE p]

Shifted(r, pos, new) ==
    [p \in DOMAIN r |->
        IF pos < new /\ p > pos /\ p <= new THEN -(p - 1)
        ELSE IF pos > new /\ p >= new /\ p < pos THEN -(p + 1) ELSE p]

Flipped(r) == [p \in DOMAIN r |-> IF p < 0 /\ p # Sentinel THEN -p ELSE p]

Placed(r, new) == [p \in DOMAIN r |-> IF p = Sentinel THEN new ELSE p]

Reordered(r, pos, new) ==
    LET a == Rekey(r, Aside(r, pos))
        s == Rekey(a, Shifted(a, pos, new))
        f == Rekey(s, Flipped(s))
    IN IF pos = new THEN r ELSE Rekey(f, Placed(f, new))

ReorderAccepted(r, pos, new) ==
    LET a == Rekey(r, Aside(r, pos))
        s == Rekey(a, Shifted(a, pos, new))
        f == Rekey(s, Flipped(s))
    IN pos # new => /\ Accepted(r, Aside(r, pos)) /\ Accepted(a, Shifted(a, pos, new))
                    /\ Accepted(s, Flipped(s)) /\ Accepted(f, Placed(f, new))

\* select max(id), and the position after it (1 when there is no row).
NextPos(r) == IF DOMAIN r = {} THEN 1 ELSE Max(DOMAIN r) + 1

Added(r, start, ts) ==
    [p \in DOMAIN r \cup (start .. start + Len(ts) - 1) |->
        IF p \in DOMAIN r THEN r[p] ELSE ts[p - start + 1]]

\* refreshCounters counts the rows whose media_file exists.
CountOf(r, m) == Cardinality({p \in DOMAIN r : r[p] \in m})

Orphans(r) == {p \in DOMAIN r : r[p] \notin media}

----------------------------------------------------------------------------
(* Requests.                                                               *)

Idle == [pc |-> "idle"]

Requests ==
    [pc : {"refresh"}] \cup [pc : {"add"}, ids : Adds] \cup [pc : {"metadata"}, n : {pls.count}]

Init ==
    /\ rows \in [1 .. 2 -> Track]
    /\ pls = [exists |-> TRUE, deleted |-> FALSE, count |-> 2]
    /\ media = Track
    /\ smart = [filled |-> FALSE, evaluated |-> "never"]
    /\ req = [w \in Worker |-> Idle]
    /\ ragged = FALSE
    /\ stale = FALSE
    /\ budget = [ops |-> MaxOps, faults |-> MaxFaults, losses |-> MaxLosses]

\* Every request starts with a look at the playlist (checkTracksEditable,
\* checkWritable), the refresh of a smart one with a look at evaluated_at.  For
\* a request that is one transaction, which looks again, it is the same step.
Ask == budget.ops > 0 /\ budget' = [budget EXCEPT !.ops = @ - 1]

Begin(w) ==
    /\ Ask
    /\ req[w] = Idle
    /\ \E q \in Requests :
        /\ IF q.pc = "refresh" THEN smart.evaluated # "fresh" ELSE pls.exists
        /\ req' = [req EXCEPT ![w] = q]
    /\ UNCHANGED <<rows, pls, media, smart, ragged, stale>>

\* The other requests, told that positions were given out anew and that rows
\* changed under what they have read.
Told(rq, moved) ==
    [w \in Worker |->
        CASE rq[w].pc = "insert" -> [rq[w] EXCEPT !.moved = @ \/ moved]
          [] rq[w].pc = "save"   -> [rq[w] EXCEPT !.late = TRUE]
          [] OTHER               -> rq[w]]

\* What a transaction that leaves r commits, its counters refreshed.
Commit(r) ==
    /\ rows' = r
    /\ pls' = [pls EXCEPT !.exists = TRUE, !.count = CountOf(r, media)]
    /\ stale' = FALSE
    /\ UNCHANGED <<media, smart>>

\* playlistTrackRepository.Delete: the rows are renumbered in any case.
RemoveTracks(gone) ==
    /\ Ask
    /\ pls.exists
    /\ LET left == Keep(rows, DOMAIN rows \ gone)
       IN RenumberAccepted(left) /\ Commit(Renumbered(left))
    /\ req' = Told(req, TRUE)
    /\ ragged' = FALSE

\* Reorder does not touch the counters; a position outside the list leaves a gap.
ReorderTrack(pos, new) ==
    /\ Ask
    /\ pls.exists
    /\ ReorderAccepted(rows, pos, new)
    /\ rows' = Reordered(rows, pos, new)
    /\ ragged' = (ragged \/ {pos, new} \ DOMAIN rows # {})
    /\ req' = Told(req, FALSE)
    /\ UNCHANGED <<pls, media, smart, stale>>

\* Create with the id of an existing playlist: Put, then updateTracks.
Create(ids) ==
    /\ Ask
    /\ pls.exists
    /\ Commit(Added(NoRows, 1, ids))
    /\ req' = Told(req, TRUE)
    /\ ragged' = FALSE

\* Update: removes, then adds, in one transaction.
Update(gone, ids) ==
    /\ Ask
    /\ pls.exists
    /\ LET left == Keep(rows, DOMAIN rows \ gone)
           kept == IF gone = {} THEN rows ELSE Renumbered(left)
       IN /\ gone # {} => RenumberAccepted(left)
          /\ Commit(Added(kept, NextPos(kept), ids))
    /\ req' = Told(req, gone # {})
    /\ ragged' = (ragged /\ gone = {})

\* SetImage and RemoveImage save the row as they read it, its count included,
\* and refresh the counters then: Put inserts the row again when it has been
\* deleted since.
UpdateMetadata(w) ==
    /\ req[w].pc = "metadata"
    /\ pls' = [pls EXCEPT !.exists = TRUE, !.count = req[w].n]
    /\ req' = [req EXCEPT ![w] = [pc |-> "count"]]
    /\ UNCHANGED <<rows, media, smart, ragged, stale, budget>>

\* playlist_tracks go with the playlist (ON DELETE CASCADE).
Delete ==
    /\ Ask
    /\ pls.exists
    /\ rows' = NoRows
    /\ pls' = [pls EXCEPT !.exists = FALSE, !.deleted = TRUE]
    /\ req' = Told(req, TRUE)
    /\ ragged' = FALSE
    /\ UNCHANGED <<media, smart, stale>>

----------------------------------------------------------------------------
(* AddTracks, outside a transaction.                                       *)

\* Tracks() returns nil for a playlist that is gone; the request fails.
NotFound(w) ==
    /\ req[w].pc = "add"
    /\ ~pls.exists
    /\ req' = [req EXCEPT ![w] = Idle]
    /\ UNCHANGED <<rows, pls, media, smart, ragged, stale, budget>>

\* Add reads the last position.
Add(w) ==
    /\ req[w].pc = "add"
    /\ pls.exists
    /\ req' = [req EXCEPT ![w] = [pc |-> "insert", ids |-> req[w].ids,
                                  at |-> NextPos(rows), moved |-> FALSE]]
    /\ UNCHANGED <<rows, pls, media, smart, ragged, stale, budget>>

ChunkOf(ids) == SubSeq(ids, 1, IF Len(ids) < Chunk THEN Len(ids) ELSE Chunk)

Places(w) == req[w].at .. req[w].at + Len(ChunkOf(req[w].ids)) - 1

\* addTracks inserts a chunk; the last one is followed by refreshCounters.
AddChunk(w) ==
    /\ req[w].pc = "insert"
    /\ pls.exists
    /\ Places(w) \cap DOMAIN rows = {}
    /\ LET c    == ChunkOf(req[w].ids)
           rest == SubSeq(req[w].ids, Len(c) + 1, Len(req[w].ids))
           next == IF rest = <<>> THEN [pc |-> "count"]
                   ELSE [req[w] EXCEPT !.ids = rest, !.at = @ + Len(c)]
       IN /\ rows' = Added(rows, req[w].at, c)
          /\ req' = Told([req EXCEPT ![w] = next], FALSE)
    /\ ragged' = (ragged \/ req[w].moved)
    /\ UNCHANGED <<pls, media, smart, stale, budget>>

\* The unique index or the foreign key rejects the chunk: addTracks returns,
\* what it inserted stays, and the counters are left alone.
AddRejected(w) ==
    /\ req[w].pc = "insert"
    /\ ~pls.exists \/ Places(w) \cap DOMAIN rows # {}
    /\ req' = [req EXCEPT ![w] = Idle]
    /\ UNCHANGED <<rows, pls, media, smart, ragged, stale, budget>>

\* As if the counters were saved as they were read with the playlist.
CountAhead(w) ==
    /\ req[w].pc = "count"
    /\ req' = [req EXCEPT ![w] = [pc |-> "save", n |-> pls.count, late |-> FALSE]]
    /\ UNCHANGED <<rows, pls, media, smart, ragged, stale, budget>>

\* refreshCounters, its SELECT.
CountTracks(w) ==
    /\ req[w].pc = "count"
    /\ req' = [req EXCEPT ![w] = [pc |-> "save", n |-> CountOf(rows, media), late |-> FALSE]]
    /\ UNCHANGED <<rows, pls, media, smart, ragged, stale, budget>>

\* refreshCounters, its UPDATE: no row to update when the playlist is gone.
SaveCounters(w) ==
    /\ req[w].pc = "save"
    /\ IF pls.exists
       THEN pls' = [pls EXCEPT !.count = req[w].n] /\ stale' = req[w].late
       ELSE UNCHANGED <<pls, stale>>
    /\ req' = [req EXCEPT ![w] = Idle]
    /\ UNCHANGED <<rows, media, smart, ragged, budget>>

----------------------------------------------------------------------------
(* refreshSmartPlaylist, outside a transaction.                            *)

Goto(w, pc) == req' = [req EXCEPT ![w] = [pc |-> pc]]

RemoveOldTracks(w) ==
    /\ req[w].pc = "refresh"
    /\ smart' = [smart EXCEPT !.filled = FALSE]
    /\ Goto(w, "child")
    /\ UNCHANGED <<rows, pls, media, ragged, stale, budget>>

\* A child playlist that cannot be read ends the refresh, the tracks removed.
LoadChild(w) ==
    /\ req[w].pc = "child"
    /\ Goto(w, IF pls.exists THEN "fill" ELSE "idle")
    /\ UNCHANGED <<rows, pls, media, smart, ragged, stale, budget>>

\* As if a rejected INSERT were cleaned up after.
InsertOrClear(w) ==
    /\ req[w].pc = "fill"
    /\ smart' = [smart EXCEPT !.filled = ~smart.filled]
    /\ Goto(w, IF smart.filled THEN "idle" ELSE "evaluated")
    /\ UNCHANGED <<rows, pls, media, ragged, stale, budget>>

\* The INSERT numbers the rows from 1: rows of another refresh reject it.
InsertMatches(w) ==
    /\ req[w].pc = "fill"
    /\ smart' = [smart EXCEPT !.filled = TRUE]
    /\ Goto(w, IF smart.filled THEN "idle" ELSE "evaluated")
    /\ UNCHANGED <<rows, pls, media, ragged, stale, budget>>

\* refreshCounters for the smart playlist, and evaluated_at.
SetEvaluatedAt(w) ==
    /\ req[w].pc = "evaluated"
    /\ smart' = [smart EXCEPT !.evaluated = "fresh"]
    /\ Goto(w, "idle")
    /\ UNCHANGED <<rows, pls, media, ragged, stale, budget>>

\* SmartPlaylistRefreshDelay passes.
DelayPasses ==
    /\ smart.evaluated = "fresh"
    /\ smart' = [smart EXCEPT !.evaluated = "old"]
    /\ UNCHANGED <<rows, pls, media, req, ragged, stale, budget>>

----------------------------------------------------------------------------

\* A statement fails: a transaction rolls back, the other requests stop where
\* they are.
Fails(w) ==
    /\ req[w] # Idle
    /\ budget.faults > 0
    /\ req' = [req EXCEPT ![w] = Idle]
    /\ budget' = [budget EXCEPT !.faults = @ - 1]
    /\ UNCHANGED <<rows, pls, media, smart, ragged, stale>>

\* A scan, or the removal of missing files, deletes a media file.
LoseFile(t) ==
    /\ t \in media
    /\ budget.losses > 0
    /\ media' = media \ {t}
    /\ budget' = [budget EXCEPT !.losses = @ - 1]
    /\ UNCHANGED <<rows, pls, smart, req, ragged, stale>>

\* As if the rest were not renumbered.
RemoveOrphansOnly ==
    /\ Orphans(rows) # {}
    /\ rows' = Keep(rows, DOMAIN rows \ Orphans(rows))
    /\ pls' = [pls EXCEPT !.count = CountOf(rows, media)]
    /\ req' = Told(req, TRUE)
    /\ ragged' = FALSE
    /\ stale' = FALSE
    /\ UNCHANGED <<media, smart, budget>>

\* removeOrphans, in the transaction of the garbage collection.
RemoveOrphans ==
    /\ Orphans(rows) # {}
    /\ LET left == Keep(rows, DOMAIN rows \ Orphans(rows))
       IN /\ RenumberAccepted(left)
          /\ rows' = Renumbered(left)
          /\ pls' = [pls EXCEPT !.count = CountOf(left, media)]
    /\ req' = Told(req, TRUE)
    /\ ragged' = FALSE
    /\ stale' = FALSE
    /\ UNCHANGED <<media, smart, budget>>

Next ==
    \/ \E w \in Worker :
        \/ Begin(w) \/ UpdateMetadata(w)
        \/ NotFound(w) \/ Add(w) \/ AddChunk(w) \/ AddRejected(w)
        \/ CountTracks(w) \/ SaveCounters(w)
        \/ RemoveOldTracks(w) \/ LoadChild(w) \/ InsertMatches(w)
        \/ SetEvaluatedAt(w) \/ Fails(w)
    \/ \E gone \in SUBSET Pos \ {{}} : RemoveTracks(gone)
    \/ \E pos \in Pos, new \in 0 .. MaxPos : ReorderTrack(pos, new)
    \/ \E ids \in Adds : Create(ids)
    \/ \E gone \in {{}} \cup {{p} : p \in Pos}, ids \in {<<>>} \cup Adds : Update(gone, ids)
    \/ Delete
    \/ DelayPasses
    \/ \E t \in Track : LoseFile(t)
    \/ RemoveOrphans

Spec == Init /\ [][Next]_vars

----------------------------------------------------------------------------
(* Properties.                                                             *)

AtRest == \A w \in Worker : req[w] = Idle

\* Positions run from 1 without a gap, also while requests are under way and
\* after they failed half-way or were rejected by the unique index, until an
\* AddTracks inserts at a place it read before another request renumbered the
\* list or a client names a position outside the list.
NoGaps == ~ragged => Dense(rows)

Quiet == \A w \in Worker : req[w].pc \notin {"insert", "count", "save"}

\* The song count shown with a playlist is the number of its tracks when no
\* request is adding tracks and no statement failed, however adding, removing
\* and replacing overlapped, except when rows changed between the two
\* statements of the refreshCounters that wrote last, or where positions have
\* gaps (in a gap an AddTracks can succeed with one chunk and fail with the next).
\* A playlist that was deleted has no tracks.
CountsTracks ==
    /\ ~pls.exists => rows = NoRows
    /\ pls.exists /\ Quiet /\ ~stale /\ ~ragged /\ Orphans(rows) = {}
       /\ budget.faults = MaxFaults
       => pls.count = Cardinality(DOMAIN rows)

Refreshing == {"child", "fill", "evaluated"}

\* Two clients may refresh a smart playlist at the same time, delete each
\* other's rows and be rejected: once no refresh is under way, a playlist that
\* was ever evaluated has its tracks (no statement failed, and the playlist it
\* depends on was not deleted).
SmartAtRest ==
    (\A w \in Worker : req[w].pc \notin Refreshing) /\ budget.faults = MaxFaults /\ ~pls.deleted
        => (smart.evaluated # "never" => smart.filled)

\* The list with its track at i moved to j.
Moved(s, i, j) == InsertAt(RemoveAt(s, i), j, s[i])

\* "The two-step approach (negate then reassign via CTE) avoids UNIQUE
\* constraint violations": whatever gaps overlapping requests have left, no
\* renumbering and no reordering a client may ask for is rejected.  Removing
\* keeps the others in order and closes every gap there was; moving a
\* track of a list without gaps to a place in it is the move on sequences, and
\* elsewhere still loses and invents no track.
TracksInPlace == AtRest =>
    /\ \A gone \in SUBSET Pos :
        LET left == Keep(rows, DOMAIN rows \ gone)
        IN /\ RenumberAccepted(left)
           /\ Dense(Renumbered(left)) /\ ListOf(Renumbered(left)) = ListOf(left)
    /\ \A pos \in Pos, new \in 0 .. MaxPos :
        LET after == Reordered(rows, pos, new)
        IN /\ ReorderAccepted(rows, pos, new)
           /\ IF Dense(rows) /\ {pos, new} \subseteq DOMAIN rows
              THEN Dense(after) /\ ListOf(after) = Moved(ListOf(rows), pos, new)
              ELSE \A t \in Track : Cardinality({p \in DOMAIN after : after[p] = t})
                                      = Cardinality({p \in DOMAIN rows : rows[p] = t})

==============================================================================
