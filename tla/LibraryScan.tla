---------------------------- MODULE LibraryScan ----------------------------
(***************************************************************************)
(* One library scan of the Navidrome server (scanner/scanner.go and the    *)
(* phases it runs), the rows it writes and what survives when the scan is  *)
(* cut short and another one takes over.                                   *)
(*                                                                         *)
(* A file is known by its path; what a file holds is a Content.  HashOf is *)
(* what a stat of the file shows (size and modification time), ModTime is  *)
(* the modification time alone, and TitleOf the album its tags name.  Two  *)
(* contents with one HashOf are an edit that preserved size and time.      *)
(*                                                                         *)
(* Timestamps are kept as the only comparisons the code makes with them:   *)
(*   fresh    folders with updated_at >= library.last_scan_started_at      *)
(*   touched  albums  with imported_at > library.last_scan_at              *)
(* The library holds no playlists, and no two files share a PID, so        *)
(* phase 4 is idle and phase 2 reduces to its purge.                       *)
(***************************************************************************)
EXTENDS Naturals, FiniteSets

CONSTANTS Library, Folder, File, Title, Content,
          LibOf,         \* Folder -> Library
          FolderOf,      \* File -> Folder
          HashOf,        \* Content -> what stat shows of it
          ModTime,       \* Content -> modification time
          TitleOf,       \* File -> (Content -> Title): the album its tags name
          StartDisk,     \* File -> Content: the library as the server first meets it
          Absent,        \* no such file, no such row
          NoRow,         \* a folder without a row
          Mixed,         \* hash of a folder that changed between walk and save
          PurgeMissing,  \* conf.Server.Scanner.PurgeMissing
          Targets,       \* the sets of folders selective scans are asked for
          MaxEdits,      \* bound on changes to the disk
          MaxCuts,       \* bound on scans that do not reach their end
          MaxFaults      \* bound on failing file system and database calls

ASSUME ShapeAssumption ==
  /\ LibOf \in [Folder -> Library]
  /\ FolderOf \in [File -> Folder]
  /\ ModTime \in [Content -> Nat]
  /\ TitleOf \in [File -> [Content -> Title]]
  /\ StartDisk \in [File -> Content \cup {Absent}]
  /\ Absent \notin Content

\* stat shows a file that is there as such, and its modification time.
ASSUME StatAssumption ==
  /\ \A c \in Content : HashOf[c] # Absent
  /\ \A c, d \in Content : HashOf[c] = HashOf[d] => ModTime[c] = ModTime[d]

ASSUME ConfigAssumption ==
  /\ PurgeMissing \in {"never", "always", "full"}
  /\ Targets \subseteq SUBSET Folder
  /\ MaxEdits \in Nat /\ MaxCuts \in Nat /\ MaxFaults \in Nat

VARIABLES
  \* the disk
  disk,        \* File -> Content, or Absent
  dir,         \* the folders that exist
  newest,      \* File -> latest modification time the file ever had
  \* the database
  folderRow,   \* Folder -> its row [hash, audio, missing], or NoRow
  fresh,       \* folders saved since their library's ScanBegin
  track,       \* File -> Content of its media_file row, or Absent
  missing,     \* files whose row is marked missing
  agg,         \* Album -> the tracks its row was aggregated from, {} without row
  touched,     \* albums with imported_at > last_scan_at
  inScan,      \* libraries with last_scan_started_at set
  fullFlag,    \* libraries with full_scan_in_progress
  libStats,    \* Library -> what RefreshStats last counted
  \* the scan in progress
  pc,          \* the step of scanFolders that comes next
  scan,        \* its scanState
  todo,        \* folders not walked yet
  lastUpdates, \* folders of the jobs not found on disk so far
  entry,       \* Folder -> folderEntry in the pipeline
  albumTodo,   \* touched albums phase 3 has not looked at
  \* history and bounds
  unsettled,   \* folders changed or misread since their library's ScanBegin
  misread,     \* files left out although their folder's hash was saved
  cut,         \* libraries whose changes no completed scan accounted for
  budget       \* [edits, cuts, faults] left

diskVars == <<disk, dir, newest>>
folderVars == <<folderRow, fresh>>
trackVars == <<track, missing>>
albumVars == <<agg, touched>>
libVars == <<inScan, fullFlag>>
scanVars == <<pc, scan, todo, lastUpdates, entry, albumTodo>>
ghostVars == <<unsettled, misread, cut>>
vars == <<diskVars, folderVars, trackVars, albumVars, libVars, libStats,
          scanVars, ghostVars, budget>>

-----------------------------------------------------------------------------
(* What the rows say. *)

Album == Library \X Title
FilesIn(f) == {x \in File : FolderOf[x] = f}
LibOfFile(x) == LibOf[FolderOf[x]]
FoldersOf(L) == {f \in Folder : LibOf[f] \in L}
AlbumsOf(L) == {a \in Album : a[1] \in L}

\* The album a file belongs to when it holds c (metadata AlbumID).
AlbumFor(x, c) == <<LibOfFile(x), TitleOf[x][c]>>

\* The media_file rows of an album, as MediaFiles.ToAlbum sees them.
TracksOf(a) == {x \in File : track[x] # Absent /\ AlbumFor(x, track[x]) = a}
ToAlbum(a) == {<<x, track[x], x \in missing>> : x \in TracksOf(a)}

\* What folderEntry.hash covers: which audio files there are and how stat
\* shows them.
Stat(f) == [x \in FilesIn(f) |->
              IF disk[x] = Absent THEN Absent ELSE HashOf[disk[x]]]

\* The hashes of a folder, and the rows it may have.
FolderHash(f) == [FilesIn(f) -> {HashOf[c] : c \in Content} \cup {Absent}]
FolderRow(f) == [hash : FolderHash(f) \cup {Mixed}, audio : BOOLEAN, missing : BOOLEAN]
ASSUME RowAssumption == \A f \in Folder : Mixed \notin FolderHash(f) /\ NoRow \notin FolderRow(f)

\* What libraryRepository.RefreshStats counts.
LibCount(l) ==
  [songs  |-> {<<x, x \in missing>> : x \in {y \in File : track[y] # Absent /\ LibOfFile(y) = l}},
   albums |-> {<<a, agg[a]>> : a \in {b \in AlbumsOf({l}) : agg[b] # {}}}]

NoEntry == [st |-> "none"]
Phases == {"idle", "prepare", "folders", "missing", "albums", "gc",
           "stats", "update"}
NoScan == [full |-> FALSE, changes |-> FALSE, selective |-> FALSE,
           targets |-> {}, libs |-> {}, jobs |-> {}, toPrepare |-> {},
           err |-> FALSE]

Init ==
  /\ disk = StartDisk
  /\ dir = {FolderOf[x] : x \in {y \in File : disk[y] # Absent}}
  /\ newest = [x \in File |-> IF disk[x] = Absent THEN 0 ELSE ModTime[disk[x]]]
  /\ folderRow = [f \in Folder |-> NoRow] /\ fresh = {}
  /\ track = [x \in File |-> Absent] /\ missing = {}
  /\ agg = [a \in Album |-> {}] /\ touched = {}
  /\ inScan = {} /\ fullFlag = {}
  /\ libStats = [l \in Library |-> [songs |-> {}, albums |-> {}]]
  /\ pc = "idle" /\ scan = NoScan /\ todo = {} /\ lastUpdates = {}
  /\ entry = [f \in Folder |-> NoEntry] /\ albumTodo = {}
  /\ unsettled = {} /\ misread = {} /\ cut = {}
  /\ budget = [edits |-> MaxEdits, cuts |-> MaxCuts, faults |-> MaxFaults]

Spend(b) == budget[b] > 0 /\ budget' = [budget EXCEPT ![b] = @ - 1]

-----------------------------------------------------------------------------
(* The disk changes at any time, under the scanner's feet. *)

\* A file is written: new modification time, or an edit that keeps its stat.
WriteFile(x, c) ==
  /\ disk[x] # c
  /\ \/ ModTime[c] > newest[x]
     \/ disk[x] # Absent /\ HashOf[disk[x]] = HashOf[c]
  /\ Spend("edits")
  /\ disk' = [disk EXCEPT ![x] = c]
  /\ dir' = dir \cup {FolderOf[x]}
  /\ newest' = [newest EXCEPT ![x] = ModTime[c]]
  /\ unsettled' = unsettled \cup {FolderOf[x]}
  /\ UNCHANGED <<folderVars, trackVars, albumVars, libVars, libStats, scanVars, misread, cut>>

RemoveFile(x) ==
  /\ disk[x] # Absent
  /\ Spend("edits")
  /\ disk' = [disk EXCEPT ![x] = Absent]
  /\ unsettled' = unsettled \cup {FolderOf[x]}
  /\ UNCHANGED <<dir, newest, folderVars, trackVars, albumVars, libVars, libStats, scanVars, misread, cut>>

RemoveFolder(f) ==
  /\ f \in dir
  /\ Spend("edits")
  /\ dir' = dir \ {f}
  /\ disk' = [x \in File |-> IF FolderOf[x] = f THEN Absent ELSE disk[x]]
  /\ unsettled' = unsettled \cup {f}
  /\ UNCHANGED <<newest, folderVars, trackVars, albumVars, libVars, libStats, scanVars, misread, cut>>

-----------------------------------------------------------------------------
(* scanFolders: request, ScanBegin per library, jobs. *)

\* scanFolders up to prepareLibrariesForScan.  targets = {} scans everything.
\* An interrupted full scan of any library involved makes this one full, but
\* only a scan requested as full starts with changesDetected set.
StartScan(full, targets) ==
  LET libs == IF targets = {} THEN Library ELSE {LibOf[f] : f \in targets}
      promoted == ~full /\ libs \cap fullFlag # {}
  IN /\ pc = "idle"
     /\ scan' = [full |-> full \/ promoted, changes |-> full,
                 selective |-> targets # {}, targets |-> targets,
                 libs |-> libs, jobs |-> {}, toPrepare |-> libs,
                 err |-> FALSE]
     /\ pc' = "prepare"
     /\ UNCHANGED <<diskVars, folderVars, trackVars, albumVars, libVars, libStats,
                    todo, lastUpdates, entry, albumTodo, ghostVars, budget>>

\* Libraries and folders are visited in one fixed order.
First(S) == CHOOSE e \in S : TRUE

\* libraryRepository.ScanBegin and ScanEnd.  The new last_scan_started_at makes
\* every folder row older than it; the new last_scan_at every album row.
ScanBegin(l, full) ==
  /\ inScan' = inScan \cup {l}
  /\ fullFlag' = IF full THEN fullFlag \cup {l} ELSE fullFlag \ {l}
  /\ fresh' = fresh \ FoldersOf({l})
ScanEnd(L) ==
  /\ inScan' = inScan \ L
  /\ fullFlag' = fullFlag \ L
  /\ touched' = touched \ AlbumsOf(L)

\* prepareLibrariesForScan, one library: ScanBegin unless the library is still
\* in an unfinished scan, which is then resumed.
PrepareLibrary(l) ==
  /\ pc = "prepare" /\ scan.toPrepare # {} /\ l = First(scan.toPrepare)
  /\ scan' = [scan EXCEPT !.toPrepare = @ \ {l}]
  /\ IF l \in inScan
     THEN UNCHANGED <<libVars, fresh, unsettled>>
     ELSE /\ ScanBegin(l, scan.full)
          /\ unsettled' = unsettled \ FoldersOf({l})
  /\ UNCHANGED <<diskVars, folderRow, trackVars, albumVars, libStats, pc, todo,
                 lastUpdates, entry, albumTodo, misread, cut, budget>>

\* ScanBegin fails: the library is left out of this scan.
PrepareFails(l) ==
  /\ pc = "prepare" /\ scan.toPrepare # {} /\ l = First(scan.toPrepare) /\ l \notin inScan
  /\ Spend("faults")
  /\ scan' = [scan EXCEPT !.toPrepare = @ \ {l}, !.libs = @ \ {l}]
  /\ UNCHANGED <<diskVars, folderVars, trackVars, albumVars, libVars, libStats, pc,
                 todo, lastUpdates, entry, albumTodo, ghostVars>>

\* folderRepository.GetFolderUpdateInfo: the rows not marked missing.
GetFolderUpdateInfo(scope) == {f \in scope : folderRow[f] # NoRow /\ ~folderRow[f].missing}

\* createPhaseFolders: a job per library whose storage answers.
CreateJobs(jobs) ==
  LET scope == {f \in FoldersOf(jobs) : scan.selective => f \in scan.targets}
  IN /\ pc = "prepare" /\ scan.toPrepare = {} /\ scan.libs # {}
     /\ jobs \subseteq scan.libs
     /\ IF jobs = scan.libs THEN budget' = budget ELSE Spend("faults")
     /\ scan' = [scan EXCEPT !.jobs = jobs]
     /\ todo' = scope
     /\ lastUpdates' = GetFolderUpdateInfo(scope)
     /\ unsettled' = unsettled \cup FoldersOf(scan.libs \ jobs)
     /\ pc' = "folders"
     /\ UNCHANGED <<diskVars, folderVars, trackVars, albumVars, libVars, libStats,
                    entry, albumTodo, misread, cut>>

\* The scan is over, leaving the database as it is.
StopHangs ==
  /\ pc' = pc /\ scan' = NoScan /\ todo' = {} /\ lastUpdates' = {}
  /\ entry' = [f \in Folder |-> NoEntry] /\ albumTodo' = {}
Stop ==
  /\ pc' = "idle" /\ scan' = NoScan /\ todo' = {} /\ lastUpdates' = {}
  /\ entry' = [f \in Folder |-> NoEntry] /\ albumTodo' = {}

\* The libraries it had begun keep last_scan_started_at.
NoteCut ==
  cut' = cut \cup (scan.libs \ scan.toPrepare)

\* "no libraries available for scanning"
NoLibraries ==
  /\ pc = "prepare" /\ scan.libs = {}
  /\ Stop
  /\ UNCHANGED <<diskVars, folderVars, trackVars, albumVars, libVars, libStats, ghostVars, budget>>

-----------------------------------------------------------------------------
(* Phase 1: walk the folders, read the files, save what changed. *)

\* folderEntry.isOutdated: the row known when the job started against the disk.
IsNew(f) == f \notin lastUpdates
OutdatedByHash(f) == IsNew(f) \/ folderRow[f].hash # Stat(f)
IsOutdated(f) ==
  \/ scan.full /\ (IsNew(f) \/ f \notin fresh)
  \/ IsNew(f)
  \/ folderRow[f].hash # Stat(f)
HasNoFiles(f) == \A x \in FilesIn(f) : disk[x] = Absent

\* scanJob.popLastUpdate: the folder was found.
KeepLastUpdate(f) == lastUpdates
PopLastUpdate(f) == lastUpdates \ {f}

\* walkDirTree, loadDir and the producer's filter.
WalkFolder(f) ==
  /\ pc = "folders" /\ todo # {} /\ f = First(todo) /\ f \in dir
  /\ todo' = todo \ {f}
  /\ lastUpdates' = PopLastUpdate(f)
  /\ entry' = IF IsOutdated(f) /\ ~(~scan.full /\ HasNoFiles(f) /\ IsNew(f))
              THEN [entry EXCEPT ![f] = [st |-> "walked", seen |-> Stat(f)]]
              ELSE entry
  /\ UNCHANGED <<diskVars, folderVars, trackVars, albumVars, libVars, libStats, pc, scan,
                 albumTodo, ghostVars, budget>>

\* A folder that is gone is not walked: it stays in lastUpdates.
SkipGoneFolder(f) ==
  /\ pc = "folders" /\ todo # {} /\ f = First(todo) /\ f \notin dir
  /\ todo' = todo \ {f}
  /\ UNCHANGED <<diskVars, folderVars, trackVars, albumVars, libVars, libStats, pc, scan,
                 lastUpdates, entry, albumTodo, ghostVars, budget>>

\* stat or isDirReadable fails (the folder looks gone), or the directory cannot
\* be opened once its entry was created (it is left alone).
WalkFails(f) ==
  /\ pc = "folders" /\ todo # {} /\ f = First(todo) /\ f \in dir
  /\ Spend("faults")
  /\ todo' = todo \ {f}
  /\ \/ UNCHANGED lastUpdates
     \/ lastUpdates' = PopLastUpdate(f)
  /\ unsettled' = unsettled \cup {f}
  /\ UNCHANGED <<diskVars, folderVars, trackVars, albumVars, libVars, libStats, pc, scan,
                 entry, albumTodo, misread, cut>>

\* processFolder: which of the files seen must be imported, and which rows have
\* no file any more.
Seen(f) == {x \in FilesIn(f) : entry[f].seen[x] # Absent}
InDB(x) == track[x] # Absent
ToImport(x) ==
  \/ ~InDB(x) \/ scan.full \/ x \in missing
  \/ disk[x] # Absent /\ ModTime[disk[x]] > ModTime[track[x]]
\* af.Info() fails on a file that went away: the whole folder is given up.
InfoFails(f) == \E x \in Seen(f) : disk[x] = Absent /\ InDB(x) /\ ~scan.full

\* unreadable: the files whose tags the extractor could not read.
ProcessFolder(f, unreadable) ==
  LET gone == {x \in Seen(f) : disk[x] = Absent}
      import == {x \in Seen(f) : ToImport(x)} \ (gone \cup unreadable)
  IN /\ pc = "folders" /\ entry[f].st = "walked"
     /\ unreadable \subseteq {x \in Seen(f) : disk[x] # Absent /\ ToImport(x)}
     /\ IF unreadable = {} THEN budget' = budget ELSE Spend("faults")
     /\ entry' = [entry EXCEPT ![f] =
          IF InfoFails(f)
          THEN [st |-> "read", seen |-> @.seen, tags |-> [x \in {} |-> Absent], gone |-> {}]
          ELSE [st |-> "read", seen |-> @.seen,
                tags |-> [x \in import |-> disk[x]],
                gone |-> {x \in FilesIn(f) \ Seen(f) : InDB(x)}]]
     /\ misread' = misread \cup unreadable
     /\ UNCHANGED <<diskVars, folderVars, trackVars, albumVars, libVars, libStats, pc, scan,
                    todo, lastUpdates, albumTodo, unsettled, cut>>

\* folderEntry.toFolder hashes again: of a folder that changed since the walk it
\* mixes the walk's modification time with the files' present stat.
HashAtSave(f) == Stat(f)
SavedHash(f) == IF Stat(f) = entry[f].seen THEN entry[f].seen ELSE Mixed

\* The albums of the rows that lost their file, touched for phase 3.
NoneBereft(f) == {}
Bereft(f) == {AlbumFor(x, track[x]) : x \in entry[f].gone}

\* persistChanges, one transaction: folder, albums (from this folder's imports
\* only), tracks, and the rows that lost their file.
PersistChanges(f) ==
  LET e == entry[f]
      imported == DOMAIN e.tags
      albums == {AlbumFor(x, e.tags[x]) : x \in imported}
  IN /\ pc = "folders" /\ e.st = "read"
     /\ scan' = [scan EXCEPT !.changes = TRUE]
     /\ folderRow' = [folderRow EXCEPT ![f] =
          [hash |-> SavedHash(f), audio |-> Seen(f) # {}, missing |-> FALSE]]
     /\ fresh' = fresh \cup {f}
     /\ agg' = [a \in Album |->
          IF a \in albums
          THEN {<<x, e.tags[x], FALSE>> : x \in {y \in imported : AlbumFor(y, e.tags[y]) = a}}
          ELSE agg[a]]
     /\ track' = [x \in File |-> IF x \in imported THEN e.tags[x] ELSE track[x]]
     /\ missing' = (missing \ imported) \cup e.gone
     /\ touched' = touched \cup albums \cup Bereft(f)
     /\ misread' = misread \ imported
     /\ entry' = [entry EXCEPT ![f] = NoEntry]
     /\ UNCHANGED <<diskVars, libVars, libStats, pc, todo, lastUpdates, albumTodo,
                    unsettled, cut, budget>>

\* The transaction fails: the pipeline stops with an error, after the walk has
\* found any part of the folders still to come.
PersistFails(f, walked) ==
  /\ pc = "folders" /\ entry[f].st = "read"
  /\ walked \subseteq todo \cap dir
  /\ Spend("faults")
  /\ scan' = [scan EXCEPT !.changes = TRUE, !.err = TRUE]
  /\ entry' = [g \in Folder |-> NoEntry]
  /\ todo' = {}
  /\ lastUpdates' = lastUpdates \ walked
  /\ unsettled' = unsettled \cup {f} \cup todo \cup {g \in Folder : entry[g].st # "none"}
  /\ UNCHANGED <<diskVars, folderVars, trackVars, albumVars, libVars, libStats, pc,
                 albumTodo, misread, cut>>

\* What marking the folders F missing does to their rows and to their tracks,
\* and the albums with a missing folder.
MarkMissing(F) ==
  [f \in Folder |-> IF f \in F THEN [folderRow[f] EXCEPT !.missing = TRUE] ELSE folderRow[f]]
MarkMissingByFolder(F) == missing \cup {x \in File : FolderOf[x] \in F /\ InDB(x)}
TouchByMissingFolder(F) ==
  LET gone == F \cup {f \in Folder : folderRow[f] # NoRow /\ folderRow[f].missing}
  IN {a \in Album : \E t \in agg[a] : FolderOf[t[1]] \in gone}

\* phaseFolders.finalize: what the jobs did not find is missing.
FinalizeFolders ==
  /\ pc = "folders" /\ todo = {} /\ \A f \in Folder : entry[f].st = "none"
  /\ IF lastUpdates = {} THEN UNCHANGED <<folderRow, missing, touched>>
     ELSE /\ folderRow' = MarkMissing(lastUpdates)
          /\ missing' = MarkMissingByFolder(lastUpdates)
          /\ touched' = touched \cup TouchByMissingFolder(lastUpdates)
  /\ IF scan.err
     THEN Stop /\ NoteCut
     ELSE /\ pc' = "missing"
          /\ UNCHANGED <<scan, todo, entry, albumTodo, cut>>
          /\ lastUpdates' = {}
  /\ UNCHANGED <<diskVars, fresh, track, agg, libVars, libStats, unsettled, misread, budget>>

-----------------------------------------------------------------------------
(* Phase 2 (purge), phase 3, garbage collection, statistics, ScanEnd. *)

\* albumRepository.GetTouchedAlbums.
GetTouchedAlbums(L) == touched \cap AlbumsOf(L)

\* phaseMissingTracks.finalize: the purge deletes every missing row there is,
\* and deleting one is a change.
QuietPurge(deleted) == scan.changes
ChangesAfterPurge(deleted) == scan.changes \/ deleted # {}
PurgeMissingTracks ==
  LET purge == PurgeMissing = "always" \/ (PurgeMissing = "full" /\ scan.full)
      deleted == IF purge THEN missing ELSE {}   \* DeleteAllMissing
  IN /\ pc = "missing"
     /\ track' = [x \in File |-> IF x \in deleted THEN Absent ELSE track[x]]
     /\ missing' = missing \ deleted
     /\ scan' = [scan EXCEPT !.changes = ChangesAfterPurge(deleted)]
     /\ albumTodo' = GetTouchedAlbums(scan.libs)
     /\ pc' = "albums"
     /\ UNCHANGED <<diskVars, folderVars, albumVars, libVars, libStats, todo, lastUpdates,
                    entry, ghostVars, budget>>

\* filterUnmodified and refreshAlbum, and the changesDetected they leave.
QuietRefresh(refreshed) == scan.changes
ChangesAfterRefresh(refreshed) == scan.changes \/ refreshed
RefreshAlbum(a) ==
  LET refresh == TracksOf(a) # {} /\ agg[a] # ToAlbum(a)
  IN /\ pc = "albums" /\ a \in albumTodo
     /\ albumTodo' = albumTodo \ {a}
     /\ agg' = IF refresh THEN [agg EXCEPT ![a] = ToAlbum(a)] ELSE agg
     /\ scan' = [scan EXCEPT !.changes = ChangesAfterRefresh(refresh)]
     /\ UNCHANGED <<diskVars, folderVars, trackVars, touched, libVars, libStats, pc, todo,
                    lastUpdates, entry, ghostVars, budget>>

EndOfAlbums ==
  /\ pc = "albums" /\ albumTodo = {}
  /\ pc' = "gc"
  /\ UNCHANGED <<diskVars, folderVars, trackVars, albumVars, libVars, libStats, scan, todo,
                 lastUpdates, entry, albumTodo, ghostVars, budget>>

\* What purgeEmpty deletes: albums without tracks, folders without files and
\* tracks.
EmptyAlbums(L) == {a \in AlbumsOf(L) : TracksOf(a) = {}}
EmptyFolders(L) == {f \in FoldersOf(L) : /\ folderRow[f] # NoRow
                                         /\ ~folderRow[f].audio
                                         /\ \A x \in FilesIn(f) : ~InDB(x)}

\* runGC, in the libraries of a selective scan or everywhere.
RunGC ==
  LET libs == IF scan.selective THEN scan.libs ELSE Library
      albums == EmptyAlbums(libs)
      folders == EmptyFolders(libs)
  IN /\ pc = "gc"
     /\ IF scan.changes
        THEN /\ agg' = [a \in Album |-> IF a \in albums THEN {} ELSE agg[a]]
             /\ touched' = touched \ albums
             /\ folderRow' = [f \in Folder |-> IF f \in folders THEN NoRow ELSE folderRow[f]]
        ELSE UNCHANGED <<agg, touched, folderRow>>
     /\ pc' = "stats"
     /\ UNCHANGED <<diskVars, fresh, trackVars, libVars, libStats, scan, todo, lastUpdates,
                    entry, albumTodo, ghostVars, budget>>

\* runRefreshStats: the artists' and genres' totals, which nothing here reads.
RunRefreshStats ==
  /\ pc = "stats"
  /\ pc' = "update"
  /\ UNCHANGED <<diskVars, folderVars, trackVars, albumVars, libVars, libStats, scan, todo,
                 lastUpdates, entry, albumTodo, ghostVars, budget>>

\* runUpdateLibraries: ScanEnd and RefreshStats of every library, in one
\* transaction.
RunUpdateLibraries ==
  /\ pc = "update"
  /\ ScanEnd(scan.libs)
  /\ libStats' = [l \in Library |->
       IF l \in scan.libs /\ scan.changes THEN LibCount(l) ELSE libStats[l]]
  /\ cut' = IF scan.changes THEN cut \ scan.libs ELSE cut
  /\ Stop
  /\ UNCHANGED <<diskVars, folderVars, trackVars, agg, unsettled, misread, budget>>

\* The process dies, the server shuts down, or a later step fails: whatever was
\* committed stays.
CutScan ==
  /\ pc # "idle"
  /\ Spend("cuts")
  /\ Stop /\ NoteCut
  /\ UNCHANGED <<diskVars, folderVars, trackVars, albumVars, libVars, libStats, unsettled, misread>>

-----------------------------------------------------------------------------
ScanStep ==
  \/ \E l \in Library : PrepareLibrary(l)
  \/ \E jobs \in SUBSET Library : CreateJobs(jobs)
  \/ NoLibraries
  \/ \E f \in Folder : WalkFolder(f) \/ SkipGoneFolder(f) \/ PersistChanges(f)
  \/ \E f \in Folder : \E unreadable \in SUBSET FilesIn(f) : ProcessFolder(f, unreadable)
  \/ FinalizeFolders \/ PurgeMissingTracks
  \/ \E a \in Album : RefreshAlbum(a)
  \/ EndOfAlbums \/ RunGC \/ RunRefreshStats \/ RunUpdateLibraries

Faults ==
  \/ \E l \in Library : PrepareFails(l)
  \/ \E f \in Folder : WalkFails(f)
  \/ \E f \in Folder : \E walked \in SUBSET Folder : PersistFails(f, walked)
  \/ CutScan

Edits ==
  \/ \E x \in File : \E c \in Content : WriteFile(x, c)
  \/ \E x \in File : RemoveFile(x)
  \/ \E f \in Folder : RemoveFolder(f)

Next ==
  \/ \E full \in BOOLEAN : \E targets \in Targets \cup {{}} : StartScan(full, targets)
  \/ ScanStep \/ Faults \/ Edits

Spec == Init /\ [][Next]_vars

\* Scans run to their end, and the scheduler keeps asking for new ones.
LiveSpec == /\ Spec
            /\ WF_vars(ScanStep)
            /\ WF_vars(\E full \in BOOLEAN : StartScan(full, {}))

-----------------------------------------------------------------------------
(* Properties. *)

\* Every variable keeps its shape, and the scan works on libraries it began.
TypeOK ==
  /\ disk \in [File -> Content \cup {Absent}] /\ dir \subseteq Folder
  /\ \A x \in File : disk[x] # Absent => FolderOf[x] \in dir
  /\ track \in [File -> Content \cup {Absent}]
  /\ missing \subseteq {x \in File : InDB(x)}
  /\ touched \subseteq Album /\ fresh \subseteq Folder
  /\ fullFlag \subseteq inScan /\ inScan \subseteq Library
  /\ pc \in Phases
  /\ pc \notin {"idle", "prepare"} => scan.libs \subseteq inScan

\* Between the scans of a library its album rows agree with its tracks, however
\* often scans were cut short: phase 1 leaves partial album rows behind and
\* phase 3 of a later scan must find every one of them.
AlbumsFresh ==
  \A a \in Album : a[1] \notin inScan /\ TracksOf(a) # {} => agg[a] = ToAlbum(a)

Completes == pc = "update" /\ scan.libs \cap inScan' = {}

\* What a completed scan leaves of a file that did not change meanwhile.
Mirrors(x) ==
  IF disk[x] = Absent THEN ~InDB(x) \/ x \in missing
  ELSE /\ InDB(x) /\ x \notin missing
       /\ HashOf[track[x]] = HashOf[disk[x]]
       /\ LibOfFile(x) \in fullFlag => track[x] = disk[x]

\* A completed scan, resumed or not, has brought every file in its scope up to
\* date with the disk; one begun as a full scan also those whose stat did not
\* change.
CompletedScanMirrorsDisk ==
  [][Completes =>
       \A x \in File : \/ LibOfFile(x) \notin scan.jobs
                       \/ scan.selective /\ FolderOf[x] \notin scan.targets
                       \/ FolderOf[x] \in unsettled \/ x \in misread
                       \/ Mirrors(x)]_vars

\* A file that stayed on the disk since its scan began is not marked missing.
NoFalseMissing ==
  [][\A x \in missing' \ missing : disk[x] = Absent \/ FolderOf[x] \in unsettled]_vars

\* When a scan of everything ends an announced full scan, every folder was read
\* since the full scan began, whichever runs did the reading.
FullScanReadsAll ==
  [][Completes /\ ~scan.selective =>
       \A f \in FoldersOf(scan.jobs \cap fullFlag) \cap dir : f \in unsettled \cup fresh]_vars

\* Outside scans the statistics and the album table are exact for every library
\* none of whose changes came from a scan that was cut short.
MaintenanceDone ==
  \A l \in Library \ (inScan \cup cut) :
     /\ libStats[l] = LibCount(l)
     /\ \A a \in AlbumsOf({l}) : agg[a] # {} => TracksOf(a) # {}

\* Once the disk comes to rest, later scans bring the database in line with it
\* and keep it so, whatever was cut short before.
InSync(x) == IF disk[x] = Absent THEN ~InDB(x) \/ x \in missing
             ELSE InDB(x) /\ x \notin missing /\ HashOf[track[x]] = HashOf[disk[x]]
EventuallyInSync == <>[](\A x \in File : InSync(x))

(* What the repository says of its scans, and the code does not do. *)

\* scanner_test.go:754: an interrupted full scan "should continue as full scan":
\* the flag that keeps it alive is not cleared before every folder was read.
FullScanContinues ==
  [][Completes => \A f \in FoldersOf(scan.jobs \cap fullFlag) \cap dir :
                     f \in unsettled \cup fresh]_vars
=============================================================================
