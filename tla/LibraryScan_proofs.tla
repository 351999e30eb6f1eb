------------------------- MODULE LibraryScan_proofs -------------------------
(***************************************************************************)
(* For every library, folder tree, file content, fault and interruption:   *)
(*   - TypeOK (TInv);                                                      *)
(*   - CompletedScanMirrorsDisk, NoFalseMissing and FullScanReadsAll       *)
(*     (DInv: the rows and the pipeline against the disk);                 *)
(* and for libraries in which no file moves to another album (NoRetag),    *)
(* with missing files purged by every scan or by none:                     *)
(*   - AlbumsFresh (AInv) and MaintenanceDone (MInv).                      *)
(***************************************************************************)
EXTENDS LibraryScan, TLAPS

-----------------------------------------------------------------------------
(* Type correctness.  What TypeOK lacks to be inductive: the scan's own    *)
(* record, the libraries each stage may work in, and what travels from     *)
(* processFolder to persistChanges.                                        *)

Shapes ==
  /\ agg = [a \in Album |-> agg[a]]
  /\ scan \in [full : BOOLEAN, changes : BOOLEAN, selective : BOOLEAN,
               targets : SUBSET Folder, libs : SUBSET Library,
               jobs : SUBSET Library, toPrepare : SUBSET Library,
               err : BOOLEAN]
  /\ entry = [f \in Folder |-> entry[f]]
  /\ albumTodo \subseteq Album

\* A scan works in the libraries it has begun.
Scope ==
  /\ pc = "prepare" => scan.libs \ scan.toPrepare \subseteq inScan
  /\ pc = "folders" => todo \cup lastUpdates \subseteq FoldersOf(scan.libs)
  /\ \A f \in Folder : entry[f].st # "none" => pc = "folders" /\ LibOf[f] \in scan.libs

\* What processFolder read belongs to its folder, and the rows it found bereft
\* are still there when persistChanges gets to them.
Pipeline ==
  \A f \in Folder : entry[f].st = "read" =>
    /\ DOMAIN entry[f].tags \subseteq FilesIn(f)
    /\ \A x \in DOMAIN entry[f].tags : entry[f].tags[x] \in Content
    /\ entry[f].gone \subseteq {x \in FilesIn(f) : InDB(x)}

TInv == TypeOK /\ Shapes /\ Scope /\ Pipeline

LEMMA FirstIn == \A S : S # {} => First(S) \in S
  BY DEF First

LEMMA AlbumForType == \A x \in File, c \in Content : AlbumFor(x, c) \in Album
  BY ShapeAssumption DEF AlbumFor, Album, LibOfFile

LEMMA TInvInit == Init => TInv
  <1> SUFFICES ASSUME Init PROVE TInv
    OBVIOUS
  <1>1. TypeOK
    BY ShapeAssumption DEF Init, TypeOK, InDB, Phases
  <1>2. Shapes
    BY DEF Init, Shapes, NoScan
  <1>3. Scope /\ Pipeline
    BY DEF Init, Scope, Pipeline, NoEntry
  <1> QED BY <1>1, <1>2, <1>3 DEF TInv

LEMMA TInvEdits == TInv /\ Edits => TInv'
  <1> SUFFICES ASSUME TInv, Edits PROVE TInv'
    OBVIOUS
  <1>1. UNCHANGED <<folderVars, trackVars, albumVars, libVars, scanVars>>
    BY DEF Edits, WriteFile, RemoveFile, RemoveFolder
  <1> DEFINE DiskOK == /\ disk \in [File -> Content \cup {Absent}] /\ dir \subseteq Folder
                       /\ \A x \in File : disk[x] # Absent => FolderOf[x] \in dir
  <1>2. DiskOK'
    <2>1. ASSUME NEW x \in File, NEW c \in Content, WriteFile(x, c) PROVE DiskOK'
      BY <2>1, ShapeAssumption DEF TInv, TypeOK, WriteFile
    <2>2. ASSUME NEW x \in File, RemoveFile(x) PROVE DiskOK'
      BY <2>2 DEF TInv, TypeOK, RemoveFile
    <2>3. ASSUME NEW f \in Folder, RemoveFolder(f) PROVE DiskOK'
      BY <2>3 DEF TInv, TypeOK, RemoveFolder
    <2> QED BY <2>1, <2>2, <2>3 DEF Edits
  <1>3. TypeOK'
    BY <1>1, <1>2 DEF TInv, TypeOK, InDB, folderVars, trackVars, albumVars, libVars, scanVars
  <1>4. Shapes' /\ Scope'
    BY <1>1 DEF TInv, Shapes, Scope, albumVars, libVars, scanVars
  <1>5. Pipeline'
    BY <1>1 DEF TInv, Pipeline, InDB, trackVars, scanVars
  <1> QED BY <1>3, <1>4, <1>5 DEF TInv

\* The rows TypeOK and Pipeline speak of are not written by most steps.
Quiet == UNCHANGED <<disk, dir, track, missing, agg, touched>>

LEMMA QuietStep ==
  ASSUME TInv, Quiet, pc' \in Phases, fresh' \subseteq Folder,
         fullFlag' \subseteq inScan', inScan' \subseteq Library,
         pc' \notin {"idle", "prepare"} => scan'.libs \subseteq inScan',
         Shapes', Scope', Pipeline'
  PROVE  TInv'
  BY DEF TInv, TypeOK, Quiet, InDB

LEMMA StopStep == ASSUME TInv, Quiet, UNCHANGED <<fresh, libVars>>, Stop PROVE TInv'
  <1>1. Shapes' /\ Scope' /\ Pipeline'
    BY DEF TInv, Quiet, Stop, Shapes, Scope, Pipeline, NoScan, NoEntry
  <1> QED BY <1>1, QuietStep DEF TInv, TypeOK, Stop, libVars, Phases

LEMMA TInvBegin ==
  ASSUME TInv, \/ \E full \in BOOLEAN : \E targets \in Targets \cup {{}} : StartScan(full, targets)
               \/ \E l \in Library : PrepareLibrary(l) \/ PrepareFails(l)
               \/ \E jobs \in SUBSET Library : CreateJobs(jobs)
               \/ NoLibraries \/ CutScan
  PROVE  TInv'
  <1>1. ASSUME NEW full \in BOOLEAN, NEW targets \in Targets \cup {{}}, StartScan(full, targets)
        PROVE TInv'
    <2>1. Quiet /\ UNCHANGED <<fresh, libVars, todo, lastUpdates, entry, albumTodo>>
      BY <1>1 DEF StartScan, Quiet, diskVars, folderVars, trackVars, albumVars
    <2>2. Shapes'
      BY <1>1, <2>1, ShapeAssumption, ConfigAssumption DEF StartScan, TInv, Shapes, Quiet
    <2>3. Scope' /\ Pipeline'
      BY <1>1, <2>1 DEF StartScan, TInv, Scope, Pipeline, Quiet, InDB
    <2> QED BY <1>1, <2>1, <2>2, <2>3, QuietStep DEF StartScan, TInv, TypeOK, libVars, Phases
  <1>2. ASSUME NEW l \in Library, PrepareLibrary(l) PROVE TInv'
    <2>1. Quiet /\ UNCHANGED <<pc, todo, lastUpdates, entry, albumTodo>>
      BY <1>2 DEF PrepareLibrary, Quiet, diskVars, trackVars, albumVars
    <2>2. /\ fresh' \subseteq Folder /\ fullFlag' \subseteq inScan'
          /\ inScan' = inScan \cup {l}
      BY <1>2 DEF PrepareLibrary, TInv, TypeOK, libVars, ScanBegin
    <2>3. Shapes'
      BY <1>2, <2>1 DEF PrepareLibrary, TInv, Shapes, Quiet
    <2>4. Scope' /\ Pipeline'
      BY <1>2, <2>1, <2>2 DEF PrepareLibrary, TInv, Shapes, Scope, Pipeline, Quiet, InDB
    <2> QED BY <1>2, <2>1, <2>2, <2>3, <2>4, QuietStep DEF PrepareLibrary, TInv, TypeOK
  <1>3. ASSUME NEW l \in Library, PrepareFails(l) PROVE TInv'
    <2>1. Quiet /\ UNCHANGED <<fresh, libVars, pc, todo, lastUpdates, entry, albumTodo>>
      BY <1>3 DEF PrepareFails, Quiet, diskVars, folderVars, trackVars, albumVars
    <2>2. Shapes' /\ Scope' /\ Pipeline'
      BY <1>3, <2>1 DEF PrepareFails, TInv, Shapes, Scope, Pipeline, Quiet, InDB, libVars
    <2> QED BY <1>3, <2>1, <2>2, QuietStep DEF PrepareFails, TInv, TypeOK, libVars
  <1>4. ASSUME NEW jobs \in SUBSET Library, CreateJobs(jobs) PROVE TInv'
    <2>1. Quiet /\ UNCHANGED <<fresh, libVars, entry, albumTodo>> /\ pc' = "folders"
      BY <1>4 DEF CreateJobs, Quiet, diskVars, folderVars, trackVars, albumVars
    <2>2. Shapes' /\ scan'.libs = scan.libs
      BY <1>4, <2>1 DEF CreateJobs, TInv, Shapes, Quiet
    <2>3. Scope' /\ Pipeline'
      BY <1>4, <2>1, <2>2 DEF CreateJobs, GetFolderUpdateInfo, TInv, Scope, Pipeline, Quiet, InDB, FoldersOf
    <2>4. scan.libs \subseteq inScan
      BY <1>4 DEF CreateJobs, TInv, Scope
    <2> QED BY <2>1, <2>2, <2>3, <2>4, QuietStep DEF TInv, TypeOK, libVars, Phases
  <1>5. CASE NoLibraries \/ CutScan
    <2>1. Quiet /\ UNCHANGED <<fresh, libVars>> /\ Stop
      BY <1>5 DEF NoLibraries, CutScan, Quiet, diskVars, folderVars, trackVars, albumVars
    <2> QED BY <2>1, StopStep
  <1> QED BY <1>1, <1>2, <1>3, <1>4, <1>5

LEMMA TInvWalk ==
  ASSUME TInv, NEW f \in Folder,
         WalkFolder(f) \/ SkipGoneFolder(f) \/ WalkFails(f)
  PROVE  TInv'
  <1>1. Quiet /\ UNCHANGED <<fresh, libVars, pc, scan, albumTodo>>
    BY DEF WalkFolder, SkipGoneFolder, WalkFails, Quiet, diskVars, folderVars, trackVars, albumVars
  <1>2. /\ pc = "folders" /\ f \in todo
        /\ todo' \subseteq todo /\ lastUpdates' \subseteq lastUpdates
    BY FirstIn DEF WalkFolder, SkipGoneFolder, WalkFails, PopLastUpdate
  <1>3. LibOf[f] \in scan.libs
    BY <1>2 DEF TInv, Scope, FoldersOf
  <1>4. \/ entry' = entry
        \/ entry' = [entry EXCEPT ![f] = [st |-> "walked", seen |-> Stat(f)]]
    BY DEF WalkFolder, SkipGoneFolder, WalkFails
  <1>5. /\ entry' = [g \in Folder |-> entry'[g]]
        /\ \A g \in Folder : g # f => entry'[g] = entry[g]
        /\ entry'[f] = entry[f] \/ entry'[f].st = "walked"
    BY <1>4 DEF TInv, Shapes
  <1>6. Shapes'
    BY <1>1, <1>5 DEF TInv, Shapes, Quiet
  <1>7. Scope'
    BY <1>1, <1>2, <1>3, <1>5 DEF TInv, Scope, Quiet, FoldersOf
  <1>8. Pipeline'
    BY <1>1, <1>5 DEF TInv, Pipeline, Quiet, InDB
  <1> QED BY <1>1, <1>6, <1>7, <1>8, QuietStep DEF TInv, TypeOK, libVars

LEMMA TInvProcess ==
  ASSUME TInv, NEW f \in Folder, NEW unreadable \in SUBSET FilesIn(f),
         ProcessFolder(f, unreadable)
  PROVE  TInv'
  <1>1. Quiet /\ UNCHANGED <<fresh, libVars, pc, scan, todo, lastUpdates, albumTodo>>
    BY DEF ProcessFolder, Quiet, diskVars, folderVars, trackVars, albumVars
  <1>2. pc = "folders" /\ entry[f].st = "walked" /\ LibOf[f] \in scan.libs
    BY DEF ProcessFolder, TInv, Scope
  <1>3. /\ entry' = [g \in Folder |-> entry'[g]]
        /\ \A g \in Folder : g # f => entry'[g] = entry[g]
    BY DEF ProcessFolder, TInv, Shapes
  <1>4. /\ DOMAIN entry'[f].tags \subseteq FilesIn(f)
        /\ \A x \in DOMAIN entry'[f].tags : entry'[f].tags[x] \in Content
        /\ entry'[f].gone \subseteq {x \in FilesIn(f) : InDB(x)}
    <2> DEFINE gone == {x \in Seen(f) : disk[x] = Absent}
               import == {x \in Seen(f) : ToImport(x)} \ (gone \cup unreadable)
    <2>1. CASE InfoFails(f)
      <3>1. entry'[f] = [st |-> "read", seen |-> entry[f].seen,
                         tags |-> [x \in {} |-> Absent], gone |-> {}]
        BY <2>1 DEF ProcessFolder, TInv, Shapes
      <3> QED BY <3>1
    <2>2. CASE ~InfoFails(f)
      <3>1. entry'[f] = [st |-> "read", seen |-> entry[f].seen,
                         tags |-> [x \in import |-> disk[x]],
                         gone |-> {x \in FilesIn(f) \ Seen(f) : InDB(x)}]
        BY <2>2 DEF ProcessFolder, TInv, Shapes
      <3>2. import \subseteq FilesIn(f) /\ \A x \in import : disk[x] \in Content
        BY DEF Seen, FilesIn, TInv, TypeOK
      <3> HIDE DEF import
      <3> QED BY <3>1, <3>2
    <2> QED BY <2>1, <2>2
  <1>5. Shapes' /\ Scope'
    BY <1>1, <1>2, <1>3 DEF TInv, Shapes, Scope, Quiet, FoldersOf, libVars
  <1>6. Pipeline'
    BY <1>1, <1>3, <1>4 DEF TInv, Pipeline, Quiet, InDB
  <1> QED BY <1>1, <1>5, <1>6, QuietStep DEF TInv, TypeOK, libVars

LEMMA TInvPersist == ASSUME TInv, NEW f \in Folder, PersistChanges(f) PROVE TInv'
  <1> DEFINE e == entry[f]
             imported == DOMAIN e.tags
             albums == {AlbumFor(x, e.tags[x]) : x \in imported}
  <1>1. /\ imported \subseteq FilesIn(f)
        /\ \A x \in imported : e.tags[x] \in Content
        /\ e.gone \subseteq {x \in FilesIn(f) : InDB(x)}
    BY DEF PersistChanges, TInv, Pipeline
  <1>2. albums \subseteq Album /\ Bereft(f) \subseteq Album
    BY <1>1, AlbumForType DEF Bereft, FilesIn, InDB, TInv, TypeOK
  <1>3. /\ track' \in [File -> Content \cup {Absent}]
        /\ \A x \in File : InDB(x) => InDB(x)'
        /\ \A x \in imported : InDB(x)'
    BY <1>1, ShapeAssumption DEF PersistChanges, FilesIn, InDB, TInv, TypeOK
  <1>4. missing' \subseteq {x \in File : InDB(x)'}
    BY <1>1, <1>3 DEF PersistChanges, FilesIn, TInv, TypeOK
  <1>5. TypeOK'
    BY <1>2, <1>3, <1>4 DEF PersistChanges, TInv, TypeOK, Shapes, diskVars, libVars
  <1>6. Shapes'
    BY DEF PersistChanges, TInv, Shapes
  <1>7. Scope' /\ Pipeline'
    BY <1>3 DEF PersistChanges, TInv, Shapes, Scope, Pipeline, FoldersOf, FilesIn, NoEntry, libVars
  <1> QED BY <1>5, <1>6, <1>7 DEF TInv

LEMMA TInvPersistFails ==
  ASSUME TInv, NEW f \in Folder, NEW walked \in SUBSET Folder, PersistFails(f, walked)
  PROVE  TInv'
  <1>1. Quiet /\ UNCHANGED <<fresh, libVars, pc, albumTodo>>
    BY DEF PersistFails, Quiet, diskVars, folderVars, trackVars, albumVars
  <1>2. Shapes' /\ scan'.libs = scan.libs
    BY <1>1 DEF PersistFails, TInv, Shapes, Quiet
  <1>3. Scope' /\ Pipeline'
    BY <1>1, <1>2 DEF PersistFails, TInv, Scope, Pipeline, Quiet, FoldersOf, NoEntry, libVars
  <1> QED BY <1>1, <1>2, <1>3, QuietStep DEF TInv, TypeOK, libVars

LEMMA TInvFinalize == ASSUME TInv, FinalizeFolders PROVE TInv'
  <1>1. /\ UNCHANGED <<disk, dir, fresh, track, agg, libVars>>
        /\ missing' \subseteq {x \in File : InDB(x)}
        /\ touched' \subseteq Album
    BY DEF FinalizeFolders, MarkMissingByFolder, TouchByMissingFolder, diskVars, TInv, TypeOK
  <1>2. CASE Stop
    <2>1. Shapes' /\ Scope' /\ Pipeline'
      BY <1>1, <1>2 DEF TInv, Stop, Shapes, Scope, Pipeline, NoScan, NoEntry
    <2> QED BY <1>1, <1>2, <2>1 DEF TInv, TypeOK, InDB, Stop, libVars, Phases
  <1>3. CASE pc' = "missing" /\ UNCHANGED <<scan, todo, entry, albumTodo>>
    <2>1. pc = "folders" /\ \A f \in Folder : entry[f].st = "none"
      BY DEF FinalizeFolders
    <2>2. Shapes' /\ Scope' /\ Pipeline'
      BY <1>1, <1>3, <2>1 DEF TInv, Shapes, Scope, Pipeline, libVars
    <2> QED BY <1>1, <1>3, <2>1, <2>2 DEF TInv, TypeOK, InDB, libVars, Phases
  <1> QED BY <1>2, <1>3 DEF FinalizeFolders

LEMMA TInvLater ==
  ASSUME TInv, \/ PurgeMissingTracks \/ \E a \in Album : RefreshAlbum(a)
               \/ EndOfAlbums \/ RunGC \/ RunRefreshStats \/ RunUpdateLibraries
  PROVE  TInv'
  <1>1. CASE PurgeMissingTracks
    <2>1. /\ UNCHANGED <<disk, dir, fresh, agg, touched, libVars, todo, lastUpdates, entry>>
          /\ pc = "missing" /\ pc' = "albums"
          /\ track' \in [File -> Content \cup {Absent}]
          /\ missing' \subseteq {x \in File : InDB(x)'}
      BY <1>1 DEF PurgeMissingTracks, diskVars, folderVars, albumVars, TInv, TypeOK, InDB
    <2>2. Shapes' /\ scan'.libs = scan.libs
      BY <1>1, <2>1 DEF PurgeMissingTracks, ChangesAfterPurge, GetTouchedAlbums, TInv, TypeOK, Shapes
    <2>3. Scope' /\ Pipeline'
      BY <2>1, <2>2 DEF TInv, Scope, Pipeline, libVars
    <2> QED BY <2>1, <2>2, <2>3 DEF TInv, TypeOK, libVars, Phases
  <1>2. ASSUME NEW a \in Album, RefreshAlbum(a) PROVE TInv'
    <2>1. UNCHANGED <<disk, dir, fresh, track, missing, touched, libVars, pc, todo, lastUpdates, entry>>
      BY <1>2 DEF RefreshAlbum, diskVars, folderVars, trackVars
    <2>2. Shapes' /\ scan'.libs = scan.libs
      BY <1>2, <2>1 DEF RefreshAlbum, ChangesAfterRefresh, TInv, Shapes
    <2>3. Scope'
      BY <1>2, <2>1, <2>2 DEF RefreshAlbum, TInv, Scope
    <2>4. Pipeline'
      BY <2>1 DEF TInv, Pipeline, InDB
    <2> QED BY <2>1, <2>2, <2>3, <2>4 DEF TInv, TypeOK, InDB, libVars
  <1>3. CASE EndOfAlbums \/ RunRefreshStats
    <2>1. Quiet /\ UNCHANGED <<fresh, libVars, scan, todo, lastUpdates, entry, albumTodo>>
      BY <1>3 DEF EndOfAlbums, RunRefreshStats, Quiet, diskVars, folderVars, trackVars, albumVars
    <2>2. pc \in {"albums", "stats"} /\ pc' \in {"gc", "update"}
      BY <1>3 DEF EndOfAlbums, RunRefreshStats
    <2>3. Shapes' /\ Scope' /\ Pipeline'
      BY <2>1, <2>2 DEF TInv, Shapes, Scope, Pipeline, Quiet, InDB, libVars
    <2> QED BY <2>1, <2>2, <2>3, QuietStep DEF TInv, TypeOK, libVars, Phases
  <1>4. CASE RunGC
    <2>1. /\ UNCHANGED <<disk, dir, fresh, track, missing, libVars, scan, todo, lastUpdates,
                         entry, albumTodo>>
          /\ pc = "gc" /\ pc' = "stats" /\ touched' \subseteq Album
      BY <1>4 DEF RunGC, diskVars, trackVars, TInv, TypeOK
    <2>2. Shapes'
      BY <1>4, <2>1 DEF RunGC, TInv, Shapes
    <2>3. Scope' /\ Pipeline'
      BY <2>1 DEF TInv, Scope, Pipeline, InDB, libVars
    <2> QED BY <2>1, <2>2, <2>3 DEF TInv, TypeOK, InDB, libVars, Phases
  <1>5. CASE RunUpdateLibraries
    <2>1. UNCHANGED <<disk, dir, fresh, track, missing, agg>> /\ Stop
      BY <1>5 DEF RunUpdateLibraries, diskVars, folderVars, trackVars
    <2>2. Shapes' /\ Scope' /\ Pipeline'
      BY <2>1 DEF TInv, Stop, Shapes, Scope, Pipeline, NoScan, NoEntry
    <2>3. inScan' \subseteq Library /\ fullFlag' \subseteq inScan' /\ touched' \subseteq Album
      BY <1>5 DEF RunUpdateLibraries, ScanEnd, TInv, TypeOK
    <2> QED BY <2>1, <2>2, <2>3 DEF TInv, TypeOK, InDB, Stop, Phases
  <1> QED BY <1>1, <1>2, <1>3, <1>4, <1>5

LEMMA TInvStep == TInv /\ [Next]_vars => TInv'
  <1> SUFFICES ASSUME TInv, [Next]_vars PROVE TInv'
    OBVIOUS
  <1>1. CASE Next
    BY <1>1, TInvEdits, TInvBegin, TInvWalk, TInvProcess, TInvPersist, TInvPersistFails,
       TInvFinalize, TInvLater DEF Next, ScanStep, Faults
  <1>2. CASE UNCHANGED vars
    <2>1. /\ Quiet
          /\ UNCHANGED <<fresh, libVars, pc, scan, todo, lastUpdates, entry, albumTodo>>
      BY <1>2 DEF vars, Quiet, diskVars, folderVars, trackVars, albumVars, scanVars
    <2>2. Shapes' /\ Scope' /\ Pipeline'
      BY <2>1 DEF TInv, Shapes, Scope, Pipeline, Quiet, InDB, libVars
    <2> QED BY <2>1, <2>2, QuietStep DEF TInv, TypeOK, libVars
  <1> QED BY <1>1, <1>2

\* Whatever scans, edits, faults and cuts do, the rows stay well formed, a
\* library flagged with a full scan is one whose scan is unfinished, only rows
\* that exist are missing, and a scan past prepareLibrariesForScan works only in
\* libraries that ScanBegin marked.
THEOREM TypeCorrect == Spec => []TypeOK
  <1>1. TInv => TypeOK
    BY DEF TInv
  <1> QED BY TInvInit, TInvStep, <1>1, PTL DEF Spec

-----------------------------------------------------------------------------
(* Freshness of albums.  AlbumsFresh alone is not inductive.  What carries *)
(* it across a scan that is cut short is the touched mark: an album that   *)
(* is not touched agrees with its tracks (SettledFresh), so phase 3 of the *)
(* scan that completes next looks at every album that may be stale before  *)
(* ScanEnd drops the mark.                                                 *)

\* The tags of a file always name the same album.
NoRetag == \A x \in File : \A c, d \in Content : TitleOf[x][c] = TitleOf[x][d]

Fresh(a) == TracksOf(a) # {} => agg[a] = ToAlbum(a)

\* The albums that must agree with their tracks at this point.
Settled(a) ==
  \/ a \notin touched
  \/ a[1] \notin inScan
  \/ pc = "albums" /\ a[1] \in scan.libs /\ a \notin albumTodo
  \/ pc \in {"gc", "stats", "update"} /\ a[1] \in scan.libs

SettledFresh == \A a \in Album : Settled(a) => Fresh(a)

\* With PurgeMissing = "always" no row stays missing past the scan that marked it.
Purged ==
  PurgeMissing = "always" =>
    /\ \A x \in missing : AlbumFor(x, track[x]) \in touched /\ LibOfFile(x) \in inScan
    /\ pc \in {"albums", "gc", "stats", "update"} => missing = {}

AInv == Purged /\ SettledFresh

\* An album is as fresh as it was when neither its row nor its tracks change.
LEMMA SameAlbum ==
  ASSUME NEW a \in Album, Fresh(a), agg'[a] = agg[a],
         \A x \in File : x \in TracksOf(a)' <=> x \in TracksOf(a),
         \A x \in TracksOf(a) : track'[x] = track[x] /\ (x \in missing' <=> x \in missing)
  PROVE  Fresh(a)'
  <1>1. TracksOf(a)' = TracksOf(a)
    BY DEF TracksOf
  <1>2. ToAlbum(a)' = ToAlbum(a)
    BY <1>1 DEF ToAlbum
  <1> QED BY <1>1, <1>2 DEF Fresh

\* The steps that write neither tracks nor albums.
LEMMA AInvQuiet ==
  ASSUME TInv, AInv, Quiet, inScan \subseteq inScan',
         \A a \in Album : Settled(a)' => Settled(a),
         pc' \in {"albums", "gc", "stats", "update"} => pc \in {"albums", "gc", "stats", "update"}
  PROVE  AInv'
  <1>1. \A a \in Album : Fresh(a)' <=> Fresh(a)
    BY DEF Quiet, Fresh, TracksOf, ToAlbum
  <1>2. SettledFresh'
    BY <1>1 DEF AInv, SettledFresh
  <1>3. Purged'
    BY DEF AInv, Purged, Quiet
  <1> QED BY <1>2, <1>3 DEF AInv

LEMMA AInvPersist ==
  ASSUME NoRetag, TInv, AInv, NEW f \in Folder, PersistChanges(f) PROVE AInv'
  <1> DEFINE e == entry[f]
             imported == DOMAIN e.tags
             albums == {AlbumFor(x, e.tags[x]) : x \in imported}
  <1>1. /\ imported \subseteq FilesIn(f)
        /\ \A x \in imported : e.tags[x] \in Content
        /\ e.gone \subseteq {x \in FilesIn(f) : InDB(x)}
    BY DEF PersistChanges, TInv, Pipeline
  <1>2. pc = "folders" /\ pc' = "folders" /\ inScan' = inScan /\ LibOf[f] \in inScan
    BY DEF PersistChanges, TInv, TypeOK, Scope, libVars
  <1>3. \A x \in File : track'[x] = IF x \in imported THEN e.tags[x] ELSE track[x]
    BY DEF PersistChanges
  <1>4. \A x \in imported : InDB(x) => AlbumFor(x, track[x]) = AlbumFor(x, e.tags[x])
    BY <1>1 DEF NoRetag, AlbumFor, FilesIn, InDB, TInv, TypeOK
  <1>5. /\ touched' = touched \cup albums \cup Bereft(f)
        /\ missing' = (missing \ imported) \cup e.gone
    BY DEF PersistChanges
  <1>6. SettledFresh'
    <2> SUFFICES ASSUME NEW a \in Album, Settled(a)' PROVE Fresh(a)'
      BY DEF SettledFresh
    <2>1. a \notin touched' \/ a[1] \notin inScan
      BY <1>2 DEF Settled
    <2>2. Fresh(a)
      BY <1>5, <2>1 DEF AInv, SettledFresh, Settled
    <2>3. /\ \A x \in imported : AlbumFor(x, e.tags[x]) # a
          /\ \A x \in e.gone : AlbumFor(x, track[x]) # a
      BY <1>1, <1>2, <1>5, <2>1 DEF Bereft, AlbumFor, LibOfFile, FilesIn
    <2>4. agg'[a] = agg[a]
      BY <2>3 DEF PersistChanges
    <2>5. \A x \in File : x \in TracksOf(a)' <=> x \in TracksOf(a)
      BY <1>1, <1>3, <1>4, <2>3 DEF TracksOf, AlbumFor, InDB
    <2>6. \A x \in TracksOf(a) : x \notin imported /\ x \notin e.gone
      BY <1>4, <2>3 DEF TracksOf, InDB
    <2>7. \A x \in TracksOf(a) : track'[x] = track[x] /\ (x \in missing' <=> x \in missing)
      BY <1>3, <1>5, <2>6 DEF TracksOf
    <2> QED BY <2>2, <2>4, <2>5, <2>7, SameAlbum
  <1>7. Purged'
    <2> SUFFICES ASSUME PurgeMissing = "always", NEW x \in missing'
                 PROVE AlbumFor(x, track'[x]) \in touched' /\ LibOfFile(x) \in inScan'
      BY <1>2 DEF Purged, AlbumFor
    <2>1. CASE x \in imported
      BY <1>1, <1>2, <1>3, <1>5, <2>1 DEF FilesIn, LibOfFile
    <2>2. CASE x \notin imported /\ x \in e.gone
      BY <1>1, <1>2, <1>3, <1>5, <2>2 DEF FilesIn, LibOfFile, Bereft
    <2>3. CASE x \notin imported /\ x \in missing
      BY <1>2, <1>3, <1>5, <2>3 DEF AInv, Purged, TInv, TypeOK
    <2> QED BY <1>5, <2>1, <2>2, <2>3
  <1> QED BY <1>6, <1>7 DEF AInv

LEMMA AInvFinalize == ASSUME TInv, AInv, FinalizeFolders PROVE AInv'
  <1> DEFINE lost == {x \in File : FolderOf[x] \in lastUpdates /\ InDB(x)}
  <1>1. /\ UNCHANGED <<track, agg, inScan>> /\ missing' = missing \cup lost
        /\ pc = "folders" /\ pc' \in {"idle", "missing"}
        /\ touched \subseteq touched'
        /\ \A a \in Album : (\E t \in agg[a] : FolderOf[t[1]] \in lastUpdates) => a \in touched'
    <2>1. lastUpdates \subseteq Folder
      BY DEF FinalizeFolders, TInv, Scope, FoldersOf
    <2>2. CASE lastUpdates = {}
      BY <2>2 DEF FinalizeFolders, Stop, libVars
    <2>3. CASE lastUpdates # {}
      BY <2>1, <2>3 DEF FinalizeFolders, MarkMissingByFolder, TouchByMissingFolder, Stop, libVars
    <2> QED BY <2>2, <2>3
  <1>2. \A x \in lost : LibOfFile(x) \in inScan
    BY <1>1 DEF TInv, TypeOK, Scope, FoldersOf, LibOfFile
  <1>3. ASSUME NEW x \in lost, NEW a \in Album, a = AlbumFor(x, track[x])
        PROVE a \in touched'
    <2>1. CASE a \in touched
      BY <1>1, <2>1
    <2>2. CASE a \notin touched
      <3>1. x \in TracksOf(a)
        BY <1>3 DEF TracksOf, InDB
      <3>2. agg[a] = ToAlbum(a)
        BY <2>2, <3>1 DEF AInv, SettledFresh, Settled, Fresh
      <3>3. <<x, track[x], x \in missing>> \in agg[a]
        BY <3>1, <3>2 DEF ToAlbum
      <3> DEFINE t == <<x, track[x], x \in missing>>
      <3>4. t \in agg[a] /\ FolderOf[t[1]] \in lastUpdates
        BY <3>3
      <3> QED BY <1>1, <3>4
    <2> QED BY <2>1, <2>2
  <1>4. SettledFresh'
    <2> SUFFICES ASSUME NEW a \in Album, Settled(a)' PROVE Fresh(a)'
      BY DEF SettledFresh
    <2>1. a \notin touched' \/ a[1] \notin inScan
      BY <1>1 DEF Settled
    <2>2. Fresh(a)
      BY <1>1, <2>1 DEF AInv, SettledFresh, Settled
    <2>3. \A x \in TracksOf(a) : x \notin lost
      BY <1>2, <1>3, <2>1 DEF TracksOf, AlbumFor
    <2>4. \A x \in File : x \in TracksOf(a)' <=> x \in TracksOf(a)
      BY <1>1 DEF TracksOf
    <2> QED BY <1>1, <2>2, <2>3, <2>4, SameAlbum
  <1>5. Purged'
    <2> SUFFICES ASSUME PurgeMissing = "always", NEW x \in missing'
                 PROVE AlbumFor(x, track[x]) \in touched' /\ LibOfFile(x) \in inScan
      BY <1>1 DEF Purged
    <2>1. CASE x \in missing
      BY <1>1, <2>1 DEF AInv, Purged
    <2>2. CASE x \in lost
      <3>1. AlbumFor(x, track[x]) \in Album
        BY <2>2, AlbumForType DEF InDB, TInv, TypeOK
      <3> QED BY <1>2, <1>3, <2>2, <3>1
    <2> QED BY <1>1, <2>1, <2>2
  <1> QED BY <1>4, <1>5 DEF AInv

LEMMA AInvPurge ==
  ASSUME PurgeMissing # "full", TInv, AInv, PurgeMissingTracks PROVE AInv'
  <1>1. /\ UNCHANGED <<agg, touched, inScan>> /\ scan'.libs = scan.libs
        /\ pc = "missing" /\ pc' = "albums"
        /\ albumTodo' = touched \cap AlbumsOf(scan.libs)
    BY DEF PurgeMissingTracks, GetTouchedAlbums, albumVars, libVars, TInv, Shapes
  <1>2. CASE PurgeMissing = "always"
    <2>1. /\ track' = [x \in File |-> IF x \in missing THEN Absent ELSE track[x]]
          /\ missing' = {}
      BY <1>2 DEF PurgeMissingTracks
    <2>2. SettledFresh'
      <3> SUFFICES ASSUME NEW a \in Album, Settled(a)' PROVE Fresh(a)'
        BY DEF SettledFresh
      <3>1. a \notin touched \/ a[1] \notin inScan
        BY <1>1 DEF Settled, AlbumsOf
      <3>2. Fresh(a)
        BY <3>1 DEF AInv, SettledFresh, Settled
      <3>3. \A x \in TracksOf(a) : x \notin missing
        BY <1>2, <3>1 DEF AInv, Purged, TracksOf, AlbumFor
      <3>4. \A x \in File : x \in TracksOf(a)' <=> x \in TracksOf(a)
        BY <2>1, <3>3 DEF TracksOf
      <3>5. \A x \in TracksOf(a) : track'[x] = track[x]
        BY <2>1, <3>3 DEF TracksOf
      <3> QED BY <1>1, <2>1, <3>2, <3>3, <3>4, <3>5, SameAlbum
    <2>3. Purged'
      BY <2>1 DEF Purged
    <2> QED BY <2>2, <2>3 DEF AInv
  <1>3. CASE PurgeMissing # "always"
    <2>1. missing' = missing /\ track' = track
      BY <1>3 DEF PurgeMissingTracks, TInv, TypeOK
    <2>2. \A a \in Album : Settled(a)' => Settled(a)
      BY <1>1 DEF Settled, AlbumsOf
    <2>3. \A a \in Album : Fresh(a)' <=> Fresh(a)
      BY <1>1, <2>1 DEF Fresh, TracksOf, ToAlbum
    <2> QED BY <1>3, <2>2, <2>3 DEF AInv, SettledFresh, Purged
  <1> QED BY <1>2, <1>3

LEMMA AInvRefresh == ASSUME TInv, AInv, NEW b \in Album, RefreshAlbum(b) PROVE AInv'
  <1>1. /\ UNCHANGED <<track, missing, touched, inScan>> /\ scan'.libs = scan.libs
        /\ pc = "albums" /\ pc' = "albums"
        /\ albumTodo' = albumTodo \ {b}
        /\ agg' = IF TracksOf(b) # {} /\ agg[b] # ToAlbum(b)
                  THEN [agg EXCEPT ![b] = ToAlbum(b)] ELSE agg
    BY DEF RefreshAlbum, trackVars, libVars, TInv, Shapes
  <1>2. \A a \in Album : TracksOf(a)' = TracksOf(a) /\ ToAlbum(a)' = ToAlbum(a)
    BY <1>1 DEF TracksOf, ToAlbum
  <1>3. Fresh(b)'
    BY <1>1, <1>2 DEF Fresh, TInv, Shapes
  <1>4. \A a \in Album : a # b /\ Settled(a)' => Fresh(a)'
    <2> TAKE a \in Album
    <2> HAVE a # b /\ Settled(a)'
    <2>1. Settled(a)
      BY <1>1 DEF Settled
    <2>2. agg'[a] = agg[a]
      BY <1>1 DEF TInv, Shapes
    <2> QED BY <1>2, <2>1, <2>2 DEF AInv, SettledFresh, Fresh
  <1>5. Purged'
    BY <1>1 DEF AInv, Purged
  <1> QED BY <1>3, <1>4, <1>5 DEF AInv, SettledFresh

LEMMA AInvGC == ASSUME TInv, AInv, RunGC PROVE AInv'
  <1>1. /\ UNCHANGED <<track, missing, inScan, scan>> /\ pc = "gc" /\ pc' = "stats"
        /\ \A a \in Album : TracksOf(a) # {} =>
             agg'[a] = agg[a] /\ (a \in touched' <=> a \in touched)
    BY DEF RunGC, EmptyAlbums, trackVars, libVars
  <1>2. \A a \in Album : TracksOf(a)' = TracksOf(a) /\ ToAlbum(a)' = ToAlbum(a)
    BY <1>1 DEF TracksOf, ToAlbum
  <1>3. SettledFresh'
    BY <1>1, <1>2 DEF AInv, SettledFresh, Settled, Fresh
  <1>4. Purged'
    BY <1>1 DEF AInv, Purged
  <1> QED BY <1>3, <1>4 DEF AInv

LEMMA AInvUpdate == ASSUME TInv, AInv, RunUpdateLibraries PROVE AInv'
  <1>1. /\ UNCHANGED <<track, missing, agg>> /\ pc = "update" /\ pc' = "idle"
        /\ inScan' = inScan \ scan.libs /\ touched' = touched \ AlbumsOf(scan.libs)
    BY DEF RunUpdateLibraries, ScanEnd, Stop, trackVars
  <1>2. \A a \in Album : Fresh(a)' <=> Fresh(a)
    BY <1>1 DEF Fresh, TracksOf, ToAlbum
  <1>3. \A a \in Album : Settled(a)' => Settled(a)
    BY <1>1 DEF Settled, AlbumsOf
  <1>4. Purged'
    BY <1>1 DEF AInv, Purged
  <1> QED BY <1>2, <1>3, <1>4 DEF AInv, SettledFresh

LEMMA AInvStep ==
  ASSUME NoRetag, PurgeMissing # "full", TInv, AInv, [Next]_vars PROVE AInv'
  <1>1. CASE \/ \E f \in Folder : PersistChanges(f)
             \/ FinalizeFolders \/ PurgeMissingTracks
             \/ \E a \in Album : RefreshAlbum(a)
             \/ RunGC \/ RunUpdateLibraries
    BY <1>1, AInvPersist, AInvFinalize, AInvPurge, AInvRefresh, AInvGC, AInvUpdate
  <1>2. CASE \/ \E full \in BOOLEAN : \E targets \in Targets \cup {{}} : StartScan(full, targets)
             \/ \E jobs \in SUBSET Library : CreateJobs(jobs)
             \/ NoLibraries \/ CutScan
    <2>1. Quiet /\ UNCHANGED inScan /\ pc' \in {"idle", "prepare", "folders"}
      BY <1>2 DEF StartScan, CreateJobs, NoLibraries, CutScan, Stop, Quiet,
                  diskVars, trackVars, albumVars, libVars
    <2> QED BY <2>1, AInvQuiet DEF Quiet, Settled
  <1>3. CASE \E l \in Library : PrepareLibrary(l) \/ PrepareFails(l)
    <2>1. Quiet /\ inScan \subseteq inScan' /\ pc = "prepare" /\ pc' = "prepare"
      BY <1>3 DEF PrepareLibrary, PrepareFails, ScanBegin, Quiet,
                  diskVars, trackVars, albumVars, libVars
    <2> QED BY <2>1, AInvQuiet DEF Quiet, Settled
  <1>4. CASE \/ \E f \in Folder : WalkFolder(f) \/ SkipGoneFolder(f) \/ WalkFails(f)
             \/ \E f \in Folder : \E unreadable \in SUBSET FilesIn(f) : ProcessFolder(f, unreadable)
             \/ \E f \in Folder : \E walked \in SUBSET Folder : PersistFails(f, walked)
    <2>1. Quiet /\ UNCHANGED inScan /\ pc = "folders" /\ pc' = "folders"
      BY <1>4 DEF WalkFolder, SkipGoneFolder, WalkFails, ProcessFolder, PersistFails, Quiet,
                  diskVars, trackVars, albumVars, libVars
    <2> QED BY <2>1, AInvQuiet DEF Quiet, Settled
  <1>5. CASE EndOfAlbums \/ RunRefreshStats
    <2>1. /\ Quiet /\ UNCHANGED <<inScan, scan, albumTodo>>
          /\ \/ pc = "albums" /\ albumTodo = {} /\ pc' = "gc"
             \/ pc = "stats" /\ pc' = "update"
      BY <1>5 DEF EndOfAlbums, RunRefreshStats, Quiet, diskVars, trackVars, albumVars, libVars
    <2> QED BY <2>1, AInvQuiet DEF Quiet, Settled
  <1>6. CASE Edits \/ UNCHANGED vars
    <2>1. /\ UNCHANGED <<track, missing, agg, touched, inScan, pc, scan, albumTodo>>
      BY <1>6 DEF Edits, WriteFile, RemoveFile, RemoveFolder, vars,
                  trackVars, albumVars, libVars, scanVars
    <2>2. \A a \in Album : (Settled(a)' <=> Settled(a)) /\ (Fresh(a)' <=> Fresh(a))
      BY <2>1 DEF Settled, Fresh, TracksOf, ToAlbum
    <2> QED BY <2>1, <2>2 DEF AInv, SettledFresh, Purged
  <1> QED BY <1>1, <1>2, <1>3, <1>4, <1>5, <1>6 DEF Next, ScanStep, Faults

\* However scans are cut short, resumed, aimed at single folders or raced by
\* changes to the disk: outside a scan of its library an album row is exactly the
\* aggregate of the album's tracks.
THEOREM AlbumsFreshCorrect ==
  ASSUME NoRetag, PurgeMissing # "full"
  PROVE  Spec => []AlbumsFresh
  <1>1. Init => TInv /\ AInv
    <2>1. Init => AInv
      BY DEF Init, AInv, Purged, SettledFresh, Fresh, TracksOf
    <2> QED BY <2>1, TInvInit
  <1>2. (TInv /\ AInv) /\ [Next]_vars => (TInv /\ AInv)'
    BY TInvStep, AInvStep
  <1>3. TInv /\ AInv => AlbumsFresh
    BY DEF AInv, SettledFresh, Settled, Fresh, AlbumsFresh
  <1> QED BY <1>1, <1>2, <1>3, PTL DEF Spec
-----------------------------------------------------------------------------
(* A scan against the disk.  What a completed scan leaves behind rests on  *)
(* four things that hold through every interruption: the contents that the *)
(* rows and the pipeline know are older than what is written later, so a   *)
(* folder that changed never looks unchanged again (Times); a folder row's *)
(* hash is that of the rows of its files (RowsMatch, or none of them is    *)
(* live, Unknown); folders saved since a full scan began are exact         *)
(* (Exact); and each folder a job has passed is settled, in the pipeline,  *)
(* or already as it should be (Passed).                                    *)

Known(f) == folderRow[f] # NoRow /\ ~folderRow[f].missing
Lost(x) == ~InDB(x) \/ x \in missing
Live(x) == InDB(x) /\ x \notin missing
InPipe(f) == entry[f].st # "none"

\* c is what x holds, or held before it was last written or removed.
Past(x, c) ==
  /\ ModTime[c] <= newest[x]
  /\ disk[x] # Absent /\ ModTime[c] = newest[x] => HashOf[c] = HashOf[disk[x]]

Times ==
  /\ newest \in [File -> Nat]
  /\ \A x \in File : disk[x] # Absent => ModTime[disk[x]] = newest[x]
  /\ \A x \in File : InDB(x) => Past(x, track[x])
  /\ \A f \in Folder : entry[f].st = "read" =>
       \A x \in DOMAIN entry[f].tags : Past(x, entry[f].tags[x])
  /\ \A f \in Folder : InPipe(f) =>
       \A x \in Seen(f) : \E c \in Content : HashOf[c] = entry[f].seen[x] /\ Past(x, c)

\* The folder changed after the walk, and no later change can undo it.
Stale(f) ==
  \E x \in Seen(f) : disk[x] = Absent \/ HashOf[disk[x]] # entry[f].seen[x]

\* What the row of x says under the hash h of its folder.
Match(x, h) ==
  IF h[x] = Absent THEN Lost(x) ELSE Live(x) /\ HashOf[track[x]] = h[x]

\* The same of what persistChanges is about to write.
WillMatch(f, x) ==
  LET e == entry[f]
  IN IF x \in DOMAIN e.tags THEN HashOf[e.tags[x]] = e.seen[x]
     ELSE IF e.seen[x] = Absent THEN Lost(x) \/ x \in e.gone
     ELSE Live(x) /\ HashOf[track[x]] = e.seen[x]

Stages ==
  /\ folderRow = [f \in Folder |-> folderRow[f]]
  /\ \A f \in Folder : folderRow[f] \in FolderRow(f) \cup {NoRow}
  /\ \A f \in Folder : InPipe(f) => entry[f].seen \in FolderHash(f)
  /\ \A f \in Folder : entry[f].st = "read" =>
       /\ DOMAIN entry[f].tags \subseteq Seen(f)
       /\ entry[f].gone \cap Seen(f) = {}
  /\ pc # "folders" => todo = {} /\ lastUpdates = {}
  /\ pc # "idle" => scan.jobs \subseteq scan.libs
  /\ pc = "prepare" => scan.jobs = {}
  /\ pc # "idle" /\ scan.libs \cap fullFlag # {} => scan.full

\* Folders still to be walked are as the job found them; those not found were gone.
Awaited ==
  pc = "folders" =>
    /\ \A f \in todo : ~InPipe(f) /\ (f \in lastUpdates <=> Known(f))
    /\ \A f \in lastUpdates : Known(f)
    /\ \A f \in lastUpdates \ todo : f \notin dir \/ f \in unsettled

\* What was seen of a settled folder is still so.
SeenHolds == \A f \in Folder : InPipe(f) => f \in unsettled \/ entry[f].seen = Stat(f)

ReadMatches ==
  \A f \in Folder : entry[f].st = "read" =>
    Stale(f) \/ \A x \in FilesIn(f) : x \in misread \ DOMAIN entry[f].tags \/ WillMatch(f, x)

RowsMatch ==
  \A f \in Folder : Known(f) /\ folderRow[f].hash # Mixed =>
    \A x \in FilesIn(f) : x \in misread \/ Match(x, folderRow[f].hash)

Unknown == \A f \in Folder : ~Known(f) => \A x \in FilesIn(f) : Lost(x)

\* A full scan reads every file.
ReadExact ==
  \A f \in Folder : entry[f].st = "read" /\ scan.full /\ f \notin unsettled =>
    \A x \in FilesIn(f) : \/ disk[x] = Absent \/ x \in misread \ DOMAIN entry[f].tags
                          \/ x \in DOMAIN entry[f].tags /\ entry[f].tags[x] = disk[x]

Exact ==
  \A f \in fresh \ unsettled : LibOf[f] \in fullFlag =>
    \A x \in FilesIn(f) : disk[x] = Absent \/ x \in misread \/ (Live(x) /\ track[x] = disk[x])

Walking == pc \in {"folders", "missing", "albums", "gc", "stats", "update"}
ScopeOf == {f \in FoldersOf(scan.jobs) : scan.selective => f \in scan.targets}

Passed ==
  Walking => \A f \in ScopeOf \ todo :
    \/ f \in unsettled \/ InPipe(f)
    \/ f \in lastUpdates /\ f \notin dir
    \/ \A x \in FilesIn(f) : x \in misread \/ Mirrors(x)

\* A full scan has every folder it passed saved.
PassedFresh ==
  Walking /\ scan.full => \A f \in (ScopeOf \ todo) \cap dir :
    f \in unsettled \cup fresh \/ InPipe(f)

DInv == /\ Times /\ Stages /\ Awaited /\ SeenHolds /\ ReadMatches /\ RowsMatch /\ Unknown
        /\ ReadExact /\ Exact /\ Passed /\ PassedFresh

LEMMA StatShape == ASSUME TypeOK, NEW f \in Folder PROVE Stat(f) \in FolderHash(f) /\ Stat(f) # Mixed
  <1>1. Stat(f) \in FolderHash(f)
    BY DEF Stat, FolderHash, FilesIn, TypeOK
  <1> QED BY <1>1, RowAssumption

\* What stat shows of a file, and what it does not.
LEMMA StatOf == \A f \in Folder : \A x \in FilesIn(f) :
                  Stat(f)[x] = IF disk[x] = Absent THEN Absent ELSE HashOf[disk[x]]
  BY DEF Stat

LEMMA StatAbsent == ASSUME TypeOK, NEW f \in Folder, NEW x \in FilesIn(f)
                    PROVE  Stat(f)[x] = Absent <=> disk[x] = Absent
  BY StatOf, StatAssumption DEF TypeOK, FilesIn

LEMMA StaleDiffers == ASSUME NEW f \in Folder, Stale(f), InPipe(f) PROVE Stat(f) # entry[f].seen
  BY StatOf DEF Stale, Seen

LEMMA DInvInit == Init => DInv
  <1> SUFFICES ASSUME Init PROVE DInv
    OBVIOUS
  <1>1. \A f \in Folder : ~InPipe(f) /\ ~Known(f) /\ entry[f].st # "read"
    BY DEF Init, InPipe, NoEntry, Known
  <1>2. \A x \in File : Lost(x) /\ ~InDB(x)
    BY DEF Init, Lost, InDB
  <1>3. Times
    BY <1>1, <1>2, ShapeAssumption DEF Times, Init
  <1>4. Stages
    BY <1>1 DEF Init, Stages, NoScan
  <1>5. Awaited /\ Passed /\ PassedFresh
    BY DEF Init, Awaited, Passed, PassedFresh, Walking
  <1>6. SeenHolds /\ ReadMatches /\ ReadExact
    BY <1>1 DEF SeenHolds, ReadMatches, ReadExact
  <1>7. RowsMatch /\ Unknown
    BY <1>1, <1>2 DEF RowsMatch, Unknown, FilesIn
  <1>8. Exact
    BY DEF Init, Exact
  <1> QED BY <1>3, <1>4, <1>5, <1>6, <1>7, <1>8 DEF DInv

\* What a change to the disk may do to a file.
Written(x) ==
  \/ disk'[x] = disk[x] /\ newest'[x] = newest[x]
  \/ disk'[x] = Absent /\ newest'[x] = newest[x]
  \/ /\ disk'[x] \in Content /\ newest'[x] = ModTime[disk'[x]]
     /\ \/ newest'[x] > newest[x]
        \/ disk[x] # Absent /\ HashOf[disk'[x]] = HashOf[disk[x]] /\ newest'[x] = newest[x]

LEMMA EditShape ==
  ASSUME TInv, DInv, Edits
  PROVE  /\ UNCHANGED <<folderVars, trackVars, libVars, scanVars, misread>>
         /\ newest' \in [File -> Nat]
         /\ \A x \in File : Written(x)
         /\ unsettled \subseteq unsettled'
         /\ \A x \in File : FolderOf[x] \notin unsettled' => disk'[x] = disk[x]
         /\ \A f \in Folder : f \notin unsettled' => (f \in dir' <=> f \in dir)
  <1>1. UNCHANGED <<folderVars, trackVars, libVars, scanVars, misread>> /\ unsettled \subseteq unsettled'
    BY DEF Edits, WriteFile, RemoveFile, RemoveFolder
  <1> DEFINE G == /\ newest' \in [File -> Nat]
                  /\ \A x \in File : Written(x)
                  /\ \A x \in File : FolderOf[x] \notin unsettled' => disk'[x] = disk[x]
                  /\ \A f \in Folder : f \notin unsettled' => (f \in dir' <=> f \in dir)
  <1>2. disk \in [File -> Content \cup {Absent}] /\ newest \in [File -> Nat]
    BY DEF TInv, TypeOK, DInv, Times
  <1>3. ASSUME NEW x \in File, NEW c \in Content, WriteFile(x, c) PROVE G
    <2>1. /\ disk' = [disk EXCEPT ![x] = c] /\ newest' = [newest EXCEPT ![x] = ModTime[c]]
          /\ dir' = dir \cup {FolderOf[x]} /\ unsettled' = unsettled \cup {FolderOf[x]}
          /\ ModTime[c] > newest[x] \/ (disk[x] # Absent /\ HashOf[disk[x]] = HashOf[c])
      BY <1>3 DEF WriteFile
    <2>2. ModTime[c] \in Nat
      BY ShapeAssumption
    <2>3. disk[x] # Absent /\ HashOf[disk[x]] = HashOf[c] => ModTime[c] = newest[x]
      BY <1>2, StatAssumption DEF DInv, Times
    <2>4. Written(x)
      BY <1>2, <2>1, <2>3 DEF Written
    <2>5. \A y \in File \ {x} : disk'[y] = disk[y] /\ newest'[y] = newest[y]
      BY <1>2, <2>1
    <2>6. \A y \in File : Written(y)
      BY <2>4, <2>5 DEF Written
    <2>7. newest' \in [File -> Nat]
      BY <1>2, <2>1, <2>2
    <2> QED BY <2>1, <2>5, <2>6, <2>7
  <1>4. ASSUME NEW x \in File, RemoveFile(x) PROVE G
    BY <1>2, <1>4 DEF RemoveFile, Written
  <1>5. ASSUME NEW f \in Folder, RemoveFolder(f) PROVE G
    BY <1>2, <1>5 DEF RemoveFolder, Written
  <1> QED BY <1>1, <1>3, <1>4, <1>5 DEF Edits

LEMMA PastKept ==
  ASSUME NEW x \in File, NEW c \in Content, newest[x] \in Nat, newest'[x] \in Nat, Written(x), Past(x, c)
  PROVE  Past(x, c)'
  <1>1. ModTime[c] \in Nat
    BY ShapeAssumption
  <1> QED BY <1>1 DEF Past, Written

\* Once changed, always changed: a later write brings a later time.
LEMMA StaleKept ==
  ASSUME DInv, NEW f \in Folder, InPipe(f), entry'[f] = entry[f], newest' \in [File -> Nat],
         \A x \in File : Written(x), Stale(f)
  PROVE  Stale(f)'
  <1>1. PICK x \in Seen(f) : disk[x] = Absent \/ HashOf[disk[x]] # entry[f].seen[x]
    BY DEF Stale
  <1>2. PICK c \in Content : HashOf[c] = entry[f].seen[x] /\ Past(x, c)
    BY DEF DInv, Times
  <1>3. x \in File /\ newest[x] \in Nat /\ newest'[x] \in Nat /\ ModTime[c] \in Nat
    BY ShapeAssumption DEF DInv, Times, Seen, FilesIn
  <1>4. disk'[x] = Absent \/ HashOf[disk'[x]] # entry[f].seen[x]
    <2> SUFFICES ASSUME disk'[x] # Absent, HashOf[disk'[x]] = HashOf[c] PROVE FALSE
      BY <1>2
    <2>1. CASE disk'[x] \in Content /\ newest'[x] = ModTime[disk'[x]] /\ newest'[x] > newest[x]
      <3>1. ModTime[disk'[x]] = ModTime[c]
        BY <2>1, StatAssumption
      <3> QED BY <1>2, <1>3, <2>1, <3>1 DEF Past
    <2>2. CASE disk'[x] = disk[x]
      BY <1>1, <1>2, <2>2
    <2>3. CASE disk[x] # Absent /\ HashOf[disk'[x]] = HashOf[disk[x]]
      BY <1>1, <1>2, <2>3
    <2> QED BY <1>3, <2>1, <2>2, <2>3 DEF Written
  <1> QED BY <1>4 DEF Stale, Seen

LEMMA DInvEdits == TInv /\ DInv /\ Edits => DInv'
  <1> SUFFICES ASSUME TInv, DInv, Edits PROVE DInv'
    OBVIOUS
  <1>1. /\ UNCHANGED <<folderRow, fresh, track, missing, inScan, fullFlag, pc, scan, todo,
                       lastUpdates, entry, misread>>
        /\ newest' \in [File -> Nat] /\ unsettled \subseteq unsettled'
        /\ \A x \in File : Written(x)
        /\ \A x \in File : FolderOf[x] \notin unsettled' => disk'[x] = disk[x]
        /\ \A f \in Folder : f \notin unsettled' => (f \in dir' <=> f \in dir)
    BY EditShape DEF folderVars, trackVars, libVars, scanVars
  <1>2. Times'
    <2>1. newest \in [File -> Nat] /\ \A x \in File : disk[x] # Absent => ModTime[disk[x]] = newest[x]
      BY DEF DInv, Times
    <2> DEFINE Then(x, c) == /\ ModTime[c] <= newest'[x]
                             /\ disk'[x] # Absent /\ ModTime[c] = newest'[x] => HashOf[c] = HashOf[disk'[x]]
    <2>2. ASSUME NEW x \in File, NEW c \in Content, Past(x, c) PROVE Then(x, c)
      <3>1. Past(x, c)'
        BY <1>1, <2>1, <2>2, PastKept
      <3> QED BY <3>1 DEF Past
    <2> HIDE DEF Then
    <2>3. \A x \in File : disk'[x] # Absent => ModTime[disk'[x]] = newest'[x]
      BY <1>1, <2>1 DEF Written
    <2>4. \A x \in File : track[x] # Absent => Then(x, track[x])
      BY <2>2 DEF DInv, Times, InDB, TInv, TypeOK
    <2>5. \A f \in Folder : entry[f].st = "read" =>
            \A x \in DOMAIN entry[f].tags : Then(x, entry[f].tags[x])
      BY <2>2 DEF DInv, Times, TInv, Pipeline, FilesIn
    <2>6. \A f \in Folder : InPipe(f) =>
            \A x \in Seen(f) : \E c \in Content : HashOf[c] = entry[f].seen[x] /\ Then(x, c)
      BY <2>2 DEF DInv, Times, Seen, FilesIn
    <2> QED BY <1>1, <2>3, <2>4, <2>5, <2>6 DEF Times, Past, Then, InPipe, InDB, Seen
  <1>3. \A f \in Folder : f \notin unsettled' => Stat(f)' = Stat(f)
    BY <1>1 DEF Stat, FilesIn
  <1>4. Stages'
    BY <1>1 DEF DInv, Stages, InPipe, Seen
  <1>5. Awaited' /\ SeenHolds'
    <2>1. pc = "folders" => todo \cup lastUpdates \subseteq Folder
      BY DEF TInv, Scope, FoldersOf
    <2>2. Awaited'
      BY <1>1, <2>1 DEF DInv, Awaited, InPipe, Known
    <2>3. SeenHolds'
      BY <1>1, <1>3 DEF DInv, SeenHolds, InPipe
    <2> QED BY <2>2, <2>3
  <1>6. ReadMatches'
    <2>1. \A f \in Folder : InPipe(f) /\ Stale(f) => Stale(f)'
      BY <1>1, StaleKept
    <2>2. \A f \in Folder : \A x \in FilesIn(f) : WillMatch(f, x)' <=> WillMatch(f, x)
      BY <1>1 DEF WillMatch, Lost, Live, InDB
    <2> QED BY <1>1, <2>1, <2>2 DEF DInv, ReadMatches, InPipe
  <1>7. RowsMatch' /\ Unknown'
    BY <1>1 DEF DInv, RowsMatch, Unknown, Known, Match, Lost, Live, InDB
  <1>8. ReadExact'
    BY <1>1 DEF DInv, ReadExact, FilesIn
  <1>9. Exact'
    BY <1>1 DEF DInv, Exact, FilesIn, Live, InDB, TInv, TypeOK
  <1>10. Passed'
    <2>1. \A f \in Folder : f \notin unsettled' => \A x \in FilesIn(f) : Mirrors(x)' <=> Mirrors(x)
      BY <1>1 DEF FilesIn, Mirrors, InDB
    <2>2. ScopeOf' = ScopeOf /\ ScopeOf \subseteq Folder
      BY <1>1 DEF ScopeOf, FoldersOf
    <2> QED BY <1>1, <2>1, <2>2 DEF DInv, Passed, Walking, InPipe
  <1>11. PassedFresh'
    <2>1. ScopeOf' = ScopeOf /\ ScopeOf \subseteq Folder
      BY <1>1 DEF ScopeOf, FoldersOf
    <2> QED BY <1>1, <2>1 DEF DInv, PassedFresh, Walking, InPipe
  <1> QED BY <1>2, <1>4, <1>5, <1>6, <1>7, <1>8, <1>9, <1>10, <1>11 DEF DInv

\* Nothing is in the pipeline but in phase 1.
LEMMA NoPipe == ASSUME TInv, pc # "folders" PROVE \A f \in Folder : ~InPipe(f)
  BY DEF TInv, Scope, InPipe

LEMMA OutsideKeeps ==
  ASSUME TInv, DInv, UNCHANGED <<disk, newest>>, pc' # "folders", \A f \in Folder : ~InPipe(f)',
         \A x \in File : track'[x] \in {track[x], Absent},
         Stages', RowsMatch', Unknown', Exact', Passed', PassedFresh'
  PROVE  DInv'
  <1>1. Times'
    BY DEF DInv, Times, InPipe, InDB, Past
  <1>2. Awaited' /\ SeenHolds' /\ ReadMatches' /\ ReadExact'
    BY DEF Awaited, SeenHolds, ReadMatches, ReadExact, InPipe
  <1> QED BY <1>1, <1>2 DEF DInv

LEMMA RowsKept ==
  ASSUME DInv, UNCHANGED <<folderRow, track, missing, misread>>
  PROVE  RowsMatch' /\ Unknown'
  BY DEF DInv, RowsMatch, Unknown, Known, Match, Lost, Live, InDB

\* Steps before the jobs exist, and the end of a scan.
LEMMA BeginKeeps ==
  ASSUME TInv, DInv, UNCHANGED <<diskVars, folderRow, trackVars, misread>>,
         pc' \in {"idle", "prepare"}, \A f \in Folder : ~InPipe(f)', Stages', Exact'
  PROVE  DInv'
  <1>1. Passed' /\ PassedFresh'
    BY DEF Passed, PassedFresh, Walking
  <1>2. RowsMatch' /\ Unknown'
    BY RowsKept DEF trackVars
  <1> QED BY <1>1, <1>2, OutsideKeeps DEF diskVars, trackVars

LEMMA ExactKept ==
  ASSUME DInv, UNCHANGED <<disk, fresh, track, missing, unsettled, misread>>, fullFlag' \subseteq fullFlag
  PROVE  Exact'
  BY DEF DInv, Exact, Live, InDB

LEMMA DInvBegin ==
  ASSUME TInv, DInv, \/ \E full \in BOOLEAN : \E targets \in Targets \cup {{}} : StartScan(full, targets)
                     \/ \E l \in Library : PrepareLibrary(l) \/ PrepareFails(l)
                     \/ NoLibraries \/ CutScan \/ RunUpdateLibraries
  PROVE  DInv'
  <1>1. ASSUME NEW full \in BOOLEAN, NEW targets \in Targets \cup {{}}, StartScan(full, targets)
        PROVE DInv'
    <2>1. /\ UNCHANGED <<diskVars, folderVars, trackVars, libVars, todo, lastUpdates, entry, ghostVars>>
          /\ pc = "idle" /\ pc' = "prepare" /\ scan'.jobs = {}
          /\ scan'.libs \cap fullFlag # {} => scan'.full
      BY <1>1 DEF StartScan
    <2>2. Stages'
      BY <2>1 DEF DInv, Stages, InPipe, Seen, folderVars, libVars
    <2>3. Exact' /\ \A f \in Folder : ~InPipe(f)'
      BY <2>1, ExactKept, NoPipe DEF InPipe, diskVars, folderVars, trackVars, libVars, ghostVars
    <2> QED BY <2>1, <2>2, <2>3, BeginKeeps DEF folderVars, ghostVars
  <1>2. ASSUME NEW l \in Library, PrepareLibrary(l) PROVE DInv'
    <2>1. /\ UNCHANGED <<diskVars, folderRow, trackVars, todo, lastUpdates, entry, misread, pc>>
          /\ pc = "prepare" /\ scan' = [scan EXCEPT !.toPrepare = @ \ {l}]
          /\ \/ UNCHANGED <<fullFlag, fresh, unsettled>>
             \/ /\ fullFlag' = IF scan.full THEN fullFlag \cup {l} ELSE fullFlag \ {l}
                /\ fresh' = fresh \ FoldersOf({l})
                /\ unsettled' = unsettled \ FoldersOf({l})
      BY <1>2 DEF PrepareLibrary, libVars, ScanBegin
    <2>2. scan'.libs = scan.libs /\ scan'.jobs = scan.jobs /\ scan'.full = scan.full
      BY <2>1 DEF TInv, Shapes
    <2>3. Stages'
      BY <2>1, <2>2 DEF DInv, Stages, InPipe, Seen
    <2>4. Exact'
      <3>1. fresh \subseteq Folder
        BY DEF TInv, TypeOK
      <3>2. \A f \in fresh' \ unsettled' : LibOf[f] \in fullFlag' => f \in fresh \ unsettled /\ LibOf[f] \in fullFlag
        BY <2>1, <3>1 DEF FoldersOf
      <3> QED BY <2>1, <3>2 DEF DInv, Exact, Live, InDB, diskVars, trackVars
    <2>5. \A f \in Folder : ~InPipe(f)'
      BY <2>1, NoPipe DEF InPipe
    <2> QED BY <2>1, <2>3, <2>4, <2>5, BeginKeeps
  <1>3. ASSUME NEW l \in Library, PrepareFails(l) PROVE DInv'
    <2>1. /\ UNCHANGED <<diskVars, folderVars, trackVars, libVars, todo, lastUpdates, entry, ghostVars, pc>>
          /\ pc = "prepare" /\ scan' = [scan EXCEPT !.toPrepare = @ \ {l}, !.libs = @ \ {l}]
      BY <1>3 DEF PrepareFails
    <2>2. scan'.libs \subseteq scan.libs /\ scan'.jobs = scan.jobs /\ scan'.full = scan.full
      BY <2>1 DEF TInv, Shapes
    <2>3. Stages'
      BY <2>1, <2>2 DEF DInv, Stages, InPipe, Seen, folderVars, libVars
    <2>4. Exact' /\ \A f \in Folder : ~InPipe(f)'
      BY <2>1, ExactKept, NoPipe DEF InPipe, diskVars, folderVars, trackVars, libVars, ghostVars
    <2> QED BY <2>1, <2>3, <2>4, BeginKeeps DEF folderVars, ghostVars
  <1>4. CASE NoLibraries \/ CutScan \/ RunUpdateLibraries
    <2>1. /\ UNCHANGED <<diskVars, folderVars, trackVars, unsettled, misread>>
          /\ fullFlag' \subseteq fullFlag /\ Stop
      BY <1>4 DEF NoLibraries, CutScan, RunUpdateLibraries, ScanEnd, libVars, ghostVars
    <2>2. \A f \in Folder : ~InPipe(f)' /\ entry'[f].st # "read"
      BY <2>1 DEF Stop, InPipe, NoEntry
    <2>3. Stages'
      BY <2>1, <2>2 DEF Stop, DInv, Stages, folderVars
    <2>4. Exact'
      BY <2>1, ExactKept DEF diskVars, folderVars, trackVars
    <2> QED BY <2>1, <2>2, <2>3, <2>4, BeginKeeps DEF Stop, folderVars
  <1> QED BY <1>1, <1>2, <1>3, <1>4

LEMMA DInvJobs == ASSUME TInv, DInv, NEW jobs \in SUBSET Library, CreateJobs(jobs) PROVE DInv'
  <1>1. /\ UNCHANGED <<diskVars, folderVars, trackVars, libVars, entry, misread>>
        /\ pc = "prepare" /\ pc' = "folders" /\ jobs \subseteq scan.libs
        /\ scan' = [scan EXCEPT !.jobs = jobs] /\ unsettled \subseteq unsettled'
        /\ todo' = {f \in FoldersOf(jobs) : scan.selective => f \in scan.targets}
        /\ lastUpdates' = GetFolderUpdateInfo(todo')
    BY DEF CreateJobs
  <1>2. /\ scan'.libs = scan.libs /\ scan'.jobs = jobs /\ scan'.full = scan.full
        /\ scan'.selective = scan.selective /\ scan'.targets = scan.targets
    BY <1>1 DEF TInv, Shapes
  <1>3. \A f \in Folder : ~InPipe(f) /\ ~InPipe(f)' /\ entry'[f].st # "read"
    BY <1>1, NoPipe DEF InPipe
  <1>4. ScopeOf' \ todo' = {}
    BY <1>1, <1>2 DEF ScopeOf, FoldersOf
  <1>5. Times'
    BY <1>1, <1>3 DEF DInv, Times, InPipe, InDB, Past, diskVars, trackVars
  <1>6. Stages'
    BY <1>1, <1>2, <1>3 DEF DInv, Stages, folderVars, libVars
  <1>7. Awaited'
    BY <1>1, <1>3 DEF Awaited, GetFolderUpdateInfo, Known, FoldersOf, folderVars
  <1>8. SeenHolds' /\ ReadMatches' /\ ReadExact'
    BY <1>3 DEF SeenHolds, ReadMatches, ReadExact
  <1>9. RowsMatch' /\ Unknown'
    BY <1>1, RowsKept DEF folderVars, trackVars
  <1>10. Exact'
    BY <1>1 DEF DInv, Exact, Live, InDB, diskVars, folderVars, trackVars, libVars
  <1>11. Passed' /\ PassedFresh'
    BY <1>4 DEF Passed, PassedFresh
  <1> QED BY <1>5, <1>6, <1>7, <1>8, <1>9, <1>10, <1>11 DEF DInv

\* The phases after the first.
LEMMA DInvLate ==
  ASSUME TInv, DInv, \/ \E a \in Album : RefreshAlbum(a)
                     \/ EndOfAlbums \/ RunRefreshStats
  PROVE  DInv'
  <1>1. /\ UNCHANGED <<diskVars, folderVars, trackVars, libVars, todo, lastUpdates, entry, ghostVars>>
        /\ pc \in {"albums", "stats"} /\ pc' \in {"albums", "gc", "update"}
        /\ scan' = scan \/ \E b : scan' = [scan EXCEPT !.changes = b]
    BY DEF RefreshAlbum, EndOfAlbums, RunRefreshStats
  <1>2. /\ scan'.libs = scan.libs /\ scan'.jobs = scan.jobs /\ scan'.full = scan.full
        /\ scan'.selective = scan.selective /\ scan'.targets = scan.targets
    BY <1>1 DEF TInv, Shapes
  <1>3. \A f \in Folder : ~InPipe(f) /\ ~InPipe(f)'
    BY <1>1, NoPipe DEF InPipe
  <1>4. Stages'
    BY <1>1, <1>2, <1>3 DEF DInv, Stages, InPipe, folderVars, libVars
  <1>5. Exact'
    BY <1>1, ExactKept DEF diskVars, folderVars, trackVars, libVars, ghostVars
  <1>6. Passed' /\ PassedFresh'
    BY <1>1, <1>2 DEF DInv, Passed, PassedFresh, Walking, ScopeOf, Mirrors, InDB, InPipe,
                      diskVars, folderVars, trackVars, libVars, ghostVars
  <1>7. RowsMatch' /\ Unknown'
    BY <1>1, RowsKept DEF folderVars, trackVars, ghostVars
  <1> QED BY <1>1, <1>3, <1>4, <1>5, <1>6, <1>7, OutsideKeeps DEF diskVars, trackVars

LEMMA DInvPurge == ASSUME TInv, DInv, PurgeMissingTracks PROVE DInv'
  <1>1. PICK deleted \in SUBSET missing :
          /\ track' = [x \in File |-> IF x \in deleted THEN Absent ELSE track[x]]
          /\ missing' = missing \ deleted
    <2>1. /\ track' = [x \in File |-> IF x \in missing THEN Absent ELSE track[x]] /\ missing' = missing \ missing
          \/ /\ track' = [x \in File |-> IF x \in {} THEN Absent ELSE track[x]] /\ missing' = missing \ {}
      BY DEF PurgeMissingTracks
    <2> QED BY <2>1
  <1>2. /\ UNCHANGED <<diskVars, folderVars, libVars, todo, lastUpdates, entry, ghostVars>>
        /\ pc = "missing" /\ pc' = "albums" /\ \E b : scan' = [scan EXCEPT !.changes = b]
    BY DEF PurgeMissingTracks
  <1>3. /\ scan'.libs = scan.libs /\ scan'.jobs = scan.jobs /\ scan'.full = scan.full
        /\ scan'.selective = scan.selective /\ scan'.targets = scan.targets
    BY <1>2 DEF TInv, Shapes
  <1>4. \A f \in Folder : ~InPipe(f) /\ ~InPipe(f)'
    BY <1>2, NoPipe DEF InPipe
  <1>5. Stages'
    BY <1>2, <1>3, <1>4 DEF DInv, Stages, InPipe, folderVars, libVars
  <1>6. \A x \in File : /\ Live(x) => Live(x)' /\ track'[x] = track[x]
                        /\ Lost(x) => Lost(x)'
    BY <1>1 DEF Live, Lost, InDB
  <1>7. \A x \in File : Mirrors(x) => Mirrors(x)'
    BY <1>2, <1>6 DEF Mirrors, Live, Lost, diskVars, libVars
  <1>8. RowsMatch' /\ Unknown'
    BY <1>2, <1>6 DEF DInv, RowsMatch, Unknown, Known, Match, FilesIn, folderVars, ghostVars
  <1>9. Exact'
    BY <1>2, <1>6 DEF DInv, Exact, FilesIn, diskVars, folderVars, libVars, ghostVars
  <1>10. Passed' /\ PassedFresh'
    BY <1>2, <1>3, <1>7 DEF DInv, Passed, PassedFresh, Walking, ScopeOf, InPipe, FilesIn,
                            diskVars, folderVars, ghostVars
  <1>11. \A x \in File : track'[x] \in {track[x], Absent}
    BY <1>1
  <1> QED BY <1>2, <1>4, <1>5, <1>8, <1>9, <1>10, <1>11, OutsideKeeps DEF diskVars

LEMMA DInvGC == ASSUME TInv, DInv, RunGC PROVE DInv'
  <1>1. /\ UNCHANGED <<diskVars, fresh, trackVars, libVars, scan, todo, lastUpdates, entry, ghostVars>>
        /\ pc = "gc" /\ pc' = "stats"
    BY DEF RunGC
  <1>2. /\ folderRow' = [f \in Folder |-> folderRow'[f]]
        /\ \A f \in Folder : \/ folderRow'[f] = folderRow[f]
                             \/ folderRow'[f] = NoRow /\ \A x \in FilesIn(f) : ~InDB(x)
    <2>1. folderRow = [f \in Folder |-> folderRow[f]]
      BY DEF DInv, Stages
    <2> QED BY <2>1 DEF RunGC, EmptyFolders
  <1>3. \A f \in Folder : ~InPipe(f) /\ ~InPipe(f)'
    BY <1>1, NoPipe DEF InPipe
  <1>4. Stages'
    BY <1>1, <1>2, <1>3 DEF DInv, Stages, InPipe, libVars
  <1>5. RowsMatch' /\ Unknown'
    BY <1>1, <1>2 DEF DInv, RowsMatch, Unknown, Known, Match, Lost, Live, InDB, trackVars, ghostVars
  <1>6. Exact'
    BY <1>1, ExactKept DEF diskVars, trackVars, libVars, ghostVars
  <1>7. Passed' /\ PassedFresh'
    BY <1>1 DEF DInv, Passed, PassedFresh, Walking, ScopeOf, Mirrors, InDB, InPipe,
                diskVars, trackVars, libVars, ghostVars
  <1> QED BY <1>1, <1>3, <1>4, <1>5, <1>6, <1>7, OutsideKeeps DEF diskVars, trackVars

\* What is marked missing is gone, or unsettled.
LEMMA FinalizeLoses ==
  ASSUME TInv, DInv, FinalizeFolders
  PROVE  /\ todo = {} /\ pc = "folders" /\ lastUpdates \subseteq Folder
         /\ \A f \in lastUpdates : Known(f) /\ (f \notin dir \/ f \in unsettled)
         /\ missing' = missing \cup {x \in File : FolderOf[x] \in lastUpdates /\ InDB(x)}
         /\ folderRow' = [f \in Folder |-> IF f \in lastUpdates THEN [folderRow[f] EXCEPT !.missing = TRUE]
                                           ELSE folderRow[f]]
  <1>1. todo = {} /\ pc = "folders" /\ lastUpdates \subseteq Folder
    BY DEF FinalizeFolders, TInv, Scope, FoldersOf
  <1>2. \A f \in lastUpdates : Known(f) /\ (f \notin dir \/ f \in unsettled)
    BY <1>1 DEF DInv, Awaited
  <1>3. CASE lastUpdates = {}
    BY <1>1, <1>2, <1>3 DEF FinalizeFolders, DInv, Stages
  <1>4. CASE lastUpdates # {}
    BY <1>1, <1>2, <1>4 DEF FinalizeFolders, MarkMissing, MarkMissingByFolder
  <1> QED BY <1>3, <1>4

LEMMA DInvFinalize == ASSUME TInv, DInv, FinalizeFolders PROVE DInv'
  <1>1. /\ todo = {} /\ pc = "folders" /\ lastUpdates \subseteq Folder
        /\ \A f \in lastUpdates : Known(f) /\ (f \notin dir \/ f \in unsettled)
        /\ missing' = missing \cup {x \in File : FolderOf[x] \in lastUpdates /\ InDB(x)}
        /\ folderRow' = [f \in Folder |-> IF f \in lastUpdates THEN [folderRow[f] EXCEPT !.missing = TRUE]
                                          ELSE folderRow[f]]
    BY FinalizeLoses
  <1>2. /\ UNCHANGED <<disk, dir, newest, fresh, track, libVars, unsettled, misread>>
        /\ todo' = {} /\ lastUpdates' = {}
        /\ \/ pc' = "missing" /\ scan' = scan
           \/ pc' = "idle"
    BY <1>1 DEF FinalizeFolders, Stop, diskVars
  <1>3. \A f \in Folder : ~InPipe(f) /\ ~InPipe(f)'
    BY DEF FinalizeFolders, Stop, NoEntry, InPipe
  <1>4. /\ \A f \in Folder : f \notin lastUpdates => folderRow'[f] = folderRow[f]
        /\ \A f \in lastUpdates : folderRow'[f] \in FolderRow(f) /\ folderRow'[f].missing
    <2>1. \A f \in lastUpdates : folderRow[f] \in FolderRow(f)
      BY <1>1 DEF DInv, Stages, Known
    <2>2. \A f \in lastUpdates : folderRow'[f] = [folderRow[f] EXCEPT !.missing = TRUE]
      BY <1>1
    <2>3. ASSUME NEW f \in lastUpdates PROVE folderRow'[f] \in FolderRow(f) /\ folderRow'[f].missing
      BY <2>1, <2>2 DEF FolderRow
    <2> QED BY <1>1, <2>3
  <1>5. Stages'
    BY <1>1, <1>2, <1>3, <1>4 DEF DInv, Stages, InPipe, libVars
  <1>6. \A x \in File : /\ FolderOf[x] \in lastUpdates => Lost(x)'
                        /\ FolderOf[x] \notin lastUpdates => (Lost(x)' <=> Lost(x)) /\ (Live(x)' <=> Live(x))
    BY <1>1, <1>2 DEF Lost, Live, InDB
  <1>7. RowsMatch'
    <2> SUFFICES ASSUME NEW f \in Folder, Known(f)', folderRow'[f].hash # Mixed, NEW x \in FilesIn(f)
                 PROVE x \in misread \/ Match(x, folderRow[f].hash)'
      BY <1>2 DEF RowsMatch
    <2>1. f \notin lastUpdates /\ folderRow'[f] = folderRow[f]
      BY <1>4 DEF Known
    <2>2. x \in misread \/ Match(x, folderRow[f].hash)
      BY <2>1 DEF DInv, RowsMatch, Known
    <2> QED BY <1>2, <1>6, <2>1, <2>2 DEF Match, FilesIn
  <1>8. Unknown'
    <2> SUFFICES ASSUME NEW f \in Folder, ~Known(f)', NEW x \in FilesIn(f) PROVE Lost(x)'
      BY DEF Unknown
    <2>1. f \in lastUpdates \/ Lost(x)
      BY <1>4 DEF DInv, Unknown, Known
    <2> QED BY <1>6, <2>1 DEF FilesIn
  <1>9. \A x \in File : FolderOf[x] \in lastUpdates => disk[x] = Absent \/ FolderOf[x] \in unsettled
    BY <1>1 DEF TInv, TypeOK
  <1>10. Exact'
    <2>1. fresh \subseteq Folder
      BY DEF TInv, TypeOK
    <2> QED BY <1>2, <1>6, <1>9, <2>1 DEF DInv, Exact, FilesIn, libVars
  <1>11. Passed' /\ PassedFresh'
    <2>1. CASE pc' = "idle"
      BY <2>1 DEF Passed, PassedFresh, Walking
    <2>2. CASE pc' = "missing" /\ scan' = scan
      <3>1. ScopeOf' = ScopeOf /\ ScopeOf \subseteq Folder /\ Walking
        BY <1>1, <2>2 DEF ScopeOf, FoldersOf, Walking
      <3>2. \A x \in File : FolderOf[x] \in unsettled \/ ~Mirrors(x) \/ Mirrors(x)'
        BY <1>2, <1>6, <1>9 DEF Mirrors, Lost, Live, InDB, libVars
      <3>3. \A f \in lastUpdates : f \notin dir => \A x \in FilesIn(f) : Mirrors(x)'
        BY <1>2, <1>6 DEF Mirrors, Lost, FilesIn, TInv, TypeOK
      <3>4. Passed'
        BY <1>1, <1>2, <1>3, <3>1, <3>2, <3>3 DEF DInv, Passed, FilesIn
      <3>5. PassedFresh'
        BY <1>1, <1>2, <1>3, <2>2, <3>1 DEF DInv, PassedFresh
      <3> QED BY <3>4, <3>5
    <2> QED BY <1>2, <2>1, <2>2
  <1>12. \A x \in File : track'[x] \in {track[x], Absent}
    BY <1>2
  <1> QED BY <1>2, <1>3, <1>5, <1>7, <1>8, <1>10, <1>11, <1>12, OutsideKeeps

\* The walk comes to folder f.
LEMMA WalkShape ==
  ASSUME TInv, DInv, NEW f \in Folder, WalkFolder(f) \/ SkipGoneFolder(f) \/ WalkFails(f)
  PROVE  /\ UNCHANGED <<diskVars, folderVars, trackVars, libVars, pc, scan, misread>>
         /\ pc = "folders" /\ f \in todo /\ todo' = todo \ {f}
         /\ todo \subseteq Folder /\ lastUpdates \subseteq Folder
         /\ lastUpdates' \in {lastUpdates, lastUpdates \ {f}}
         /\ unsettled' \in {unsettled, unsettled \cup {f}}
         /\ entry' \in {entry, [entry EXCEPT ![f] = [st |-> "walked", seen |-> Stat(f)]]}
         /\ ~InPipe(f) /\ (f \in lastUpdates <=> Known(f))
  <1>1. /\ UNCHANGED <<diskVars, folderVars, trackVars, libVars, pc, scan, misread>>
        /\ pc = "folders" /\ f \in todo /\ todo' = todo \ {f}
        /\ lastUpdates' \in {lastUpdates, lastUpdates \ {f}}
        /\ unsettled' \in {unsettled, unsettled \cup {f}}
        /\ entry' \in {entry, [entry EXCEPT ![f] = [st |-> "walked", seen |-> Stat(f)]]}
    BY FirstIn DEF WalkFolder, SkipGoneFolder, WalkFails, PopLastUpdate, ghostVars
  <1>2. todo \subseteq Folder /\ lastUpdates \subseteq Folder
    BY <1>1 DEF TInv, Scope, FoldersOf
  <1> QED BY <1>1, <1>2 DEF DInv, Awaited

\* What the walk leaves of f: it is unsettled, in the pipeline, gone but known, or
\* as it should be.
WalkedPast(f) ==
  /\ f \in lastUpdates' => f \notin dir \/ f \in unsettled'
  /\ \/ f \in unsettled' \/ InPipe(f)'
     \/ f \in lastUpdates' /\ f \notin dir
     \/ \A x \in FilesIn(f) : x \in misread \/ Mirrors(x)
  /\ scan.full /\ f \in dir => f \in unsettled' \cup fresh \/ InPipe(f)'

LEMMA WalkKeeps ==
  ASSUME TInv, DInv, NEW f \in Folder, WalkFolder(f) \/ SkipGoneFolder(f) \/ WalkFails(f), WalkedPast(f)
  PROVE  DInv'
  <1>1. /\ UNCHANGED <<disk, dir, newest, folderRow, fresh, track, missing, inScan, fullFlag, pc, scan, misread>>
        /\ pc = "folders" /\ f \in todo /\ todo' = todo \ {f}
        /\ todo \subseteq Folder /\ lastUpdates \subseteq Folder
        /\ lastUpdates' \in {lastUpdates, lastUpdates \ {f}}
        /\ unsettled' \in {unsettled, unsettled \cup {f}}
        /\ entry' \in {entry, [entry EXCEPT ![f] = [st |-> "walked", seen |-> Stat(f)]]}
        /\ ~InPipe(f) /\ (f \in lastUpdates <=> Known(f))
    BY WalkShape DEF diskVars, folderVars, trackVars, libVars
  <1>2. /\ \A g \in Folder : g # f => entry'[g] = entry[g]
        /\ \/ ~InPipe(f)' /\ entry'[f] = entry[f]
           \/ entry'[f].st = "walked" /\ entry'[f].seen = Stat(f)
        /\ entry'[f].st # "read"
    BY <1>1 DEF TInv, Shapes, InPipe
  <1>3. Stat(f) \in FolderHash(f) /\ \A g \in Folder : Stat(g)' = Stat(g)
    BY <1>1, StatShape DEF TInv, Stat
  <1>4. Times'
    <2>1. \A x \in FilesIn(f) : Stat(f)[x] # Absent => disk[x] \in Content /\ HashOf[disk[x]] = Stat(f)[x] /\ Past(x, disk[x])
      <3> SUFFICES ASSUME NEW x \in FilesIn(f), Stat(f)[x] # Absent
                   PROVE  disk[x] \in Content /\ HashOf[disk[x]] = Stat(f)[x] /\ Past(x, disk[x])
        OBVIOUS
      <3>1. x \in File /\ disk[x] \in Content /\ HashOf[disk[x]] = Stat(f)[x]
        BY StatOf DEF FilesIn, TInv, TypeOK
      <3>2. ModTime[disk[x]] \in Nat /\ newest[x] = ModTime[disk[x]]
        BY <3>1, ShapeAssumption DEF DInv, Times
      <3> QED BY <3>1, <3>2 DEF Past
    <2>2. \A g \in Folder : InPipe(g)' => \A x \in Seen(g)' : \E c \in Content : HashOf[c] = entry'[g].seen[x] /\ Past(x, c)
      BY <1>2, <2>1 DEF DInv, Times, Seen, InPipe
    <2>3. \A g \in Folder : entry'[g].st = "read" => \A x \in DOMAIN entry'[g].tags : Past(x, entry'[g].tags[x])
      BY <1>2 DEF DInv, Times
    <2> QED BY <1>1, <2>2, <2>3 DEF DInv, Times, Past, InDB
  <1>5. Stages'
    BY <1>1, <1>2, <1>3 DEF DInv, Stages, InPipe, Seen
  <1>6. Awaited'
    BY <1>1, <1>2 DEF DInv, Awaited, Known, InPipe, WalkedPast
  <1>7. SeenHolds'
    BY <1>1, <1>2, <1>3 DEF DInv, SeenHolds, InPipe
  <1>8. ReadMatches' /\ ReadExact'
    <2>1. \A g \in Folder : entry'[g].st = "read" => g # f /\ entry'[g] = entry[g]
      BY <1>2
    <2>2. \A g \in Folder : g # f => (Stale(g)' <=> Stale(g)) /\ \A x \in FilesIn(g) : WillMatch(g, x)' <=> WillMatch(g, x)
      BY <1>1, <1>2 DEF Stale, Seen, WillMatch, Lost, Live, InDB
    <2>3. ReadMatches'
      BY <1>1, <2>1, <2>2 DEF DInv, ReadMatches
    <2>4. ReadExact'
      BY <1>1, <2>1 DEF DInv, ReadExact
    <2> QED BY <2>3, <2>4
  <1>9. RowsMatch' /\ Unknown'
    BY <1>1, RowsKept
  <1>10. Exact'
    BY <1>1 DEF DInv, Exact, Live, InDB
  <1>11. ScopeOf' = ScopeOf /\ ScopeOf \subseteq Folder
    BY <1>1 DEF ScopeOf, FoldersOf
  <1>12. \A x \in File : Mirrors(x)' <=> Mirrors(x)
    BY <1>1 DEF Mirrors, InDB
  <1>13. Passed'
    BY <1>1, <1>2, <1>11, <1>12 DEF DInv, Passed, Walking, InPipe, WalkedPast, FilesIn
  <1>14. PassedFresh'
    BY <1>1, <1>2, <1>11 DEF DInv, PassedFresh, Walking, InPipe, WalkedPast
  <1> QED BY <1>4, <1>5, <1>6, <1>7, <1>8, <1>9, <1>10, <1>13, <1>14 DEF DInv

LEMMA DInvWalk ==
  ASSUME TInv, DInv, NEW f \in Folder, WalkFolder(f) \/ SkipGoneFolder(f) \/ WalkFails(f)
  PROVE  DInv'
  <1>1. pc = "folders" /\ f \in todo /\ (f \in lastUpdates <=> Known(f))
    BY WalkShape
  <1>2. \A x \in FilesIn(f) : x \in File /\ FolderOf[x] = f
    BY DEF FilesIn
  <1>3. ASSUME ~Known(f), \A x \in FilesIn(f) : disk[x] = Absent
        PROVE  \A x \in FilesIn(f) : Mirrors(x)
    BY <1>3 DEF DInv, Unknown, Lost, Mirrors
  <1>4. CASE WalkFolder(f)
    <2>1. /\ f \in dir /\ f \notin lastUpdates' /\ unsettled' = unsettled
          /\ entry' = IF IsOutdated(f) /\ ~(~scan.full /\ HasNoFiles(f) /\ IsNew(f))
                      THEN [entry EXCEPT ![f] = [st |-> "walked", seen |-> Stat(f)]]
                      ELSE entry
      BY <1>4 DEF WalkFolder, PopLastUpdate, ghostVars
    <2>2. CASE IsOutdated(f) /\ ~(~scan.full /\ HasNoFiles(f) /\ IsNew(f))
      <3>1. InPipe(f)'
        BY <2>1, <2>2 DEF TInv, Shapes, InPipe
      <3> QED BY <1>4, <2>1, <3>1, WalkKeeps DEF WalkedPast
    <2>3. CASE ~scan.full /\ HasNoFiles(f) /\ IsNew(f)
      <3>1. \A x \in FilesIn(f) : Mirrors(x)
        BY <1>1, <1>3, <2>3 DEF HasNoFiles, IsNew
      <3> QED BY <1>4, <2>1, <2>3, <3>1, WalkKeeps DEF WalkedPast
    <2>4. CASE ~IsOutdated(f)
      <3>1. Known(f) /\ folderRow[f].hash = Stat(f) /\ (scan.full => f \in fresh)
        BY <1>1, <2>4 DEF IsOutdated, IsNew
      <3>2. LibOf[f] \in fullFlag => scan.full
        BY <1>1 DEF TInv, Scope, FoldersOf, DInv, Stages
      <3>3. ASSUME f \notin unsettled, NEW x \in FilesIn(f), x \notin misread PROVE Mirrors(x)
        <4>1. Match(x, Stat(f))
          BY <3>1, <3>3, StatShape DEF DInv, RowsMatch, TInv
        <4>2. LibOf[f] \in fullFlag => disk[x] = Absent \/ track[x] = disk[x]
          BY <3>1, <3>2, <3>3 DEF DInv, Exact
        <4> QED BY <1>2, <4>1, <4>2, StatOf, StatAbsent DEF Match, Mirrors, Lost, Live, LibOfFile, TInv
      <3> QED BY <1>4, <2>1, <3>1, <3>3, WalkKeeps DEF WalkedPast
    <2> QED BY <2>2, <2>3, <2>4
  <1>5. CASE SkipGoneFolder(f)
    <2>1. f \notin dir /\ lastUpdates' = lastUpdates
      BY <1>5 DEF SkipGoneFolder
    <2>2. f \in lastUpdates \/ \A x \in FilesIn(f) : Mirrors(x)
      BY <1>1, <1>2, <1>3, <2>1 DEF TInv, TypeOK
    <2> QED BY <1>5, <2>1, <2>2, WalkKeeps DEF WalkedPast
  <1>6. CASE WalkFails(f)
    <2>1. f \in unsettled'
      BY <1>6 DEF WalkFails
    <2> QED BY <1>6, <2>1, WalkKeeps DEF WalkedPast
  <1> QED BY <1>4, <1>5, <1>6

LEMMA ProcessShape ==
  ASSUME TInv, DInv, NEW f \in Folder, NEW unreadable \in SUBSET FilesIn(f), ProcessFolder(f, unreadable)
  PROVE  /\ UNCHANGED <<diskVars, folderVars, trackVars, libVars, pc, scan, todo, lastUpdates, unsettled>>
         /\ pc = "folders" /\ InPipe(f) /\ f \notin todo
         /\ misread' = misread \cup unreadable
         /\ \A g \in Folder : g # f => entry'[g] = entry[g]
         /\ entry'[f].st = "read" /\ entry'[f].seen = entry[f].seen
         /\ \/ InfoFails(f) /\ DOMAIN entry'[f].tags = {} /\ entry'[f].gone = {}
            \/ /\ ~InfoFails(f)
               /\ DOMAIN entry'[f].tags = {x \in Seen(f) : disk[x] # Absent /\ ToImport(x)} \ unreadable
               /\ \A x \in DOMAIN entry'[f].tags : entry'[f].tags[x] = disk[x]
               /\ entry'[f].gone = {x \in FilesIn(f) \ Seen(f) : InDB(x)}
  <1>1. /\ UNCHANGED <<diskVars, folderVars, trackVars, libVars, pc, scan, todo, lastUpdates, unsettled>>
        /\ pc = "folders" /\ InPipe(f) /\ f \notin todo
        /\ misread' = misread \cup unreadable
    BY DEF ProcessFolder, InPipe, DInv, Awaited
  <1> DEFINE gone == {x \in Seen(f) : disk[x] = Absent}
             import == {x \in Seen(f) : ToImport(x)} \ (gone \cup unreadable)
  <1>2. import = {x \in Seen(f) : disk[x] # Absent /\ ToImport(x)} \ unreadable
    OBVIOUS
  <1>3. entry = [g \in Folder |-> entry[g]]
    BY DEF TInv, Shapes
  <1> HIDE DEF gone
  <1>4. CASE InfoFails(f)
    <2>1. entry' = [entry EXCEPT ![f] = [st |-> "read", seen |-> @.seen, tags |-> [x \in {} |-> Absent], gone |-> {}]]
      BY <1>4 DEF ProcessFolder
    <2>2. entry'[f] = [st |-> "read", seen |-> entry[f].seen, tags |-> [x \in {} |-> Absent], gone |-> {}]
      BY <1>3, <2>1
    <2>3. \A g \in Folder : g # f => entry'[g] = entry[g]
      BY <1>3, <2>1
    <2> QED BY <1>1, <1>4, <2>2, <2>3
  <1>5. CASE ~InfoFails(f)
    <2>1. entry' = [entry EXCEPT ![f] = [st |-> "read", seen |-> @.seen, tags |-> [x \in import |-> disk[x]],
                                         gone |-> {x \in FilesIn(f) \ Seen(f) : InDB(x)}]]
      BY <1>5 DEF ProcessFolder, gone
    <2> HIDE DEF import
    <2>2. entry'[f] = [st |-> "read", seen |-> entry[f].seen, tags |-> [x \in import |-> disk[x]],
                       gone |-> {x \in FilesIn(f) \ Seen(f) : InDB(x)}]
      BY <1>3, <2>1
    <2>3. \A g \in Folder : g # f => entry'[g] = entry[g]
      BY <1>3, <2>1
    <2>4. DOMAIN entry'[f].tags = import /\ \A x \in import : entry'[f].tags[x] = disk[x]
      BY <2>2
    <2> QED BY <1>1, <1>2, <1>5, <2>2, <2>3, <2>4
  <1> QED BY <1>4, <1>5

LEMMA PastDisk == ASSUME TInv, DInv, NEW x \in File, disk[x] # Absent PROVE Past(x, disk[x])
  <1>1. ModTime[disk[x]] \in Nat /\ newest[x] = ModTime[disk[x]]
    BY ShapeAssumption DEF DInv, Times, TInv, TypeOK
  <1> QED BY <1>1 DEF Past

\* Of a folder that has not changed since the walk, what processFolder does not
\* import has a row that shows the same stat.
LEMMA ProcessMatches ==
  ASSUME TInv, DInv, NEW f \in Folder, NEW unreadable \in SUBSET FilesIn(f), ProcessFolder(f, unreadable),
         ~Stale(f), NEW x \in FilesIn(f)
  PROVE  x \in misread' \ DOMAIN entry'[f].tags \/ WillMatch(f, x)'
  <1>1. /\ UNCHANGED <<disk, track, missing>> /\ misread' = misread \cup unreadable
        /\ entry'[f].seen = entry[f].seen /\ InPipe(f)
        /\ \/ InfoFails(f)
           \/ /\ DOMAIN entry'[f].tags = {y \in Seen(f) : disk[y] # Absent /\ ToImport(y)} \ unreadable
              /\ \A y \in DOMAIN entry'[f].tags : entry'[f].tags[y] = disk[y]
              /\ entry'[f].gone = {y \in FilesIn(f) \ Seen(f) : InDB(y)}
    BY ProcessShape DEF diskVars, trackVars
  <1>2. \A y \in Seen(f) : disk[y] # Absent /\ HashOf[disk[y]] = entry[f].seen[y]
    BY DEF Stale
  <1>3. /\ DOMAIN entry'[f].tags = {y \in Seen(f) : disk[y] # Absent /\ ToImport(y)} \ unreadable
        /\ \A y \in DOMAIN entry'[f].tags : entry'[f].tags[y] = disk[y]
        /\ entry'[f].gone = {y \in FilesIn(f) \ Seen(f) : InDB(y)}
    BY <1>1, <1>2 DEF InfoFails
  <1>4. x \in File
    BY DEF FilesIn
  <1>5. CASE x \in DOMAIN entry'[f].tags
    BY <1>1, <1>2, <1>3, <1>5 DEF WillMatch
  <1>6. CASE x \notin Seen(f)
    <2>1. x \notin DOMAIN entry'[f].tags /\ entry'[f].seen[x] = Absent
      BY <1>1, <1>3, <1>6 DEF Seen
    <2>2. ~InDB(x) \/ x \in entry'[f].gone
      BY <1>3, <1>6
    <2> QED BY <1>1, <2>1, <2>2 DEF WillMatch, Lost, InDB
  <1>7. CASE x \in Seen(f) /\ x \notin DOMAIN entry'[f].tags /\ x \notin unreadable
    <2>1. ~ToImport(x) /\ disk[x] # Absent /\ HashOf[disk[x]] = entry[f].seen[x]
      BY <1>2, <1>3, <1>7
    <2>2. Live(x) /\ ~(ModTime[disk[x]] > ModTime[track[x]])
      BY <2>1 DEF ToImport, Live
    <2>3. track[x] \in Content /\ disk[x] \in Content /\ Past(x, track[x]) /\ newest[x] = ModTime[disk[x]]
      BY <1>4, <2>1, <2>2 DEF Live, InDB, TInv, TypeOK, DInv, Times
    <2>4. HashOf[track[x]] = HashOf[disk[x]]
      <3>1. ModTime[track[x]] \in Nat /\ ModTime[disk[x]] \in Nat
        BY <2>3, ShapeAssumption
      <3>2. ModTime[track[x]] <= newest[x]
        BY <2>3 DEF Past
      <3>3. ModTime[track[x]] = newest[x]
        BY <2>2, <2>3, <3>1, <3>2
      <3> QED BY <2>1, <2>3, <3>3 DEF Past
    <2>5. entry'[f].seen[x] # Absent
      BY <1>1, <1>7 DEF Seen
    <2> QED BY <1>1, <1>7, <2>1, <2>2, <2>4, <2>5 DEF WillMatch, Live, InDB
  <1>8. CASE x \in unreadable /\ x \notin DOMAIN entry'[f].tags
    BY <1>1, <1>8
  <1> QED BY <1>5, <1>6, <1>7, <1>8

LEMMA DInvProcess ==
  ASSUME TInv, DInv, NEW f \in Folder, NEW unreadable \in SUBSET FilesIn(f), ProcessFolder(f, unreadable)
  PROVE  DInv'
  <1>1. /\ UNCHANGED <<disk, dir, newest, folderRow, fresh, track, missing, inScan, fullFlag, pc, scan,
                       todo, lastUpdates, unsettled>>
        /\ pc = "folders" /\ InPipe(f) /\ f \notin todo
        /\ misread' = misread \cup unreadable
        /\ \A g \in Folder : g # f => entry'[g] = entry[g]
        /\ entry'[f].st = "read" /\ entry'[f].seen = entry[f].seen
    BY ProcessShape DEF diskVars, folderVars, trackVars, libVars
  <1>2. /\ DOMAIN entry'[f].tags \subseteq Seen(f)
        /\ \A x \in DOMAIN entry'[f].tags : entry'[f].tags[x] = disk[x] /\ disk[x] # Absent
        /\ entry'[f].gone \cap Seen(f) = {}
    BY ProcessShape
  <1>3. \A g \in Folder : Seen(g)' = Seen(g) /\ (InPipe(g)' <=> InPipe(g)) /\ Stat(g)' = Stat(g)
                          /\ entry'[g].seen = entry[g].seen
    BY <1>1 DEF Seen, InPipe, Stat
  <1>4. Times'
    <2>1. \A x \in DOMAIN entry'[f].tags : Past(x, entry'[f].tags[x])
      BY <1>2, PastDisk DEF Seen, FilesIn
    <2>2. \A g \in Folder : entry'[g].st = "read" => \A x \in DOMAIN entry'[g].tags : Past(x, entry'[g].tags[x])
      BY <1>1, <2>1 DEF DInv, Times
    <2>3. \A g \in Folder : InPipe(g)' => \A x \in Seen(g)' : \E c \in Content : HashOf[c] = entry'[g].seen[x] /\ Past(x, c)
      BY <1>3 DEF DInv, Times
    <2> QED BY <1>1, <2>2, <2>3 DEF DInv, Times, Past, InDB
  <1>5. Stages'
    <2>1. /\ \A g \in Folder : InPipe(g)' => entry'[g].seen \in FolderHash(g)
          /\ \A g \in Folder : entry'[g].st = "read" =>
               DOMAIN entry'[g].tags \subseteq Seen(g) /\ entry'[g].gone \cap Seen(g) = {}
      BY <1>1, <1>2, <1>3 DEF DInv, Stages
    <2> QED BY <1>1, <1>3, <2>1 DEF DInv, Stages
  <1>6. Awaited'
    BY <1>1, <1>3 DEF DInv, Awaited, Known, TInv, Scope, FoldersOf
  <1>7. SeenHolds'
    BY <1>1, <1>3 DEF DInv, SeenHolds
  <1>8. ReadMatches'
    <2> SUFFICES ASSUME NEW g \in Folder, entry'[g].st = "read", ~Stale(g)', NEW x \in FilesIn(g)
                 PROVE x \in misread' \ DOMAIN entry'[g].tags \/ WillMatch(g, x)'
      BY DEF ReadMatches
    <2>1. ~Stale(g)
      BY <1>1, <1>3 DEF Stale
    <2>2. CASE g = f
      BY <2>1, <2>2, ProcessMatches
    <2>3. CASE g # f
      <3>1. entry'[g] = entry[g]
        BY <1>1, <2>3
      <3>2. x \in misread \ DOMAIN entry[g].tags \/ WillMatch(g, x)
        BY <2>1, <3>1 DEF DInv, ReadMatches
      <3> QED BY <1>1, <3>1, <3>2 DEF WillMatch, Lost, Live, InDB
    <2> QED BY <2>2, <2>3
  <1>9. ReadExact'
    <2> SUFFICES ASSUME NEW g \in Folder, entry'[g].st = "read", scan.full, g \notin unsettled,
                        NEW x \in FilesIn(g), disk[x] # Absent
                 PROVE \/ x \in misread' \ DOMAIN entry'[g].tags
                       \/ x \in DOMAIN entry'[g].tags /\ entry'[g].tags[x] = disk[x]
      BY <1>1 DEF ReadExact
    <2>1. CASE g = f
      <3>1. entry[f].seen = Stat(f)
        BY <1>1, <2>1 DEF DInv, SeenHolds
      <3>2. x \in Seen(f) /\ ToImport(x)
        BY <2>1, <3>1, StatAbsent DEF Seen, ToImport, TInv
      <3>3. DOMAIN entry'[f].tags = {y \in Seen(f) : disk[y] # Absent /\ ToImport(y)} \ unreadable
        BY ProcessShape DEF InfoFails
      <3> QED BY <1>1, <1>2, <2>1, <3>2, <3>3
    <2>2. CASE g # f
      BY <1>1, <2>2 DEF DInv, ReadExact
    <2> QED BY <2>1, <2>2
  <1>10. RowsMatch' /\ Unknown'
    BY <1>1 DEF DInv, RowsMatch, Unknown, Known, Match, Lost, Live, InDB
  <1>11. Exact'
    BY <1>1 DEF DInv, Exact, Live, InDB
  <1>12. ScopeOf' = ScopeOf /\ ScopeOf \subseteq Folder /\ \A x \in File : Mirrors(x)' <=> Mirrors(x)
    BY <1>1 DEF ScopeOf, FoldersOf, Mirrors, InDB
  <1>13. Passed'
    BY <1>1, <1>3, <1>12 DEF DInv, Passed, Walking, FilesIn
  <1>14. PassedFresh'
    BY <1>1, <1>3, <1>12 DEF DInv, PassedFresh, Walking
  <1> QED BY <1>4, <1>5, <1>6, <1>7, <1>8, <1>9, <1>10, <1>11, <1>13, <1>14 DEF DInv

LEMMA PersistShape ==
  ASSUME TInv, DInv, NEW f \in Folder, PersistChanges(f)
  PROVE  /\ UNCHANGED <<disk, dir, newest, inScan, fullFlag, pc, todo, lastUpdates, unsettled>>
         /\ pc = "folders" /\ InPipe(f) /\ entry[f].st = "read" /\ f \notin todo /\ ~InPipe(f)'
         /\ \A g \in Folder : g # f => entry'[g] = entry[g] /\ folderRow'[g] = folderRow[g]
         /\ folderRow' = [g \in Folder |-> folderRow'[g]]
         /\ folderRow'[f] \in FolderRow(f) /\ Known(f)' /\ fresh' = fresh \cup {f}
         /\ folderRow'[f].hash = IF Stat(f) = entry[f].seen THEN entry[f].seen ELSE Mixed
         /\ DOMAIN entry[f].tags \subseteq Seen(f) /\ entry[f].gone \subseteq FilesIn(f) \ Seen(f)
         /\ \A x \in File : track'[x] = IF x \in DOMAIN entry[f].tags THEN entry[f].tags[x] ELSE track[x]
         /\ missing' = (missing \ DOMAIN entry[f].tags) \cup entry[f].gone
         /\ misread' = misread \ DOMAIN entry[f].tags
         /\ scan' = [scan EXCEPT !.changes = TRUE]
  <1>1. /\ UNCHANGED <<disk, dir, newest, inScan, fullFlag, pc, todo, lastUpdates, unsettled>>
        /\ pc = "folders" /\ entry[f].st = "read" /\ fresh' = fresh \cup {f}
        /\ \A x \in File : track'[x] = IF x \in DOMAIN entry[f].tags THEN entry[f].tags[x] ELSE track[x]
        /\ missing' = (missing \ DOMAIN entry[f].tags) \cup entry[f].gone
        /\ misread' = misread \ DOMAIN entry[f].tags
        /\ scan' = [scan EXCEPT !.changes = TRUE]
        /\ entry' = [entry EXCEPT ![f] = NoEntry]
        /\ folderRow' = [folderRow EXCEPT ![f] = [hash |-> SavedHash(f), audio |-> Seen(f) # {}, missing |-> FALSE]]
    BY DEF PersistChanges, diskVars, libVars
  <1>2. entry = [g \in Folder |-> entry[g]] /\ folderRow = [g \in Folder |-> folderRow[g]]
    BY DEF TInv, Shapes, DInv, Stages
  <1>3. /\ DOMAIN entry[f].tags \subseteq Seen(f) /\ entry[f].gone \subseteq FilesIn(f) \ Seen(f)
        /\ InPipe(f) /\ f \notin todo /\ entry[f].seen \in FolderHash(f)
    BY <1>1 DEF DInv, Stages, Awaited, InPipe, TInv, Pipeline
  <1>4. /\ \A g \in Folder : g # f => entry'[g] = entry[g] /\ folderRow'[g] = folderRow[g]
        /\ folderRow' = [g \in Folder |-> folderRow'[g]]
        /\ ~InPipe(f)'
    BY <1>1, <1>2 DEF InPipe, NoEntry
  <1>5. /\ folderRow'[f] = [hash |-> SavedHash(f), audio |-> Seen(f) # {}, missing |-> FALSE]
        /\ SavedHash(f) = IF Stat(f) = entry[f].seen THEN entry[f].seen ELSE Mixed
    BY <1>1, <1>2 DEF SavedHash
  <1>6. SavedHash(f) \in FolderHash(f) \cup {Mixed}
    BY <1>3, <1>5
  <1>7. folderRow'[f] \in FolderRow(f) /\ ~folderRow'[f].missing /\ folderRow'[f].hash = SavedHash(f)
    BY <1>5, <1>6 DEF FolderRow
  <1>8. Known(f)'
    BY <1>7, RowAssumption DEF Known
  <1> QED BY <1>1, <1>3, <1>4, <1>5, <1>7, <1>8

\* What is saved with the hash of the walk agrees with it.
LEMMA PersistMatches ==
  ASSUME TInv, DInv, NEW f \in Folder, PersistChanges(f), Stat(f) = entry[f].seen,
         NEW x \in FilesIn(f), x \notin misread'
  PROVE  IF Stat(f)[x] = Absent THEN Lost(x)' ELSE Live(x)' /\ HashOf[track'[x]] = Stat(f)[x]
  <1>1. /\ entry[f].st = "read" /\ InPipe(f)
        /\ DOMAIN entry[f].tags \subseteq Seen(f) /\ entry[f].gone \subseteq FilesIn(f) \ Seen(f)
        /\ \A y \in File : track'[y] = IF y \in DOMAIN entry[f].tags THEN entry[f].tags[y] ELSE track[y]
        /\ missing' = (missing \ DOMAIN entry[f].tags) \cup entry[f].gone
        /\ misread' = misread \ DOMAIN entry[f].tags
    BY PersistShape
  <1>2. x \in File /\ ~Stale(f)
    BY <1>1, StaleDiffers DEF FilesIn
  <1>3. WillMatch(f, x)
    BY <1>1, <1>2 DEF DInv, ReadMatches
  <1>4. CASE x \in DOMAIN entry[f].tags
    <2>1. entry[f].tags[x] \in Content /\ Stat(f)[x] # Absent /\ x \notin missing'
      BY <1>1, <1>4 DEF TInv, Pipeline, Seen
    <2> QED BY <1>1, <1>2, <1>3, <1>4, <2>1, ShapeAssumption DEF WillMatch, Live, InDB
  <1>5. CASE x \notin DOMAIN entry[f].tags /\ entry[f].seen[x] = Absent
    BY <1>1, <1>2, <1>3, <1>5 DEF WillMatch, Lost, InDB
  <1>6. CASE x \notin DOMAIN entry[f].tags /\ entry[f].seen[x] # Absent
    <2>1. x \notin entry[f].gone
      BY <1>1, <1>6 DEF Seen
    <2> QED BY <1>1, <1>2, <1>3, <1>6, <2>1 DEF WillMatch, Live, InDB
  <1> QED BY <1>4, <1>5, <1>6

\* What a full scan saves is exact.
LEMMA PersistExact ==
  ASSUME TInv, DInv, NEW f \in Folder, PersistChanges(f), LibOf[f] \in fullFlag, f \notin unsettled,
         NEW x \in FilesIn(f), x \notin misread', disk[x] # Absent
  PROVE  Live(x)' /\ track'[x] = disk[x]
  <1>1. /\ entry[f].st = "read" /\ pc = "folders"
        /\ entry[f].gone \subseteq FilesIn(f) \ Seen(f) /\ DOMAIN entry[f].tags \subseteq Seen(f)
        /\ \A y \in File : track'[y] = IF y \in DOMAIN entry[f].tags THEN entry[f].tags[y] ELSE track[y]
        /\ missing' = (missing \ DOMAIN entry[f].tags) \cup entry[f].gone
        /\ misread' = misread \ DOMAIN entry[f].tags
    BY PersistShape
  <1>2. scan.full
    BY <1>1 DEF TInv, Scope, DInv, Stages
  <1>3. x \in DOMAIN entry[f].tags /\ entry[f].tags[x] = disk[x]
    BY <1>1, <1>2 DEF DInv, ReadExact
  <1> QED BY <1>1, <1>3 DEF Live, InDB, FilesIn

LEMMA DInvPersist == ASSUME TInv, DInv, NEW f \in Folder, PersistChanges(f) PROVE DInv'
  <1>1. /\ UNCHANGED <<disk, dir, newest, inScan, fullFlag, pc, todo, lastUpdates, unsettled>>
        /\ pc = "folders" /\ InPipe(f) /\ entry[f].st = "read" /\ f \notin todo /\ ~InPipe(f)'
        /\ \A g \in Folder : g # f => entry'[g] = entry[g] /\ folderRow'[g] = folderRow[g]
        /\ folderRow' = [g \in Folder |-> folderRow'[g]]
        /\ folderRow'[f] \in FolderRow(f) /\ Known(f)' /\ fresh' = fresh \cup {f}
        /\ folderRow'[f].hash = IF Stat(f) = entry[f].seen THEN entry[f].seen ELSE Mixed
    BY PersistShape
  <1>2. /\ DOMAIN entry[f].tags \subseteq FilesIn(f) /\ entry[f].gone \subseteq FilesIn(f)
        /\ \A x \in File : track'[x] = IF x \in DOMAIN entry[f].tags THEN entry[f].tags[x] ELSE track[x]
        /\ missing' = (missing \ DOMAIN entry[f].tags) \cup entry[f].gone
        /\ misread' = misread \ DOMAIN entry[f].tags
    BY PersistShape DEF Seen
  <1>3. /\ scan'.libs = scan.libs /\ scan'.jobs = scan.jobs /\ scan'.full = scan.full
        /\ scan'.selective = scan.selective /\ scan'.targets = scan.targets
    BY PersistShape DEF TInv, Shapes
  <1>4. \A g \in Folder : g # f => \A x \in FilesIn(g) :
          /\ x \in File /\ x \notin DOMAIN entry[f].tags /\ track'[x] = track[x] /\ (x \in misread' <=> x \in misread)
          /\ (Lost(x)' <=> Lost(x)) /\ (Live(x)' <=> Live(x)) /\ (Mirrors(x)' <=> Mirrors(x))
    <2> SUFFICES ASSUME NEW g \in Folder, g # f, NEW x \in FilesIn(g)
                 PROVE  /\ x \in File /\ x \notin DOMAIN entry[f].tags /\ track'[x] = track[x]
                        /\ (x \in misread' <=> x \in misread)
                        /\ (Lost(x)' <=> Lost(x)) /\ (Live(x)' <=> Live(x)) /\ (Mirrors(x)' <=> Mirrors(x))
      OBVIOUS
    <2>1. x \in File /\ x \notin FilesIn(f)
      BY DEF FilesIn
    <2>2. track'[x] = track[x] /\ (x \in misread' <=> x \in misread) /\ (x \in missing' <=> x \in missing)
      BY <1>2, <2>1
    <2>3. (Lost(x)' <=> Lost(x)) /\ (Live(x)' <=> Live(x)) /\ (Mirrors(x)' <=> Mirrors(x))
      BY <1>1, <2>2 DEF Lost, Live, Mirrors, InDB
    <2> QED BY <1>2, <2>1, <2>2, <2>3
  <1>5. \A g \in Folder : /\ Stat(g)' = Stat(g) /\ (InPipe(g)' => g # f /\ InPipe(g))
                          /\ (entry'[g].st = "read" => g # f)
                          /\ (g # f => Seen(g)' = Seen(g) /\ (Stale(g)' <=> Stale(g)) /\ (Known(g)' <=> Known(g)))
    BY <1>1 DEF Stat, InPipe, Seen, Stale, Known
  <1>6. Times'
    <2>1. \A x \in File : InDB(x)' => Past(x, track'[x])
      BY <1>1, <1>2 DEF DInv, Times, InDB
    <2>2. \A g \in Folder : entry'[g].st = "read" => \A x \in DOMAIN entry'[g].tags : Past(x, entry'[g].tags[x])
      BY <1>1, <1>5 DEF DInv, Times
    <2>3. \A g \in Folder : InPipe(g)' => \A x \in Seen(g)' : \E c \in Content : HashOf[c] = entry'[g].seen[x] /\ Past(x, c)
      BY <1>1, <1>5 DEF DInv, Times
    <2> QED BY <1>1, <2>1, <2>2, <2>3 DEF DInv, Times, Past
  <1>7. Stages'
    <2>1. /\ \A g \in Folder : InPipe(g)' => entry'[g].seen \in FolderHash(g)
          /\ \A g \in Folder : entry'[g].st = "read" =>
               DOMAIN entry'[g].tags \subseteq Seen(g)' /\ entry'[g].gone \cap Seen(g)' = {}
      BY <1>1, <1>5 DEF DInv, Stages
    <2> QED BY <1>1, <1>3, <2>1 DEF DInv, Stages
  <1>8. Awaited'
    <2>1. todo \subseteq Folder /\ lastUpdates \subseteq Folder
      BY <1>1 DEF TInv, Scope, FoldersOf
    <2> QED BY <1>1, <1>5, <2>1 DEF DInv, Awaited
  <1>9. SeenHolds'
    BY <1>1, <1>5 DEF DInv, SeenHolds
  <1>10. ReadMatches'
    <2> SUFFICES ASSUME NEW g \in Folder, entry'[g].st = "read", ~Stale(g)', NEW x \in FilesIn(g)
                 PROVE x \in misread' \ DOMAIN entry'[g].tags \/ WillMatch(g, x)'
      BY DEF ReadMatches
    <2>1. g # f /\ entry'[g] = entry[g] /\ ~Stale(g)
      BY <1>1, <1>5
    <2>2. x \in misread \ DOMAIN entry[g].tags \/ WillMatch(g, x)
      BY <2>1 DEF DInv, ReadMatches
    <2> QED BY <1>4, <2>1, <2>2 DEF WillMatch
  <1>11. ReadExact'
    BY <1>1, <1>3, <1>4, <1>5 DEF DInv, ReadExact
  <1>12. RowsMatch'
    <2> SUFFICES ASSUME NEW g \in Folder, Known(g)', folderRow'[g].hash # Mixed, NEW x \in FilesIn(g), x \notin misread'
                 PROVE Match(x, folderRow[g].hash)'
      BY DEF RowsMatch
    <2>1. CASE g = f
      <3>1. Stat(f) = entry[f].seen /\ folderRow'[f].hash = Stat(f)
        BY <1>1, <2>1
      <3>2. IF Stat(f)[x] = Absent THEN Lost(x)' ELSE Live(x)' /\ HashOf[track'[x]] = Stat(f)[x]
        BY <2>1, <3>1, PersistMatches
      <3> QED BY <2>1, <3>1, <3>2 DEF Match
    <2>2. CASE g # f
      <3>1. Match(x, folderRow[g].hash) /\ folderRow'[g] = folderRow[g]
        BY <1>1, <1>4, <1>5, <2>2 DEF DInv, RowsMatch
      <3> QED BY <1>4, <2>2, <3>1 DEF Match
    <2> QED BY <2>1, <2>2
  <1>13. Unknown'
    BY <1>1, <1>4, <1>5 DEF DInv, Unknown
  <1>14. Exact'
    <2> SUFFICES ASSUME NEW g \in fresh' \ unsettled, LibOf[g] \in fullFlag,
                        NEW x \in FilesIn(g), disk[x] # Absent, x \notin misread'
                 PROVE Live(x)' /\ track'[x] = disk[x]
      BY <1>1 DEF Exact
    <2>1. CASE g = f
      BY <2>1, PersistExact
    <2>2. CASE g # f
      BY <1>1, <1>4, <2>2 DEF DInv, Exact, TInv, TypeOK
    <2> QED BY <2>1, <2>2
  <1>15. ScopeOf' = ScopeOf /\ ScopeOf \subseteq Folder
    BY <1>3 DEF ScopeOf, FoldersOf
  <1>16. ASSUME f \notin unsettled, NEW x \in FilesIn(f), x \notin misread' PROVE Mirrors(x)'
    <2>1. Stat(f) = entry[f].seen
      BY <1>1, <1>16 DEF DInv, SeenHolds
    <2>2. IF Stat(f)[x] = Absent THEN Lost(x)' ELSE Live(x)' /\ HashOf[track'[x]] = Stat(f)[x]
      BY <1>16, <2>1, PersistMatches
    <2>3. LibOf[f] \in fullFlag /\ disk[x] # Absent => track'[x] = disk[x]
      BY <1>16, PersistExact
    <2> QED BY <1>1, <2>2, <2>3, StatOf, StatAbsent DEF Mirrors, Lost, Live, LibOfFile, FilesIn, TInv
  <1>17. Passed'
    <2> SUFFICES ASSUME NEW g \in ScopeOf \ todo, g \notin unsettled, ~InPipe(g)', ~(g \in lastUpdates /\ g \notin dir),
                        NEW x \in FilesIn(g), x \notin misread'
                 PROVE Mirrors(x)'
      BY <1>1, <1>15 DEF Passed
    <2>1. CASE g = f
      BY <1>16, <2>1
    <2>2. CASE g # f
      <3>1. ~InPipe(g) /\ x \notin misread /\ Walking
        BY <1>1, <1>4, <1>15, <2>2 DEF InPipe, Walking
      <3>2. Mirrors(x)
        BY <3>1 DEF DInv, Passed
      <3> QED BY <1>4, <1>15, <2>2, <3>2
    <2> QED BY <2>1, <2>2
  <1>18. PassedFresh'
    BY <1>1, <1>3, <1>15 DEF DInv, PassedFresh, Walking, InPipe
  <1> QED BY <1>6, <1>7, <1>8, <1>9, <1>10, <1>11, <1>12, <1>13, <1>14, <1>17, <1>18 DEF DInv

LEMMA DInvPersistFails ==
  ASSUME TInv, DInv, NEW f \in Folder, NEW walked \in SUBSET Folder, PersistFails(f, walked)
  PROVE  DInv'
  <1>1. /\ UNCHANGED <<disk, dir, newest, folderRow, fresh, track, missing, inScan, fullFlag, pc, misread>>
        /\ pc = "folders" /\ walked \subseteq todo \cap dir /\ todo' = {} /\ lastUpdates' = lastUpdates \ walked
        /\ scan' = [scan EXCEPT !.changes = TRUE, !.err = TRUE]
        /\ entry' = [g \in Folder |-> NoEntry]
        /\ unsettled' = unsettled \cup {f} \cup todo \cup {g \in Folder : entry[g].st # "none"}
    BY DEF PersistFails, diskVars, folderVars, trackVars, libVars
  <1>2. /\ scan'.libs = scan.libs /\ scan'.jobs = scan.jobs /\ scan'.full = scan.full
        /\ scan'.selective = scan.selective /\ scan'.targets = scan.targets
    BY <1>1 DEF TInv, Shapes
  <1>3. \A g \in Folder : ~InPipe(g)' /\ entry'[g].st # "read"
    BY <1>1 DEF InPipe, NoEntry
  <1>4. Times'
    BY <1>1, <1>3 DEF DInv, Times, Past, InDB
  <1>5. Stages'
    BY <1>1, <1>2, <1>3 DEF DInv, Stages
  <1>6. Awaited'
    BY <1>1 DEF DInv, Awaited, Known
  <1>7. SeenHolds' /\ ReadMatches' /\ ReadExact'
    BY <1>3 DEF SeenHolds, ReadMatches, ReadExact
  <1>8. RowsMatch' /\ Unknown'
    BY <1>1, RowsKept
  <1>9. Exact'
    BY <1>1 DEF DInv, Exact, Live, InDB
  <1>10. ScopeOf' = ScopeOf /\ ScopeOf \subseteq Folder /\ \A x \in File : Mirrors(x)' <=> Mirrors(x)
    BY <1>1, <1>2 DEF ScopeOf, FoldersOf, Mirrors, InDB
  <1>11. \A g \in Folder : g \notin unsettled' => g \notin todo /\ g \notin unsettled /\ ~InPipe(g)
    BY <1>1 DEF InPipe
  <1>12. Passed'
    BY <1>1, <1>10, <1>11 DEF DInv, Passed, Walking, FilesIn
  <1>13. PassedFresh'
    BY <1>1, <1>2, <1>10, <1>11 DEF DInv, PassedFresh, Walking
  <1> QED BY <1>4, <1>5, <1>6, <1>7, <1>8, <1>9, <1>12, <1>13 DEF DInv

LEMMA DInvStep == TInv /\ DInv /\ [Next]_vars => DInv'
  <1> SUFFICES ASSUME TInv, DInv, [Next]_vars PROVE DInv'
    OBVIOUS
  <1>1. CASE Next
    BY <1>1, DInvEdits, DInvBegin, DInvJobs, DInvLate, DInvPurge, DInvGC, DInvFinalize, DInvWalk,
       DInvProcess, DInvPersist, DInvPersistFails DEF Next, ScanStep, Faults
  <1>2. CASE UNCHANGED vars
    <2>1. UNCHANGED <<disk, dir, newest, folderRow, fresh, track, missing, fullFlag, pc, scan, todo,
                      lastUpdates, entry, unsettled, misread>>
      BY <1>2 DEF vars, diskVars, folderVars, trackVars, libVars, scanVars, ghostVars
    <2>2. Times' /\ Stages'
      <3>1. Times'
        BY <2>1 DEF DInv, Times, Past, InDB, InPipe, Seen
      <3>2. Stages'
        BY <2>1 DEF DInv, Stages, InPipe, Seen
      <3> QED BY <3>1, <3>2
    <2>3. Awaited' /\ SeenHolds'
      BY <2>1 DEF DInv, Awaited, SeenHolds, InPipe, Known, Stat
    <2>4. ReadMatches' /\ RowsMatch' /\ Unknown'
      BY <2>1 DEF DInv, ReadMatches, RowsMatch, Unknown, Stale, WillMatch, Match, Lost, Live, InDB, Seen, Known
    <2>5. ReadExact' /\ Exact' /\ Passed' /\ PassedFresh'
      BY <2>1 DEF DInv, ReadExact, Exact, Passed, PassedFresh, Walking, ScopeOf, Mirrors, Live, InDB, InPipe
    <2> QED BY <2>2, <2>3, <2>4, <2>5 DEF DInv
  <1> QED BY <1>1, <1>2

\* Whatever ran before, was cut short, failed or raced with edits: a scan that
\* completes has left every settled file in its scope as the disk shows it, and
\* one that ends a full scan has read it.
THEOREM CompletedScanMirrorsDiskCorrect == Spec => CompletedScanMirrorsDisk
  <1>1. Init => TInv /\ DInv
    BY TInvInit, DInvInit
  <1>2. TInv /\ DInv /\ [Next]_vars => (TInv /\ DInv)'
    BY TInvStep, DInvStep
  <1>3. TInv /\ DInv /\ pc = "update" =>
          \A x \in File : \/ LibOfFile(x) \notin scan.jobs
                          \/ scan.selective /\ FolderOf[x] \notin scan.targets
                          \/ FolderOf[x] \in unsettled \/ x \in misread
                          \/ Mirrors(x)
    <2> SUFFICES ASSUME TInv, DInv, pc = "update", NEW x \in File, LibOfFile(x) \in scan.jobs,
                        scan.selective => FolderOf[x] \in scan.targets, FolderOf[x] \notin unsettled
                 PROVE  x \in misread \/ Mirrors(x)
      OBVIOUS
    <2>1. FolderOf[x] \in ScopeOf \ todo /\ lastUpdates = {} /\ Walking
      BY ShapeAssumption DEF ScopeOf, FoldersOf, LibOfFile, DInv, Stages, Walking
    <2>2. FolderOf[x] \in Folder /\ x \in FilesIn(FolderOf[x])
      BY ShapeAssumption DEF FilesIn
    <2>3. ~InPipe(FolderOf[x])
      BY <2>2, NoPipe
    <2> QED BY <2>1, <2>2, <2>3 DEF DInv, Passed
  <1>4. TInv /\ DInv /\ [Next]_vars =>
          [Completes => \A x \in File : \/ LibOfFile(x) \notin scan.jobs
                                        \/ scan.selective /\ FolderOf[x] \notin scan.targets
                                        \/ FolderOf[x] \in unsettled \/ x \in misread
                                        \/ Mirrors(x)]_vars
    BY <1>3 DEF Completes
  <1> QED BY <1>1, <1>2, <1>4, PTL DEF Spec, CompletedScanMirrorsDisk

\* For any folders, faults and interleaving with edits: only files that are gone, or
\* whose folder changed or was misread meanwhile, are marked missing.
THEOREM NoFalseMissingCorrect == Spec => NoFalseMissing
  <1>1. Init => TInv /\ DInv
    BY TInvInit, DInvInit
  <1>2. TInv /\ DInv /\ [Next]_vars => (TInv /\ DInv)'
    BY TInvStep, DInvStep
  <1>3. TInv /\ DInv /\ Next => \A x \in missing' \ missing : disk[x] = Absent \/ FolderOf[x] \in unsettled
    <2> SUFFICES ASSUME TInv, DInv, Next
                 PROVE  \A x \in missing' \ missing : disk[x] = Absent \/ FolderOf[x] \in unsettled
      OBVIOUS
    <2>1. ASSUME NEW f \in Folder, PersistChanges(f), NEW x \in missing' \ missing, f \notin unsettled
          PROVE  FolderOf[x] = f /\ disk[x] = Absent
      <3>1. x \in FilesIn(f) \ Seen(f) /\ InPipe(f)
        BY <2>1, PersistShape
      <3>2. Stat(f)[x] = Absent
        BY <2>1, <3>1 DEF DInv, SeenHolds, Seen
      <3> QED BY <3>1, <3>2, StatAbsent DEF TInv, FilesIn
    <2>2. CASE \E f \in Folder : PersistChanges(f)
      <3>1. PICK f \in Folder : PersistChanges(f)
        BY <2>2
      <3>2. \A x \in missing' \ missing : FolderOf[x] = f
        BY <3>1, PersistShape DEF FilesIn
      <3> QED BY <2>1, <3>1, <3>2
    <2>3. CASE FinalizeFolders
      <3> SUFFICES ASSUME NEW x \in missing' \ missing PROVE disk[x] = Absent \/ FolderOf[x] \in unsettled
        OBVIOUS
      <3>1. x \in File /\ FolderOf[x] \in lastUpdates
        BY <2>3, FinalizeLoses
      <3>2. FolderOf[x] \notin dir \/ FolderOf[x] \in unsettled
        BY <2>3, <3>1, FinalizeLoses
      <3> QED BY <3>1, <3>2 DEF TInv, TypeOK
    <2>4. CASE PurgeMissingTracks
      BY <2>4 DEF PurgeMissingTracks
    <2>5. CASE \/ \E full \in BOOLEAN : \E targets \in Targets \cup {{}} : StartScan(full, targets)
               \/ \E l \in Library : PrepareLibrary(l) \/ PrepareFails(l)
               \/ \E jobs \in SUBSET Library : CreateJobs(jobs)
               \/ NoLibraries \/ CutScan \/ Edits
      BY <2>5 DEF StartScan, PrepareLibrary, PrepareFails, CreateJobs, NoLibraries, CutScan, Edits, WriteFile,
                  RemoveFile, RemoveFolder, trackVars
    <2>6. CASE \/ \E f \in Folder : WalkFolder(f) \/ SkipGoneFolder(f) \/ WalkFails(f)
               \/ \E f \in Folder : \E unreadable \in SUBSET FilesIn(f) : ProcessFolder(f, unreadable)
               \/ \E f \in Folder : \E walked \in SUBSET Folder : PersistFails(f, walked)
      BY <2>6 DEF WalkFolder, SkipGoneFolder, WalkFails, ProcessFolder, PersistFails, trackVars
    <2>7. CASE \/ \E a \in Album : RefreshAlbum(a)
               \/ EndOfAlbums \/ RunGC \/ RunRefreshStats \/ RunUpdateLibraries
      BY <2>7 DEF RefreshAlbum, EndOfAlbums, RunGC, RunRefreshStats, RunUpdateLibraries, trackVars
    <2> QED BY <2>2, <2>3, <2>4, <2>5, <2>6, <2>7 DEF Next, ScanStep, Faults
  <1>4. TInv /\ DInv /\ [Next]_vars =>
          [\A x \in missing' \ missing : disk[x] = Absent \/ FolderOf[x] \in unsettled]_vars
    BY <1>3
  <1> QED BY <1>1, <1>2, <1>4, PTL DEF Spec, NoFalseMissing

\* For any number of interruptions and resumptions: a scan of everything does not
\* end a full scan before every folder was read since it began.
THEOREM FullScanReadsAllCorrect == Spec => FullScanReadsAll
  <1>1. Init => TInv /\ DInv
    BY TInvInit, DInvInit
  <1>2. TInv /\ DInv /\ [Next]_vars => (TInv /\ DInv)'
    BY TInvStep, DInvStep
  <1>3. TInv /\ DInv /\ pc = "update" /\ ~scan.selective =>
          \A f \in FoldersOf(scan.jobs \cap fullFlag) \cap dir : f \in unsettled \cup fresh
    <2> SUFFICES ASSUME TInv, DInv, pc = "update", ~scan.selective,
                        NEW f \in FoldersOf(scan.jobs \cap fullFlag) \cap dir
                 PROVE  f \in unsettled \cup fresh
      OBVIOUS
    <2>1. f \in Folder /\ LibOf[f] \in scan.libs \cap fullFlag /\ f \in ScopeOf \ todo
      BY DEF FoldersOf, ScopeOf, DInv, Stages
    <2>2. scan.full /\ Walking
      BY <2>1 DEF DInv, Stages, Walking
    <2>3. ~InPipe(f)
      BY <2>1, NoPipe
    <2> QED BY <2>1, <2>2, <2>3 DEF DInv, PassedFresh
  <1>4. TInv /\ DInv /\ [Next]_vars =>
          [Completes /\ ~scan.selective =>
             \A f \in FoldersOf(scan.jobs \cap fullFlag) \cap dir : f \in unsettled \cup fresh]_vars
    BY <1>3 DEF Completes
  <1> QED BY <1>1, <1>2, <1>4, PTL DEF Spec, FullScanReadsAll

-----------------------------------------------------------------------------
(* Statistics and empty albums.  A scan that found no change recounts      *)
(* nothing, so what counts is that changesDetected is never missed: as     *)
(* long as it is unset, the libraries in hand are as clean as the scan     *)
(* found them, or phase 1 made an album differ from its row that phase 3   *)
(* has yet to look at (Dirty), and refreshing it is a change.              *)

Clean(l) ==
  /\ libStats[l] = LibCount(l)
  /\ \A a \in AlbumsOf({l}) : (agg[a] # {} => TracksOf(a) # {}) /\ Fresh(a)

\* Which libraries a scan has begun, at each of its stages.
Begun ==
  /\ scan.toPrepare \subseteq scan.libs
  /\ pc = "idle" => scan.libs = {}
  /\ pc \notin {"idle", "prepare"} => scan.toPrepare = {}
  /\ inScan \ cut \subseteq scan.libs \ scan.toPrepare

Restful == \A l \in Library \ (inScan \cup cut) : Clean(l)

Dirty == \E a \in AlbumsOf(scan.libs) \cap touched : (pc = "albums" => a \in albumTodo) /\ ~Fresh(a)

Unchanged ==
  pc # "idle" /\ ~scan.changes =>
    \/ \A l \in scan.libs \ (scan.toPrepare \cup cut) : Clean(l)
    \/ pc \in {"missing", "albums"} /\ Dirty

\* What the garbage collector of a scan with changes leaves.
Emptied ==
  pc \in {"stats", "update"} /\ scan.changes =>
    \A a \in AlbumsOf(scan.libs) : TracksOf(a) = {} => agg[a] = {}

MInv == Begun /\ Restful /\ Unchanged /\ Emptied

\* A library stays clean when neither its rows nor its counts change.
LEMMA CleanKept ==
  ASSUME NEW l \in Library, Clean(l), libStats'[l] = libStats[l],
         \A x \in File : LibOfFile(x) = l => track'[x] = track[x] /\ (x \in missing' <=> x \in missing),
         \A a \in AlbumsOf({l}) : agg'[a] = agg[a]
  PROVE  Clean(l)'
  <1>1. ASSUME NEW a \in AlbumsOf({l}) PROVE TracksOf(a)' = TracksOf(a) /\ ToAlbum(a)' = ToAlbum(a)
    <2>1. \A x \in File : \A c : AlbumFor(x, c) = a => LibOfFile(x) = l
      BY <1>1 DEF AlbumFor, AlbumsOf, Album
    <2>2. TracksOf(a)' = TracksOf(a)
      BY <2>1 DEF TracksOf
    <2>3. \A x \in TracksOf(a) : track'[x] = track[x] /\ (x \in missing' <=> x \in missing)
      BY <2>1 DEF TracksOf
    <2> QED BY <2>2, <2>3 DEF ToAlbum
  <1>2. LibCount(l)' = LibCount(l)
    <2> DEFINE rows == {y \in File : track[y] # Absent /\ LibOfFile(y) = l}
    <2>1. rows' = rows
      OBVIOUS
    <2>2. \A x \in rows : x \in missing' <=> x \in missing
      OBVIOUS
    <2>3. {<<x, x \in missing>> : x \in rows}' = {<<x, x \in missing>> : x \in rows}
      BY <2>1, <2>2
    <2> DEFINE albums == {b \in AlbumsOf({l}) : agg[b] # {}}
    <2>4. albums' = albums
      BY DEF AlbumsOf
    <2>5. {<<a, agg[a]>> : a \in albums}' = {<<a, agg[a]>> : a \in albums}
      BY <2>4
    <2> QED BY <2>3, <2>5 DEF LibCount
  <1> QED BY <1>1, <1>2 DEF Clean, Fresh, AlbumsOf

\* The steps that write no rows.
LEMMA SameRows ==
  ASSUME UNCHANGED <<track, missing, agg, libStats>>
  PROVE  /\ \A l \in Library : Clean(l)' <=> Clean(l)
         /\ \A a \in Album : (Fresh(a)' <=> Fresh(a)) /\ TracksOf(a)' = TracksOf(a)
  <1>1. \A a \in Album : TracksOf(a)' = TracksOf(a) /\ ToAlbum(a)' = ToAlbum(a)
    BY DEF TracksOf, ToAlbum
  <1>2. \A l \in Library : LibCount(l)' = LibCount(l)
    BY DEF LibCount, AlbumsOf
  <1> QED BY <1>1, <1>2 DEF Clean, Fresh, AlbumsOf

LEMMA MInvInit == Init => MInv
  <1> SUFFICES ASSUME Init PROVE MInv
    OBVIOUS
  <1>1. \A a \in Album : agg[a] = {} /\ TracksOf(a) = {}
    BY DEF Init, TracksOf
  <1>2. ASSUME NEW l \in Library PROVE libStats[l] = LibCount(l)
    BY <1>1 DEF Init, LibCount, AlbumsOf
  <1>3. Restful
    BY <1>1, <1>2 DEF Restful, Clean, Fresh, AlbumsOf
  <1> QED BY <1>3 DEF Init, MInv, Begun, Unchanged, Emptied, NoScan

\* The request, ScanBegin and the jobs: a library is begun as clean as the last
\* scan left it.
LEMMA MInvBegin ==
  ASSUME TInv, MInv,
         \/ \E full \in BOOLEAN : \E targets \in Targets \cup {{}} : StartScan(full, targets)
         \/ \E l \in Library : PrepareLibrary(l) \/ PrepareFails(l)
         \/ \E jobs \in SUBSET Library : CreateJobs(jobs)
  PROVE  MInv'
  <1>1. UNCHANGED <<track, missing, agg, touched, libStats, cut>>
    BY DEF StartScan, PrepareLibrary, PrepareFails, CreateJobs, trackVars, albumVars, ghostVars
  <1>2. /\ \A l \in Library : Clean(l)' <=> Clean(l)
        /\ \A a \in Album : (Fresh(a)' <=> Fresh(a)) /\ TracksOf(a)' = TracksOf(a)
    BY <1>1, SameRows
  <1>3. CASE \E full \in BOOLEAN : \E targets \in Targets \cup {{}} : StartScan(full, targets)
    <2>1. /\ UNCHANGED inScan /\ pc = "idle" /\ pc' = "prepare"
          /\ scan'.toPrepare = scan'.libs
      BY <1>3 DEF StartScan, libVars
    <2> QED BY <1>1, <1>2, <2>1 DEF MInv, Begun, Restful, Unchanged, Emptied
  <1>4. ASSUME NEW l \in Library, PrepareLibrary(l) PROVE MInv'
    <2>1. /\ l \in scan.toPrepare /\ pc = "prepare" /\ pc' = "prepare" /\ inScan' = inScan \cup {l}
          /\ scan'.toPrepare = scan.toPrepare \ {l} /\ scan'.libs = scan.libs /\ scan'.changes = scan.changes
      BY <1>4, FirstIn DEF PrepareLibrary, ScanBegin, libVars, TInv, Shapes
    <2>2. l \in cut \/ Clean(l)
      BY <2>1 DEF MInv, Begun, Restful
    <2>3. Unchanged'
      BY <1>1, <1>2, <2>1, <2>2 DEF MInv, Unchanged, TInv, Shapes
    <2> QED BY <1>1, <1>2, <2>1, <2>3 DEF MInv, Begun, Restful, Emptied
  <1>5. ASSUME NEW l \in Library, PrepareFails(l) PROVE MInv'
    <2>1. /\ l \in scan.toPrepare /\ pc = "prepare" /\ pc' = "prepare" /\ UNCHANGED inScan /\ l \notin inScan
          /\ scan'.toPrepare = scan.toPrepare \ {l} /\ scan'.libs = scan.libs \ {l}
          /\ scan'.changes = scan.changes
      BY <1>5, FirstIn DEF PrepareFails, libVars, TInv, Shapes
    <2>2. Unchanged'
      BY <1>1, <1>2, <2>1 DEF MInv, Unchanged, TInv, Shapes
    <2> QED BY <1>1, <1>2, <2>1, <2>2 DEF MInv, Begun, Restful, Emptied
  <1>6. CASE \E jobs \in SUBSET Library : CreateJobs(jobs)
    <2>1. /\ UNCHANGED inScan /\ pc = "prepare" /\ pc' = "folders" /\ scan.toPrepare = {}
          /\ scan'.toPrepare = {} /\ scan'.libs = scan.libs /\ scan'.changes = scan.changes
      BY <1>6 DEF CreateJobs, libVars, TInv, Shapes
    <2>2. Unchanged'
      BY <1>1, <1>2, <2>1 DEF MInv, Unchanged, TInv, Shapes
    <2> QED BY <1>1, <1>2, <2>1, <2>2 DEF MInv, Begun, Restful, Emptied
  <1> QED BY <1>3, <1>4, <1>5, <1>6

\* The end of a scan that is cut short, or has nothing to scan.
LEMMA MInvStop ==
  ASSUME TInv, MInv, NoLibraries \/ CutScan PROVE MInv'
  <1>1. /\ UNCHANGED <<track, missing, agg, libStats, inScan>> /\ pc' = "idle"
        /\ scan'.libs = {} /\ scan'.toPrepare = {}
        /\ \/ scan.libs = {} /\ cut' = cut
           \/ cut' = cut \cup (scan.libs \ scan.toPrepare)
    BY DEF NoLibraries, CutScan, Stop, NoteCut, NoScan, trackVars, albumVars, libVars, ghostVars
  <1>2. \A l \in Library : Clean(l)' <=> Clean(l)
    BY <1>1, SameRows
  <1>3. cut \subseteq cut' /\ inScan \subseteq cut'
    BY <1>1 DEF MInv, Begun
  <1> QED BY <1>1, <1>2, <1>3 DEF MInv, Begun, Restful, Unchanged, Emptied

\* The steps that neither begin nor end anything, nor write rows.
LEMMA MInvQuiet ==
  ASSUME TInv, MInv, UNCHANGED <<track, missing, agg, touched, libStats, inScan, cut>>,
         scan'.libs = scan.libs, scan'.toPrepare = scan.toPrepare, scan.changes => scan'.changes,
         pc' # pc => pc = "stats" /\ pc' = "update",
         pc = "albums" => albumTodo' = albumTodo,
         pc \in {"stats", "update"} => scan'.changes = scan.changes
  PROVE  MInv'
  <1>1. /\ \A l \in Library : Clean(l)' <=> Clean(l)
        /\ \A a \in Album : (Fresh(a)' <=> Fresh(a)) /\ TracksOf(a)' = TracksOf(a)
    BY SameRows
  <1>2. Begun' /\ Restful'
    BY <1>1 DEF MInv, Begun, Restful
  <1>3. Emptied'
    BY <1>1 DEF MInv, Emptied, AlbumsOf
  <1>4. pc' \in {"missing", "albums"} /\ Dirty => Dirty'
    BY <1>1 DEF Dirty, AlbumsOf
  <1>5. Unchanged'
    BY <1>1, <1>4 DEF MInv, Unchanged, TInv, Shapes
  <1> QED BY <1>2, <1>3, <1>5 DEF MInv

\* persistChanges works in a library of the scan, and sets changesDetected.
LEMMA MInvPersist == ASSUME TInv, MInv, NEW f \in Folder, PersistChanges(f) PROVE MInv'
  <1>1. /\ UNCHANGED <<inScan, libStats, cut>> /\ pc = "folders" /\ pc' = "folders"
        /\ scan'.libs = scan.libs /\ scan'.toPrepare = scan.toPrepare /\ scan'.changes
        /\ LibOf[f] \in inScan
    BY DEF PersistChanges, libVars, TInv, Shapes, Scope, TypeOK
  <1>2. ASSUME NEW l \in Library \ (inScan \cup cut) PROVE Clean(l)'
    <2>1. \A x \in File : LibOfFile(x) = l => x \notin DOMAIN entry[f].tags /\ x \notin entry[f].gone
      BY <1>1 DEF PersistChanges, TInv, Pipeline, FilesIn, LibOfFile
    <2>2. \A x \in File : LibOfFile(x) = l => track'[x] = track[x] /\ (x \in missing' <=> x \in missing)
      BY <2>1 DEF PersistChanges
    <2>3. ASSUME NEW a \in AlbumsOf({l}) PROVE agg'[a] = agg[a]
      <3>1. \A x \in DOMAIN entry[f].tags : LibOfFile(x) # l
        BY <1>1 DEF PersistChanges, TInv, Pipeline, FilesIn, LibOfFile
      <3>2. a \notin {AlbumFor(x, entry[f].tags[x]) : x \in DOMAIN entry[f].tags}
        BY <3>1 DEF AlbumFor, AlbumsOf, Album
      <3>3. a \in Album
        BY DEF AlbumsOf
      <3> QED BY <3>2, <3>3 DEF PersistChanges
    <2>4. Clean(l)
      BY DEF MInv, Restful
    <2> QED BY <1>1, <2>2, <2>3, <2>4, CleanKept
  <1> QED BY <1>1, <1>2 DEF MInv, Begun, Restful, Unchanged, Emptied

\* A row marked missing makes its album differ from what the album's row says,
\* and the album is touched: phase 3 will see it.
LEMMA FinalizeDirties ==
  ASSUME TInv, MInv, FinalizeFolders, ~scan.err,
         NEW x \in File, FolderOf[x] \in lastUpdates, InDB(x), x \notin missing, Clean(LibOfFile(x))
  PROVE  Dirty'
  <1>0. PICK a \in Album : a = AlbumFor(x, track[x])
    BY AlbumForType DEF InDB, TInv, TypeOK
  <1>1. a \in Album /\ a \in AlbumsOf({LibOfFile(x)}) /\ x \in TracksOf(a)
    BY <1>0 DEF InDB, AlbumsOf, AlbumFor, TracksOf
  <1>2. agg[a] = ToAlbum(a)
    BY <1>1 DEF Clean, Fresh
  <1>3. /\ UNCHANGED <<track, agg, scan>> /\ pc = "folders" /\ pc' = "missing"
        /\ missing' = MarkMissingByFolder(lastUpdates)
        /\ touched' = touched \cup TouchByMissingFolder(lastUpdates)
    BY DEF FinalizeFolders
  <1>4. LibOfFile(x) \in scan.libs
    BY <1>3 DEF TInv, Scope, FoldersOf, LibOfFile
  <1>5. <<x, track[x], x \in missing>> \in agg[a]
    BY <1>1, <1>2 DEF ToAlbum
  <1>6. a \in touched'
    <2> DEFINE t == <<x, track[x], x \in missing>>
    <2>1. t \in agg[a] /\ FolderOf[t[1]] \in lastUpdates
      BY <1>5
    <2> QED BY <1>1, <1>3, <2>1 DEF TouchByMissingFolder
  <1>7. x \in missing'
    BY <1>3 DEF MarkMissingByFolder
  <1>8. x \in TracksOf(a)'
    BY <1>1, <1>3 DEF TracksOf
  <1>9. agg'[a] # ToAlbum(a)'
    <2> SUFFICES ASSUME agg[a] = ToAlbum(a)' PROVE FALSE
      BY <1>3
    <2>1. <<x, track[x], x \in missing'>> \in ToAlbum(a)
      BY <1>2, <1>3, <1>8 DEF ToAlbum
    <2>2. PICK y \in TracksOf(a) : <<x, track[x], x \in missing'>> = <<y, track[y], y \in missing>>
      BY <2>1 DEF ToAlbum
    <2>3. x = y /\ ((x \in missing') = (y \in missing))
      BY <2>2
    <2> QED BY <1>7, <2>3
  <1>10. ~Fresh(a)'
    BY <1>8, <1>9 DEF Fresh
  <1>11. a \in AlbumsOf(scan.libs)
    BY <1>0, <1>4 DEF AlbumsOf, AlbumFor
  <1> QED BY <1>3, <1>6, <1>10, <1>11 DEF Dirty, AlbumsOf

LEMMA MInvFinalize == ASSUME TInv, MInv, FinalizeFolders PROVE MInv'
  <1> DEFINE lost == {x \in File : FolderOf[x] \in lastUpdates /\ InDB(x)}
  <1>1. /\ UNCHANGED <<track, agg, inScan, libStats>> /\ missing' = missing \cup lost
        /\ pc = "folders" /\ lastUpdates \subseteq FoldersOf(scan.libs)
    <2>1. UNCHANGED <<track, agg, inScan, libStats>> /\ pc = "folders"
      BY DEF FinalizeFolders, libVars
    <2>2. lastUpdates \subseteq FoldersOf(scan.libs)
      BY <2>1 DEF TInv, Scope
    <2>3. CASE lastUpdates = {}
      BY <2>1, <2>2, <2>3 DEF FinalizeFolders
    <2>4. CASE lastUpdates # {}
      BY <2>1, <2>2, <2>4 DEF FinalizeFolders, MarkMissingByFolder
    <2> QED BY <2>3, <2>4
  <1>2. ASSUME NEW l \in Library, Clean(l), \A x \in lost : LibOfFile(x) = l => x \in missing
        PROVE  Clean(l)'
    <2>1. \A x \in File : LibOfFile(x) = l => track'[x] = track[x] /\ (x \in missing' <=> x \in missing)
      BY <1>1, <1>2
    <2> QED BY <1>1, <1>2, <2>1, CleanKept
  <1>3. \A x \in lost : LibOfFile(x) \in scan.libs /\ LibOfFile(x) \in inScan
    BY <1>1 DEF FoldersOf, LibOfFile, TInv, TypeOK
  <1>4. \A l \in Library \ (inScan \cup cut) : Clean(l)'
    BY <1>2, <1>3 DEF MInv, Restful
  <1>5. CASE scan.err
    <2>1. pc' = "idle" /\ scan'.libs = {} /\ scan'.toPrepare = {} /\ cut' = cut \cup (scan.libs \ scan.toPrepare)
      BY <1>5 DEF FinalizeFolders, Stop, NoteCut, NoScan
    <2> QED BY <1>1, <1>4, <2>1 DEF MInv, Begun, Restful, Unchanged, Emptied
  <1>6. CASE ~scan.err
    <2>1. pc' = "missing" /\ scan' = scan /\ cut' = cut
      BY <1>6 DEF FinalizeFolders
    <2>2. ASSUME ~scan.changes
          PROVE  (\A l \in scan.libs \ (scan.toPrepare \cup cut) : Clean(l)') \/ Dirty'
      <3>1. \A l \in scan.libs \ (scan.toPrepare \cup cut) : Clean(l)
        BY <1>1, <2>2 DEF MInv, Unchanged
      <3>2. CASE \E x \in lost : LibOfFile(x) \notin cut /\ x \notin missing
        <4>1. PICK x \in lost : LibOfFile(x) \notin cut /\ x \notin missing
          BY <3>2
        <4>2. Clean(LibOfFile(x))
          BY <1>1, <1>3, <3>1, <4>1 DEF MInv, Begun
        <4> QED BY <1>6, <4>1, <4>2, FinalizeDirties
      <3>3. CASE \A x \in lost : LibOfFile(x) \notin cut => x \in missing
        BY <1>2, <3>1, <3>3 DEF TInv, Shapes
      <3> QED BY <3>2, <3>3
    <2>3. Unchanged'
      BY <2>1, <2>2 DEF Unchanged
    <2> QED BY <1>1, <1>4, <2>1, <2>3 DEF MInv, Begun, Restful, Emptied
  <1> QED BY <1>5, <1>6

\* The purge of a scan without changes deletes nothing.
LEMMA MInvPurge ==
  ASSUME PurgeMissing # "full", TInv, AInv, MInv, PurgeMissingTracks PROVE MInv'
  <1>1. /\ UNCHANGED <<agg, touched, inScan, libStats, cut>> /\ pc = "missing" /\ pc' = "albums"
        /\ scan'.libs = scan.libs /\ scan'.toPrepare = scan.toPrepare
        /\ albumTodo' = touched \cap AlbumsOf(scan.libs)
    BY DEF PurgeMissingTracks, GetTouchedAlbums, albumVars, libVars, ghostVars, TInv, Shapes
  <1>2. /\ \A x \in File : x \notin missing => track'[x] = track[x] /\ x \notin missing'
        /\ PurgeMissing # "always" => track' = track /\ missing' = missing
        /\ ~scan'.changes => ~scan.changes /\ track' = track /\ missing' = missing
    <2>1. CASE PurgeMissing = "always"
      <3>1. /\ track' = [x \in File |-> IF x \in missing THEN Absent ELSE track[x]]
            /\ missing' = {} /\ scan'.changes = (scan.changes \/ missing # {})
        BY <2>1 DEF PurgeMissingTracks, ChangesAfterPurge, TInv, Shapes
      <3> QED BY <2>1, <3>1 DEF TInv, TypeOK
    <2>2. CASE PurgeMissing # "always"
      <3>1. track' = track /\ missing' = missing /\ scan'.changes = (scan.changes \/ {} # {})
        BY <2>2 DEF PurgeMissingTracks, ChangesAfterPurge, TInv, TypeOK, Shapes
      <3> QED BY <3>1
    <2> QED BY <2>1, <2>2
  <1>3. Restful'
    <2> SUFFICES ASSUME NEW l \in Library \ (inScan \cup cut) PROVE Clean(l)'
      BY <1>1 DEF Restful
    <2>1. Clean(l)
      BY DEF MInv, Restful
    <2>2. \A x \in File : LibOfFile(x) = l => track'[x] = track[x] /\ (x \in missing' <=> x \in missing)
      BY <1>2 DEF AInv, Purged
    <2> QED BY <1>1, <2>1, <2>2, CleanKept
  <1>4. Unchanged'
    <2> SUFFICES ASSUME ~scan'.changes
                 PROVE  (\A l \in scan.libs \ (scan.toPrepare \cup cut) : Clean(l)') \/ Dirty'
      BY <1>1 DEF Unchanged
    <2>1. UNCHANGED <<track, missing, agg, libStats>> /\ ~scan.changes
      BY <1>1, <1>2
    <2>2. /\ \A l \in Library : Clean(l)' <=> Clean(l)
          /\ \A a \in Album : Fresh(a)' <=> Fresh(a)
      BY <2>1, SameRows
    <2>3. Dirty => Dirty'
      BY <1>1, <2>2 DEF Dirty, AlbumsOf
    <2> QED BY <1>1, <2>1, <2>2, <2>3 DEF MInv, Unchanged, TInv, Shapes
  <1> QED BY <1>1, <1>3, <1>4 DEF MInv, Begun, Emptied

\* Phase 3 cannot pass a dirty album without setting changesDetected.
LEMMA MInvRefresh == ASSUME TInv, MInv, NEW b \in Album, RefreshAlbum(b) PROVE MInv'
  <1> DEFINE refresh == TracksOf(b) # {} /\ agg[b] # ToAlbum(b)
  <1>1. /\ UNCHANGED <<track, missing, touched, inScan, libStats, cut>> /\ pc = "albums" /\ pc' = "albums"
        /\ scan'.libs = scan.libs /\ scan'.toPrepare = scan.toPrepare
        /\ scan'.changes = (scan.changes \/ refresh)
        /\ albumTodo' = albumTodo \ {b}
        /\ agg' = IF refresh THEN [agg EXCEPT ![b] = ToAlbum(b)] ELSE agg
    BY DEF RefreshAlbum, ChangesAfterRefresh, trackVars, libVars, ghostVars, TInv, Shapes
  <1>2. Fresh(b) => agg' = agg
    BY <1>1 DEF Fresh
  <1>3. Restful'
    <2> SUFFICES ASSUME NEW l \in Library \ (inScan \cup cut) PROVE Clean(l)'
      BY <1>1 DEF Restful
    <2>1. Clean(l)
      BY DEF MInv, Restful
    <2>2. \A a \in AlbumsOf({l}) : agg'[a] = agg[a]
      <3>1. CASE b \in AlbumsOf({l})
        BY <1>2, <2>1, <3>1 DEF Clean
      <3>2. CASE b \notin AlbumsOf({l})
        BY <1>1, <3>2 DEF AlbumsOf, TInv, Shapes
      <3> QED BY <3>1, <3>2
    <2> QED BY <1>1, <2>1, <2>2, CleanKept
  <1>4. Unchanged'
    <2> SUFFICES ASSUME ~scan'.changes
                 PROVE  (\A l \in scan.libs \ (scan.toPrepare \cup cut) : Clean(l)') \/ Dirty'
      BY <1>1 DEF Unchanged
    <2>1. ~scan.changes /\ ~refresh /\ UNCHANGED <<track, missing, agg, libStats>>
      BY <1>1
    <2>2. /\ \A l \in Library : Clean(l)' <=> Clean(l)
          /\ \A a \in Album : Fresh(a)' <=> Fresh(a)
      BY <2>1, SameRows
    <2>3. Fresh(b)
      BY <2>1 DEF Fresh
    <2>4. Dirty => Dirty'
      BY <1>1, <2>2, <2>3 DEF Dirty, AlbumsOf
    <2> QED BY <1>1, <2>1, <2>2, <2>4 DEF MInv, Unchanged, TInv, Shapes
  <1> QED BY <1>1, <1>3, <1>4 DEF MInv, Begun, Emptied

LEMMA MInvEndOfAlbums == ASSUME TInv, MInv, EndOfAlbums PROVE MInv'
  <1>1. /\ UNCHANGED <<track, missing, agg, touched, libStats, inScan, cut, scan>>
        /\ pc = "albums" /\ albumTodo = {} /\ pc' = "gc"
    BY DEF EndOfAlbums, trackVars, albumVars, libVars, ghostVars
  <1>2. \A l \in Library : Clean(l)' <=> Clean(l)
    BY <1>1, SameRows
  <1>3. ~Dirty
    BY <1>1 DEF Dirty
  <1>4. Unchanged'
    BY <1>1, <1>2, <1>3 DEF MInv, Unchanged, TInv, Shapes
  <1> QED BY <1>1, <1>2, <1>4 DEF MInv, Begun, Restful, Emptied

\* The garbage collector finds nothing in a clean library.
LEMMA MInvGC == ASSUME TInv, MInv, RunGC PROVE MInv'
  <1> DEFINE libs == IF scan.selective THEN scan.libs ELSE Library
  <1>1. /\ UNCHANGED <<track, missing, libStats, inScan, cut, scan>> /\ pc = "gc" /\ pc' = "stats"
        /\ agg' = IF scan.changes THEN [a \in Album |-> IF a \in EmptyAlbums(libs) THEN {} ELSE agg[a]] ELSE agg
    BY DEF RunGC, trackVars, libVars, ghostVars
  <1>2. Restful'
    <2> SUFFICES ASSUME NEW l \in Library \ (inScan \cup cut) PROVE Clean(l)'
      BY <1>1 DEF Restful
    <2>1. Clean(l)
      BY DEF MInv, Restful
    <2>2. \A a \in AlbumsOf({l}) : agg'[a] = agg[a]
      BY <1>1, <2>1 DEF Clean, EmptyAlbums, AlbumsOf
    <2> QED BY <1>1, <2>1, <2>2, CleanKept
  <1>3. Unchanged'
    <2> SUFFICES ASSUME ~scan.changes PROVE \A l \in scan.libs \ (scan.toPrepare \cup cut) : Clean(l)'
      BY <1>1 DEF Unchanged
    <2>1. \A l \in Library : Clean(l)' <=> Clean(l)
      BY <1>1, SameRows
    <2> QED BY <1>1, <2>1 DEF MInv, Unchanged, TInv, Shapes
  <1>4. Emptied'
    <2> SUFFICES ASSUME scan.changes, NEW a \in AlbumsOf(scan.libs), TracksOf(a) = {} PROVE agg'[a] = {}
      BY <1>1 DEF Emptied, TracksOf, AlbumsOf
    <2>1. a \in EmptyAlbums(libs) /\ a \in Album
      BY DEF EmptyAlbums, AlbumsOf, TInv, Shapes
    <2> QED BY <1>1, <2>1
  <1> QED BY <1>1, <1>2, <1>3, <1>4 DEF MInv, Begun

\* ScanEnd leaves every library of the scan recounted, or as clean as it was.
LEMMA MInvUpdate == ASSUME TInv, AInv, MInv, RunUpdateLibraries PROVE MInv'
  <1>1. /\ UNCHANGED <<track, missing, agg>> /\ pc = "update" /\ pc' = "idle"
        /\ inScan' = inScan \ scan.libs /\ scan'.libs = {} /\ scan'.toPrepare = {}
        /\ cut' = IF scan.changes THEN cut \ scan.libs ELSE cut
        /\ \A l \in Library : libStats'[l] = IF l \in scan.libs /\ scan.changes THEN LibCount(l) ELSE libStats[l]
    BY DEF RunUpdateLibraries, ScanEnd, Stop, NoScan, trackVars
  <1>2. ASSUME NEW l \in Library, Clean(l), libStats'[l] = libStats[l] PROVE Clean(l)'
    BY <1>1, <1>2, CleanKept
  <1>3. ASSUME NEW l \in scan.libs, l \in Library, scan.changes PROVE Clean(l)'
    <2>1. libStats'[l] = LibCount(l)'
      <3>1. LibCount(l)' = LibCount(l)
        BY <1>1 DEF LibCount, AlbumsOf
      <3> QED BY <1>1, <1>3, <3>1
    <2>2. ASSUME NEW a \in AlbumsOf({l}) PROVE Fresh(a) /\ (agg[a] # {} => TracksOf(a) # {})
      BY <1>1, <1>3 DEF AInv, SettledFresh, Settled, AlbumsOf, MInv, Emptied
    <2>3. \A a \in AlbumsOf({l}) : (Fresh(a)' <=> Fresh(a)) /\ TracksOf(a)' = TracksOf(a)
      BY <1>1 DEF Fresh, TracksOf, ToAlbum
    <2> QED BY <1>1, <2>1, <2>2, <2>3 DEF Clean, AlbumsOf
  <1>4. Restful'
    <2> SUFFICES ASSUME NEW l \in Library \ (inScan' \cup cut') PROVE Clean(l)'
      BY DEF Restful
    <2>1. CASE l \in scan.libs /\ scan.changes
      BY <1>3, <2>1
    <2>2. CASE l \in scan.libs /\ ~scan.changes
      <3>1. Clean(l)
        BY <1>1, <2>2 DEF MInv, Begun, Unchanged
      <3> QED BY <1>1, <1>2, <2>2, <3>1
    <2>3. CASE l \notin scan.libs
      <3>1. Clean(l)
        BY <1>1, <2>3 DEF MInv, Restful
      <3> QED BY <1>1, <1>2, <2>3, <3>1
    <2> QED BY <2>1, <2>2, <2>3
  <1> QED BY <1>1, <1>4 DEF MInv, Begun, Unchanged, Emptied

LEMMA MInvStep ==
  ASSUME PurgeMissing # "full", TInv, AInv, MInv, [Next]_vars PROVE MInv'
  <1>1. CASE \/ \E full \in BOOLEAN : \E targets \in Targets \cup {{}} : StartScan(full, targets)
             \/ \E l \in Library : PrepareLibrary(l) \/ PrepareFails(l)
             \/ \E jobs \in SUBSET Library : CreateJobs(jobs)
             \/ NoLibraries \/ CutScan
    BY <1>1, MInvBegin, MInvStop
  <1>2. CASE \/ \E f \in Folder : PersistChanges(f)
             \/ FinalizeFolders \/ PurgeMissingTracks
    BY <1>2, MInvPersist, MInvFinalize, MInvPurge
  <1>3. CASE \/ \E a \in Album : RefreshAlbum(a)
             \/ EndOfAlbums \/ RunGC \/ RunUpdateLibraries
    BY <1>3, MInvRefresh, MInvEndOfAlbums, MInvGC, MInvUpdate
  <1>4. CASE \/ \E f \in Folder : WalkFolder(f) \/ SkipGoneFolder(f) \/ WalkFails(f)
             \/ \E f \in Folder : \E unreadable \in SUBSET FilesIn(f) : ProcessFolder(f, unreadable)
             \/ RunRefreshStats \/ Edits \/ UNCHANGED vars
    <2>1. CASE \/ \E f \in Folder : WalkFolder(f) \/ SkipGoneFolder(f) \/ WalkFails(f)
               \/ \E f \in Folder : \E unreadable \in SUBSET FilesIn(f) : ProcessFolder(f, unreadable)
      <3>1. UNCHANGED <<track, missing, agg, touched, libStats, inScan, cut, scan, albumTodo, pc>>
        BY <2>1 DEF WalkFolder, SkipGoneFolder, WalkFails, ProcessFolder, trackVars, albumVars, libVars, ghostVars
      <3> QED BY <3>1, MInvQuiet
    <2>2. CASE RunRefreshStats
      <3>1. /\ UNCHANGED <<track, missing, agg, touched, libStats, inScan, cut, scan, albumTodo>>
            /\ pc = "stats" /\ pc' = "update"
        BY <2>2 DEF RunRefreshStats, trackVars, albumVars, libVars, ghostVars
      <3> QED BY <3>1, MInvQuiet
    <2>3. CASE Edits \/ UNCHANGED vars
      <3>1. UNCHANGED <<track, missing, agg, touched, libStats, inScan, cut, scan, albumTodo, pc>>
        BY <2>3 DEF Edits, WriteFile, RemoveFile, RemoveFolder, vars, trackVars, albumVars, libVars,
                    scanVars, ghostVars
      <3> QED BY <3>1, MInvQuiet
    <2> QED BY <1>4, <2>1, <2>2, <2>3
  <1>5. CASE \E f \in Folder : \E walked \in SUBSET Folder : PersistFails(f, walked)
    <2>1. /\ UNCHANGED <<track, missing, agg, touched, libStats, inScan, cut>>
          /\ UNCHANGED albumTodo /\ UNCHANGED pc /\ pc = "folders"
          /\ scan'.libs = scan.libs /\ scan'.toPrepare = scan.toPrepare /\ scan'.changes
      BY <1>5 DEF PersistFails, trackVars, albumVars, libVars, TInv, Shapes
    <2>2. pc \notin {"stats", "update"}
      BY <2>1
    <2> QED BY <2>1, <2>2, MInvQuiet
  <1> QED BY <1>1, <1>2, <1>3, <1>4, <1>5 DEF Next, ScanStep, Faults

\* For any libraries and any scans, selective or of everything, finished, cut short or
\* failing half way: outside scans, a library none of whose changes came from a scan
\* that was cut short has exact counts and no album row without tracks.
THEOREM MaintenanceDoneCorrect ==
  ASSUME NoRetag, PurgeMissing # "full"
  PROVE  Spec => []MaintenanceDone
  <1> DEFINE Inv == TInv /\ AInv /\ MInv
  <1>1. Init => Inv
    <2>1. Init => AInv
      BY DEF Init, AInv, Purged, SettledFresh, Fresh, TracksOf
    <2> QED BY <2>1, TInvInit, MInvInit
  <1>2. Inv /\ [Next]_vars => Inv'
    BY TInvStep, AInvStep, MInvStep
  <1>3. Inv => MaintenanceDone
    BY DEF MInv, Restful, Clean, MaintenanceDone
  <1> QED BY <1>1, <1>2, <1>3, PTL DEF Spec
=============================================================================
