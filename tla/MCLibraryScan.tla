--------------------------- MODULE MCLibraryScan ---------------------------
(* One library, a folder of two files and a folder of one, all of one album. *)
EXTENDS LibraryScan

MCLibrary == {"l1"}
MCFolder == {"f1", "f2"}
MCFile == {"x1", "x2", "x3"}
MCTitle == {"A"}
\* v2 replaces v1 with a later time; s1 is v1 with other tags and the same stat.
MCContent == {"v1", "s1", "v2"}
MCLibOf == [f \in MCFolder |-> "l1"]
MCFolderOf == [x \in MCFile |-> IF x = "x3" THEN "f2" ELSE "f1"]
MCHashOf == [c \in MCContent |-> IF c = "v2" THEN 2 ELSE 1]
MCModTime == [c \in MCContent |-> IF c = "v2" THEN 2 ELSE 1]
MCTargets == {}
MCStartDisk == [x \in MCFile |-> "v1"]
MCTitleOf == [x \in MCFile |-> [c \in MCContent |-> "A"]]
=============================================================================
