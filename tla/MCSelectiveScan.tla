-------------------------- MODULE MCSelectiveScan --------------------------
(* Two libraries: in l1 one album spread over two folders, in l2 another. *)
EXTENDS LibraryScan

MCLibrary == {"l1", "l2"}
MCFolder == {"f1", "f2", "f3"}
MCFile == {"x1", "x2", "x3"}
MCTitle == {"A"}
MCContent == {"v1", "v2"}
MCLibOf == [f \in MCFolder |-> IF f = "f3" THEN "l2" ELSE "l1"]
MCFolderOf == [x \in MCFile |-> CASE x = "x1" -> "f1" [] x = "x2" -> "f2" [] x = "x3" -> "f3"]
MCHashOf == [c \in MCContent |-> IF c = "v2" THEN 2 ELSE 1]
MCModTime == MCHashOf
MCTitleOf == [x \in MCFile |-> [c \in MCContent |-> "A"]]
MCTargets == {{"f1"}}
MCStartDisk == [x \in MCFile |-> "v1"]
=============================================================================
