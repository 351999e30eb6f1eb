------------------------- MODULE MCLibraryWatchers -------------------------
EXTENDS LibraryWatchers, TLC

\* Libraries are numbered, and 0 is the library of no instance: only the paths and
\* the sessions are interchangeable.
Symmetry == Permutations(Path) \cup Permutations(Session)
=============================================================================
