---------------------------- MODULE MCPlaylists ----------------------------
(* A playlist of two tracks, three requests of two clients.                *)
EXTENDS Playlists

Symmetry == Permutations(Track) \cup Permutations(Worker)
=============================================================================
