--------------------------- MODULE MCScrobbling ----------------------------
(* A plugin that comes and goes, two plays of one user and one of another. *)
EXTENDS Scrobbling

CONSTANTS plugin, ann, bob, a1, a2, b1

MCServiceOf == [i \in Instance |-> plugin]
MCUserOf == [p \in Play |-> IF p = b1 THEN bob ELSE ann]
MCTimeOf == [p \in Play |-> IF p = a2 THEN 2 ELSE 1]
=============================================================================
