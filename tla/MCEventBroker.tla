--------------------------- MODULE MCEventBroker ---------------------------
(* Two connections of different browsers; the first user has one of them. *)
EXTENDS EventBroker

CONSTANTS c1, c2, u1, u2, ann, bob

MCUidOf == [c \in Client |-> IF c = c1 THEN u1 ELSE u2]
MCNameOf == [c \in Client |-> IF c = c1 THEN ann ELSE bob]
=============================================================================
