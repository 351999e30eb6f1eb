------------------------- MODULE ScrobbleDelivery --------------------------
(***************************************************************************)
(* What the scrobble buffer promises (core/scrobbler/buffered_scrobbler.go *)
(* and persistence/scrobble_buffer_repository.go), without saying how: a   *)
(* buffered scrobble waits until its service has answered for it, the      *)
(* answers to one user come in the order of the plays, and nothing else    *)
(* takes it out but the deletion of its user or its track.                 *)
(*                                                                         *)
(* A ticket is a row of scrobble_buffer: a play and the order of insertion.*)
(***************************************************************************)
EXTENDS Naturals

CONSTANTS Service, Play, User,
          UserOf, \* Play -> the user who played it
          TimeOf  \* Play -> its play_time

VARIABLES pending,  \* Service -> the tickets waiting
          answered, \* Service -> the tickets it accepted or refused for good
          lastId    \* the last ticket given out

vars == <<pending, answered, lastId>>

\* The tickets given out so far.
Ticket == [id : 1..lastId, play : Play]

Init ==
  /\ pending = [s \in Service |-> {}] /\ answered = [s \in Service |-> {}]
  /\ lastId = 0

\* A play is buffered once per service at a time.
Accept(s, p) ==
  /\ \A t \in pending[s] : t.play # p
  /\ lastId' = lastId + 1
  /\ pending' = [pending EXCEPT ![s] = @ \cup {[id |-> lastId + 1, play |-> p]}]
  /\ UNCHANGED answered

\* q was buffered before t, and is not played after it by the same user.
Precedes(q, t) ==
  /\ UserOf[q.play] = UserOf[t.play]
  /\ q.id < t.id /\ TimeOf[q.play] <= TimeOf[t.play]

\* The service answers for t: whatever precedes t has left already.  A ticket
\* may be answered again, and even after it left (at least once, not once).
Answer(s, t) ==
  /\ \A q \in pending[s] : ~Precedes(q, t)
  /\ answered' = [answered EXCEPT ![s] = @ \cup {t}]
  /\ UNCHANGED <<pending, lastId>>

Settle(s, t) ==
  /\ t \in pending[s] \cap answered[s]
  /\ pending' = [pending EXCEPT ![s] = @ \ {t}]
  /\ UNCHANGED <<answered, lastId>>

\* The tracks of these plays, or their user, are deleted.
Forget(plays) ==
  /\ pending' = [s \in Service |-> {t \in pending[s] : t.play \notin plays}]
  /\ UNCHANGED <<answered, lastId>>

Next ==
  \/ \E s \in Service, p \in Play : Accept(s, p)
  \/ \E s \in Service, t \in Ticket : Answer(s, t) \/ Settle(s, t)
  \/ \E plays \in SUBSET Play : Forget(plays)

Spec == Init /\ [][Next]_vars
=============================================================================
