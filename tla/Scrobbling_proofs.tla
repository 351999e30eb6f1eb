------------------------- MODULE Scrobbling_proofs -------------------------
(***************************************************************************)
(* For any services, plays, requests, reloads and faults: one loop at most *)
(* is at large per service, no row is forgotten, and the buffer keeps the  *)
(* promise of ScrobbleDelivery.                                            *)
(*                                                                         *)
(* One loop per service comes from the registered instances: there is one  *)
(* per service, and who is not registered was stopped.  That makes the     *)
(* instance a request signals the one that the row waits for, unless the   *)
(* row is an orphan.  The refinement needs what a loop holds between the   *)
(* read of a row and its deletion: nothing that precedes it can be         *)
(* buffered any more, and it is deleted only once it was answered.         *)
(***************************************************************************)
EXTENDS Scrobbling, TLAPS

Working == {"next", "send", "dequeue"}
PC == {"absent", "users", "wait", "gone"} \cup Working
Req == [pc : {"idle", "dispatch", "wake"}, play : Play \cup {None}, left : SUBSET Instance,
        at : Instance \cup {None}]

LoopsTyped ==
  /\ pc \in [Instance -> PC] /\ cancelled \in [Instance -> BOOLEAN]
  /\ wake \in [Instance -> BOOLEAN] /\ ok \in [Instance -> BOOLEAN] /\ timers \in [Instance -> Nat]
  /\ user = [i \in Instance |-> user[i]] /\ todo = [i \in Instance |-> todo[i]]
  /\ row = [i \in Instance |-> row[i]]

RowsTyped ==
  /\ lastId \in Nat /\ buffer \in [Service -> SUBSET Delivery!Ticket]
  /\ answered = [s \in Service |-> answered[s]]

RequestsTyped ==
  /\ req \in [Request -> Req]
  /\ \A r \in Request :
       /\ req[r].pc # "idle" => req[r].play \in Play
       /\ req[r].pc = "wake" => req[r].at \in req[r].left
       /\ \A i \in req[r].left : pc[i] # "absent"

\* The registered instances are those at large and not stopped, one per service.
Registered ==
  /\ available \subseteq Plugin /\ registered \subseteq Instance
  /\ \A i \in registered : pc[i] \notin {"absent", "gone"} /\ ~cancelled[i]
  /\ \A i \in Instance : pc[i] # "absent" /\ ~cancelled[i] => i \in registered
  /\ \A i \in Instance : pc[i] = "absent" => ~cancelled[i]
  /\ \A i, j \in registered : ServiceOf[i] = ServiceOf[j] => i = j

\* What a loop holds between Next and Dequeue.
InHand ==
  \A i \in Instance :
    /\ pc[i] \in {"send", "dequeue"} =>
         /\ row[i] \in Delivery!Ticket
         /\ \A q \in buffer[ServiceOf[i]] : ~Delivery!Precedes(q, row[i])
    /\ pc[i] = "dequeue" => row[i] \in answered[ServiceOf[i]]

SInv == LoopsTyped /\ RowsTyped /\ RequestsTyped /\ Registered /\ InHand /\ NoLostWakeup

LEMMA SInvInit == Init => SInv
  <1> SUFFICES ASSUME Init PROVE SInv
    OBVIOUS
  <1>1. LoopsTyped
    BY DEF Init, LoopsTyped, PC
  <1>2. RowsTyped
    BY DEF Init, RowsTyped
  <1>3. RequestsTyped
    BY DEF Init, RequestsTyped, Req, Idle
  <1>4. Registered
    BY ScrobblingAssumption DEF Init, Registered, Builtin
  <1>5. InHand
    BY DEF Init, InHand
  <1>6. NoLostWakeup
    BY DEF Init, NoLostWakeup, Watches, Builtin
  <1> QED BY <1>1, <1>2, <1>3, <1>4, <1>5, <1>6 DEF SInv

-----------------------------------------------------------------------------
(* The loops. *)

\* A step of the goroutine of i, or of one of its timers.
Frame(i) ==
  /\ LoopsTyped'
  /\ \A j \in Instance \ {i} :
       /\ pc'[j] = pc[j] /\ wake'[j] = wake[j] /\ timers'[j] = timers[j] /\ ok'[j] = ok[j]
       /\ user'[j] = user[j] /\ todo'[j] = todo[j] /\ row'[j] = row[j]
  /\ \/ pc'[i] = pc[i]
     \/ pc[i] # "absent" /\ pc'[i] # "absent" /\ (pc'[i] = "gone" => cancelled[i])
  /\ UNCHANGED <<available, registered, cancelled, req, lastId, orphans>>

LEMMA FrameKeeps ==
  ASSUME SInv, NEW i \in Instance, Frame(i)
  PROVE  RequestsTyped' /\ Registered'
  <1>1. \A j \in Instance : (pc'[j] = "absent" <=> pc[j] = "absent") /\ (pc'[j] = "gone" => pc[j] = "gone" \/ cancelled[j])
    BY DEF Frame
  <1>2. RequestsTyped'
    BY <1>1 DEF Frame, SInv, RequestsTyped, Req
  <1>3. Registered'
    BY <1>1 DEF Frame, SInv, Registered
  <1> QED BY <1>2, <1>3

\* Rows only leave; what concerns i is left to the caller.
LEMMA FrameHand ==
  ASSUME SInv, NEW i \in Instance, Frame(i), \A s \in Service : buffer'[s] \subseteq buffer[s],
         \A s \in Service : answered[s] \subseteq answered'[s],
         pc'[i] \in {"send", "dequeue"} =>
           /\ row'[i] \in Delivery!Ticket
           /\ \A q \in buffer[ServiceOf[i]] : ~Delivery!Precedes(q, row'[i]),
         pc'[i] = "dequeue" => row'[i] \in answered'[ServiceOf[i]]
  PROVE  InHand'
  <1> SUFFICES ASSUME NEW j \in Instance
               PROVE  /\ pc'[j] \in {"send", "dequeue"} =>
                           /\ row'[j] \in Delivery!Ticket
                           /\ \A q \in buffer'[ServiceOf[j]] : ~Delivery!Precedes(q, row'[j])
                      /\ pc'[j] = "dequeue" => row'[j] \in answered'[ServiceOf[j]]
    BY DEF InHand, Frame, Delivery!Ticket, Delivery!Precedes
  <1>1. ServiceOf[j] \in Service
    BY ScrobblingAssumption
  <1>2. CASE j = i
    BY <1>1, <1>2
  <1>3. CASE j # i
    BY <1>1, <1>3 DEF Frame, SInv, InHand
  <1> QED BY <1>2, <1>3

LEMMA FrameWakes ==
  ASSUME SInv, NEW i \in Instance, Frame(i), \A s \in Service : buffer'[s] \subseteq buffer[s],
         i \in registered => \A t \in buffer'[ServiceOf[i]] : Watches(i, t) => Watches(i, t)'
  PROVE  NoLostWakeup'
  <1> SUFFICES ASSUME NEW j \in registered, NEW t \in buffer'[ServiceOf[j]] \ orphans
               PROVE  Watches(j, t)'
    BY DEF NoLostWakeup, Frame
  <1>1. j \in Instance /\ ServiceOf[j] \in Service
    BY ScrobblingAssumption DEF SInv, Registered
  <1>2. Watches(j, t)
    BY <1>1 DEF SInv, NoLostWakeup
  <1>3. CASE j = i
    BY <1>2, <1>3
  <1>4. CASE j # i
    BY <1>1, <1>2, <1>4 DEF Frame, Watches
  <1> QED BY <1>3, <1>4

\* processUserQueue fails: another round is sure to come.
LEMMA FailsFrame ==
  ASSUME SInv, NEW i \in Instance, pc[i] \in Working, EndUser(i, FALSE),
         row' = row \/ row' = [row EXCEPT ![i] = Nobody],
         UNCHANGED <<available, registered, cancelled, wake, req, rows, history>>
  PROVE  SInv'
  <1>1. UNCHANGED <<buffer, lastId, answered, orphans>>
    BY DEF rows, history
  <1>2. /\ Frame(i) /\ pc'[i] \in {"wait", "next"}
        /\ timers'[i] > 0 \/ ~ok'[i]
    <2>1. CASE todo[i] = {}
      <3>1. /\ pc' = [pc EXCEPT ![i] = "wait"] /\ timers' = [timers EXCEPT ![i] = @ + 1]
            /\ user' = [user EXCEPT ![i] = None] /\ ok' = [ok EXCEPT ![i] = TRUE] /\ todo' = todo
        BY <2>1 DEF EndUser, EndQueue
      <3>2. LoopsTyped' /\ timers'[i] > 0
        <4>1. timers' \in [Instance -> Nat] /\ timers'[i] > 0
          BY <3>1 DEF SInv, LoopsTyped
        <4>2. row' = [j \in Instance |-> row'[j]]
          BY DEF SInv, LoopsTyped
        <4>3. /\ pc' \in [Instance -> PC] /\ ok' \in [Instance -> BOOLEAN]
              /\ user' = [j \in Instance |-> user'[j]]
          BY <3>1 DEF SInv, LoopsTyped, PC
        <4> QED BY <3>1, <4>1, <4>2, <4>3 DEF SInv, LoopsTyped
      <3>3. pc'[i] = "wait" /\ pc[i] # "absent"
        BY <3>1 DEF SInv, LoopsTyped, Working
      <3>4. \A j \in Instance \ {i} :
              /\ pc'[j] = pc[j] /\ wake'[j] = wake[j] /\ timers'[j] = timers[j] /\ ok'[j] = ok[j]
              /\ user'[j] = user[j] /\ todo'[j] = todo[j] /\ row'[j] = row[j]
        BY <3>1 DEF SInv, LoopsTyped
      <3> QED BY <1>1, <3>2, <3>3, <3>4 DEF Frame
    <2>2. CASE todo[i] # {}
      <3>1. PICK u \in todo[i] :
              /\ pc' = [pc EXCEPT ![i] = "next"] /\ timers' = timers
              /\ user' = [user EXCEPT ![i] = u] /\ ok' = [ok EXCEPT ![i] = FALSE]
              /\ todo' = [todo EXCEPT ![i] = todo[i] \ {u}]
        BY <2>2 DEF EndUser, NextUser
      <3>2. LoopsTyped' /\ ~ok'[i]
        BY <3>1 DEF SInv, LoopsTyped, PC, Working
      <3> QED BY <1>1, <3>1, <3>2 DEF Frame, SInv, LoopsTyped, Working
    <2> QED BY <2>1, <2>2
  <1>3. RequestsTyped' /\ Registered'
    BY <1>2, FrameKeeps
  <1>4. RowsTyped'
    BY <1>1 DEF SInv, RowsTyped, Delivery!Ticket
  <1>5. InHand'
    BY <1>1, <1>2, FrameHand
  <1>6. NoLostWakeup'
    BY <1>1, <1>2, FrameWakes DEF Watches
  <1> QED BY <1>2, <1>3, <1>4, <1>5, <1>6 DEF SInv, Frame

LEMMA ReadUserIDsKeeps == ASSUME SInv, NEW i \in Instance, ReadUserIDs(i) PROVE SInv'
  <1>1. pc[i] = "users" /\ UNCHANGED <<available, registered, cancelled, wake, row, req, buffer, lastId, answered, orphans>>
    BY DEF ReadUserIDs, rows, history
  <1>2. /\ Frame(i) /\ pc'[i] \in {"wait", "next"}
        /\ \/ timers'[i] > 0
           \/ \A t \in buffer[ServiceOf[i]] : pc'[i] = "next" /\ UserOf[t.play] \in todo'[i] \cup {user'[i]}
    <2>1. ASSUME NEW b \in BOOLEAN, EndQueue(i, b), b => UserIDs(i) = {}
          PROVE  <1>2!:
      <3>1. /\ pc' = [pc EXCEPT ![i] = "wait"] /\ timers' = IF b THEN timers ELSE [timers EXCEPT ![i] = @ + 1]
            /\ user' = [user EXCEPT ![i] = None] /\ ok' = [ok EXCEPT ![i] = TRUE] /\ todo' = todo
        BY <2>1 DEF EndQueue
      <3>2. LoopsTyped' /\ (~b => timers'[i] > 0)
        <4>1. timers' \in [Instance -> Nat] /\ (~b => timers'[i] > 0)
          <5>1. CASE b
            BY <3>1, <5>1 DEF SInv, LoopsTyped
          <5>2. CASE ~b
            BY <3>1, <5>2 DEF SInv, LoopsTyped
          <5> QED BY <5>1, <5>2
        <4> QED BY <1>1, <3>1, <4>1 DEF SInv, LoopsTyped, PC
      <3>3. b => buffer[ServiceOf[i]] = {}
        BY <2>1 DEF UserIDs
      <3> QED BY <1>1, <3>1, <3>2, <3>3 DEF Frame, SInv, LoopsTyped
    <2>2. ASSUME NextUser(i, UserIDs(i), TRUE) PROVE <1>2!:
      <3>1. PICK u \in UserIDs(i) :
              /\ pc' = [pc EXCEPT ![i] = "next"] /\ timers' = timers
              /\ user' = [user EXCEPT ![i] = u] /\ ok' = [ok EXCEPT ![i] = TRUE]
              /\ todo' = [todo EXCEPT ![i] = UserIDs(i) \ {u}]
        BY <2>2 DEF NextUser
      <3>2. LoopsTyped'
        BY <1>1, <3>1 DEF SInv, LoopsTyped, PC, Working
      <3>3. user'[i] = u /\ todo'[i] = UserIDs(i) \ {u}
        BY <3>1 DEF SInv, LoopsTyped
      <3> QED BY <1>1, <3>1, <3>2, <3>3 DEF Frame, SInv, LoopsTyped, UserIDs
    <2> QED BY <2>1, <2>2 DEF ReadUserIDs
  <1>3. RequestsTyped' /\ Registered'
    BY <1>2, FrameKeeps
  <1>4. RowsTyped'
    BY <1>1 DEF SInv, RowsTyped, Delivery!Ticket
  <1>5. InHand'
    BY <1>1, <1>2, FrameHand
  <1>6. NoLostWakeup'
    BY <1>1, <1>2, FrameWakes DEF Watches
  <1> QED BY <1>2, <1>3, <1>4, <1>5, <1>6 DEF SInv, Frame

LEMMA ReadNextKeeps == ASSUME SInv, NEW i \in Instance, ReadNext(i) PROVE SInv'
  <1>1. /\ pc[i] = "next" /\ pc' = [pc EXCEPT ![i] = "send"]
        /\ UNCHANGED <<available, registered, cancelled, wake, timers, user, todo, ok, req, buffer, lastId,
                       answered, orphans>>
    BY DEF ReadNext, rows, history
  <1>2. PICK t \in QueueOf(i) : (\A q \in QueueOf(i) : InOrder(t, q)) /\ row' = [row EXCEPT ![i] = t]
    BY DEF ReadNext
  <1>3. Frame(i) /\ row'[i] = t /\ pc'[i] = "send"
    BY <1>1, <1>2 DEF Frame, SInv, LoopsTyped, PC, Working
  <1>4. t \in Delivery!Ticket /\ \A q \in buffer[ServiceOf[i]] : ~Delivery!Precedes(q, t)
    <2>1. ServiceOf[i] \in Service
      BY ScrobblingAssumption
    <2>2. t \in buffer[ServiceOf[i]] /\ UserOf[t.play] = user[i]
      BY DEF QueueOf
    <2>3. \A q \in buffer[ServiceOf[i]] : q.id \in Nat /\ q.play \in Play /\ q \in Delivery!Ticket
      BY <2>1 DEF SInv, RowsTyped, Delivery!Ticket
    <2>4. ASSUME NEW q \in buffer[ServiceOf[i]], Delivery!Precedes(q, t) PROVE FALSE
      <3>1. q \in QueueOf(i) /\ q.id < t.id /\ TimeOf[q.play] <= TimeOf[t.play]
        BY <2>2, <2>4 DEF Delivery!Precedes, QueueOf
      <3>2. InOrder(t, q)
        BY <1>2, <3>1
      <3>3. TimeOf[q.play] \in Nat /\ TimeOf[t.play] \in Nat
        BY <2>2, <2>3, ScrobblingAssumption
      <3> QED BY <2>2, <2>3, <3>1, <3>2, <3>3 DEF InOrder
    <2> QED BY <2>2, <2>3, <2>4
  <1>5. RequestsTyped' /\ Registered'
    BY <1>3, FrameKeeps
  <1>6. RowsTyped'
    BY <1>1 DEF SInv, RowsTyped, Delivery!Ticket
  <1>7. InHand'
    BY <1>1, <1>3, <1>4, FrameHand
  <1>8. NoLostWakeup'
    BY <1>1, <1>3, FrameWakes DEF Watches
  <1> QED BY <1>3, <1>5, <1>6, <1>7, <1>8 DEF SInv, Frame

LEMMA NextEndsKeeps == ASSUME SInv, NEW i \in Instance, NextEnds(i) PROVE SInv'
  <1>0. pc[i] = "next" /\ UNCHANGED <<available, registered, cancelled, wake, row, req, rows, history>>
    BY DEF NextEnds
  <1>1. CASE EndUser(i, FALSE)
    BY <1>0, <1>1, FailsFrame DEF Working
  <1>2. CASE QueueOf(i) = {} /\ EndUser(i, TRUE)
    <2>1. UNCHANGED <<buffer, lastId, answered, orphans>>
      BY <1>0 DEF rows, history
    <2>2. \A t \in buffer[ServiceOf[i]] : UserOf[t.play] # user[i]
      BY <1>2 DEF QueueOf
    <2>3. /\ Frame(i) /\ pc'[i] \in {"wait", "next"}
          /\ ok[i] => ok'[i] /\ timers'[i] = timers[i]
          /\ ~ok[i] => ~ok'[i] \/ timers'[i] > 0
          /\ timers[i] > 0 => timers'[i] > 0
          /\ todo[i] # {} => pc'[i] = "next" /\ todo'[i] \cup {user'[i]} = todo[i]
      <3>1. CASE todo[i] = {}
        <4>1. /\ pc' = [pc EXCEPT ![i] = "wait"] /\ timers' = IF ok[i] /\ TRUE THEN timers ELSE [timers EXCEPT ![i] = @ + 1]
              /\ user' = [user EXCEPT ![i] = None] /\ ok' = [ok EXCEPT ![i] = TRUE] /\ todo' = todo
          BY <1>2, <3>1 DEF EndUser, EndQueue
        <4>2. LoopsTyped' /\ ok'[i] = TRUE /\ (~ok[i] => timers'[i] > 0) /\ (timers[i] > 0 => timers'[i] > 0)
          <5>1. CASE ok[i]
            BY <1>0, <4>1, <5>1 DEF SInv, LoopsTyped, PC
          <5>2. CASE ~ok[i]
            <6>1. timers' = [timers EXCEPT ![i] = @ + 1]
              BY <4>1, <5>2
            <6>2. timers' \in [Instance -> Nat] /\ timers'[i] = timers[i] + 1 /\ timers[i] \in Nat
              BY <6>1 DEF SInv, LoopsTyped
            <6>3. timers'[i] > 0
              BY <6>2
            <6> QED BY <1>0, <4>1, <6>2, <6>3 DEF SInv, LoopsTyped, PC
          <5> QED BY <5>1, <5>2
        <4> QED BY <1>0, <2>1, <3>1, <4>1, <4>2 DEF Frame, SInv, LoopsTyped
      <3>2. CASE todo[i] # {}
        <4>1. PICK u \in todo[i] :
                /\ pc' = [pc EXCEPT ![i] = "next"] /\ timers' = timers
                /\ user' = [user EXCEPT ![i] = u] /\ ok' = [ok EXCEPT ![i] = ok[i] /\ TRUE]
                /\ todo' = [todo EXCEPT ![i] = todo[i] \ {u}]
          BY <1>2, <3>2 DEF EndUser, NextUser
        <4>2. LoopsTyped' /\ ok'[i] = ok[i] /\ user'[i] = u /\ todo'[i] = todo[i] \ {u}
          BY <1>0, <4>1 DEF SInv, LoopsTyped, PC, Working
        <4> QED BY <1>0, <2>1, <4>1, <4>2 DEF Frame, SInv, LoopsTyped
      <3> QED BY <3>1, <3>2
    <2>4. RequestsTyped' /\ Registered'
      BY <2>3, FrameKeeps
    <2>5. RowsTyped'
      BY <2>1 DEF SInv, RowsTyped, Delivery!Ticket
    <2>6. InHand'
      BY <2>1, <2>3, FrameHand
    <2>7. ASSUME NEW t \in buffer[ServiceOf[i]], Watches(i, t) PROVE Watches(i, t)'
      BY <1>0, <2>1, <2>2, <2>3, <2>7 DEF Watches
    <2>8. NoLostWakeup'
      BY <2>1, <2>3, <2>7, FrameWakes
    <2> QED BY <2>3, <2>4, <2>5, <2>6, <2>8 DEF SInv, Frame
  <1> QED BY <1>1, <1>2 DEF NextEnds

LEMMA FailingSteps ==
  ASSUME SInv, NEW i \in Instance, NotAvailable(i) \/ RetryLater(i) \/ DequeueFails(i)
  PROVE  SInv'
  BY FailsFrame DEF NotAvailable, RetryLater, DequeueFails, Working

LEMMA SendKeeps == ASSUME SInv, NEW i \in Instance, Send(i) PROVE SInv'
  <1>1. /\ pc[i] = "send" /\ pc' = [pc EXCEPT ![i] = "dequeue"]
        /\ answered' = [answered EXCEPT ![ServiceOf[i]] = @ \cup {row[i]}]
        /\ UNCHANGED <<available, registered, cancelled, wake, timers, user, todo, row, ok, req, buffer, lastId,
                       orphans>>
    BY DEF Send, rows
  <1>2. Frame(i) /\ pc'[i] = "dequeue"
    BY <1>1 DEF Frame, SInv, LoopsTyped, PC, Working
  <1>3. RowsTyped' /\ (\A s \in Service : answered[s] \subseteq answered'[s]) /\ row[i] \in answered'[ServiceOf[i]]
    BY <1>1, ScrobblingAssumption DEF SInv, RowsTyped, Delivery!Ticket
  <1>4. RequestsTyped' /\ Registered'
    BY <1>2, FrameKeeps
  <1>5. InHand'
    <2>1. row[i] \in Delivery!Ticket /\ \A q \in buffer[ServiceOf[i]] : ~Delivery!Precedes(q, row[i])
      BY <1>1 DEF SInv, InHand
    <2> QED BY <1>1, <1>2, <1>3, <2>1, FrameHand
  <1>6. NoLostWakeup'
    BY <1>1, <1>2, FrameWakes DEF Watches
  <1> QED BY <1>2, <1>3, <1>4, <1>5, <1>6 DEF SInv, Frame

LEMMA DequeueKeeps == ASSUME SInv, NEW i \in Instance, Dequeue(i) PROVE SInv'
  <1>1. /\ pc[i] = "dequeue" /\ pc' = [pc EXCEPT ![i] = "next"]
        /\ buffer' = [buffer EXCEPT ![ServiceOf[i]] = @ \ {row[i]}] /\ row' = [row EXCEPT ![i] = Nobody]
        /\ UNCHANGED <<available, registered, cancelled, wake, timers, user, todo, ok, req, lastId,
                       answered, orphans>>
    BY DEF Dequeue, history
  <1>2. Frame(i) /\ pc'[i] = "next"
    BY <1>1 DEF Frame, SInv, LoopsTyped, PC, Working
  <1>3. RowsTyped' /\ \A s \in Service : buffer'[s] \subseteq buffer[s]
    BY <1>1, ScrobblingAssumption DEF SInv, RowsTyped, Delivery!Ticket
  <1>4. RequestsTyped' /\ Registered'
    BY <1>2, FrameKeeps
  <1>5. InHand'
    BY <1>1, <1>2, <1>3, FrameHand
  <1>6. NoLostWakeup'
    BY <1>1, <1>2, <1>3, FrameWakes DEF Watches
  <1> QED BY <1>2, <1>3, <1>4, <1>5, <1>6 DEF SInv, Frame

\* run's select, and the timers.
LEMMA SelectKeeps ==
  ASSUME SInv, NEW i \in Instance, Woken(i) \/ Stopped(i) \/ RetryTimer(i)
  PROVE  SInv'
  <1>1. UNCHANGED <<available, registered, cancelled, user, todo, row, ok, req, buffer, lastId, answered, orphans>>
    BY DEF Woken, Stopped, RetryTimer, rows, history
  <1>2. /\ Frame(i) /\ (pc'[i] \notin {"send", "dequeue"} \/ pc'[i] = pc[i])
        /\ i \in registered => pc'[i] = "users" \/ wake'[i]
    <2>1. CASE Woken(i)
      BY <1>1, <2>1 DEF Woken, Frame, SInv, LoopsTyped, PC
    <2>2. CASE Stopped(i)
      BY <1>1, <2>2 DEF Stopped, Frame, SInv, LoopsTyped, PC, Registered
    <2>3. CASE RetryTimer(i)
      BY <1>1, <2>3 DEF RetryTimer, Frame, SInv, LoopsTyped, PC
    <2> QED BY <2>1, <2>2, <2>3
  <1>3. Frame(i)
    BY <1>2
  <1>4. RequestsTyped' /\ Registered'
    BY <1>3, FrameKeeps
  <1>5. RowsTyped'
    BY <1>1 DEF SInv, RowsTyped, Delivery!Ticket
  <1>6. InHand'
    <2>1. pc[i] \in {"send", "dequeue"} =>
            row[i] \in Delivery!Ticket /\ \A q \in buffer[ServiceOf[i]] : ~Delivery!Precedes(q, row[i])
      BY DEF SInv, InHand
    <2>2. pc[i] = "dequeue" => row[i] \in answered[ServiceOf[i]]
      BY DEF SInv, InHand
    <2> QED BY <1>1, <1>2, <1>3, <2>1, <2>2, FrameHand
  <1>7. NoLostWakeup'
    BY <1>1, <1>2, <1>3, FrameWakes DEF Watches
  <1> QED BY <1>3, <1>4, <1>5, <1>6, <1>7 DEF SInv, Frame

LEMMA LoopKeeps == ASSUME SInv, NEW i \in Instance, Loop(i) \/ RetryTimer(i) PROVE SInv'
  BY ReadUserIDsKeeps, ReadNextKeeps, NextEndsKeeps, FailingSteps, SendKeeps, DequeueKeeps, SelectKeeps
  DEF Loop

-----------------------------------------------------------------------------
(* The play tracker. *)

\* A plugin gets its instance, or loses it; the rest of the loops go on.
LEMMA RefreshRegisters ==
  ASSUME SInv, RefreshPluginScrobblers, UNCHANGED available
  PROVE  /\ LoopsTyped' /\ Registered'
         /\ \A i \in Instance : pc'[i] = pc[i] \/ (pc[i] = "absent" /\ pc'[i] = "users")
         /\ \A i \in registered' : pc'[i] = "users" \/ i \in registered
  <1> DEFINE new == {Fresh(s) : s \in Missing}
  <1>1. \A s \in Missing : Fresh(s) \in Instance /\ ServiceOf[Fresh(s)] = s /\ pc[Fresh(s)] = "absent"
    BY DEF RefreshPluginScrobblers, Fresh, Absent
  <1>2. /\ pc' = [i \in Instance |-> IF i \in new THEN "users" ELSE pc[i]]
        /\ registered' = (registered \cup new) \ Gone
        /\ cancelled' = [i \in Instance |-> cancelled[i] \/ i \in Gone]
        /\ UNCHANGED <<wake, timers, user, todo, row, ok>>
    BY DEF RefreshPluginScrobblers
  <1>3. new \subseteq Instance /\ \A i \in new : pc[i] = "absent" /\ ServiceOf[i] \in Missing
    BY <1>1
  <1>4. \A i, j \in new : ServiceOf[i] = ServiceOf[j] => i = j
    BY <1>1
  <1>5. new \cap registered = {} /\ Gone \subseteq registered
    BY <1>3 DEF SInv, Registered, Gone
  <1>6. \A i \in new, j \in registered : ServiceOf[i] # ServiceOf[j]
    BY <1>3 DEF Missing
  <1> HIDE DEF new
  <1>7. LoopsTyped'
    BY <1>2, <1>3 DEF SInv, LoopsTyped, PC
  <1>8. \A i \in Instance : /\ i \in new => pc[i] = "absent" /\ pc'[i] = "users"
                            /\ i \notin new => pc'[i] = pc[i]
                            /\ cancelled'[i] = (cancelled[i] \/ i \in Gone)
    BY <1>2, <1>3
  <1>9. Registered'
    <2>1. available' \subseteq Plugin /\ registered' \subseteq Instance
      BY <1>2, <1>3 DEF SInv, Registered
    <2>2. \A i \in registered' : pc'[i] \notin {"absent", "gone"} /\ ~cancelled'[i]
      BY <1>2, <1>3, <1>5, <1>8, <2>1 DEF SInv, Registered
    <2>3. \A i \in Instance : pc'[i] # "absent" /\ ~cancelled'[i] => i \in registered'
      BY <1>2, <1>8 DEF SInv, Registered
    <2>4. \A i \in Instance : pc'[i] = "absent" => ~cancelled'[i]
      BY <1>5, <1>8 DEF SInv, Registered
    <2>5. \A i, j \in registered' : ServiceOf[i] = ServiceOf[j] => i = j
      BY <1>2, <1>4, <1>6 DEF SInv, Registered
    <2> QED BY <2>1, <2>2, <2>3, <2>4, <2>5 DEF Registered
  <1> QED BY <1>2, <1>3, <1>7, <1>8, <1>9

\* Whatever the requests are doing.
LEMMA RefreshKeeps ==
  ASSUME SInv, RefreshPluginScrobblers, UNCHANGED <<available, rows, history>>, RequestsTyped',
         \A r \in Request : req[r].pc = "wake" => req'[r] = req[r]
  PROVE  SInv'
  <1>1. UNCHANGED <<buffer, lastId, answered, orphans, wake, timers, user, todo, row, ok>>
    BY DEF RefreshPluginScrobblers, rows, history
  <1>2. /\ LoopsTyped' /\ Registered'
        /\ \A i \in Instance : pc'[i] = pc[i] \/ (pc[i] = "absent" /\ pc'[i] = "users")
        /\ \A i \in registered' : pc'[i] = "users" \/ i \in registered
    BY RefreshRegisters
  <1>3. RowsTyped'
    BY <1>1 DEF SInv, RowsTyped, Delivery!Ticket
  <1>4. InHand'
    BY <1>1, <1>2 DEF SInv, InHand, Delivery!Ticket, Delivery!Precedes
  <1>5. NoLostWakeup'
    <2> SUFFICES ASSUME NEW i \in registered', NEW t \in buffer[ServiceOf[i]] \ orphans
                 PROVE  Watches(i, t)'
      BY <1>1 DEF NoLostWakeup
    <2>1. i \in Instance
      BY <1>2 DEF Registered
    <2>2. CASE pc'[i] = "users"
      BY <2>2 DEF Watches
    <2>3. CASE i \in registered /\ pc'[i] = pc[i]
      <3>1. Watches(i, t)
        BY <2>3 DEF SInv, NoLostWakeup
      <3> QED BY <1>1, <2>3, <3>1 DEF Watches
    <2> QED BY <1>2, <2>1, <2>2, <2>3
  <1> QED BY <1>2, <1>3, <1>4, <1>5 DEF SInv

LEMMA SubmitKeeps == ASSUME SInv, NEW r \in Request, NEW p \in Play, Submit(r, p) PROVE SInv'
  <1>1. /\ RefreshPluginScrobblers /\ req[r].pc = "idle" /\ UNCHANGED <<available, rows, history>>
        /\ req' = [req EXCEPT ![r] = IF registered' = {} THEN Idle ELSE Dispatching(p, registered')]
    BY DEF Submit
  <1>2. /\ Registered' /\ \A i \in Instance : pc[i] # "absent" => pc'[i] # "absent"
    BY <1>1, RefreshRegisters
  <1>3. registered' \subseteq Instance /\ \A i \in registered' : pc'[i] # "absent"
    BY <1>2 DEF Registered
  <1>4. req'[r] = Idle \/ req'[r] = Dispatching(p, registered')
    BY <1>1 DEF SInv, RequestsTyped
  <1>5. \A q \in Request \ {r} : req'[q] = req[q]
    BY <1>1 DEF SInv, RequestsTyped
  <1>6. RequestsTyped'
    <2>1. req'[r] \in Req
      BY <1>3, <1>4 DEF Req, Idle, Dispatching
    <2>2. req' \in [Request -> Req]
      BY <1>1, <1>5, <2>1 DEF SInv, RequestsTyped
    <2>3. ASSUME NEW q \in Request
          PROVE  /\ req'[q].pc # "idle" => req'[q].play \in Play
                 /\ req'[q].pc = "wake" => req'[q].at \in req'[q].left
                 /\ \A i \in req'[q].left : pc'[i] # "absent"
      <3>1. CASE q = r
        BY <1>3, <1>4, <3>1 DEF Idle, Dispatching
      <3>2. CASE q # r
        <4>1. req'[q] = req[q] /\ req[q] \in Req
          BY <1>5, <3>2 DEF SInv, RequestsTyped
        <4>2. req[q].left \subseteq Instance
          BY <4>1 DEF Req
        <4> QED BY <1>2, <4>1, <4>2 DEF SInv, RequestsTyped
      <3> QED BY <3>1, <3>2
    <2> QED BY <2>2, <2>3 DEF RequestsTyped
  <1> QED BY <1>1, <1>5, <1>6, RefreshKeeps

LEMMA DispatchNowPlayingKeeps == ASSUME SInv, DispatchNowPlaying PROVE SInv'
  <1>1. RefreshPluginScrobblers /\ UNCHANGED <<available, req, rows, history>>
    BY DEF DispatchNowPlaying
  <1>2. \A i \in Instance : pc[i] # "absent" => pc'[i] # "absent"
    BY <1>1, RefreshRegisters
  <1>3. RequestsTyped'
    BY <1>1, <1>2 DEF SInv, RequestsTyped, Req
  <1> QED BY <1>1, <1>3, RefreshKeeps

\* A request turns from one instance to the next, or is done.
LEMMA WithoutTyped ==
  ASSUME SInv, NEW r \in Request, NEW i, req[r].pc # "idle", UNCHANGED pc,
         req' = [req EXCEPT ![r] = Without(r, i)]
  PROVE  /\ RequestsTyped'
         /\ req'[r].pc # "wake" /\ \A q \in Request \ {r} : req'[q] = req[q]
  <1>1. req[r] \in Req /\ req[r].play \in Play /\ \A j \in req[r].left : pc[j] # "absent"
    BY DEF SInv, RequestsTyped
  <1>2. req'[r] = Without(r, i) /\ \A q \in Request \ {r} : req'[q] = req[q]
    BY DEF SInv, RequestsTyped
  <1>3. Without(r, i) = Idle \/ Without(r, i) = Dispatching(req[r].play, req[r].left \ {i})
    BY DEF Without
  <1>4. Without(r, i) \in Req
    BY <1>1, <1>3 DEF Req, Idle, Dispatching
  <1>5. req' \in [Request -> Req]
    BY <1>4 DEF SInv, RequestsTyped
  <1>6. req'[r].pc # "wake" /\ (req'[r].pc # "idle" => req'[r].play \in Play) /\ req'[r].left \subseteq req[r].left
    BY <1>1, <1>2, <1>3 DEF Idle, Dispatching
  <1> QED BY <1>1, <1>2, <1>5, <1>6 DEF SInv, RequestsTyped

LEMMA SkipKeeps ==
  ASSUME SInv, NEW r \in Request, NEW i, NotAuthorized(r, i) \/ EnqueueFails(r, i)
  PROVE  SInv'
  <1>1. /\ req[r].pc = "dispatch" /\ req' = [req EXCEPT ![r] = Without(r, i)]
        /\ UNCHANGED <<available, registered, pc, cancelled, wake, timers, user, todo, row, ok,
                       buffer, lastId, answered, orphans>>
    BY DEF NotAuthorized, EnqueueFails, rows, history
  <1>2. /\ RequestsTyped' /\ \A q \in Request \ {r} : req'[q] = req[q]
    BY <1>1, WithoutTyped
  <1>3. LoopsTyped' /\ RowsTyped' /\ Registered'
    BY <1>1 DEF SInv, LoopsTyped, RowsTyped, Registered, Delivery!Ticket
  <1>4. InHand'
    BY <1>1 DEF SInv, InHand, Delivery!Ticket, Delivery!Precedes
  <1>5. NoLostWakeup'
    <2> SUFFICES ASSUME NEW j \in registered, NEW t \in buffer[ServiceOf[j]] \ orphans
                 PROVE  Watches(j, t)'
      BY <1>1 DEF NoLostWakeup
    <2>1. Watches(j, t)
      BY DEF SInv, NoLostWakeup
    <2> QED BY <1>1, <1>2, <2>1 DEF Watches
  <1> QED BY <1>2, <1>3, <1>4, <1>5 DEF SInv

\* The request stays responsible for the row until it has sent the signal.
LEMMA EnqueueKeeps == ASSUME SInv, NEW r \in Request, NEW i, Enqueue(r, i) PROVE SInv'
  <1> DEFINE t == [id |-> lastId + 1, play |-> req[r].play]
  <1>1. /\ req[r].pc = "dispatch" /\ i \in req[r].left
        /\ buffer' = [buffer EXCEPT ![ServiceOf[i]] = @ \cup {t}] /\ lastId' = lastId + 1
        /\ req' = [req EXCEPT ![r].pc = "wake", ![r].at = i]
        /\ orphans' = IF cancelled[i] THEN orphans \cup {t} ELSE orphans
        /\ UNCHANGED <<available, registered, pc, cancelled, wake, timers, user, todo, row, ok, answered>>
    BY DEF Enqueue
  <1>2. /\ req[r] \in Req /\ req[r].play \in Play /\ i \in Instance /\ pc[i] # "absent"
        /\ ServiceOf[i] \in Service
    BY <1>1, ScrobblingAssumption DEF SInv, RequestsTyped, Req
  <1>3. req'[r] = [req[r] EXCEPT !.pc = "wake", !.at = i] /\ \A q \in Request \ {r} : req'[q] = req[q]
    BY <1>1 DEF SInv, RequestsTyped
  <1>4. RequestsTyped'
    <2>1. req'[r] \in Req /\ req'[r].pc = "wake" /\ req'[r].at = i /\ req'[r].left = req[r].left
          /\ req'[r].play = req[r].play
      BY <1>2, <1>3 DEF Req
    <2>2. req' \in [Request -> Req]
      BY <1>1, <2>1 DEF SInv, RequestsTyped
    <2> QED BY <1>1, <1>2, <1>3, <2>1, <2>2 DEF SInv, RequestsTyped
  <1>5. LoopsTyped' /\ Registered'
    BY <1>1 DEF SInv, LoopsTyped, Registered
  <1>6. lastId \in Nat /\ Delivery!Ticket \subseteq Delivery!Ticket' /\ t \in Delivery!Ticket'
    BY <1>1, <1>2 DEF SInv, RowsTyped, Delivery!Ticket
  <1>7. RowsTyped'
    <2>1. buffer' \in [Service -> SUBSET (Delivery!Ticket')]
      BY <1>1, <1>6 DEF SInv, RowsTyped
    <2> QED BY <1>1, <1>6, <2>1 DEF SInv, RowsTyped
  <1>8. \A s \in Service : buffer'[s] \subseteq buffer[s] \cup {t} /\ (s # ServiceOf[i] => buffer'[s] = buffer[s])
    BY <1>1 DEF SInv, RowsTyped
  <1>9. InHand'
    <2> SUFFICES ASSUME NEW j \in Instance, pc[j] \in {"send", "dequeue"}
                 PROVE  /\ row[j] \in Delivery!Ticket'
                        /\ \A q \in buffer'[ServiceOf[j]] : ~Delivery!Precedes(q, row[j])
                        /\ pc[j] = "dequeue" => row[j] \in answered[ServiceOf[j]]
      BY <1>1 DEF InHand, Delivery!Precedes
    <2>1. row[j] \in Delivery!Ticket /\ ServiceOf[j] \in Service
      BY ScrobblingAssumption DEF SInv, InHand
    <2>2. ~Delivery!Precedes(t, row[j])
      BY <1>6, <2>1 DEF Delivery!Precedes, Delivery!Ticket
    <2>3. \A q \in buffer[ServiceOf[j]] : ~Delivery!Precedes(q, row[j])
      BY DEF SInv, InHand
    <2>4. pc[j] = "dequeue" => row[j] \in answered[ServiceOf[j]]
      BY DEF SInv, InHand
    <2> HIDE DEF t
    <2> QED BY <1>6, <1>8, <2>1, <2>2, <2>3, <2>4
  <1>10. NoLostWakeup'
    <2> SUFFICES ASSUME NEW j \in registered, NEW q \in buffer'[ServiceOf[j]] \ orphans'
                 PROVE  Watches(j, q)'
      BY <1>1 DEF NoLostWakeup
    <2>1. j \in Instance /\ ServiceOf[j] \in Service
      BY ScrobblingAssumption DEF SInv, Registered
    <2>2. req'[r].pc = "wake" /\ req'[r].at = i
      BY <1>2, <1>3 DEF Req
    <2>3. CASE j = i
      BY <2>2, <2>3 DEF Watches
    <2>4. CASE j # i /\ q \in buffer[ServiceOf[j]]
      <3>1. q \notin orphans
        BY <1>1
      <3>2. Watches(j, q)
        BY <2>4, <3>1 DEF SInv, NoLostWakeup
      <3>3. (\E x \in Request : req[x].pc = "wake" /\ req[x].at = j)
              => \E x \in Request : req'[x].pc = "wake" /\ req'[x].at = j
        BY <1>1, <1>3
      <3> QED BY <1>1, <3>2, <3>3 DEF Watches
    <2>5. CASE j # i /\ q \notin buffer[ServiceOf[j]]
      <3>1. q = t /\ ServiceOf[j] = ServiceOf[i]
        BY <1>8, <2>1, <2>5
      <3>2. ~cancelled[i]
        BY <1>1, <3>1
      <3>3. i \in registered
        BY <1>2, <3>2 DEF SInv, Registered
      <3> QED BY <2>5, <3>1, <3>3 DEF SInv, Registered
    <2> QED BY <2>3, <2>4, <2>5
  <1> QED BY <1>4, <1>5, <1>7, <1>9, <1>10 DEF SInv

LEMMA SendWakeSignalKeeps == ASSUME SInv, NEW r \in Request, SendWakeSignal(r) PROVE SInv'
  <1> DEFINE i == req[r].at
  <1>1. /\ req[r].pc = "wake" /\ wake' = [wake EXCEPT ![i] = pc[i] # "gone"]
        /\ req' = [req EXCEPT ![r] = Without(r, i)]
        /\ UNCHANGED <<available, registered, pc, cancelled, timers, user, todo, row, ok, buffer, lastId,
                       answered, orphans>>
    BY DEF SendWakeSignal, rows, history
  <1>2. RequestsTyped' /\ \A q \in Request \ {r} : req'[q] = req[q]
    BY <1>1, WithoutTyped
  <1>3. i \in Instance
    BY <1>1 DEF SInv, RequestsTyped, Req
  <1>4. /\ wake' \in [Instance -> BOOLEAN] /\ wake'[i] = (pc[i] # "gone")
        /\ \A j \in Instance \ {i} : wake'[j] = wake[j]
    BY <1>1, <1>3 DEF SInv, LoopsTyped
  <1>5. LoopsTyped' /\ RowsTyped' /\ Registered'
    BY <1>1, <1>4 DEF SInv, LoopsTyped, RowsTyped, Registered, Delivery!Ticket
  <1>6. InHand'
    BY <1>1 DEF SInv, InHand, Delivery!Ticket, Delivery!Precedes
  <1>7. NoLostWakeup'
    <2> SUFFICES ASSUME NEW j \in registered, NEW t \in buffer[ServiceOf[j]] \ orphans
                 PROVE  Watches(j, t)'
      BY <1>1 DEF NoLostWakeup
    <2>1. j \in Instance /\ pc[j] # "gone" /\ Watches(j, t)
      BY DEF SInv, NoLostWakeup, Registered
    <2>2. CASE j = i
      BY <1>4, <2>1, <2>2 DEF Watches
    <2>3. CASE j # i
      <3>1. (\E x \in Request : req[x].pc = "wake" /\ req[x].at = j)
              => \E x \in Request : req'[x].pc = "wake" /\ req'[x].at = j
        BY <1>2, <2>3
      <3> QED BY <1>1, <1>4, <2>1, <2>3, <3>1 DEF Watches
    <2> QED BY <2>2, <2>3
  <1> QED BY <1>2, <1>5, <1>6, <1>7 DEF SInv

-----------------------------------------------------------------------------
(* The rest of the world, and the invariant. *)

LEMMA PluginsKeep == ASSUME SInv, NEW s \in Plugin, LoadPlugin(s) \/ UnloadPlugin(s) PROVE SInv'
  <1>1. UNCHANGED <<registered, pc, cancelled, wake, timers, user, todo, row, ok, req, buffer, lastId,
                    answered, orphans>>
    BY DEF LoadPlugin, UnloadPlugin, volatile, rows, history
  <1>2. available' \subseteq Plugin
    BY DEF SInv, Registered, LoadPlugin, UnloadPlugin
  <1>3. LoopsTyped' /\ RowsTyped' /\ RequestsTyped' /\ Registered'
    BY <1>1, <1>2 DEF SInv, LoopsTyped, RowsTyped, RequestsTyped, Registered, Delivery!Ticket
  <1>4. InHand' /\ NoLostWakeup'
    BY <1>1 DEF SInv, InHand, NoLostWakeup, Watches, Delivery!Ticket, Delivery!Precedes
  <1> QED BY <1>3, <1>4 DEF SInv

LEMMA DeleteOwnerKeeps == ASSUME SInv, NEW plays, DeleteOwner(plays) PROVE SInv'
  <1>1. /\ buffer' = [s \in Service |-> {t \in buffer[s] : t.play \notin plays}]
        /\ UNCHANGED <<available, registered, pc, cancelled, wake, timers, user, todo, row, ok, req, lastId,
                       answered, orphans>>
    BY DEF DeleteOwner, volatile, history
  <1>2. \A s \in Service : buffer'[s] \subseteq buffer[s]
    BY <1>1
  <1>3. LoopsTyped' /\ RowsTyped' /\ RequestsTyped' /\ Registered'
    BY <1>1 DEF SInv, LoopsTyped, RowsTyped, RequestsTyped, Registered, Delivery!Ticket
  <1>4. InHand'
    <2> SUFFICES ASSUME NEW j \in Instance
                 PROVE  /\ pc[j] \in {"send", "dequeue"} =>
                             /\ row[j] \in Delivery!Ticket
                             /\ \A q \in buffer'[ServiceOf[j]] : ~Delivery!Precedes(q, row[j])
                        /\ pc[j] = "dequeue" => row[j] \in answered[ServiceOf[j]]
      BY <1>1 DEF InHand, Delivery!Precedes, Delivery!Ticket
    <2>1. ServiceOf[j] \in Service
      BY ScrobblingAssumption
    <2> QED BY <1>2, <2>1 DEF SInv, InHand
  <1>5. NoLostWakeup'
    <2> SUFFICES ASSUME NEW j \in registered, NEW t \in buffer'[ServiceOf[j]] \ orphans
                 PROVE  Watches(j, t)'
      BY <1>1 DEF NoLostWakeup
    <2>1. ServiceOf[j] \in Service
      BY ScrobblingAssumption DEF SInv, Registered
    <2>2. Watches(j, t)
      BY <1>2, <2>1 DEF SInv, NoLostWakeup
    <2> QED BY <1>1, <2>2 DEF Watches
  <1> QED BY <1>3, <1>4, <1>5 DEF SInv

\* Every loop starts anew by reading the buffer.
LEMMA RestartKeeps == ASSUME SInv, Restart PROVE SInv'
  <1>1. UNCHANGED <<available, buffer, lastId, answered, orphans>>
    BY DEF Restart, rows, history
  <1>2. LoopsTyped'
    BY DEF Restart, LoopsTyped, PC
  <1>3. RowsTyped'
    BY <1>1 DEF SInv, RowsTyped, Delivery!Ticket
  <1>4. RequestsTyped'
    BY DEF Restart, RequestsTyped, Req, Idle
  <1>5. Registered'
    <2>1. Builtin \subseteq Instance /\ \A i, j \in Builtin : ServiceOf[i] = ServiceOf[j] => i = j
      BY ScrobblingAssumption DEF Builtin
    <2> QED BY <1>1, <2>1 DEF SInv, Registered, Restart
  <1>6. InHand'
    BY DEF Restart, InHand
  <1>7. NoLostWakeup'
    BY DEF Restart, NoLostWakeup, Watches, Builtin
  <1> QED BY <1>2, <1>3, <1>4, <1>5, <1>6, <1>7 DEF SInv

LEMMA SInvStep == SInv /\ [Next]_vars => SInv'
  <1> SUFFICES ASSUME SInv, [Next]_vars PROVE SInv'
    OBVIOUS
  <1>1. CASE UNCHANGED vars
    <2>1. UNCHANGED <<available, registered, pc, cancelled, wake, timers, user, todo, row, ok, req, buffer, lastId,
                      answered, orphans>>
      BY <1>1 DEF vars, volatile, rows, history
    <2>2. LoopsTyped' /\ RowsTyped' /\ RequestsTyped' /\ Registered'
      BY <2>1 DEF SInv, LoopsTyped, RowsTyped, RequestsTyped, Registered, Delivery!Ticket
    <2>3. InHand' /\ NoLostWakeup'
      BY <2>1 DEF SInv, InHand, NoLostWakeup, Watches, Delivery!Ticket, Delivery!Precedes
    <2> QED BY <2>2, <2>3 DEF SInv
  <1>2. ASSUME NEW r \in Request, Dispatch(r) PROVE SInv'
    BY <1>2, SkipKeeps, EnqueueKeeps, SendWakeSignalKeeps DEF Dispatch
  <1> QED BY <1>1, <1>2, PluginsKeep, SubmitKeeps, DispatchNowPlayingKeeps, LoopKeeps, DeleteOwnerKeeps,
             RestartKeeps
          DEF Next

\* The invariant holds in every reachable state.
LEMMA SInvAlways == Spec => []SInv
  BY SInvInit, SInvStep, PTL DEF Spec

-----------------------------------------------------------------------------
(* What the tracker and its loops promise. *)

\* However plugins come and go while requests are in progress, a service has
\* one loop at most that was not stopped (refreshPluginScrobblers, Stop).
THEOREM OneLoopCorrect == Spec => []OneLoop
  <1>1. SInv => OneLoop
    <2> SUFFICES ASSUME SInv, NEW i \in Instance, NEW j \in Instance,
                        ServiceOf[i] = ServiceOf[j], i # j, pc[i] # "absent", pc[j] # "absent",
                        ~cancelled[i], ~cancelled[j]
                 PROVE  FALSE
      BY DEF OneLoop
    <2> QED BY DEF SInv, Registered
  <1> QED BY <1>1, SInvAlways, PTL

\* However signals, timers, failures and reloads interleave, the registered
\* instance of a service comes to each of its rows, but those buffered through
\* an instance that was already stopped (run, sendWakeSignal, Scrobble).
THEOREM NoLostWakeupCorrect == Spec => []NoLostWakeup
  <1>1. SInv => NoLostWakeup
    BY DEF SInv
  <1> QED BY <1>1, SInvAlways, PTL

\* What a step of the tracker is to the buffer.
LEMMA DeliveryStep == SInv /\ [Next]_vars => [Delivery!Next]_(Delivery!vars)
  <1> SUFFICES ASSUME SInv, [Next]_vars PROVE [Delivery!Next]_(Delivery!vars)
    OBVIOUS
  <1> DEFINE Stutter == UNCHANGED <<buffer, answered, lastId>>
  <1>0. Stutter => [Delivery!Next]_(Delivery!vars)
    BY DEF Delivery!vars
  <1>1. CASE UNCHANGED vars
    BY <1>0, <1>1 DEF vars, rows, history
  <1>2. ASSUME NEW s \in Plugin, LoadPlugin(s) \/ UnloadPlugin(s) PROVE Stutter
    BY <1>2 DEF LoadPlugin, UnloadPlugin, rows, history
  <1>3. ASSUME NEW r \in Request, NEW p \in Play, Submit(r, p) PROVE Stutter
    BY <1>3 DEF Submit, rows, history
  <1>4. ASSUME DispatchNowPlaying PROVE Stutter
    BY <1>4 DEF DispatchNowPlaying, rows, history
  <1>5. ASSUME NEW r \in Request, Dispatch(r) PROVE [Delivery!Next]_(Delivery!vars)
    <2>1. ASSUME NEW i \in req[r].left, Enqueue(r, i) PROVE Delivery!Next
      <3>1. req[r].play \in Play /\ ServiceOf[i] \in Service
        BY <2>1, ScrobblingAssumption DEF Enqueue, SInv, RequestsTyped, Req
      <3>2. Delivery!Accept(ServiceOf[i], req[r].play)
        BY <2>1 DEF Enqueue, Buffered, Delivery!Accept
      <3> QED BY <3>1, <3>2 DEF Delivery!Next
    <2>2. ASSUME NEW i \in req[r].left, NotAuthorized(r, i) \/ EnqueueFails(r, i) PROVE Stutter
      BY <2>2 DEF NotAuthorized, EnqueueFails, rows, history
    <2>3. ASSUME SendWakeSignal(r) PROVE Stutter
      BY <2>3 DEF SendWakeSignal, rows, history
    <2> QED BY <1>0, <1>5, <2>1, <2>2, <2>3 DEF Dispatch
  <1>6. ASSUME NEW i \in Instance, Loop(i) \/ RetryTimer(i) PROVE [Delivery!Next]_(Delivery!vars)
    <2>0. ServiceOf[i] \in Service
      BY ScrobblingAssumption
    <2>1. ASSUME Send(i) PROVE Delivery!Next
      <3>1. row[i] \in Delivery!Ticket /\ Delivery!Answer(ServiceOf[i], row[i])
        BY <2>1 DEF Send, SInv, InHand, Delivery!Answer, rows
      <3> QED BY <2>0, <3>1 DEF Delivery!Next
    <2>2. ASSUME Dequeue(i) PROVE [Delivery!Next]_(Delivery!vars)
      <3>1. row[i] \in Delivery!Ticket /\ row[i] \in answered[ServiceOf[i]]
        BY <2>2 DEF Dequeue, SInv, InHand
      <3>2. CASE row[i] \in buffer[ServiceOf[i]]
        <4>1. Delivery!Settle(ServiceOf[i], row[i])
          BY <2>2, <3>1, <3>2 DEF Dequeue, Delivery!Settle, history
        <4> QED BY <2>0, <3>1, <4>1 DEF Delivery!Next
      <3>3. CASE row[i] \notin buffer[ServiceOf[i]]
        <4>1. buffer[ServiceOf[i]] \ {row[i]} = buffer[ServiceOf[i]]
          BY <3>3
        <4>2. buffer' = buffer
          BY <2>0, <2>2, <4>1 DEF Dequeue, SInv, RowsTyped
        <4> QED BY <1>0, <2>2, <4>2 DEF Dequeue, history
      <3> QED BY <3>2, <3>3
    <2>3. ASSUME \/ ReadUserIDs(i) \/ ReadNext(i) \/ NextEnds(i) \/ NotAvailable(i) \/ RetryLater(i)
                 \/ DequeueFails(i) \/ Woken(i) \/ Stopped(i) \/ RetryTimer(i)
          PROVE  Stutter
      BY <2>3 DEF ReadUserIDs, ReadNext, NextEnds, NotAvailable, RetryLater, DequeueFails, Woken, Stopped,
                  RetryTimer, rows, history
    <2> QED BY <1>0, <1>6, <2>1, <2>2, <2>3 DEF Loop
  <1>7. ASSUME NEW plays \in SUBSET Play, DeleteOwner(plays) PROVE Delivery!Next
    <2>1. Delivery!Forget(plays)
      BY <1>7 DEF DeleteOwner, Delivery!Forget, history
    <2> QED BY <2>1 DEF Delivery!Next
  <1>8. ASSUME Restart PROVE Stutter
    BY <1>8 DEF Restart, rows, history
  <1>9. (\A p \in Play : {p} \in SUBSET Play) /\ \A u \in User : {p \in Play : UserOf[p] = u} \in SUBSET Play
    OBVIOUS
  <1> QED BY <1>0, <1>1, <1>2, <1>3, <1>4, <1>5, <1>6, <1>7, <1>8, <1>9 DEF Next

\* The tracker and its loops implement the buffer's promise: a row leaves only
\* once its service answered for it or its owner was deleted, and no row is
\* answered before one that precedes it (processUserQueue, Next, Dequeue).
THEOREM DeliveryCorrect == Spec => DeliveryKept
  <1>1. Init => Delivery!Init
    BY DEF Init, Delivery!Init
  <1> QED BY <1>1, SInvAlways, DeliveryStep, PTL DEF Spec, DeliveryKept, Delivery!Spec
=============================================================================
