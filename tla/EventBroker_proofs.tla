------------------------- MODULE EventBroker_proofs -------------------------
(***************************************************************************)
(* The messages of the events broker are well formed, none meant for a     *)
(* connected client vanishes, and every client sees the ids grow: for any  *)
(* clients, senders, capacities and numbers of events.                     *)
(*                                                                         *)
(* What the invariants need besides: a client nobody has added yet has an  *)
(* empty channel and was told nothing (so the serverStart event, whose id  *)
(* is 0, is the first it sees), and what waits for a client is sorted,     *)
(* above all it has seen and not above the broker's counter.               *)
(***************************************************************************)
EXTENDS EventBroker, SequenceTheorems, TLAPS

\* Nothing was ever sent to the client.
Blank(c) ==
  /\ msgC[c] = <<>> /\ hand[c] = <<>>
  /\ seen[c] = {} /\ addressed[c] = {} /\ dropped[c] = {}

Subscribing == {subscribing[k] : k \in DOMAIN subscribing}

Unknown ==
  \A c \in Client :
    /\ pc[c] = "new" => c \notin Subscribing
    /\ pc[c] = "new" \/ c \in Subscribing => Blank(c) /\ c \notin clients

Accounted ==
  \A c \in Client : pc[c] = "reading" => addressed[c] = seen[c] \cup dropped[c] \cup InFlight(c)

\* All of S is below all of T.
Below(S, T) == \A m \in S, n \in T : m < n
Sorted(s) == \A j, k \in DOMAIN s : j < k => s[j].id < s[k].id

Growing ==
  \A c \in Client :
    /\ Sorted(msgC[c]) /\ Below(IdsOf(hand[c]), IdsOf(msgC[c]))
    /\ Below(seen[c], InFlight(c))
    /\ \A n \in seen[c] \cup InFlight(c) : n <= eventId

BInv == TypeOK /\ Unknown /\ Accounted /\ Growing

-----------------------------------------------------------------------------
(* What the channels hold. *)

LEMMA EmptyIds == IdsOf(<<>>) = {}
  BY DEF IdsOf

LEMMA OneId == ASSUME NEW m \in Message PROVE IdsOf(<<m>>) = {m.id} /\ Sorted(<<m>>)
  BY DEF IdsOf, Sorted

LEMMA AppendIds ==
  ASSUME NEW s \in Seq(Message), NEW m \in Message
  PROVE  /\ Append(s, m) \in Seq(Message) /\ Len(Append(s, m)) = Len(s) + 1
         /\ IdsOf(Append(s, m)) = IdsOf(s) \cup {m.id}
         /\ Sorted(s) /\ (\A n \in IdsOf(s) : n < m.id) => Sorted(Append(s, m))
  <1>1. /\ Append(s, m) \in Seq(Message) /\ Len(Append(s, m)) = Len(s) + 1
        /\ \A k \in 1..Len(s) : Append(s, m)[k] = s[k]
        /\ Append(s, m)[Len(s) + 1] = m
    BY AppendProperties
  <1>2. /\ DOMAIN s = 1..Len(s) /\ DOMAIN Append(s, m) = 1..(Len(s) + 1)
        /\ Len(s) \in Nat
    BY <1>1
  <1> DEFINE t == Append(s, m)
  <1> HIDE DEF t
  <1>3. IdsOf(t) = IdsOf(s) \cup {m.id}
    BY <1>1, <1>2 DEF IdsOf, t
  <1>4. ASSUME Sorted(s), \A n \in IdsOf(s) : n < m.id PROVE Sorted(t)
    <2> SUFFICES ASSUME NEW j \in 1..(Len(s) + 1), NEW k \in 1..(Len(s) + 1), j < k
                 PROVE  t[j].id < t[k].id
      BY <1>2 DEF Sorted, t
    <2>1. j \in 1..Len(s) /\ t[j] = s[j]
      BY <1>1, <1>2 DEF t
    <2>2. CASE k = Len(s) + 1
      BY <1>1, <1>2, <1>4, <2>1, <2>2 DEF IdsOf, t
    <2>3. CASE k \in 1..Len(s)
      BY <1>1, <1>2, <1>4, <2>1, <2>3 DEF Sorted, t
    <2> QED BY <1>2, <2>2, <2>3
  <1> QED BY <1>1, <1>3, <1>4 DEF t

LEMMA TailIds ==
  ASSUME NEW s \in Seq(Message), s # <<>>
  PROVE  /\ Head(s) \in Message /\ Tail(s) \in Seq(Message) /\ Len(Tail(s)) = Len(s) - 1
         /\ IdsOf(s) = {Head(s).id} \cup IdsOf(Tail(s))
         /\ Sorted(s) => Sorted(Tail(s)) /\ Below({Head(s).id}, IdsOf(Tail(s)))
  <1>1. /\ Head(s) \in Message /\ Tail(s) \in Seq(Message) /\ Len(Tail(s)) = Len(s) - 1
        /\ \A k \in 1..(Len(s) - 1) : Tail(s)[k] = s[k + 1]
        /\ Head(s) = s[1] /\ Len(s) \in Nat /\ Len(s) > 0
    BY HeadTailProperties, EmptySeq
  <1>2. DOMAIN s = 1..Len(s) /\ DOMAIN Tail(s) = 1..(Len(s) - 1)
    BY <1>1
  <1> DEFINE t == Tail(s)
             h == Head(s)
  <1>3. /\ h = s[1] /\ DOMAIN t = 1..(Len(s) - 1) /\ \A k \in 1..(Len(s) - 1) : t[k] = s[k + 1]
    BY <1>1, <1>2
  <1> HIDE DEF t, h
  <1>4. IdsOf(s) = {h.id} \cup IdsOf(t)
    <2>1. ASSUME NEW k \in 1..Len(s) PROVE s[k].id \in {h.id} \cup IdsOf(t)
      <3>1. CASE k = 1
        BY <1>3, <3>1
      <3>2. CASE k # 1
        <4>1. k - 1 \in 1..(Len(s) - 1) /\ t[k - 1] = s[k]
          BY <1>1, <1>3, <3>2
        <4> QED BY <1>3, <4>1 DEF IdsOf
      <3> QED BY <3>1, <3>2
    <2>2. h.id \in IdsOf(s)
      BY <1>1, <1>2, <1>3 DEF IdsOf
    <2>3. ASSUME NEW k \in 1..(Len(s) - 1) PROVE t[k].id \in IdsOf(s)
      BY <1>1, <1>2, <1>3 DEF IdsOf
    <2> QED BY <1>2, <1>3, <2>1, <2>2, <2>3 DEF IdsOf
  <1>5. ASSUME Sorted(s) PROVE Sorted(t) /\ Below({h.id}, IdsOf(t))
    <2>1. Sorted(t)
      BY <1>1, <1>2, <1>3, <1>5 DEF Sorted
    <2>2. \A k \in 1..(Len(s) - 1) : h.id < t[k].id
      BY <1>1, <1>2, <1>3, <1>5 DEF Sorted
    <2> QED BY <1>3, <2>1, <2>2 DEF Below, IdsOf
  <1> QED BY <1>1, <1>4, <1>5 DEF t, h

LEMMA FlightType ==
  ASSUME TypeOK, NEW c \in Client
  PROVE  /\ msgC[c] \in Seq(Message) /\ hand[c] \in Seq(Message)
         /\ IdsOf(msgC[c]) \subseteq Nat /\ IdsOf(hand[c]) \subseteq Nat
         /\ seen[c] \subseteq Nat
  <1>1. ASSUME NEW s \in Seq(Message) PROVE IdsOf(s) \subseteq Nat
    <2>1. \A k \in DOMAIN s : s[k] \in Message
      BY ElementOfSeq, LenProperties
    <2> QED BY <2>1 DEF IdsOf, Message
  <1>2. msgC[c] \in Seq(Message) /\ hand[c] \in Seq(Message) /\ seen[c] \subseteq Nat
    BY DEF TypeOK
  <1> QED BY <1>1, <1>2

-----------------------------------------------------------------------------
(* Steps. *)

LEMMA BInvInit == Init => BInv
  <1> SUFFICES ASSUME Init PROVE BInv
    OBVIOUS
  <1>1. TypeOK
    <2>1. <<>> \in Seq(Message) /\ <<>> \in Seq(Client) /\ Len(<<>>) = 0
      BY EmptySeq
    <2>2. /\ pc \in [Client -> {"new", "reading", "leaving", "done"}] /\ clients \subseteq Client
          /\ subscribing \in Seq(Client) /\ Len(subscribing) <= 1
          /\ unsubscribing \in Seq(Client) /\ Len(unsubscribing) <= 1
          /\ publish \in Seq(Message) /\ Len(publish) <= PublishSize
      BY BrokerAssumption, <2>1 DEF Init
    <2>3. /\ msgC \in [Client -> Seq(Message)] /\ \A c \in Client : Len(msgC[c]) <= BufferSize
          /\ hand \in [Client -> Seq(Message)] /\ \A c \in Client : Len(hand[c]) <= 1
          /\ sending \in [Sender -> Seq(Message)] /\ \A s \in Sender : Len(sending[s]) <= 1
      BY BrokerAssumption, <2>1 DEF Init
    <2>5. crashed \in BOOLEAN /\ closed \in [Client -> BOOLEAN]
      BY Zenon DEF Init
    <2>4. /\ eventId \in Nat /\ events \in 0..MaxEvents /\ seen \in [Client -> SUBSET Nat]
          /\ addressed \in [Client -> SUBSET Nat] /\ dropped \in [Client -> SUBSET Nat]
      BY BrokerAssumption DEF Init
    <2> QED BY <2>2, <2>3, <2>4, <2>5 DEF TypeOK
  <1>2. Unknown /\ Accounted
    BY EmptySeq DEF Init, Unknown, Accounted, Blank, Subscribing
  <1>3. Growing
    <2>0. \A c \in Client : hand[c] = <<>> /\ msgC[c] = <<>> /\ seen[c] = {}
      BY DEF Init
    <2>1. \A c \in Client : InFlight(c) = {} /\ seen[c] = {}
      BY <2>0, EmptyIds DEF InFlight
    <2>3. Sorted(<<>>)
      BY DEF Sorted
    <2>2. \A c \in Client : IdsOf(hand[c]) = {}
      BY <2>0, EmptyIds
    <2> QED BY <2>0, <2>1, <2>2, <2>3 DEF Growing, Below
  <1> QED BY <1>1, <1>2, <1>3 DEF BInv

\* Steps of senders and of removal: what is on its way to clients stays as it is.
LEMMA ElsewhereStep ==
  ASSUME BInv, TypeOK', UNCHANGED <<clientVars, eventId, msgC, addressed, dropped, subscribing>>,
         clients' \subseteq clients
  PROVE  BInv'
  <1>1. UNCHANGED <<pc, hand, seen>>
    BY DEF clientVars
  <1>2. Unknown'
    BY <1>1 DEF BInv, Unknown, Blank, Subscribing
  <1>3. Accounted' /\ Growing'
    BY <1>1 DEF BInv, Accounted, Growing, InFlight, Below, Sorted
  <1> QED BY <1>2, <1>3 DEF BInv

LEMMA SenderStep ==
  ASSUME BInv, NEW s \in Sender,
         \/ Publish(s) \/ SendMessage(s, TRUE, None, None)
         \/ \E c \in Client : SendMessage(s, FALSE, UidOf[c], NameOf[c])
  PROVE  BInv'
  <1>1. UNCHANGED <<clientVars, brokerVars, subscribing, unsubscribing>>
    BY DEF Publish, SendMessage
  <1>2. UNCHANGED <<pc, hand, seen, clients, eventId, msgC, closed, crashed, addressed, dropped>>
    BY <1>1 DEF clientVars, brokerVars
  <1>3. TypeOK'
    <2>1. CASE Publish(s)
      <3>1. sending[s] \in Seq(Message) /\ Len(sending[s]) <= 1 /\ publish \in Seq(Message)
        BY DEF BInv, TypeOK
      <3>2. /\ publish \o sending[s] \in Seq(Message)
            /\ Len(publish \o sending[s]) = Len(publish) + Len(sending[s])
        BY <3>1, ConcatProperties
      <3>3. publish' \in Seq(Message) /\ Len(publish') <= PublishSize
        BY <2>1, <3>1, <3>2, BrokerAssumption, LenProperties DEF Publish
      <3>4. /\ sending' \in [Sender -> Seq(Message)] /\ \A r \in Sender : Len(sending'[r]) <= 1
        BY <2>1, EmptySeq DEF Publish, BInv, TypeOK
      <3> QED BY <1>1, <1>2, <2>1, <3>3, <3>4 DEF Publish, BInv, TypeOK
    <2>2. ASSUME NEW toAll \in BOOLEAN, NEW from \in Uid \cup {None}, NEW user \in Name \cup {None},
                 SendMessage(s, toAll, from, user)
          PROVE  TypeOK'
      <3> DEFINE m == [id |-> 0, toAll |-> toAll, from |-> from, user |-> user]
      <3>1. m \in Message
        BY DEF Message
      <3>2. sending' = [sending EXCEPT ![s] = <<m>>] /\ events' = events - 1 /\ events > 0 /\ publish' = publish
        BY <2>2 DEF SendMessage
      <3> HIDE DEF m
      <3>3. sending' \in [Sender -> Seq(Message)] /\ \A r \in Sender : Len(sending'[r]) <= 1
        BY <3>1, <3>2 DEF BInv, TypeOK
      <3>4. events' \in 0..MaxEvents
        BY <3>2, BrokerAssumption DEF BInv, TypeOK
      <3> QED BY <1>1, <1>2, <3>2, <3>3, <3>4 DEF BInv, TypeOK
    <2> QED BY <2>1, <2>2, BrokerAssumption
  <1> QED BY <1>1, <1>2, <1>3, ElsewhereStep DEF clientVars

LEMMA RemoveStep == ASSUME BInv, RemoveClient PROVE BInv'
  <1>1. /\ UNCHANGED <<pc, hand, seen, eventId, msgC, crashed, addressed, dropped, subscribing,
                       publish, sending, events>>
        /\ unsubscribing # <<>> /\ unsubscribing' = <<>>
        /\ closed' = [closed EXCEPT ![Head(unsubscribing)] = TRUE]
        /\ clients' = clients \ {Head(unsubscribing)}
    BY DEF RemoveClient, clientVars
  <1>2. TypeOK'
    BY <1>1, EmptySeq DEF BInv, TypeOK
  <1> QED BY <1>1, <1>2, ElsewhereStep DEF clientVars

LEMMA SubscribeStep == ASSUME BInv, NEW c \in Client, Subscribe(c) PROVE BInv'
  <1>1. /\ UNCHANGED <<hand, seen, clients, eventId, msgC, closed, crashed, addressed, dropped,
                       unsubscribing, publish, sending, events>>
        /\ pc[c] = "new" /\ subscribing = <<>> /\ subscribing' = <<c>>
        /\ pc' = [pc EXCEPT ![c] = "reading"]
    BY DEF Subscribe, brokerVars
  <1>2. TypeOK'
    BY <1>1 DEF BInv, TypeOK
  <1>3. Subscribing = {} /\ Subscribing' = {c}
    BY <1>1 DEF Subscribing
  <1>4. \A d \in Client : pc'[d] = IF d = c THEN "reading" ELSE pc[d]
    BY <1>1 DEF BInv, TypeOK
  <1>5. Unknown'
    BY <1>1, <1>3, <1>4 DEF BInv, Unknown, Blank
  <1>6. Accounted'
    <2>1. Blank(c)
      BY <1>1 DEF BInv, Unknown
    <2>2. addressed'[c] = seen'[c] \cup dropped'[c] \cup InFlight(c)'
      BY <1>1, <2>1, EmptyIds DEF Blank, InFlight
    <2> QED BY <1>1, <1>4, <2>2 DEF BInv, Accounted, InFlight
  <1>7. Growing'
    BY <1>1 DEF BInv, Growing, Below, Sorted, InFlight
  <1> QED BY <1>2, <1>5, <1>6, <1>7 DEF BInv

LEMMA UnsubscribeStep == ASSUME BInv, NEW c \in Client, Unsubscribe(c) \/ Disconnect(c) PROVE BInv'
  <1>1. /\ UNCHANGED <<seen, clients, eventId, msgC, closed, crashed, addressed, dropped,
                       subscribing, publish, sending, events>>
        /\ pc[c] # "new" /\ \E to \in {"leaving", "done"} : pc' = [pc EXCEPT ![c] = to]
        /\ unsubscribing' \in {unsubscribing, <<c>>}
        /\ hand' = hand \/ hand' = [hand EXCEPT ![c] = <<>>]
    BY DEF Unsubscribe, Disconnect, brokerVars
  <1>2. TypeOK'
    <2>0. <<>> \in Seq(Message) /\ Len(<<>>) = 0
      BY EmptySeq
    <2>1. hand' \in [Client -> Seq(Message)] /\ \A d \in Client : Len(hand'[d]) <= 1
      <3>1. CASE hand' = hand
        BY <3>1 DEF BInv, TypeOK
      <3>2. CASE hand' = [hand EXCEPT ![c] = <<>>]
        BY <2>0, <3>2 DEF BInv, TypeOK
      <3> QED BY <1>1, <3>1, <3>2
    <2>2. pc' \in [Client -> {"new", "reading", "leaving", "done"}]
      BY <1>1 DEF BInv, TypeOK
    <2>3. unsubscribing' \in Seq(Client) /\ Len(unsubscribing') <= 1
      <3>1. CASE unsubscribing' = unsubscribing
        BY <3>1 DEF BInv, TypeOK
      <3>2. CASE unsubscribing' = <<c>>
        BY <3>2
      <3> QED BY <1>1, <3>1, <3>2
    <2> QED BY <1>1, <2>1, <2>2, <2>3 DEF BInv, TypeOK
  <1>3. \A d \in Client : (d # c => pc'[d] = pc[d]) /\ pc'[c] \in {"leaving", "done"}
    BY <1>1 DEF BInv, TypeOK
  <1>4. \A d \in Client : hand'[d] = hand[d] \/ (d = c /\ hand'[d] = <<>>)
    BY <1>1 DEF BInv, TypeOK
  <1>5. Unknown'
    BY <1>1, <1>3, <1>4 DEF BInv, Unknown, Blank, Subscribing
  <1>6. Accounted'
    BY <1>1, <1>3, <1>4 DEF BInv, Accounted, InFlight
  <1>7. Growing'
    BY <1>1, <1>4, EmptyIds DEF BInv, Growing, Below, Sorted, InFlight
  <1> QED BY <1>2, <1>5, <1>6, <1>7 DEF BInv

LEMMA ReadStep == ASSUME BInv, NEW c \in Client, ReadOrDone(c) PROVE BInv'
  <1> DEFINE h == Head(msgC[c])
             t == Tail(msgC[c])
  <1>1. /\ UNCHANGED <<pc, seen, clients, eventId, closed, crashed, addressed, dropped,
                       subscribing, unsubscribing, publish, sending, events>>
        /\ pc[c] = "reading" /\ hand[c] = <<>> /\ msgC[c] # <<>>
        /\ hand' = [hand EXCEPT ![c] = <<h>>] /\ msgC' = [msgC EXCEPT ![c] = t]
    BY DEF ReadOrDone
  <1>2. /\ msgC[c] \in Seq(Message) /\ h \in Message /\ t \in Seq(Message)
        /\ Len(t) = Len(msgC[c]) - 1 /\ IdsOf(msgC[c]) = {h.id} \cup IdsOf(t)
        /\ Sorted(msgC[c]) => Sorted(t) /\ Below({h.id}, IdsOf(t))
    BY <1>1, TailIds, FlightType DEF BInv
  <1>3. <<h>> \in Seq(Message) /\ Len(<<h>>) = 1 /\ IdsOf(<<h>>) = {h.id}
    BY <1>2, OneId
  <1>4. Len(msgC[c]) \in Nat /\ Len(msgC[c]) <= BufferSize
    BY <1>2, LenProperties DEF BInv, TypeOK
  <1> HIDE DEF h, t
  <1>5. /\ \A d \in Client : d # c => hand'[d] = hand[d] /\ msgC'[d] = msgC[d]
        /\ hand'[c] = <<h>> /\ msgC'[c] = t
    BY <1>1 DEF BInv, TypeOK
  <1>6. TypeOK'
    <2>1. hand' \in [Client -> Seq(Message)] /\ \A d \in Client : Len(hand'[d]) <= 1
      BY <1>1, <1>3, <1>5 DEF BInv, TypeOK
    <2>2. msgC' \in [Client -> Seq(Message)] /\ \A d \in Client : Len(msgC'[d]) <= BufferSize
      BY <1>1, <1>2, <1>4, <1>5, BrokerAssumption DEF BInv, TypeOK
    <2> QED BY <1>1, <2>1, <2>2 DEF BInv, TypeOK
  <1>7. c \notin Subscribing /\ Subscribing' = Subscribing
    BY <1>1 DEF BInv, Unknown, Blank, Subscribing
  <1>8. Unknown'
    BY <1>1, <1>5, <1>7 DEF BInv, Unknown, Blank
  <1>9. /\ InFlight(c)' = {h.id} \cup IdsOf(t) /\ InFlight(c) = {h.id} \cup IdsOf(t)
        /\ \A d \in Client : InFlight(d)' = InFlight(d)
    BY <1>1, <1>2, <1>3, <1>5, EmptyIds DEF InFlight
  <1>10. Accounted'
    BY <1>1, <1>9 DEF BInv, Accounted
  <1>11. Growing'
    <2>1. \A d \in Client : Below(seen'[d], InFlight(d)') /\ \A n \in seen'[d] \cup InFlight(d)' : n <= eventId'
      BY <1>1, <1>9 DEF BInv, Growing
    <2>2. \A d \in Client : Sorted(msgC'[d]) /\ Below(IdsOf(hand'[d]), IdsOf(msgC'[d]))
      BY <1>2, <1>3, <1>5 DEF BInv, Growing
    <2> QED BY <2>1, <2>2 DEF Growing
  <1> QED BY <1>6, <1>8, <1>10, <1>11 DEF BInv

LEMMA WriteStep ==
  ASSUME BInv, NEW c \in Client, WriteEvent(c)
  PROVE  BInv' /\ Below(seen[c], seen'[c] \ seen[c]) /\ \A d \in Client \ {c} : seen'[d] = seen[d]
  <1> DEFINE n == hand[c][1].id
  <1>1. /\ UNCHANGED <<pc, clients, eventId, msgC, closed, crashed, addressed, dropped,
                       subscribing, unsubscribing, publish, sending, events>>
        /\ pc[c] = "reading" /\ hand[c] # <<>>
        /\ hand' = [hand EXCEPT ![c] = <<>>] /\ seen' = [seen EXCEPT ![c] = @ \cup {n}]
    BY DEF WriteEvent, brokerVars
  <1>2. hand[c] \in Seq(Message) /\ Len(hand[c]) = 1 /\ DOMAIN hand[c] = {1}
    <2>1. hand[c] \in Seq(Message) /\ Len(hand[c]) <= 1
      BY DEF BInv, TypeOK
    <2>2. Len(hand[c]) \in Nat /\ DOMAIN hand[c] = 1..Len(hand[c])
      BY <2>1, LenProperties
    <2>3. Len(hand[c]) # 0
      BY <1>1, <2>1, EmptySeq
    <2>4. Len(hand[c]) = 1
      <3>1. \A k \in Nat : k <= 1 /\ k # 0 => k = 1
        OBVIOUS
      <3> QED BY <2>1, <2>2, <2>3, <3>1
    <2> QED BY <2>1, <2>2, <2>4
  <1>3. IdsOf(hand[c]) = {n} /\ n \in Nat
    <2>1. hand[c][1] \in Message
      BY <1>2, ElementOfSeq
    <2> QED BY <1>2, <2>1 DEF IdsOf, Message
  <1> HIDE DEF n
  <1>4. /\ \A d \in Client : d # c => hand'[d] = hand[d] /\ seen'[d] = seen[d]
        /\ hand'[c] = <<>> /\ seen'[c] = seen[c] \cup {n}
    BY <1>1 DEF BInv, TypeOK
  <1>5. TypeOK'
    <2>0. <<>> \in Seq(Message) /\ Len(<<>>) = 0
      BY EmptySeq
    <2>1. hand' \in [Client -> Seq(Message)] /\ \A d \in Client : Len(hand'[d]) <= 1
      BY <1>1, <2>0 DEF BInv, TypeOK
    <2>2. seen' \in [Client -> SUBSET Nat]
      BY <1>1, <1>3 DEF BInv, TypeOK
    <2> QED BY <1>1, <2>1, <2>2 DEF BInv, TypeOK
  <1>6. c \notin Subscribing /\ Subscribing' = Subscribing
    BY <1>1 DEF BInv, Unknown, Blank, Subscribing
  <1>7. Unknown'
    BY <1>1, <1>4, <1>6 DEF BInv, Unknown, Blank
  <1>8. /\ InFlight(c)' = IdsOf(msgC[c]) /\ InFlight(c) = {n} \cup IdsOf(msgC[c])
        /\ \A d \in Client : d # c => InFlight(d)' = InFlight(d)
    BY <1>1, <1>3, <1>4, EmptyIds DEF InFlight
  <1>9. Accounted'
    BY <1>1, <1>4, <1>8 DEF BInv, Accounted
  <1>10. Below(seen[c], {n}) /\ Below({n}, IdsOf(msgC[c])) /\ n <= eventId
    BY <1>3, <1>8 DEF BInv, Growing, Below
  <1>11. Growing'
    <2>1. \A d \in Client : Below(seen'[d], InFlight(d)') /\ \A k \in seen'[d] \cup InFlight(d)' : k <= eventId'
      BY <1>1, <1>4, <1>8, <1>10 DEF BInv, Growing, Below
    <2>2. \A d \in Client : Sorted(msgC'[d]) /\ Below(IdsOf(hand'[d]), IdsOf(msgC'[d]))
      BY <1>1, <1>4, EmptyIds DEF BInv, Growing, Below
    <2> QED BY <2>1, <2>2 DEF Growing
  <1> QED BY <1>4, <1>5, <1>7, <1>9, <1>10, <1>11 DEF BInv, Below

\* sendOrDrop of a message whose id is above all that its receivers know.
LEMMA SendStep ==
  ASSUME BInv, NEW m \in Message, NEW to \in SUBSET Client, SendOrDrop(m, to),
         UNCHANGED clientVars, eventId' \in Nat, eventId <= eventId', m.id <= eventId',
         \A c \in to : \A n \in seen[c] \cup InFlight(c) : n < m.id
  PROVE  /\ msgC' \in [Client -> Seq(Message)] /\ \A c \in Client : Len(msgC'[c]) <= BufferSize
         /\ addressed' \in [Client -> SUBSET Nat] /\ dropped' \in [Client -> SUBSET Nat]
         /\ crashed' \in BOOLEAN
         /\ \A c \in Client \ to : msgC'[c] = msgC[c] /\ addressed'[c] = addressed[c] /\ dropped'[c] = dropped[c]
         /\ Accounted' /\ Growing'
  <1> DEFINE full == {c \in to : Len(msgC[c]) >= BufferSize}
  <1>1. /\ msgC' = [c \in Client |-> IF c \in to \ full THEN Append(msgC[c], m) ELSE msgC[c]]
        /\ addressed' = [c \in Client |-> IF c \in to THEN addressed[c] \cup {m.id} ELSE addressed[c]]
        /\ dropped' = [c \in Client |-> IF c \in full THEN dropped[c] \cup {m.id} ELSE dropped[c]]
        /\ UNCHANGED <<pc, hand, seen>>
    BY DEF SendOrDrop, clientVars
  <1>2. m.id \in Nat
    BY DEF Message
  <1>3. crashed' \in BOOLEAN
    BY Zenon DEF SendOrDrop
  <1>4. ASSUME NEW c \in to \ full
        PROVE  /\ msgC'[c] = Append(msgC[c], m) /\ msgC'[c] \in Seq(Message) /\ Len(msgC'[c]) <= BufferSize
               /\ IdsOf(msgC'[c]) = IdsOf(msgC[c]) \cup {m.id} /\ InFlight(c)' = InFlight(c) \cup {m.id}
               /\ Sorted(msgC'[c])
    <2>1. msgC[c] \in Seq(Message) /\ Len(msgC[c]) \in Nat /\ c \in Client
      BY FlightType, LenProperties DEF BInv
    <2>2. msgC'[c] = Append(msgC[c], m)
      BY <1>1
    <2>3. \A n \in IdsOf(msgC[c]) : n < m.id
      BY DEF InFlight
    <2>4. Sorted(msgC[c])
      BY <2>1 DEF BInv, Growing
    <2>5. /\ msgC'[c] \in Seq(Message) /\ Len(msgC'[c]) = Len(msgC[c]) + 1
          /\ IdsOf(msgC'[c]) = IdsOf(msgC[c]) \cup {m.id} /\ Sorted(msgC'[c])
      BY <2>1, <2>2, <2>3, <2>4, AppendIds
    <2>6. Len(msgC'[c]) <= BufferSize
      BY <2>1, <2>5, BrokerAssumption
    <2>7. InFlight(c)' = InFlight(c) \cup {m.id}
      BY <1>1, <2>1, <2>5 DEF InFlight
    <2> QED BY <2>2, <2>5, <2>6, <2>7
  <1>5. ASSUME NEW c \in Client, c \notin to \ full
        PROVE  msgC'[c] = msgC[c] /\ InFlight(c)' = InFlight(c)
    BY <1>1, <1>5 DEF InFlight
  <1>6. /\ addressed' \in [Client -> SUBSET Nat] /\ dropped' \in [Client -> SUBSET Nat]
    BY <1>1, <1>2 DEF BInv, TypeOK
  <1>7. msgC' \in [Client -> Seq(Message)] /\ \A c \in Client : Len(msgC'[c]) <= BufferSize
    <2>1. \A c \in Client : msgC'[c] \in Seq(Message) /\ Len(msgC'[c]) <= BufferSize
      BY <1>4, <1>5 DEF BInv, TypeOK
    <2>2. msgC' = [c \in Client |-> msgC'[c]]
      BY <1>1
    <2> QED BY <2>1, <2>2
  <1>8. Accounted'
    <2> SUFFICES ASSUME NEW c \in Client, pc[c] = "reading"
                 PROVE  addressed'[c] = seen[c] \cup dropped'[c] \cup InFlight(c)'
      BY <1>1 DEF Accounted
    <2>1. addressed[c] = seen[c] \cup dropped[c] \cup InFlight(c)
      BY DEF BInv, Accounted
    <2>2. CASE c \in to \ full
      BY <1>1, <1>4, <2>1, <2>2
    <2>3. CASE c \in full
      BY <1>1, <1>5, <2>1, <2>3
    <2>4. CASE c \notin to
      BY <1>1, <1>5, <2>1, <2>4
    <2> QED BY <2>2, <2>3, <2>4
  <1>9. Growing'
    <2> SUFFICES ASSUME NEW c \in Client
                 PROVE  /\ Sorted(msgC'[c]) /\ Below(IdsOf(hand[c]), IdsOf(msgC'[c]))
                        /\ Below(seen[c], InFlight(c)')
                        /\ \A n \in seen[c] \cup InFlight(c)' : n <= eventId'
      BY <1>1 DEF Growing
    <2>0. /\ Sorted(msgC[c]) /\ Below(IdsOf(hand[c]), IdsOf(msgC[c])) /\ Below(seen[c], InFlight(c))
          /\ \A n \in seen[c] \cup InFlight(c) : n <= eventId
          /\ seen[c] \subseteq Nat /\ InFlight(c) \subseteq Nat /\ eventId \in Nat
      BY FlightType DEF BInv, Growing, InFlight, TypeOK
    <2>1. CASE c \in to \ full
      <3>1. \A n \in seen[c] \cup InFlight(c) : n < m.id
        BY <2>1
      <3>2. \A n \in IdsOf(hand[c]) : n < m.id
        BY <3>1 DEF InFlight
      <3> QED BY <1>2, <1>4, <2>0, <2>1, <3>1, <3>2 DEF Below
    <2>2. CASE c \notin to \ full
      BY <1>5, <2>0, <2>2
    <2> QED BY <2>1, <2>2
  <1>10. \A c \in Client \ to : msgC'[c] = msgC[c] /\ addressed'[c] = addressed[c] /\ dropped'[c] = dropped[c]
    BY <1>1
  <1> QED BY <1>3, <1>6, <1>7, <1>8, <1>9, <1>10

LEMMA AddStep == ASSUME BInv, AddClient PROVE BInv'
  <1> DEFINE c == Head(subscribing)
  <1>1. /\ UNCHANGED <<pc, hand, seen, eventId, closed, unsubscribing, publish, sending, events>>
        /\ subscribing # <<>> /\ subscribing' = <<>> /\ clients' = clients \cup {c}
        /\ SendOrDrop(ToAll(0), {c}) /\ UNCHANGED clientVars
    BY DEF AddClient, clientVars
  <1>2. c \in Client /\ c \in Subscribing
    BY <1>1, EmptySeq, LenProperties DEF BInv, TypeOK, Subscribing
  <1>3. Blank(c) /\ pc[c] # "new"
    BY <1>2 DEF BInv, Unknown
  <1>4. ToAll(0) \in Message /\ ToAll(0).id = 0
    BY DEF ToAll, Message
  <1> HIDE DEF c
  <1>5. seen[c] = {} /\ InFlight(c) = {}
    BY <1>3, EmptyIds DEF Blank, InFlight
  <1>6. eventId \in Nat /\ eventId' = eventId
    BY <1>1 DEF BInv, TypeOK
  <1>7. \A d \in {c} : \A n \in seen[d] \cup InFlight(d) : n < ToAll(0).id
    BY <1>5
  <1>8. {c} \in SUBSET Client /\ eventId' \in Nat /\ eventId <= eventId' /\ ToAll(0).id <= eventId'
    BY <1>2, <1>4, <1>6
  <1>9. /\ msgC' \in [Client -> Seq(Message)] /\ \A d \in Client : Len(msgC'[d]) <= BufferSize
        /\ addressed' \in [Client -> SUBSET Nat] /\ dropped' \in [Client -> SUBSET Nat]
        /\ crashed' \in BOOLEAN
        /\ \A d \in Client \ {c} : msgC'[d] = msgC[d] /\ addressed'[d] = addressed[d] /\ dropped'[d] = dropped[d]
        /\ Accounted' /\ Growing'
    BY <1>1, <1>4, <1>7, <1>8, SendStep
  <1>10. TypeOK'
    <2>1. <<>> \in Seq(Client) /\ Len(<<>>) = 0
      BY EmptySeq
    <2> QED BY <1>1, <1>2, <1>9, <2>1 DEF BInv, TypeOK
  <1>11. Unknown'
    <2>1. Subscribing' = {}
      BY <1>1 DEF Subscribing
    <2> QED BY <1>1, <1>3, <1>9, <2>1 DEF BInv, Unknown, Blank
  <1> QED BY <1>9, <1>10, <1>11 DEF BInv

\* A message with the next id, to clients the broker knows.
LEMMA NextIdStep ==
  ASSUME BInv, NEW m \in Message, m.id = eventId + 1, NEW to \in SUBSET clients,
         SendOrDrop(m, to), eventId' = eventId + 1, publish' \in Seq(Message),
         Len(publish') <= PublishSize, events' \in 0..MaxEvents,
         UNCHANGED <<clientVars, clients, closed, subscribing, unsubscribing, sending>>
  PROVE  BInv'
  <1>1. to \in SUBSET Client /\ eventId \in Nat
    BY DEF BInv, TypeOK
  <1>2. \A c \in to : \A n \in seen[c] \cup InFlight(c) : n < m.id
    <2> SUFFICES ASSUME NEW c \in to, NEW n \in seen[c] \cup InFlight(c) PROVE n < m.id
      OBVIOUS
    <2>1. n <= eventId /\ n \in Nat
      BY <1>1, FlightType DEF BInv, Growing, InFlight
    <2> QED BY <1>1, <2>1
  <1>3. eventId' \in Nat /\ eventId <= eventId' /\ m.id <= eventId' /\ UNCHANGED <<pc, hand, seen>>
    BY <1>1 DEF clientVars
  <1>4. /\ msgC' \in [Client -> Seq(Message)] /\ \A d \in Client : Len(msgC'[d]) <= BufferSize
        /\ addressed' \in [Client -> SUBSET Nat] /\ dropped' \in [Client -> SUBSET Nat]
        /\ crashed' \in BOOLEAN
        /\ \A d \in Client \ to : msgC'[d] = msgC[d] /\ addressed'[d] = addressed[d] /\ dropped'[d] = dropped[d]
        /\ Accounted' /\ Growing'
    BY <1>1, <1>2, <1>3, SendStep
  <1>5. TypeOK'
    BY <1>3, <1>4 DEF BInv, TypeOK
  <1>6. Unknown'
    <2>1. Subscribing' = Subscribing
      BY DEF Subscribing
    <2>2. \A c \in Client : pc[c] = "new" \/ c \in Subscribing => c \notin to /\ Blank(c) /\ c \notin clients
      BY DEF BInv, Unknown
    <2>3. \A c \in Client : pc[c] = "new" \/ c \in Subscribing => Blank(c)'
      BY <1>3, <1>4, <2>2 DEF Blank
    <2>4. \A c \in Client : pc[c] = "new" => c \notin Subscribing
      BY DEF BInv, Unknown
    <2> QED BY <1>3, <2>1, <2>2, <2>3, <2>4 DEF Unknown
  <1> QED BY <1>4, <1>5, <1>6 DEF BInv

LEMMA BroadcastStep == ASSUME BInv, Broadcast PROVE BInv'
  <1> DEFINE m == [Head(publish) EXCEPT !.id = eventId + 1]
             to == {c \in clients : ShouldSend(m, c)}
  <1>1. /\ publish # <<>> /\ publish' = Tail(publish) /\ SendOrDrop(m, to) /\ eventId' = eventId + 1
        /\ UNCHANGED <<clientVars, clients, closed, subscribing, unsubscribing, sending, events>>
    BY DEF Broadcast
  <1>2. publish \in Seq(Message) /\ Len(publish) <= PublishSize /\ eventId \in Nat
    BY DEF BInv, TypeOK
  <1>3. /\ Head(publish) \in Message /\ Tail(publish) \in Seq(Message)
        /\ Len(Tail(publish)) = Len(publish) - 1 /\ Len(publish) \in Nat
    BY <1>1, <1>2, TailIds, LenProperties
  <1>4. m \in Message /\ m.id = eventId + 1
    BY <1>2, <1>3 DEF Message
  <1>5. Len(publish') <= PublishSize /\ events' \in 0..MaxEvents
    BY <1>1, <1>2, <1>3, BrokerAssumption DEF BInv, TypeOK
  <1> HIDE DEF m
  <1>6. to \in SUBSET clients
    OBVIOUS
  <1> HIDE DEF to
  <1> QED BY <1>1, <1>3, <1>4, <1>5, <1>6, NextIdStep

LEMMA KeepAliveStep == ASSUME BInv, KeepAlive PROVE BInv'
  <1>1. ToAll(eventId + 1) \in Message /\ ToAll(eventId + 1).id = eventId + 1
    BY DEF ToAll, Message, BInv, TypeOK
  <1>2. /\ publish' \in Seq(Message) /\ Len(publish') <= PublishSize /\ events' \in 0..MaxEvents
        /\ eventId' = eventId + 1 /\ SendOrDrop(ToAll(eventId + 1), clients)
        /\ UNCHANGED <<clientVars, clients, closed, subscribing, unsubscribing, sending>>
    BY BrokerAssumption DEF KeepAlive, BInv, TypeOK
  <1> QED BY <1>1, <1>2, NextIdStep

LEMMA BInvStep == BInv /\ [Next]_vars => BInv'
  <1> SUFFICES ASSUME BInv, [Next]_vars PROVE BInv'
    OBVIOUS
  <1>1. CASE UNCHANGED vars
    <2>1. TypeOK'
      BY <1>1 DEF BInv, TypeOK, vars, clientVars, brokerVars
    <2> QED BY <1>1, <2>1, ElsewhereStep DEF vars, brokerVars
  <1>2. CASE Next
    BY <1>2, SenderStep, SubscribeStep, ReadStep, WriteStep, UnsubscribeStep, AddStep, RemoveStep,
       BroadcastStep, KeepAliveStep DEF Next, Handler
  <1> QED BY <1>1, <1>2

LEMMA BInvAlways == Spec => []BInv
  BY BInvInit, BInvStep, PTL DEF Spec

-----------------------------------------------------------------------------
\* The channels of sse.go hold messages only, and no more than their capacity.
THEOREM TypeCorrect == Spec => []TypeOK
  <1>1. BInv => TypeOK
    BY DEF BInv
  <1> QED BY <1>1, BInvAlways, PTL

\* Whoever publishes, whichever clients fall behind or leave: what was meant for a
\* connected client was written to it, waits for it, or was dropped by sendOrDrop.
THEOREM NothingVanishesCorrect == Spec => []NothingVanishes
  <1>1. BInv => NothingVanishes
    BY DEF BInv, TypeOK, Accounted, NothingVanishes
  <1> QED BY <1>1, BInvAlways, PTL

\* Every handler writes events with growing ids, keepalives included.
THEOREM EventsInOrderCorrect == Spec => EventsInOrder
  <1>1. BInv /\ [Next]_vars =>
          [\A c \in Client : \A new \in seen'[c] \ seen[c], old \in seen[c] : old < new]_vars
    <2> SUFFICES ASSUME BInv, Next, NEW c \in Client
                 PROVE  \A new \in seen'[c] \ seen[c], old \in seen[c] : old < new
      OBVIOUS
    <2>1. CASE UNCHANGED seen
      BY <2>1
    <2>2. ASSUME NEW d \in Client, WriteEvent(d) PROVE Below(seen[c], seen'[c] \ seen[c])
      BY <2>2, WriteStep DEF Below
    <2>3. UNCHANGED seen \/ \E d \in Client : WriteEvent(d)
      BY DEF Next, Handler, Publish, SendMessage, Subscribe, ReadOrDone, Unsubscribe, Disconnect,
             AddClient, RemoveClient, Broadcast, KeepAlive, clientVars
    <2> QED BY <2>1, <2>2, <2>3 DEF Below
  <1> QED BY <1>1, BInvAlways, PTL DEF Spec, EventsInOrder
=============================================================================
