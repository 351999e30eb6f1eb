---------------------------- MODULE EventBroker ----------------------------
(***************************************************************************)
(* The server-sent events broker (server/events/sse.go): the goroutine of  *)
(* listen with its three channels, the handler of each connected client,   *)
(* and the goroutines all over the server that publish events.             *)
(*                                                                         *)
(* A message carries its id and what shouldSend looks at; id 0 is the      *)
(* serverStart event, which gets no id.  crashed means that the goroutine  *)
(* of the broker panicked, which ends the process.                         *)
(***************************************************************************)
EXTENDS Naturals, Sequences

CONSTANTS Client,         \* connections; each connects once
          UidOf, NameOf,  \* Client -> clientUniqueId, username
          Uid, Name, None,
          Sender,         \* goroutines that call SendMessage
          PublishSize,    \* capacity of the publish channel
          BufferSize,     \* capacity of a client's channel
          MaxEvents       \* bound on the events published or kept alive

ASSUME BrokerAssumption ==
  /\ UidOf \in [Client -> Uid] /\ NameOf \in [Client -> Name]
  /\ None \notin Uid \cup Name
  /\ PublishSize \in Nat \ {0} /\ BufferSize \in Nat \ {0} /\ MaxEvents \in Nat

VARIABLES
  pc,            \* Client -> what its handler does
  subscribing, unsubscribing, publish, \* the channels of the broker
  clients,       \* the clients listen knows
  eventId,       \* the last id given out
  msgC,          \* Client -> its channel
  closed,        \* Client -> whether its channel is closed
  hand,          \* Client -> the message ReadOrDone took, if any
  sending,       \* Sender -> the message it publishes, if any
  crashed,
  seen,          \* Client -> the ids written to it (history)
  addressed,     \* Client -> the ids meant for it (history)
  dropped,       \* Client -> the ids it missed, its channel being full (history)
  events         \* messages that may still be created

clientVars == <<pc, hand, seen>>
brokerVars == <<clients, eventId, msgC, closed, crashed, addressed, dropped>>
vars == <<clientVars, brokerVars, subscribing, unsubscribing, publish, sending, events>>

Message == [id : Nat, toAll : BOOLEAN, from : Uid \cup {None}, user : Name \cup {None}]
ToAll(n) == [id |-> n, toAll |-> TRUE, from |-> None, user |-> None]

Init ==
  /\ pc = [c \in Client |-> "new"] /\ hand = [c \in Client |-> <<>>]
  /\ subscribing = <<>> /\ unsubscribing = <<>> /\ publish = <<>>
  /\ clients = {} /\ eventId = 0
  /\ msgC = [c \in Client |-> <<>>] /\ closed = [c \in Client |-> FALSE]
  /\ sending = [s \in Sender |-> <<>>] /\ crashed = FALSE
  /\ seen = [c \in Client |-> {}] /\ addressed = [c \in Client |-> {}]
  /\ dropped = [c \in Client |-> {}] /\ events = MaxEvents

-----------------------------------------------------------------------------
(* SendMessage and SendBroadcastMessage. *)

\* A broadcast, an event without a client behind it, or one a client caused.
SendMessage(s, toAll, from, user) ==
  /\ ~crashed /\ sending[s] = <<>> /\ events > 0
  /\ sending' = [sending EXCEPT ![s] = <<[id |-> 0, toAll |-> toAll, from |-> from,
                                          user |-> user]>>]
  /\ events' = events - 1
  /\ UNCHANGED <<clientVars, brokerVars, subscribing, unsubscribing, publish>>

\* The sender blocks until the channel has room.
Publish(s) ==
  /\ ~crashed /\ sending[s] # <<>> /\ Len(publish) < PublishSize
  /\ publish' = publish \o sending[s] /\ sending' = [sending EXCEPT ![s] = <<>>]
  /\ UNCHANGED <<clientVars, brokerVars, subscribing, unsubscribing, events>>

-----------------------------------------------------------------------------
(* ServeHTTP of a client: subscribe, read until the connection ends. *)

Subscribe(c) ==
  /\ ~crashed /\ pc[c] = "new" /\ subscribing = <<>>
  /\ subscribing' = <<c>> /\ pc' = [pc EXCEPT ![c] = "reading"]
  /\ UNCHANGED <<hand, seen, brokerVars, unsubscribing, publish, sending, events>>

\* Mutant: the next message is taken before the last one was passed on.
ReadAhead(c) ==
  /\ ~crashed /\ pc[c] = "reading" /\ msgC[c] # <<>>
  /\ hand' = [hand EXCEPT ![c] = <<Head(msgC[c])>>]
  /\ msgC' = [msgC EXCEPT ![c] = Tail(@)]
  /\ UNCHANGED <<pc, seen, clients, eventId, closed, crashed, addressed, dropped,
                 subscribing, unsubscribing, publish, sending, events>>

ReadOrDone(c) ==
  /\ ~crashed /\ pc[c] = "reading" /\ hand[c] = <<>> /\ msgC[c] # <<>>
  /\ hand' = [hand EXCEPT ![c] = <<Head(msgC[c])>>]
  /\ msgC' = [msgC EXCEPT ![c] = Tail(@)]
  /\ UNCHANGED <<pc, seen, clients, eventId, closed, crashed, addressed, dropped,
                 subscribing, unsubscribing, publish, sending, events>>

WriteEvent(c) ==
  /\ ~crashed /\ pc[c] = "reading" /\ hand[c] # <<>>
  /\ hand' = [hand EXCEPT ![c] = <<>>]
  /\ seen' = [seen EXCEPT ![c] = @ \cup {hand[c][1].id}]
  /\ UNCHANGED <<pc, brokerVars, subscribing, unsubscribing, publish, sending, events>>

\* The request's context ends, or a write fails or times out.
Disconnect(c) ==
  /\ ~crashed /\ pc[c] = "reading"
  /\ pc' = [pc EXCEPT ![c] = "leaving"] /\ hand' = [hand EXCEPT ![c] = <<>>]
  /\ UNCHANGED <<seen, brokerVars, subscribing, unsubscribing, publish, sending, events>>

Unsubscribe(c) ==
  /\ ~crashed /\ pc[c] = "leaving" /\ unsubscribing = <<>>
  /\ unsubscribing' = <<c>> /\ pc' = [pc EXCEPT ![c] = "done"]
  /\ UNCHANGED <<hand, seen, brokerVars, subscribing, publish, sending, events>>

-----------------------------------------------------------------------------
(* The broker: listen. *)

ShouldSend(m, c) ==
  \/ m.toAll \/ m.from = None
  \/ m.from # UidOf[c] /\ (m.user = None \/ m.user = NameOf[c])

\* sendOrDrop to each of these clients, in some order: a send to a closed
\* channel panics, a full channel drops the message.
SendOrDrop(m, to) ==
  LET full == {c \in to : Len(msgC[c]) >= BufferSize} IN
  /\ crashed' = \E c \in to : closed[c]
  /\ msgC' = [c \in Client |-> IF c \in to \ full THEN Append(msgC[c], m) ELSE msgC[c]]
  /\ addressed' = [c \in Client |-> IF c \in to THEN addressed[c] \cup {m.id} ELSE addressed[c]]
  /\ dropped' = [c \in Client |-> IF c \in full THEN dropped[c] \cup {m.id} ELSE dropped[c]]

AddClient ==
  /\ ~crashed /\ subscribing # <<>>
  /\ clients' = clients \cup {Head(subscribing)}
  /\ SendOrDrop(ToAll(0), {Head(subscribing)})
  /\ subscribing' = <<>>
  /\ UNCHANGED <<clientVars, eventId, closed, unsubscribing, publish, sending, events>>

\* Mutant: the channel is never closed, and its reader never ends.
ForgetClient ==
  /\ ~crashed /\ unsubscribing # <<>>
  /\ clients' = clients \ {Head(unsubscribing)}
  /\ unsubscribing' = <<>>
  /\ UNCHANGED <<clientVars, closed, eventId, msgC, crashed, addressed, dropped, subscribing,
                 publish, sending, events>>

RemoveClient ==
  /\ ~crashed /\ unsubscribing # <<>>
  /\ LET c == Head(unsubscribing) IN
       /\ closed' = [closed EXCEPT ![c] = TRUE] /\ clients' = clients \ {c}
  /\ unsubscribing' = <<>>
  /\ UNCHANGED <<clientVars, eventId, msgC, crashed, addressed, dropped, subscribing,
                 publish, sending, events>>

\* Mutant: a plain send, which waits for the slowest client.
BroadcastAndWait ==
  /\ ~crashed /\ publish # <<>>
  /\ LET m == [Head(publish) EXCEPT !.id = eventId + 1] IN
       /\ \A c \in clients : ShouldSend(m, c) => Len(msgC[c]) < BufferSize
       /\ SendOrDrop(m, {c \in clients : ShouldSend(m, c)})
  /\ eventId' = eventId + 1 /\ publish' = Tail(publish)
  /\ UNCHANGED <<clientVars, clients, closed, subscribing, unsubscribing, sending, events>>

Broadcast ==
  /\ ~crashed /\ publish # <<>>
  /\ LET m == [Head(publish) EXCEPT !.id = eventId + 1] IN
       SendOrDrop(m, {c \in clients : ShouldSend(m, c)})
  /\ eventId' = eventId + 1 /\ publish' = Tail(publish)
  /\ UNCHANGED <<clientVars, clients, closed, subscribing, unsubscribing, sending, events>>

\* Mutant: keepalives do not take their id from the events' counter.
KeepAliveOwnId ==
  /\ ~crashed /\ clients # {} /\ events > 0
  /\ SendOrDrop(ToAll(1), clients)
  /\ events' = events - 1
  /\ UNCHANGED <<clientVars, clients, eventId, closed, subscribing, unsubscribing, publish,
                 sending>>

KeepAlive ==
  /\ ~crashed /\ clients # {} /\ events > 0
  /\ SendOrDrop(ToAll(eventId + 1), clients)
  /\ eventId' = eventId + 1 /\ events' = events - 1
  /\ UNCHANGED <<clientVars, clients, closed, subscribing, unsubscribing, publish, sending>>

-----------------------------------------------------------------------------
Handler(c) == Subscribe(c) \/ ReadOrDone(c) \/ WriteEvent(c) \/ Unsubscribe(c)

Next ==
  \/ \E s \in Sender : Publish(s) \/ SendMessage(s, TRUE, None, None)
  \/ \E s \in Sender, c \in Client : SendMessage(s, FALSE, UidOf[c], NameOf[c])
  \/ \E c \in Client : Handler(c) \/ Disconnect(c)
  \/ AddClient \/ RemoveClient \/ Broadcast \/ KeepAlive

Spec == Init /\ [][Next]_vars

\* Go's select chooses at random among the channels that are ready, so none of
\* them is passed over for ever, and a goroutine blocked on a full channel gets
\* its turn.  A client may stop reading without disconnecting.
LiveSpec ==
  /\ Spec /\ WF_vars(AddClient) /\ WF_vars(RemoveClient) /\ WF_vars(Broadcast)
  /\ \A s \in Sender : WF_vars(Publish(s))
  /\ \A c \in Client : WF_vars(Unsubscribe(c))

-----------------------------------------------------------------------------
(* Properties. *)

\* Well-formed messages; also: no channel holds more than its capacity.
TypeOK ==
  /\ pc \in [Client -> {"new", "reading", "leaving", "done"}]
  /\ subscribing \in Seq(Client) /\ Len(subscribing) <= 1
  /\ unsubscribing \in Seq(Client) /\ Len(unsubscribing) <= 1
  /\ publish \in Seq(Message) /\ Len(publish) <= PublishSize
  /\ clients \subseteq Client /\ eventId \in Nat /\ events \in 0..MaxEvents
  /\ msgC \in [Client -> Seq(Message)] /\ \A c \in Client : Len(msgC[c]) <= BufferSize
  /\ hand \in [Client -> Seq(Message)] /\ \A c \in Client : Len(hand[c]) <= 1
  /\ sending \in [Sender -> Seq(Message)] /\ \A s \in Sender : Len(sending[s]) <= 1
  /\ closed \in [Client -> BOOLEAN] /\ crashed \in BOOLEAN
  /\ seen \in [Client -> SUBSET Nat] /\ addressed \in [Client -> SUBSET Nat]
  /\ dropped \in [Client -> SUBSET Nat]

\* "A client has detached, and we want to stop sending them messages": the
\* broker never sends on the channel of a client that left.
NoSendAfterDetach == ~crashed

IdsOf(s) == {s[k].id : k \in DOMAIN s}
InFlight(c) == IdsOf(hand[c]) \cup IdsOf(msgC[c])

\* Every event meant for a connected client was written to it, is on its way,
\* or was dropped because an earlier one still was.
NothingVanishes ==
  \A c \in clients : pc[c] = "reading" => addressed[c] = seen[c] \cup dropped[c] \cup InFlight(c)

\* A client sees the ids grow, whoever published the events.
EventsInOrder ==
  [][\A c \in Client : \A new \in seen'[c] \ seen[c], old \in seen[c] : old < new]_vars

\* No client can hold up the broker: whoever publishes an event goes on, even
\* if no client reads what it is sent.
SendersGoOn == \A s \in Sender : sending[s] # <<>> ~> sending[s] = <<>> \/ crashed

\* A client that left is forgotten, however busy the broker is.
DetachedAreRemoved ==
  \A c \in Client : pc[c] = "leaving" ~> (c \notin clients /\ closed[c]) \/ crashed
=============================================================================
