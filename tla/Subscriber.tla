----------------------------- MODULE Subscriber -----------------------------
(***************************************************************************)
(* subscriber.cpp: the queue onMessage fills and the task that turns a     *)
(* message into a write request.  The service is RUNNING; its start and    *)
(* stop belong to the connectivity model.                                  *)
(***************************************************************************)
EXTENDS ProtocolDispatcher

CONSTANTS
  SubscriberCapacity,   \* xQueueCreate(30, ...)
  Arrivals,             \* the kinds of message that arrive
  MaxCommands           \* bound on the messages that arrive

\* Messages arrive on topics of tags and on others (the broker keeps the
\* subscriptions of a session).  wellFormed stands for a payload that is JSON
\* and has the key "value".
Topics == {kind.topic : kind \in Arrivals}

\* mqtt_msg_t.  number is the arrival's (a redelivery is a new arrival).
Message == [topic : Topics, wellFormed : BOOLEAN, number : Nat]

ASSUME SubscriberAssumption ==
  /\ SubscriberCapacity \in Nat \ {0}
  /\ Arrivals \subseteq [topic : Topics, wellFormed : BOOLEAN]
  /\ MaxCommands \in Nat
  /\ NONE \notin Message

VARIABLES
  subQueue,     \* gQueue of the subscriber
  subHolding,   \* the message received and not yet handled, or NONE
  arrived       \* the messages onMessage has been called with, in order

subVars == <<subQueue, subHolding, arrived>>

SubscriberInit ==
  /\ subQueue = <<>>
  /\ subHolding = NONE
  /\ arrived = <<>>

\* onMessage calls subscriber_post, which gives up after 500 ticks.
MessageArrives ==
  /\ Len(arrived) < MaxCommands
  /\ \E kind \in Arrivals :
       LET message == [topic |-> kind.topic, wellFormed |-> kind.wellFormed,
                       number |-> Len(arrived) + 1]
       IN /\ arrived' = Append(arrived, message)
          /\ subQueue' = IF Len(subQueue) < SubscriberCapacity
                         THEN Append(subQueue, message)
                         ELSE subQueue
  /\ UNCHANGED <<subHolding, dispQueue>>

ReceiveMessage ==
  /\ subHolding = NONE
  /\ subQueue # <<>>
  /\ subHolding' = Head(subQueue)
  /\ subQueue' = Tail(subQueue)
  /\ UNCHANGED <<arrived, dispQueue>>

\* Mutant: any tag the subscriber has a topic for is written.
AcceptedWhateverAccess(message) ==
  LET tag == tag_find_by_topic(message.topic)
  IN tag # NONE /\ TopicType[tag] = "SUBSCRIBE" /\ message.wellFormed /\ Supported(tag)

\* Mutant: a write-only tag is written whatever its topic is for.
AcceptedWhateverTopic(message) ==
  LET tag == tag_find_by_topic(message.topic)
  IN tag # NONE /\ Access[tag] = "WRITE_ONLY" /\ message.wellFormed /\ Supported(tag)

\* The checks subscriberTask makes before it posts a request.
Accepted(message) ==
  LET tag == tag_find_by_topic(message.topic)
  IN /\ tag # NONE
     /\ TopicType[tag] = "SUBSCRIBE"
     /\ Access[tag] = "WRITE_ONLY"
     /\ message.wellFormed
     /\ Supported(tag)

HandleMessage ==
  /\ subHolding # NONE
  /\ IF Accepted(subHolding)
     THEN protocol_dispatcher_post(WriteRequest(subHolding.topic, subHolding.number))
     ELSE UNCHANGED dispQueue
  /\ subHolding' = NONE
  /\ UNCHANGED <<subQueue, arrived>>

SubscriberTask == ReceiveMessage \/ HandleMessage
=============================================================================
