-------------------------- MODULE DurableConsumers --------------------------
(***************************************************************************)
(* pkg/nats as the agents use it: EnsureStream, Publish and Subscribe with *)
(* DeliverNew and a durable name, and what the client library does with    *)
(* the consumer behind a subscription: Unsubscribe deletes a consumer that *)
(* this subscription created, and leaves alone one that it found.          *)
(*                                                                         *)
(* One message of each subject is enough to ask what becomes of it.        *)
(***************************************************************************)
EXTENDS Naturals

\* The agents, each with a connection of its own.
Agents == {"scout", "risk", "trader", "sentiment", "recorder"}

\* signal.intent.*, signal.execute.* and signal.price.*.
Subjects == {"intent", "execute", "price"}

Streams == {"trading", "sentiment"}

VARIABLES
  streams,      \* the streams the server has
  consumer,     \* the durable consumers the server has, and who made them
  unread,       \* the consumers at which the message of their subject waits
  published,    \* the subjects whose message is on the stream
  conn,         \* the connection of each agent
  bound         \* the consumers with a subscription on an open connection

natsVars == <<streams, consumer, unread, published, conn, bound>>

\* durableName: a consumer per agent and subject it subscribes to.
Consumers == {<<"risk", "intent">>, <<"risk", "price">>, <<"trader", "execute">>,
              <<"trader", "price">>, <<"recorder", "price">>}

Conn == {"none", "open", "closed"}

\* Absent, found by this process (or left by an earlier one), or created by it.
Origin == {"absent", "found", "created"}

NatsInit ==
  /\ streams = {}
  /\ consumer = [c \in Consumers |-> "absent"]
  /\ unread = {}
  /\ published = {}
  /\ conn = [a \in Agents |-> "none"]
  /\ bound = {}

NatsTypeOK ==
  /\ streams \subseteq Streams
  /\ consumer \in [Consumers -> Origin]
  /\ published \subseteq Subjects
  /\ conn \in [Agents -> Conn]
  /\ unread \cup bound \subseteq {c \in Consumers : consumer[c] # "absent"}

ConnectJetStream(a) == conn' = [conn EXCEPT ![a] = "open"]

\* StreamInfo, and AddStream when there is none.
EnsureStream(a, name) ==
  /\ conn[a] = "open"
  /\ streams' = streams \cup {name}
  /\ UNCHANGED <<consumer, unread, published, conn, bound>>

\* An ephemeral consumer: the server drops it with its connection.
SubscribeEphemeral(c) ==
  /\ conn[c[1]] = "open"
  /\ bound' = bound \cup {c}
  /\ consumer' = [consumer EXCEPT ![c] = "created"]
  /\ unread' = unread \ {c}
  /\ UNCHANGED <<streams, published, conn>>

\* Subscribe binds to the durable consumer of that name, or creates one that
\* starts with the next message (DeliverNew).
Subscribe(c) ==
  /\ conn[c[1]] = "open"
  /\ bound' = bound \cup {c}
  /\ consumer' = [consumer EXCEPT ![c] = IF @ = "absent" THEN "created" ELSE @]
  /\ UNCHANGED <<streams, unread, published, conn>>

\* The server puts a message before every consumer its subject has at that moment.
Receivers(s) ==
  IF s \in published THEN {} ELSE {c \in Consumers : c[2] = s /\ consumer[c] # "absent"}

Publish(s) ==
  /\ published' = published \cup {s}
  /\ unread' = unread \cup Receivers(s)

\* A consumer that an earlier process made is deleted as well.
UnsubscribeDeletesFound(c) ==
  /\ bound' = bound \ {c}
  /\ IF c \in bound
       THEN /\ consumer' = [consumer EXCEPT ![c] = "absent"]
            /\ unread' = unread \ {c}
       ELSE UNCHANGED <<consumer, unread>>
  /\ UNCHANGED <<streams, published, conn>>

\* Unsubscribe on a closed connection is an error and changes nothing.
Unsubscribe(c) ==
  /\ bound' = bound \ {c}
  /\ IF c \in bound /\ consumer[c] = "created"
       THEN /\ consumer' = [consumer EXCEPT ![c] = "absent"]
            /\ unread' = unread \ {c}
       ELSE UNCHANGED <<consumer, unread>>
  /\ UNCHANGED <<streams, published, conn>>

\* Close ends the subscriptions of the connection; their consumers stay.
CloseConn(a) ==
  /\ conn' = [conn EXCEPT ![a] = "closed"]
  /\ bound' = {c \in bound : c[1] # a}

\* The process is gone, and with it all connections; a later one finds what is left.
LoseConnections ==
  /\ conn' = [a \in Agents |-> "none"]
  /\ bound' = {}
  /\ consumer' = [c \in Consumers |-> IF consumer[c] = "absent" THEN "absent" ELSE "found"]
  /\ UNCHANGED <<streams, unread, published>>
=============================================================================
