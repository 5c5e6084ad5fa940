------------------------------ MODULE MqttClient ------------------------------
(***************************************************************************)
(* The MQTT client (xtalk/mqtt_client.cpp): connecting and disconnecting,  *)
(* publishing, the receive thread with its reconnection, the keep-alive    *)
(* thread, the QoS 1 and 2 handshakes in both directions, and a broker.    *)
(*                                                                         *)
(* The socket's mutex is what the threads meet on: readPacket keeps it     *)
(* until a packet, the receive timeout or the connection's end, sendPacket *)
(* until the connection has room for the whole packet.  Topics and         *)
(* payloads are left out; an outgoing message is known by its packet id,   *)
(* an incoming one by the id the broker gave it.  Messages of quality 0,   *)
(* which nothing answers, and subscriptions, which take the path of        *)
(* publish, are left out.                                                  *)
(***************************************************************************)
EXTENDS Integers, Sequences

CONSTANTS
    AutoReconnect,    \* autoReconnect_
    MaxRetries,       \* maxReconnectRetries_; negative for no limit
    QoS,              \* the qualities of service that are used
    MaxPacketId,      \* the greatest uint16_t
    MaxPublishes,     \* bound on the calls of publish
    MaxInbound,       \* bound on the messages from the broker
    Capacity          \* the packets a connection has room for, each way

ASSUME MqttClientAssumption ==
    /\ AutoReconnect \in BOOLEAN
    /\ MaxRetries \in Int /\ QoS \subseteq {1, 2}
    /\ MaxPacketId \in Nat \ {0}
    /\ MaxPublishes \in Nat /\ MaxInbound \in Nat /\ Capacity \in Nat \ {0}

PacketIds == 1 .. MaxPacketId
InboundIds == 1 .. MaxInbound

\* The threads: the one that connects and disconnects, one that publishes,
\* receiveThread_ and keepAliveThread_.
Threads == {"owner", "publisher", "receiver", "keeper"}

VARIABLES
    state,            \* state_
    shouldRun,        \* shouldRun_
    currentRetry,     \* currentRetry_, of which only "below MaxRetries" counts
    outbox,           \* the ids in outbox_
    received,         \* qos2Received_
    released,         \* qos2Released_
    nextPacketId,     \* nextPacketId_
    pc,               \* where each thread is
    packet,           \* the packet the receive thread handles
    reply,            \* the packet it answers with
    publishes,        \* the calls of publish so far
    publishing,       \* the id and quality of the message being published
    holder,           \* the thread that waits in recv or send, with socketMutex_
    socket,           \* whether socketFd_ is a socket
    broker,           \* the broker's side: "gone", "new", "accepted"
    toBroker,         \* packets under way to the broker
    toClient,         \* packets under way to the client
    session,          \* how far the broker is with each incoming message
    \* Bookkeeping of the model:
    notified,         \* the incoming messages the callback has had
    inserted,         \* the ids that were put into outbox_
    acked,            \* the ids whose PUBACK or PUBCOMP was handled
    leaked,           \* those of them that were put into outbox_ afterwards
    reused            \* the ids given to a message while outbox_ had them still

runVars == <<state, shouldRun, currentRetry>>
qosVars == <<outbox, received, released>>
publishVars == <<nextPacketId, publishing, publishes>>
handleVars == <<packet, reply>>
linkVars == <<socket, broker, toBroker, toClient>>
ghostVars == <<notified, inserted, acked, leaked, reused>>
vars == <<runVars, qosVars, publishVars, handleVars, pc, holder, linkVars,
          session, ghostVars>>

Packet(type, id, qos) == [type |-> type, id |-> id, qos |-> qos]
None == Packet("NONE", 0, 0)

Init ==
    /\ state = "DISCONNECTED" /\ shouldRun = FALSE /\ currentRetry = 0
    /\ outbox = {} /\ received = {} /\ released = {}
    /\ nextPacketId = 1 /\ publishing = None /\ publishes = 0
    /\ packet = None /\ reply = None
    /\ pc = [t \in Threads |-> IF t \in {"receiver", "keeper"} THEN "off" ELSE "idle"]
    /\ holder = "none"
    /\ socket = FALSE /\ broker = "gone" /\ toBroker = <<>> /\ toClient = <<>>
    /\ session = [i \in InboundIds |-> "none"]
    /\ notified = {} /\ inserted = {} /\ acked = {} /\ leaked = {} /\ reused = {}

Go(t, place) == pc' = [pc EXCEPT ![t] = place]

-----------------------------------------------------------------------------
(***************************************************************************)
(* The socket.                                                             *)
(***************************************************************************)

Free == holder = "none"

\* Thread t may go on in sendPacket: the mutex is free, or t waits with it.
Ready(t) == holder \in {"none", t}

\* The connection has room: the broker has read what it had to.
Room == Len(toBroker) < Capacity

\* sendPacket puts p on the connection; to a broker that is gone it is lost.
Transmit(t, p) ==
    /\ Ready(t) /\ socket /\ Room
    /\ holder' = "none"
    /\ toBroker' = IF broker = "gone" THEN toBroker ELSE Append(toBroker, p)
    /\ UNCHANGED <<socket, broker, toClient>>

\* sendPacket returns false: there is no socket, or its peer is gone.
CannotSend(t) ==
    /\ Ready(t)
    /\ ~ socket \/ broker = "gone"
    /\ holder' = "none"
    /\ UNCHANGED linkVars

\* sendPacket where the caller does not look at its result.
TrySend(t, p) == Transmit(t, p) \/ (CannotSend(t) /\ ~ socket)

\* The places from which sendPacket is called.
SendPlaces == {"connect", "bye", "send", "reply", "ping"}

\* send() has no room for (the rest of) the packet within its timeout, which
\* is no error to sendPacket: it keeps the mutex and tries again.
NoRoom(t) ==
    /\ pc[t] \in SendPlaces
    /\ Free /\ socket /\ ~ Room
    /\ holder' = t
    /\ UNCHANGED <<runVars, qosVars, publishVars, handleVars, pc, linkVars, session,
                   ghostVars>>

\* readPacket by t has the mutex from here on.
StartReading(t) == Free /\ holder' = t

ReadPacket(t) ==
    /\ holder = t
    /\ toClient # <<>>
    /\ toClient' = Tail(toClient)
    /\ holder' = "none"
    /\ UNCHANGED <<socket, broker, toBroker>>

\* Mutation: no receive timeout.
ReadFailsAtEnd(t) ==
    /\ holder = t
    /\ ~ socket \/ (toClient = <<>> /\ broker = "gone")
    /\ holder' = "none"
    /\ UNCHANGED linkVars

\* The receive timeout, the connection's end or no socket.
ReadFails(t) ==
    /\ holder = t
    /\ toClient = <<>> \/ ~ socket
    /\ holder' = "none"
    /\ UNCHANGED linkVars

-----------------------------------------------------------------------------
(***************************************************************************)
(* doTcpConnect and doMqttConnect, by connect() and by the receive thread. *)
(***************************************************************************)

ConnectFailed(t) ==
    IF t = "owner"
      THEN /\ state' = "ERROR_STATE"
           /\ Go(t, "idle")
           /\ UNCHANGED <<shouldRun, currentRetry>>
      ELSE /\ currentRetry' = IF currentRetry < MaxRetries THEN currentRetry + 1
                                                           ELSE currentRetry
           /\ Go(t, "retry")
           /\ UNCHANGED <<state, shouldRun>>

\* connect() starts both threads.  After a reconnection the receive loop is left.
Connected(t) ==
    /\ state' = "CONNECTED"
    /\ IF t = "owner"
         THEN /\ shouldRun' = TRUE
              /\ pc' = [pc EXCEPT !["owner"] = "idle", !["receiver"] = "loop",
                                  !["keeper"] = "ticking"]
              /\ UNCHANGED currentRetry
         ELSE /\ currentRetry' = 0
              /\ Go(t, "ended")
              /\ UNCHANGED shouldRun

connectFrame == <<qosVars, publishVars, handleVars, session, ghostVars>>

DoTcpConnect(t) ==
    /\ pc[t] = "tcp" /\ Free
    /\ toBroker' = <<>> /\ toClient' = <<>>
    /\ \/ /\ socket' = TRUE /\ broker' = "new"
          /\ Go(t, "connect")
          /\ UNCHANGED runVars
       \/ /\ socket' = FALSE /\ broker' = "gone"
          /\ ConnectFailed(t)
    /\ UNCHANGED <<connectFrame, holder>>

SendConnect(t) ==
    /\ pc[t] = "connect"
    /\ \/ Transmit(t, Packet("CONNECT", 0, 0)) /\ Go(t, "connack") /\ UNCHANGED runVars
       \/ CannotSend(t) /\ ConnectFailed(t)
    /\ UNCHANGED connectFrame

AwaitConnAck(t) ==
    /\ pc[t] = "connack"
    /\ StartReading(t)
    /\ UNCHANGED <<connectFrame, runVars, pc, linkVars>>

TakeConnAck(t) ==
    /\ pc[t] = "connack"
    /\ \/ /\ ReadPacket(t)
          /\ IF Head(toClient).type = "CONNACK" THEN Connected(t) ELSE ConnectFailed(t)
       \/ ReadFails(t) /\ ConnectFailed(t)
    /\ UNCHANGED connectFrame

-----------------------------------------------------------------------------
(***************************************************************************)
(* The owner.  connect() is called while neither thread is left from an    *)
(* earlier connection: assigning to a joinable std::thread would terminate *)
(* the program.                                                            *)
(***************************************************************************)

Connect ==
    /\ pc["owner"] = "idle" /\ pc["receiver"] = "off" /\ pc["keeper"] = "off"
    /\ state' = "CONNECTING"
    /\ Go("owner", "tcp")
    /\ UNCHANGED <<connectFrame, shouldRun, currentRetry, holder, linkVars>>

Disconnect ==
    /\ pc["owner"] = "idle"
    /\ pc["receiver"] # "off" \/ state = "ERROR_STATE"
    /\ shouldRun' = FALSE
    /\ Go("owner", "bye")
    /\ UNCHANGED <<connectFrame, state, currentRetry, holder, linkVars>>

SendDisconnect ==
    /\ pc["owner"] = "bye"
    /\ TrySend("owner", Packet("DISCONNECT", 0, 0))
    /\ Go("owner", "joining")
    /\ UNCHANGED <<connectFrame, runVars>>

\* The threads are joined, the socket is closed.
Disconnected ==
    /\ pc["owner"] = "joining"
    /\ pc["receiver"] \in {"off", "ended"} /\ pc["keeper"] \in {"off", "ended"}
    /\ Free
    /\ socket' = FALSE /\ broker' = "gone" /\ toBroker' = <<>> /\ toClient' = <<>>
    /\ state' = "DISCONNECTED"
    /\ pc' = [pc EXCEPT !["owner"] = "idle", !["receiver"] = "off", !["keeper"] = "off"]
    /\ UNCHANGED <<connectFrame, shouldRun, currentRetry, holder>>

-----------------------------------------------------------------------------
(***************************************************************************)
(* publish.                                                                *)
(***************************************************************************)

publishFrame == <<runVars, received, released, handleVars, session>>

\* fetch_add on a uint16_t.
After(n) == IF n = MaxPacketId THEN 0 ELSE n + 1

\* Mutation: 0 is not skipped.
AnyId == nextPacketId

\* The id getNextPacketId returns.
NextId == IF nextPacketId = 0 THEN After(nextPacketId) ELSE nextPacketId

\* An id that is not in outbox_ any more starts a new history.
BeginPublish(q) ==
    /\ pc["publisher"] = "idle"
    /\ state = "CONNECTED"
    /\ publishes < MaxPublishes /\ publishes' = publishes + 1
    /\ publishing' = Packet("PUBLISH", NextId, q)
    /\ nextPacketId' = After(NextId)
    /\ Go("publisher", "send")
    /\ reused' = reused \cup ({NextId} \cap outbox)
    /\ inserted' = inserted \ ({NextId} \ outbox)
    /\ acked' = acked \ ({NextId} \ outbox)
    /\ UNCHANGED <<publishFrame, outbox, holder, linkVars, notified, leaked>>

SendPublish ==
    /\ pc["publisher"] = "send"
    /\ \/ /\ Transmit("publisher", publishing)
          /\ Go("publisher", "insert") /\ UNCHANGED publishing
       \/ /\ CannotSend("publisher")
          /\ Go("publisher", "idle") /\ publishing' = None
    /\ UNCHANGED <<publishFrame, outbox, nextPacketId, publishes, ghostVars>>

InsertOutbox ==
    /\ pc["publisher"] = "insert"
    /\ outbox' = outbox \cup {publishing.id}
    /\ inserted' = inserted \cup {publishing.id}
    /\ leaked' = leaked \cup ({publishing.id} \cap acked)
    /\ Go("publisher", "idle") /\ publishing' = None
    /\ UNCHANGED <<publishFrame, nextPacketId, publishes, holder, linkVars, notified,
                   acked, reused>>

-----------------------------------------------------------------------------
(***************************************************************************)
(* receiveLoop.                                                            *)
(***************************************************************************)

receiveFrame == <<publishVars, session, inserted, leaked, reused>>

ReceiveLoop ==
    /\ pc["receiver"] = "loop"
    /\ Go("receiver", IF shouldRun THEN "read" ELSE "ended")
    /\ UNCHANGED <<receiveFrame, runVars, qosVars, handleVars, holder, linkVars,
                   notified, acked>>

Receive ==
    /\ pc["receiver"] = "read"
    /\ StartReading("receiver")
    /\ UNCHANGED <<receiveFrame, runVars, qosVars, handleVars, pc, linkVars,
                   notified, acked>>

Received ==
    /\ pc["receiver"] = "read"
    /\ ReadPacket("receiver")
    /\ packet' = Head(toClient)
    /\ Go("receiver", "handle")
    /\ UNCHANGED <<receiveFrame, runVars, qosVars, reply, notified, acked>>

\* A receive that fails: the connection is lost unless the client stops.
ConnectionLost ==
    /\ pc["receiver"] = "read"
    /\ ReadFails("receiver")
    /\ IF shouldRun
         THEN /\ state' = IF AutoReconnect THEN "RECONNECTING" ELSE "ERROR_STATE"
              /\ shouldRun' = AutoReconnect
              /\ Go("receiver", IF AutoReconnect THEN "retry" ELSE "ended")
         ELSE Go("receiver", "ended") /\ UNCHANGED <<state, shouldRun>>
    /\ UNCHANGED <<receiveFrame, currentRetry, qosVars, handleVars, notified, acked>>

\* Mutation: the loop that reconnects does not look at shouldRun_.
RetryAlways ==
    /\ pc["receiver"] = "retry"
    /\ IF MaxRetries < 0 \/ currentRetry < MaxRetries
         THEN Go("receiver", "tcp") /\ UNCHANGED shouldRun
         ELSE Go("receiver", "ended") /\ shouldRun' = FALSE
    /\ UNCHANGED <<receiveFrame, state, currentRetry, qosVars, handleVars, holder,
                   linkVars, notified, acked>>

\* The condition of the loop that reconnects, and what follows it.
Retry ==
    /\ pc["receiver"] = "retry"
    /\ IF shouldRun /\ (MaxRetries < 0 \/ currentRetry < MaxRetries)
         THEN Go("receiver", "tcp") /\ UNCHANGED shouldRun
         ELSE Go("receiver", "ended") /\ shouldRun' = FALSE
    /\ UNCHANGED <<receiveFrame, state, currentRetry, qosVars, handleVars, holder,
                   linkVars, notified, acked>>

-----------------------------------------------------------------------------
(***************************************************************************)
(* A packet is handled: the sets are changed, then the answer is sent,     *)
(* then the callback is called.                                            *)
(***************************************************************************)

Answer(p) == reply' = p /\ Go("receiver", "reply") /\ UNCHANGED packet

handleFrame == <<receiveFrame, runVars, holder, linkVars, notified>>

\* The next round of the loop; packet and reply go out of scope.
NextRound == Go("receiver", "loop") /\ packet' = None /\ reply' = None

HandlePublish ==
    /\ pc["receiver"] = "handle" /\ packet.type = "PUBLISH"
    /\ IF packet.qos = 2
         THEN received' = received \cup {packet.id}
              /\ Answer(Packet("PUBREC", packet.id, 0))
         ELSE Answer(Packet("PUBACK", packet.id, 0)) /\ UNCHANGED received
    /\ UNCHANGED <<handleFrame, outbox, released, acked>>

HandlePubAck ==
    /\ pc["receiver"] = "handle" /\ packet.type = "PUBACK"
    /\ outbox' = outbox \ {packet.id}
    /\ acked' = acked \cup {packet.id}
    /\ NextRound
    /\ UNCHANGED <<handleFrame, received, released>>

\* Mutation: a PUBREC takes the message out of outbox_ already.
HandlePubRecForgets ==
    /\ pc["receiver"] = "handle" /\ packet.type = "PUBREC"
    /\ released' = released \cup {packet.id}
    /\ outbox' = outbox \ {packet.id}
    /\ Answer(Packet("PUBREL", packet.id, 0))
    /\ UNCHANGED <<handleFrame, received, acked>>

HandlePubRec ==
    /\ pc["receiver"] = "handle" /\ packet.type = "PUBREC"
    /\ released' = released \cup {packet.id}
    /\ Answer(Packet("PUBREL", packet.id, 0))
    /\ UNCHANGED <<handleFrame, outbox, received, acked>>

HandlePubRel ==
    /\ pc["receiver"] = "handle" /\ packet.type = "PUBREL"
    /\ received' = received \ {packet.id}
    /\ Answer(Packet("PUBCOMP", packet.id, 0))
    /\ UNCHANGED <<handleFrame, outbox, released, acked>>

HandlePubComp ==
    /\ pc["receiver"] = "handle" /\ packet.type = "PUBCOMP"
    /\ released' = released \ {packet.id}
    /\ outbox' = outbox \ {packet.id}
    /\ acked' = acked \cup {packet.id}
    /\ NextRound
    /\ UNCHANGED <<handleFrame, received>>

\* PINGRESP, and what the switch leaves to its default.
HandleOther ==
    /\ pc["receiver"] = "handle" /\ packet.type \in {"PINGRESP", "CONNACK"}
    /\ NextRound
    /\ UNCHANGED <<handleFrame, qosVars, acked>>

\* Mutation: the loop is left once the client is to stop.
SendReplyStops ==
    /\ pc["receiver"] = "reply"
    /\ TrySend("receiver", reply)
    /\ IF packet.type = "PUBLISH" /\ shouldRun
         THEN Go("receiver", "notify") /\ reply' = None /\ UNCHANGED packet
         ELSE NextRound
    /\ UNCHANGED <<receiveFrame, runVars, qosVars, notified, acked>>

SendReply ==
    /\ pc["receiver"] = "reply"
    /\ TrySend("receiver", reply)
    /\ IF packet.type = "PUBLISH"
         THEN Go("receiver", "notify") /\ reply' = None /\ UNCHANGED packet
         ELSE NextRound
    /\ UNCHANGED <<receiveFrame, runVars, qosVars, notified, acked>>

NotifyMessage ==
    /\ pc["receiver"] = "notify"
    /\ notified' = notified \cup {packet.id}
    /\ NextRound
    /\ UNCHANGED <<receiveFrame, runVars, qosVars, holder, linkVars, acked>>

-----------------------------------------------------------------------------
(***************************************************************************)
(* keepAliveLoop.  A ping is only sent when the answer to the one before   *)
(* has come: its interval is far longer than the way to the broker.        *)
(***************************************************************************)

keepFrame == <<runVars, qosVars, publishVars, handleVars, session, ghostVars>>

Pinging ==
    \/ \E k \in DOMAIN toBroker : toBroker[k].type = "PING"
    \/ \E k \in DOMAIN toClient : toClient[k].type = "PINGRESP"

KeepAlive ==
    /\ pc["keeper"] = "ticking"
    /\ \/ ~ shouldRun /\ Go("keeper", "ended")
       \/ shouldRun /\ state = "CONNECTED" /\ ~ Pinging /\ Go("keeper", "ping")
    /\ UNCHANGED <<keepFrame, holder, linkVars>>

Ping ==
    /\ pc["keeper"] = "ping"
    /\ TrySend("keeper", Packet("PING", 0, 0))
    /\ Go("keeper", "ticking")
    /\ UNCHANGED keepFrame

-----------------------------------------------------------------------------
(***************************************************************************)
(* A broker (external).  It keeps how far it is with each message to the   *)
(* client and forgets that at a CONNECT, which always asks for a clean     *)
(* session.  It closes a connection whose first packet is not a CONNECT.   *)
(***************************************************************************)

brokerFrame == <<runVars, qosVars, publishVars, handleVars, pc, holder, socket, ghostVars>>

Gone == broker' = "gone" /\ toBroker' = <<>>

Unanswered(i) == session[i] \in {"sent1", "sent2", "rel"}

BrokerConnect ==
    /\ broker = "new" /\ toBroker # <<>> /\ Head(toBroker).type = "CONNECT"
    /\ \/ /\ broker' = "accepted" /\ toBroker' = Tail(toBroker)
          /\ session' = [i \in InboundIds |->
                            IF Unanswered(i) THEN "dropped" ELSE session[i]]
          /\ toClient' = Append(toClient, Packet("CONNACK", 0, 0))
       \/ /\ Gone
          /\ toClient' = Append(toClient, Packet("REFUSED", 0, 0))
          /\ UNCHANGED session
    /\ UNCHANGED brokerFrame

BrokerCloses ==
    /\ toBroker # <<>>
    /\ \/ broker = "new" /\ Head(toBroker).type # "CONNECT"
       \/ broker = "accepted" /\ Head(toBroker).type = "DISCONNECT"
    /\ Gone
    /\ UNCHANGED <<brokerFrame, toClient, session>>

BrokerAnswers(type, answer) ==
    /\ broker = "accepted" /\ toBroker # <<>> /\ Len(toClient) < Capacity
    /\ Head(toBroker).type = type
    /\ toBroker' = Tail(toBroker)
    /\ toClient' = Append(toClient, Packet(answer, Head(toBroker).id, 0))
    /\ UNCHANGED <<brokerFrame, broker>>

BrokerTakesPublish ==
    /\ BrokerAnswers("PUBLISH", IF Head(toBroker).qos = 1 THEN "PUBACK" ELSE "PUBREC")
    /\ UNCHANGED session
BrokerTakesPubRel == BrokerAnswers("PUBREL", "PUBCOMP") /\ UNCHANGED session
BrokerTakesPing == BrokerAnswers("PING", "PINGRESP") /\ UNCHANGED session

BrokerTakesPubRec ==
    /\ BrokerAnswers("PUBREC", "PUBREL")
    /\ session' = [session EXCEPT ![Head(toBroker).id] = IF @ = "sent2" THEN "rel" ELSE @]

BrokerTakesLast ==
    /\ broker = "accepted" /\ toBroker # <<>>
    /\ Head(toBroker).type \in {"PUBACK", "PUBCOMP"}
    /\ toBroker' = Tail(toBroker)
    /\ session' = [session EXCEPT ![Head(toBroker).id] =
                      IF @ \in {"sent1", "rel"} THEN "done" ELSE @]
    /\ UNCHANGED <<brokerFrame, broker, toClient>>

BrokerPublish(i, q) ==
    /\ broker = "accepted" /\ session[i] = "none" /\ Len(toClient) < Capacity
    /\ session' = [session EXCEPT ![i] = IF q = 1 THEN "sent1" ELSE "sent2"]
    /\ toClient' = Append(toClient, Packet("PUBLISH", i, q))
    /\ UNCHANGED <<brokerFrame, broker, toBroker>>

\* The connection breaks; what was under way to the client may be lost.
Break ==
    /\ broker # "gone"
    /\ Gone
    /\ toClient' \in {toClient, <<>>}
    /\ UNCHANGED <<brokerFrame, session>>

-----------------------------------------------------------------------------
Connecting(t) ==
    DoTcpConnect(t) \/ SendConnect(t) \/ AwaitConnAck(t) \/ TakeConnAck(t)

Owner == Connecting("owner") \/ SendDisconnect \/ Disconnected

Handle == HandlePublish \/ HandlePubAck \/ HandlePubRec \/ HandlePubRel
          \/ HandlePubComp \/ HandleOther

Receiver ==
    \/ ReceiveLoop \/ Receive \/ Received \/ ConnectionLost \/ Retry
    \/ Connecting("receiver") \/ Handle \/ SendReply \/ NotifyMessage

Broker ==
    \/ BrokerConnect \/ BrokerCloses \/ BrokerTakesPublish \/ BrokerTakesPubRel
    \/ BrokerTakesPing \/ BrokerTakesPubRec \/ BrokerTakesLast

Next ==
    \/ Owner \/ Receiver \/ Broker
    \/ Connect \/ Disconnect
    \/ \E q \in QoS : BeginPublish(q)
    \/ SendPublish \/ InsertOutbox
    \/ KeepAlive \/ Ping
    \/ \E i \in InboundIds, q \in QoS : BrokerPublish(i, q)
    \/ \E t \in Threads : NoRoom(t)
    \/ Break

Spec == Init /\ [][Next]_vars

\* Each thread goes on, and a thread that waits for socketMutex_ gets it if
\* it stays free; who gets a mutex that is taken again and again is left open.
\* A read ends at the latest by the receive timeout (connectTimeoutMs is
\* positive).  Nothing is assumed of the broker, the network or the users.
FairSpec ==
    /\ Spec
    /\ WF_vars(Receiver)
    /\ WF_vars(SendPublish) /\ WF_vars(InsertOutbox)
    /\ WF_vars(Owner) /\ WF_vars(KeepAlive \/ Ping)

-----------------------------------------------------------------------------
(***************************************************************************)
(* Properties.                                                             *)
(***************************************************************************)

Places == {"off", "idle", "tcp", "connect", "connack", "bye", "joining", "send",
           "insert", "loop", "read", "retry", "handle", "reply", "notify", "ended",
           "ticking", "ping"}
PacketTypes == {"NONE", "CONNECT", "CONNACK", "REFUSED", "DISCONNECT", "PUBLISH", "PUBACK",
                "PUBREC", "PUBREL", "PUBCOMP", "PING", "PINGRESP"}
Packets == [type : PacketTypes, id : 0 .. MaxPacketId \cup InboundIds, qos : 0 .. 2]

\* Types.
TypeOK ==
    /\ state \in {"DISCONNECTED", "CONNECTING", "CONNECTED", "RECONNECTING", "ERROR_STATE"}
    /\ shouldRun \in BOOLEAN /\ socket \in BOOLEAN
    /\ currentRetry \in Nat
    /\ outbox \subseteq PacketIds /\ released \subseteq PacketIds
    /\ received \subseteq InboundIds /\ notified \subseteq InboundIds
    /\ inserted \subseteq PacketIds /\ acked \subseteq PacketIds
    /\ leaked \subseteq PacketIds /\ reused \subseteq PacketIds
    /\ nextPacketId \in 0 .. MaxPacketId /\ publishes \in 0 .. MaxPublishes
    /\ pc \in [Threads -> Places]
    /\ holder \in Threads \cup {"none"}
    /\ packet \in Packets /\ reply \in Packets /\ publishing \in Packets
    /\ toBroker \in Seq(Packets) /\ toClient \in Seq(Packets)
    /\ broker \in {"gone", "new", "accepted"}
    /\ session \in [InboundIds -> {"none", "sent1", "sent2", "rel", "done", "dropped"}]

\* outbox_ holds exactly the messages whose last answer has not been handled,
\* across lost connections and the wrap of the packet ids, and those whose last
\* answer was handled before publish() put them in: those stay for good.  And a
\* handshake of quality 2 that is over has left nothing in qos2Received_ or
\* qos2Released_.  Nothing is said of an id that was given to a second message
\* while outbox_ still held the first: the code does not look.
StoresExact ==
    /\ outbox \ reused = ((inserted \ acked) \cup leaked) \ reused
    /\ released \cap acked \subseteq reused
    /\ \A i \in InboundIds : session[i] = "done" => i \notin received

\* A message the broker will not send again has been given to the callback,
\* or the receive thread is just about to: no answer is sent for a message
\* that is then dropped, not even while the client stops.
AnsweredReachCallback ==
    \A i \in InboundIds : session[i] \in {"rel", "done"} =>
        \/ i \in notified
        \/ pc["receiver"] = "notify" /\ packet.type = "PUBLISH" /\ packet.id = i

\* No one keeps the socket's mutex for good, although the receive thread waits
\* for the broker with it and sendPacket for room, provided a broker that does
\* not read reads on some time: a publish() that never returns could only be one
\* that finds the mutex taken again every time.
PublishReturns ==
    []<>Room /\ <>[](pc["publisher"] # "idle") => []<>Free /\ []<>(~ Free)

\* disconnect() returns, whatever the receive thread is doing: reading,
\* answering, reconnecting without a limit on the retries, provided the broker
\* does not for ever leave a sender without room.
DisconnectReturns ==
    []<>Room =>
        (pc["owner"] \in {"bye", "joining"} ~> pc["owner"] = "idle")
=============================================================================
