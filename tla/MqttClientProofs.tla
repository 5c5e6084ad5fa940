---------------------------- MODULE MqttClientProofs ----------------------------
(***************************************************************************)
(* What holds of MqttClient for any number of packet ids and of messages   *)
(* each way, any number of lost connections, any room on the connection,   *)
(* with or without reconnection and a limit on the retries.                *)
(*                                                                         *)
(* Every message has at most one packet under way: with the publisher, on  *)
(* the connection in either direction, or in the receive thread's hands as *)
(* the packet it handles or the one it answers with.  Which packet that is *)
(* tells what the stores of the handshake and the broker know (OutInv,     *)
(* InInv).  For the messages to the broker this is so as long as their id  *)
(* is not given out again while outbox_ has it (reused).                   *)
(***************************************************************************)
EXTENDS MqttClient, SetLemmas

-----------------------------------------------------------------------------
(***************************************************************************)
(* The packets each side sends.                                            *)
(***************************************************************************)

Messages == {"PUBLISH", "PUBREL"}
Answers == {"PUBACK", "PUBREC", "PUBCOMP"}

ToBroker ==
    {x \in Packets :
        /\ x.type \in {"CONNECT", "DISCONNECT", "PING"} \cup Messages \cup Answers
        /\ (x.type \in Messages => x.id \in PacketIds)
        /\ (x.type \in Answers => x.id \in InboundIds)}

ToClient ==
    {x \in Packets :
        /\ x.type \in {"CONNACK", "REFUSED", "PINGRESP"} \cup Messages \cup Answers
        /\ (x.type \in Messages => x.id \in InboundIds)
        /\ (x.type \in Answers => x.id \in PacketIds)
        /\ (x.type = "PUBLISH" => x.qos \in {1, 2})}

\* The packets of these types about one message.
Up(types, id) == {x \in ToBroker : x.type \in types /\ x.id = id}
Down(types, id) == {x \in ToClient : x.type \in types /\ x.id = id}
Published(q, id) == {x \in Down({"PUBLISH"}, id) : x.qos = q}

\* The receive thread has a packet of D to handle, or one of U to send.
Busy(U, D) ==
    \/ pc["receiver"] = "handle" /\ packet \in D
    \/ pc["receiver"] = "reply" /\ reply \in U

\* A packet of U is on its way to the broker, or one of D to the client.
Somewhere(U, D) == Has(toBroker, U) \/ Has(toClient, D) \/ Busy(U, D)

\* One such packet at most.
OneOf(U, D) ==
    /\ AtMostOne(toBroker, U) /\ AtMostOne(toClient, D)
    /\ Has(toBroker, U) => ~ Has(toClient, D) /\ ~ Busy(U, D)
    /\ Has(toClient, D) => ~ Busy(U, D)

-----------------------------------------------------------------------------
(***************************************************************************)
(* The invariant.                                                          *)
(***************************************************************************)

ControlTypes ==
    /\ state \in {"DISCONNECTED", "CONNECTING", "CONNECTED", "RECONNECTING", "ERROR_STATE"}
    /\ shouldRun \in BOOLEAN /\ socket \in BOOLEAN
    /\ currentRetry \in Nat
    /\ pc \in [Threads -> Places]
    /\ holder \in Threads \cup {"none"}

\* The places where the receive thread has no packet.
EmptyHanded == {"off", "tcp", "connect", "connack", "retry", "ended"}

\* The connection.  While the broker has not accepted it, it has sent nothing
\* and the receive thread has nothing to answer.
LinkInv ==
    /\ toBroker \in Seq(ToBroker) /\ toClient \in Seq(ToClient)
    /\ broker \in {"gone", "new", "accepted"}
    /\ broker = "gone" => toBroker = <<>>
    /\ broker = "new" => /\ toClient = <<>>
                         /\ pc["receiver"] \in EmptyHanded
                         /\ \A i \in InboundIds : ~ Has(toBroker, Up(Answers, i))
    /\ pc["owner"] \in {"tcp", "connect", "connack"} => pc["receiver"] = "off"

\* The packets in the threads' hands.
HandInv ==
    /\ packet \in Packets /\ reply \in Packets /\ publishing \in Packets
    /\ nextPacketId \in 0 .. MaxPacketId /\ publishes \in 0 .. MaxPublishes
    /\ pc["receiver"] \in {"handle", "reply", "notify"} => packet \in ToClient
    /\ pc["receiver"] = "notify" => packet.type = "PUBLISH"
    /\ pc["receiver"] = "reply" => /\ reply \in ToBroker
                                   /\ reply.type \in {"PUBREL", "PUBCOMP"} \cup Answers
    /\ pc["receiver"] = "reply" /\ reply.type \in {"PUBACK", "PUBREC"}
          => packet.type = "PUBLISH" /\ packet.id = reply.id
    /\ pc["publisher"] \in {"send", "insert"}
          => publishing \in ToBroker /\ publishing.type = "PUBLISH"

\* publish() is about to send message p, or to put it into outbox_.
Sending(p) == pc["publisher"] = "send" /\ publishing.id = p
Inserting(p) == pc["publisher"] = "insert" /\ publishing.id = p

InUse(p) == p \in outbox \/ Inserting(p)

\* What outbox_ holds of the ids.
Ledger(p) ==
    /\ p \in outbox <=> (p \in inserted /\ p \notin acked) \/ p \in leaked
    /\ p \in leaked => p \in acked

\* A message to the broker.
Outgoing(p) ==
    /\ OneOf(Up(Messages, p), Down(Answers, p))
    /\ Sending(p) => p \notin acked /\ ~ Somewhere(Up(Messages, p), Down(Answers, p))
    /\ Somewhere(Up(Messages, p), Down(Answers, p)) => p \notin acked /\ InUse(p)
    /\ Sending(p) \/ Somewhere(Up({"PUBLISH"}, p), Down({"PUBACK", "PUBREC"}, p))
          => p \notin released
    /\ p \in released => p \notin acked /\ InUse(p)

OutInv ==
    /\ outbox \subseteq PacketIds /\ released \subseteq PacketIds
    /\ inserted \subseteq PacketIds /\ acked \subseteq PacketIds
    /\ leaked \subseteq PacketIds /\ reused \subseteq PacketIds
    /\ \A p \in PacketIds \ reused : Ledger(p) /\ Outgoing(p)

\* Message i has been given to the callback, or is just about to be.
Told(i) == i \in notified \/ (pc["receiver"] = "notify" /\ packet.id = i)

\* A message from the broker.
Incoming(i) ==
    /\ OneOf(Up(Answers, i), Down(Messages, i))
    /\ Somewhere(Up({"PUBACK"}, i), Published(1, i)) => session[i] = "sent1"
    /\ Somewhere(Up({"PUBREC"}, i), Published(2, i)) => session[i] = "sent2"
    /\ Somewhere(Up({"PUBCOMP"}, i), Down({"PUBREL"}, i)) => session[i] = "rel"
    /\ i \in received => session[i] \in {"sent2", "rel", "dropped"}
    /\ Somewhere(Up({"PUBCOMP"}, i), {}) => i \notin received
    /\ Has(toBroker, Up({"PUBACK", "PUBREC"}, i)) \/ session[i] \in {"rel", "done"}
          => Told(i)

InInv ==
    /\ received \subseteq InboundIds /\ notified \subseteq InboundIds
    /\ session \in [InboundIds -> {"none", "sent1", "sent2", "rel", "done", "dropped"}]
    /\ \A i \in InboundIds : Incoming(i)

Inv == ControlTypes /\ LinkInv /\ HandInv /\ OutInv /\ InInv

LEMMA InvImplies ==
    ASSUME Inv PROVE TypeOK /\ StoresExact /\ AnsweredReachCallback
<1>1. TypeOK
    BY DEF Inv, ControlTypes, LinkInv, HandInv, OutInv, InInv, TypeOK, ToBroker, ToClient
<1>2. StoresExact
    <2>1. outbox \ reused = ((inserted \ acked) \cup leaked) \ reused
        <3>1. ASSUME NEW p, p \notin reused
              PROVE  p \in outbox <=> p \in (inserted \ acked) \cup leaked
            <4>1. CASE p \in PacketIds
                BY <3>1, <4>1 DEF Inv, OutInv, Ledger
            <4>2. CASE p \notin PacketIds
                BY <4>2 DEF Inv, OutInv
            <4> QED BY <4>1, <4>2
        <3> QED BY <3>1
    <2>2. released \cap acked \subseteq reused
        BY DEF Inv, OutInv, Outgoing
    <2> QED BY <2>1, <2>2 DEF Inv, InInv, Incoming, StoresExact
<1>3. AnsweredReachCallback
    BY DEF Inv, InInv, Incoming, Told, HandInv, AnsweredReachCallback
<1> QED BY <1>1, <1>2, <1>3

-----------------------------------------------------------------------------
(***************************************************************************)
(* How a step moves packets.                                               *)
(***************************************************************************)

Conversation(U, D) ==
    /\ U \subseteq ToBroker /\ D \subseteq ToClient
    /\ \A x \in U \cup D : x.type \in Messages \cup Answers

\* No packet of U and D is added; only the receive thread's answer reaches
\* the connection.
Flows(U, D) ==
    /\ OneOf(U, D) => OneOf(U, D)'
    /\ Somewhere(U, D)' => Somewhere(U, D)
    /\ pc["receiver"] # "reply" \/ pc'["receiver"] = "reply"
          => (Has(toBroker', U) => Has(toBroker, U))

LEMMA Conversations ==
    /\ \A types \in SUBSET (Messages \cup Answers) : \A id :
          Conversation(Up(types, id), {}) /\ Conversation({}, Down(types, id))
    /\ \A types, others \in SUBSET (Messages \cup Answers) : \A id :
          Conversation(Up(types, id), Down(others, id))
    /\ \A types \in SUBSET (Messages \cup Answers) : \A q, id :
          Conversation(Up(types, id), Published(q, id))
BY DEF Conversation, Up, Down, Published, Messages, Answers

\* It is enough that neither side of the connection has more of them and that
\* the receive thread has not either.
LEMMA Fewer ==
    ASSUME NEW U, NEW D,
           AtMostOne(toBroker, U) => AtMostOne(toBroker', U),
           AtMostOne(toClient, D) => AtMostOne(toClient', D),
           Has(toBroker', U) => Has(toBroker, U),
           Has(toClient', D) => Has(toClient, D),
           Busy(U, D)' => Busy(U, D)
    PROVE  Flows(U, D)
BY DEF Flows, OneOf, Somewhere

\* What a step does to the receive thread's hands.
Calm ==
    \/ pc'["receiver"] \notin {"handle", "reply"}
    \/ pc'["receiver"] = pc["receiver"] /\ UNCHANGED <<packet, reply>>

LEMMA CalmBusy == ASSUME Calm, NEW U, NEW D, Busy(U, D)' PROVE Busy(U, D)
BY DEF Calm, Busy

LEMMA FlowKept ==
    ASSUME Calm, UNCHANGED <<toBroker, toClient>>, NEW U, NEW D PROVE Flows(U, D)
BY CalmBusy, Fewer

\* A packet that is not of U is sent.
LEMMA FlowSent ==
    ASSUME LinkInv, Calm, NEW U, NEW D, NEW x \in ToBroker, x \notin U,
           toBroker' \in {toBroker, Append(toBroker, x)}, toClient' = toClient
    PROVE  Flows(U, D)
<1>1. /\ Has(Append(toBroker, x), U) <=> Has(toBroker, U) \/ x \in U
      /\ AtMostOne(toBroker, U) /\ (x \notin U \/ ~ Has(toBroker, U))
            => AtMostOne(Append(toBroker, x), U)
    <2>1. toBroker \in Seq(ToBroker)
        BY DEF LinkInv
    <2> QED BY <2>1, HasAppended, Zenon
<1> QED BY <1>1, CalmBusy, Fewer

\* The connection is closed or made anew.
LEMMA FlowReset ==
    ASSUME Calm, NEW U, NEW D, toBroker' = <<>>, toClient' \in {toClient, <<>>}
    PROVE  Flows(U, D)
BY CalmBusy, Fewer, HasNothing

LEMMA FlowTaken ==
    ASSUME LinkInv, Calm, NEW U, NEW D, toClient # <<>>, toClient' = Tail(toClient),
           toBroker' = toBroker
    PROVE  Flows(U, D)
BY CalmBusy, Fewer, HasRest DEF LinkInv

LEMMA FlowLast ==
    ASSUME LinkInv, Calm, NEW U, NEW D, toBroker # <<>>, toBroker' = Tail(toBroker),
           toClient' = toClient
    PROVE  Flows(U, D)
BY CalmBusy, Fewer, HasRest DEF LinkInv

\* The receive thread has a packet it did not have.
LEMMA FlowReceived ==
    ASSUME LinkInv, NEW U, NEW D, pc["receiver"] = "read", pc'["receiver"] = "handle",
           toClient # <<>>, packet' = Head(toClient), toClient' = Tail(toClient),
           toBroker' = toBroker
    PROVE  Flows(U, D)
<1>1. /\ Head(toClient) \in D => Has(toClient, D)
      /\ Has(toClient', D) => Has(toClient, D)
      /\ AtMostOne(toClient, D) => AtMostOne(toClient', D)
      /\ AtMostOne(toClient, D) /\ Head(toClient) \in D => ~ Has(toClient', D)
    BY HasRest DEF LinkInv
<1>2. Busy(U, D)' <=> Head(toClient) \in D
    BY DEF Busy
<1>3. ~ Busy(U, D)
    BY DEF Busy
<1> QED BY <1>1, <1>2, <1>3 DEF Flows, OneOf, Somewhere

\* The receive thread answers with a packet of U only what is of D.
LEMMA FlowAnswered ==
    ASSUME NEW U, NEW D, pc["receiver"] = "handle", pc'["receiver"] = "reply",
           reply' \in U => packet \in D, UNCHANGED <<toBroker, toClient>>
    PROVE  Flows(U, D)
BY Fewer DEF Busy

LEMMA FlowReplied ==
    ASSUME LinkInv, HandInv, NEW U, NEW D, pc["receiver"] = "reply",
           pc'["receiver"] \notin {"handle", "reply"},
           toBroker' \in {toBroker, Append(toBroker, reply)}, toClient' = toClient
    PROVE  Flows(U, D)
<1>0. /\ Has(Append(toBroker, reply), U) <=> Has(toBroker, U) \/ reply \in U
      /\ AtMostOne(toBroker, U) /\ (reply \notin U \/ ~ Has(toBroker, U))
            => AtMostOne(Append(toBroker, reply), U)
    <2>1. toBroker \in Seq(ToBroker) /\ reply \in ToBroker
        BY DEF LinkInv, HandInv
    <2> QED BY <2>1, HasAppended, Zenon
<1>1. /\ Has(toBroker', U) => Has(toBroker, U) \/ reply \in U
      /\ AtMostOne(toBroker, U) /\ (reply \notin U \/ ~ Has(toBroker, U))
            => AtMostOne(toBroker', U)
    BY <1>0
<1>2. reply \in U <=> Busy(U, D)
    BY DEF Busy
<1>3. ~ Busy(U, D)'
    BY DEF Busy
<1> QED BY <1>1, <1>2, <1>3 DEF Flows, OneOf, Somewhere

\* The broker answers with a packet of D only what is of U.
LEMMA FlowBroker ==
    ASSUME LinkInv, NEW U, NEW D, NEW y \in ToClient, toBroker # <<>>,
           y \in D => Head(toBroker) \in U,
           toBroker' = Tail(toBroker), toClient' = Append(toClient, y), Calm
    PROVE  Flows(U, D)
<1>1. /\ Head(toBroker) \in U => Has(toBroker, U)
      /\ Has(toBroker', U) => Has(toBroker, U)
      /\ AtMostOne(toBroker, U) => AtMostOne(toBroker', U)
      /\ AtMostOne(toBroker, U) /\ Head(toBroker) \in U => ~ Has(toBroker', U)
    BY HasRest DEF LinkInv
<1>2. /\ Has(toClient', D) <=> Has(toClient, D) \/ y \in D
      /\ AtMostOne(toClient, D) /\ (y \notin D \/ ~ Has(toClient, D))
            => AtMostOne(toClient', D)
    BY HasAppended DEF LinkInv
<1>3. Busy(U, D)' => Busy(U, D)
    BY CalmBusy
<1> QED BY <1>1, <1>2, <1>3 DEF Flows, OneOf, Somewhere

-----------------------------------------------------------------------------
(***************************************************************************)
(* Steps that leave the stores and the hands alone.                        *)
(***************************************************************************)

OutFlows(p) ==
    /\ Flows(Up(Messages, p), Down(Answers, p))
    /\ Flows(Up({"PUBLISH"}, p), Down({"PUBACK", "PUBREC"}, p))

InFlows(i) ==
    /\ Flows(Up(Answers, i), Down(Messages, i))
    /\ Flows(Up({"PUBACK"}, i), Published(1, i))
    /\ Flows(Up({"PUBREC"}, i), Published(2, i))
    /\ Flows(Up({"PUBCOMP"}, i), Down({"PUBREL"}, i))

LEMMA AllFlow ==
    ASSUME \A U, D : Conversation(U, D) => Flows(U, D)
    PROVE  /\ \A p : OutFlows(p) /\ InFlows(p)
           /\ \A i : Flows(Up({"PUBCOMP"}, i), {}) /\ Flows(Up({"PUBACK", "PUBREC"}, i), {})
<1>1. /\ {"PUBLISH"} \in SUBSET (Messages \cup Answers)
      /\ {"PUBREL"} \in SUBSET (Messages \cup Answers)
      /\ {"PUBACK"} \in SUBSET (Messages \cup Answers)
      /\ {"PUBREC"} \in SUBSET (Messages \cup Answers)
      /\ {"PUBCOMP"} \in SUBSET (Messages \cup Answers)
      /\ {"PUBACK", "PUBREC"} \in SUBSET (Messages \cup Answers)
      /\ Messages \in SUBSET (Messages \cup Answers)
      /\ Answers \in SUBSET (Messages \cup Answers)
    BY DEF Messages, Answers
<1>2. ASSUME NEW p PROVE OutFlows(p)
    BY <1>1, Conversations DEF OutFlows
<1>3. ASSUME NEW p PROVE InFlows(p)
    BY <1>1, Conversations DEF InFlows
<1>4. ASSUME NEW i
      PROVE  Flows(Up({"PUBCOMP"}, i), {}) /\ Flows(Up({"PUBACK", "PUBREC"}, i), {})
    BY <1>1, Conversations
<1> QED BY <1>2, <1>3, <1>4

LEMMA OutKept ==
    ASSUME OutInv, UNCHANGED <<outbox, released, inserted, acked, leaked, reused>>,
           \A p \in PacketIds : /\ OutFlows(p)
                                /\ Sending(p)' => Sending(p)
                                /\ Inserting(p) => Inserting(p)'
    PROVE  OutInv'
<1>1. ASSUME NEW p \in PacketIds \ reused PROVE Ledger(p)' /\ Outgoing(p)'
    <2>1. /\ Ledger(p) /\ Outgoing(p) /\ OutFlows(p)
          /\ Sending(p)' => Sending(p)
          /\ InUse(p) => InUse(p)'
        BY <1>1 DEF OutInv, InUse
    <2> QED BY <2>1 DEF Ledger, Outgoing, OutFlows, Flows
<1> QED BY <1>1 DEF OutInv

LEMMA InKept ==
    ASSUME InInv, UNCHANGED <<received, notified, session>>,
           \A i \in InboundIds :
              /\ InFlows(i)
              /\ Flows(Up({"PUBCOMP"}, i), {})
              /\ Flows(Up({"PUBACK", "PUBREC"}, i), {}) \/ UNCHANGED toBroker
              /\ Told(i) => Told(i)',
           \/ pc["receiver"] # "reply" \/ pc'["receiver"] = "reply"
    PROVE  InInv'
<1>1. ASSUME NEW i \in InboundIds PROVE Incoming(i)'
    <2>1. /\ Incoming(i) /\ InFlows(i)
          /\ Flows(Up({"PUBCOMP"}, i), {})
          /\ Flows(Up({"PUBACK", "PUBREC"}, i), {}) \/ UNCHANGED toBroker
          /\ Told(i) => Told(i)'
        BY <1>1 DEF InInv
    <2> QED BY <2>1 DEF Incoming, InFlows, Flows
<1> QED BY <1>1 DEF InInv

WithPacket == {"handle", "reply", "notify"}

\* What such a step may do to the threads.
Onward ==
    /\ pc' \in [Threads -> Places]
    /\ pc'["publisher"] = pc["publisher"]
    /\ \/ pc'["receiver"] = pc["receiver"]
       \/ pc["receiver"] \notin WithPacket /\ pc'["receiver"] \notin WithPacket
    /\ pc'["owner"] \in {"tcp", "connect", "connack"} => pc'["receiver"] = "off"

LEMMA OnwardStep ==
    ASSUME Inv, Onward, ControlTypes',
           UNCHANGED <<qosVars, publishVars, handleVars, session, ghostVars>>,
           toBroker' \in Seq(ToBroker), toClient' \in Seq(ToClient),
           broker' \in {"gone", "new", "accepted"},
           broker' = "gone" => toBroker' = <<>>,
           broker' = "new" =>
              /\ toClient' = <<>>
              /\ toBroker' = <<>> \/ broker = "new"
              /\ pc'["receiver"] \in EmptyHanded,
           \A U, D : Conversation(U, D) => Flows(U, D)
    PROVE  Inv'
<1>1. /\ pc["receiver"] \in {"handle", "reply", "notify"} => pc'["receiver"] = pc["receiver"]
      /\ pc'["receiver"] \in {"handle", "reply", "notify"} => pc'["receiver"] = pc["receiver"]
    BY DEF Onward, WithPacket
<1>2. HandInv'
    BY <1>1 DEF Inv, HandInv, Onward, publishVars, handleVars
<1>3. \A i \in InboundIds : Flows(Up(Answers, i), {})
    <2>1. \A i : Conversation(Up(Answers, i), {})
        BY Conversations DEF Messages, Answers
    <2> QED BY <2>1
<1>4. broker' = "new" => \A i \in InboundIds : ~ Has(toBroker', Up(Answers, i))
    <2> SUFFICES ASSUME broker' = "new", NEW i \in InboundIds
                 PROVE  ~ Has(toBroker', Up(Answers, i))
        OBVIOUS
    <2>1. CASE toBroker' = <<>>
        BY <2>1, HasNothing
    <2>2. CASE broker = "new"
        <3>1. pc["receiver"] # "reply" /\ ~ Has(toBroker, Up(Answers, i))
            BY <2>2 DEF Inv, LinkInv, EmptyHanded
        <3> QED BY <3>1, <1>3 DEF Flows
    <2> QED BY <2>1, <2>2
<1>5. pc'["owner"] \in {"tcp", "connect", "connack"} => pc'["receiver"] = "off"
    BY DEF Inv, LinkInv, Onward
<1>6. LinkInv'
    BY <1>4, <1>5 DEF LinkInv
<1>7. OutInv'
    <2>1. \A p \in PacketIds : /\ OutFlows(p)
                               /\ Sending(p)' => Sending(p)
                               /\ Inserting(p) => Inserting(p)'
        BY AllFlow DEF Sending, Inserting, Onward, publishVars
    <2> QED BY <2>1, OutKept DEF Inv, qosVars, ghostVars
<1>8. InInv'
    <2>1. \A i : Told(i) => Told(i)'
        BY <1>1 DEF Told, ghostVars, handleVars
    <2> QED BY <2>1, <1>1, AllFlow, InKept DEF Inv, qosVars, ghostVars
<1> QED BY <1>2, <1>6, <1>7, <1>8 DEF Inv

\* Go and EXCEPT change one thread's place.
LEMMA GoTyped ==
    ASSUME pc \in [Threads -> Places], NEW t \in Threads, NEW place \in Places, Go(t, place)
    PROVE  /\ pc' \in [Threads -> Places]
           /\ pc'[t] = place
           /\ \A u \in Threads \ {t} : pc'[u] = pc[u]
BY DEF Go

\* A step that leaves the connection alone.
LEMMA AsideStep ==
    ASSUME Inv, Onward, ControlTypes',
           UNCHANGED <<qosVars, publishVars, handleVars, session, ghostVars>>,
           UNCHANGED <<broker, toBroker, toClient>>,
           pc["receiver"] \in EmptyHanded => pc'["receiver"] \in EmptyHanded
    PROVE  Inv'
<1>1. Calm
    BY DEF Calm, Onward, WithPacket, handleVars
<1>2. \A U, D : Flows(U, D)
    BY <1>1, FlowKept
<1>3. /\ broker \in {"gone", "new", "accepted"}
      /\ toBroker \in Seq(ToBroker) /\ toClient \in Seq(ToClient)
      /\ broker = "gone" => toBroker = <<>>
      /\ broker = "new" => toClient = <<>> /\ pc["receiver"] \in EmptyHanded
    BY DEF Inv, LinkInv
<1> QED BY <1>2, <1>3, OnwardStep

LEMMA OwnerAsks ==
    ASSUME Inv, Connect \/ Disconnect PROVE Inv'
<1> USE DEF Threads, Places
<1>1. \E place \in {"tcp", "bye"} :
         /\ Go("owner", place)
         /\ place = "tcp" => pc["receiver"] = "off"
    BY DEF Connect, Disconnect
<1>2. /\ pc' \in [Threads -> Places]
      /\ \A u \in Threads \ {"owner"} : pc'[u] = pc[u]
      /\ pc'["owner"] \in {"tcp", "bye"}
      /\ pc'["owner"] = "tcp" => pc["receiver"] = "off"
    BY <1>1, GoTyped DEF Inv, ControlTypes
<1>3. Onward
    BY <1>2 DEF Onward
<1>4. ControlTypes'
    <2>1. CASE Connect
        BY <1>2, <2>1 DEF Inv, ControlTypes, Connect, linkVars
    <2>2. CASE Disconnect
        BY <1>2, <2>2 DEF Inv, ControlTypes, Disconnect, linkVars
    <2> QED BY <2>1, <2>2
<1>5. UNCHANGED <<qosVars, publishVars, handleVars, session, ghostVars, broker, toBroker, toClient>>
    BY DEF Connect, Disconnect, connectFrame, linkVars
<1> QED BY <1>2, <1>3, <1>4, <1>5, AsideStep

LEMMA ReceiverGoesOn ==
    ASSUME Inv, ReceiveLoop \/ Receive \/ ConnectionLost \/ Retry PROVE Inv'
<1> USE DEF Threads, Places
<1>1. \/ UNCHANGED pc
      \/ \E place \in {"read", "ended", "retry", "tcp"} :
            /\ Go("receiver", place)
            /\ \/ pc["receiver"] \in {"loop", "read"}
               \/ (pc["receiver"] = "retry" /\ place # "read")
    <2>1. CASE ReceiveLoop
        BY <2>1 DEF ReceiveLoop
    <2>2. CASE Receive
        BY <2>2 DEF Receive
    <2>3. CASE ConnectionLost
        BY <2>3 DEF ConnectionLost
    <2>4. CASE Retry
        BY <2>4 DEF Retry
    <2> QED BY <2>1, <2>2, <2>3, <2>4
<1>2. /\ pc' \in [Threads -> Places]
      /\ \A u \in Threads \ {"receiver"} : pc'[u] = pc[u]
      /\ \/ pc'["receiver"] = pc["receiver"]
         \/ pc["receiver"] \in {"loop", "read"}
               /\ pc'["receiver"] \in {"read", "ended", "retry", "tcp"}
         \/ pc["receiver"] = "retry" /\ pc'["receiver"] \in {"ended", "retry", "tcp"}
    BY <1>1, GoTyped DEF Inv, ControlTypes
<1>3. Onward
    BY <1>2 DEF Onward, Inv, LinkInv, WithPacket
<1>4. /\ state' \in {state, "RECONNECTING", "ERROR_STATE"} /\ shouldRun' \in BOOLEAN
      /\ holder' \in {holder, "receiver", "none"}
      /\ UNCHANGED <<socket, currentRetry>>
    <2>1. CASE ReceiveLoop
        BY <2>1 DEF Inv, ControlTypes, ReceiveLoop, receiveFrame, runVars, linkVars
    <2>2. CASE Receive
        BY <2>2 DEF Inv, ControlTypes, Receive, StartReading, receiveFrame, runVars, linkVars
    <2>3. CASE ConnectionLost
        <3>1. /\ state' \in {state, "RECONNECTING", "ERROR_STATE"}
              /\ shouldRun' = AutoReconnect \/ shouldRun' = shouldRun
            BY <2>3 DEF ConnectionLost
        <3>2. /\ holder' = "none"
              /\ UNCHANGED <<socket, currentRetry>>
            BY <2>3 DEF ConnectionLost, ReadFails, receiveFrame, linkVars
        <3> QED BY <3>1, <3>2, MqttClientAssumption DEF Inv, ControlTypes
    <2>4. CASE Retry
        BY <2>4 DEF Inv, ControlTypes, Retry, receiveFrame, linkVars
    <2> QED BY <2>1, <2>2, <2>3, <2>4
<1>5. ControlTypes'
    BY <1>2, <1>4 DEF Inv, ControlTypes
<1>6. UNCHANGED <<qosVars, publishVars, handleVars, session, ghostVars, broker, toBroker, toClient>>
    BY DEF ReceiveLoop, Receive, ConnectionLost, Retry, receiveFrame, linkVars, ghostVars,
           ReadFails
<1>7. pc["receiver"] \in EmptyHanded => pc'["receiver"] \in EmptyHanded
    BY <1>2 DEF EmptyHanded
<1> QED BY <1>3, <1>5, <1>6, <1>7, AsideStep

LEMMA KeeperTicks == ASSUME Inv, KeepAlive PROVE Inv'
<1> USE DEF Threads, Places
<1>1. \E place \in {"ended", "ping"} : Go("keeper", place)
    BY DEF KeepAlive
<1>2. /\ pc' \in [Threads -> Places]
      /\ \A u \in Threads \ {"keeper"} : pc'[u] = pc[u]
    BY <1>1, GoTyped DEF Inv, ControlTypes
<1>3. Onward
    BY <1>2 DEF Onward, Inv, LinkInv
<1>4. ControlTypes'
    BY <1>2 DEF Inv, ControlTypes, KeepAlive, keepFrame, runVars, linkVars
<1>5. UNCHANGED <<qosVars, publishVars, handleVars, session, ghostVars, broker, toBroker, toClient>>
    BY DEF KeepAlive, keepFrame, linkVars
<1> QED BY <1>2, <1>3, <1>4, <1>5, AsideStep

\* A thread waits for room on the connection.
LEMMA RoomAwaited == ASSUME Inv, NEW t \in Threads, NoRoom(t) PROVE Inv'
<1>1. /\ holder' = t /\ pc' = pc
      /\ UNCHANGED <<runVars, qosVars, publishVars, handleVars, linkVars, session, ghostVars>>
    BY DEF NoRoom
<1>2. Onward
    BY <1>1 DEF Onward, Inv, ControlTypes, LinkInv
<1>3. ControlTypes'
    BY <1>1 DEF Inv, ControlTypes, runVars, linkVars
<1> QED BY <1>1, <1>2, <1>3, AsideStep DEF linkVars

\* The packets that belong to no message.
LEMMA Plain ==
    /\ \A type \in {"CONNECT", "DISCONNECT", "PING"} :
          Packet(type, 0, 0) \in ToBroker /\ Packet(type, 0, 0).type = type
    /\ \A type \in {"CONNACK", "REFUSED", "PINGRESP"} :
          Packet(type, 0, 0) \in ToClient /\ Packet(type, 0, 0).type = type
<1>1. 0 \in 0 .. MaxPacketId
    BY MqttClientAssumption
<1>2. ASSUME NEW type \in {"CONNECT", "DISCONNECT", "PING"}
      PROVE  Packet(type, 0, 0) \in ToBroker
    BY <1>1 DEF Packet, ToBroker, Packets, PacketTypes, Messages, Answers
<1>3. ASSUME NEW type \in {"CONNACK", "REFUSED", "PINGRESP"}
      PROVE  Packet(type, 0, 0) \in ToClient
    BY <1>1 DEF Packet, ToClient, Packets, PacketTypes, Messages, Answers
<1> QED BY <1>2, <1>3 DEF Packet

LEMMA Sends ==
    ASSUME NEW t, NEW p, TrySend(t, p) \/ Transmit(t, p) \/ CannotSend(t)
    PROVE  /\ toBroker' \in {toBroker, Append(toBroker, p)}
           /\ UNCHANGED <<socket, broker, toClient>>
           /\ broker = "gone" => toBroker' = toBroker
           /\ holder' = "none"
<1>1. CASE Transmit(t, p)
    BY <1>1 DEF Transmit
<1>2. CASE CannotSend(t)
    BY <1>2 DEF CannotSend, linkVars
<1> QED BY <1>1, <1>2 DEF TrySend

\* A step that sends a packet of its own.
LEMMA PlainSendStep ==
    ASSUME Inv, Onward, ControlTypes', NEW t, NEW type \in {"CONNECT", "DISCONNECT", "PING"},
           UNCHANGED <<qosVars, publishVars, handleVars, session, ghostVars>>,
           \/ TrySend(t, Packet(type, 0, 0)) \/ Transmit(t, Packet(type, 0, 0))
           \/ CannotSend(t),
           pc["receiver"] \in EmptyHanded => pc'["receiver"] \in EmptyHanded
    PROVE  Inv'
<1> DEFINE x == Packet(type, 0, 0)
<1>1. x \in ToBroker /\ x.type = type
    BY Plain
<1>2. /\ toBroker' \in {toBroker, Append(toBroker, x)}
      /\ UNCHANGED <<socket, broker, toClient>>
      /\ broker = "gone" => toBroker' = toBroker
    BY Sends
<1> HIDE DEF x
<1>3. Calm
    BY DEF Calm, Onward, WithPacket, handleVars
<1>4. \A U, D : Conversation(U, D) => Flows(U, D)
    <2> SUFFICES ASSUME NEW U, NEW D, Conversation(U, D) PROVE Flows(U, D)
        OBVIOUS
    <2>1. x \notin U
        BY <1>1 DEF Conversation, Messages, Answers
    <2> QED BY <1>1, <1>2, <1>3, <2>1, FlowSent DEF Inv
<1>5. /\ broker \in {"gone", "new", "accepted"}
      /\ toBroker \in Seq(ToBroker) /\ toClient \in Seq(ToClient)
      /\ broker = "gone" => toBroker = <<>>
      /\ broker = "new" => toClient = <<>> /\ pc["receiver"] \in EmptyHanded
    BY DEF Inv, LinkInv
<1>6. toBroker' \in Seq(ToBroker)
    BY <1>1, <1>2, <1>5
<1> QED BY <1>2, <1>4, <1>5, <1>6, OnwardStep

LEMMA KeeperPings == ASSUME Inv, Ping PROVE Inv'
<1> USE DEF Threads, Places
<1>1. Go("keeper", "ticking")
    BY DEF Ping
<1>2. /\ pc' \in [Threads -> Places]
      /\ \A u \in Threads \ {"keeper"} : pc'[u] = pc[u]
    BY <1>1, GoTyped DEF Inv, ControlTypes
<1>3. Onward
    BY <1>2 DEF Onward, Inv, LinkInv
<1>4. TrySend("keeper", Packet("PING", 0, 0)) /\ UNCHANGED socket /\ holder' = "none"
    BY Sends DEF Ping
<1>5. ControlTypes'
    BY <1>2, <1>4 DEF Inv, ControlTypes, Ping, keepFrame, runVars
<1>6. UNCHANGED <<qosVars, publishVars, handleVars, session, ghostVars>>
    BY DEF Ping, keepFrame
<1> QED BY <1>2, <1>3, <1>4, <1>5, <1>6, PlainSendStep

LEMMA OwnerSendsDisconnect == ASSUME Inv, SendDisconnect PROVE Inv'
<1> USE DEF Threads, Places
<1>1. Go("owner", "joining")
    BY DEF SendDisconnect
<1>2. /\ pc' \in [Threads -> Places] /\ pc'["owner"] = "joining"
      /\ \A u \in Threads \ {"owner"} : pc'[u] = pc[u]
    BY <1>1, GoTyped DEF Inv, ControlTypes
<1>3. Onward
    BY <1>2 DEF Onward
<1>4. TrySend("owner", Packet("DISCONNECT", 0, 0)) /\ UNCHANGED socket /\ holder' = "none"
    BY Sends DEF SendDisconnect
<1>5. ControlTypes'
    BY <1>2, <1>4 DEF Inv, ControlTypes, SendDisconnect, connectFrame, runVars
<1>6. UNCHANGED <<qosVars, publishVars, handleVars, session, ghostVars>>
    BY DEF SendDisconnect, connectFrame
<1> QED BY <1>2, <1>3, <1>4, <1>5, <1>6, PlainSendStep

-----------------------------------------------------------------------------
(***************************************************************************)
(* Connecting, by either thread.                                           *)
(***************************************************************************)

\* What a connection that fails or is made does to the threads.
LEMMA ConnectingThreads ==
    ASSUME Inv, NEW t \in {"owner", "receiver"}, pc[t] \in {"tcp", "connect", "connack"},
           ConnectFailed(t) \/ Connected(t)
           \/ (\E place \in {"connect", "connack"} : Go(t, place) /\ UNCHANGED runVars)
    PROVE  /\ Onward
           /\ state' \in {state, "ERROR_STATE", "CONNECTED"}
           /\ shouldRun' \in BOOLEAN /\ currentRetry' \in Nat
           /\ ~ Connected(t) => pc'["receiver"] \in EmptyHanded
<1> USE DEF Threads, Places
<1>1. /\ pc \in [Threads -> Places] /\ currentRetry \in Nat /\ shouldRun \in BOOLEAN
      /\ pc["receiver"] \in {"off", "tcp", "connect", "connack"}
      /\ t = "receiver" => pc["owner"] \notin {"tcp", "connect", "connack"}
    BY DEF Inv, ControlTypes, LinkInv
<1>2. CASE Connected(t)
    <2>1. CASE t = "owner"
        BY <1>1, <1>2, <2>1 DEF Connected, Onward, WithPacket
    <2>2. CASE t = "receiver"
        <3>1. Go("receiver", "ended")
            BY <1>2, <2>2 DEF Connected
        <3>2. /\ pc' \in [Threads -> Places] /\ pc'["receiver"] = "ended"
              /\ \A u \in Threads \ {"receiver"} : pc'[u] = pc[u]
            BY <1>1, <3>1, GoTyped
        <3> QED BY <1>1, <1>2, <2>2, <3>2 DEF Connected, Onward, WithPacket
    <2> QED BY <2>1, <2>2, <1>2
<1>3. CASE ConnectFailed(t)
    <2>1. PICK place \in {"idle", "retry"} :
             Go(t, place) /\ (place = "retry" <=> t = "receiver")
        BY <1>3 DEF ConnectFailed
    <2>2. /\ pc' \in [Threads -> Places]
          /\ pc'[t] \in {"idle", "retry"} /\ (pc'[t] = "retry" <=> t = "receiver")
          /\ \A u \in Threads \ {t} : pc'[u] = pc[u]
        <3>1. place \in Places
            OBVIOUS
        <3>2. /\ pc' \in [Threads -> Places] /\ pc'[t] = place
              /\ \A u \in Threads \ {t} : pc'[u] = pc[u]
            BY <1>1, <2>1, <3>1, GoTyped
        <3> QED BY <2>1, <3>2
    <2>3. currentRetry' \in Nat /\ state' \in {state, "ERROR_STATE"} /\ shouldRun' = shouldRun
        BY <1>1, <1>3 DEF ConnectFailed
    <2>4. /\ pc'["publisher"] = pc["publisher"]
          /\ \/ pc'["receiver"] = pc["receiver"]
             \/ pc'["receiver"] = "retry"
          /\ pc'["owner"] = pc["owner"] \/ pc'["owner"] = "idle"
        BY <2>2
    <2>5. Onward
        <3>1. pc["owner"] \in {"tcp", "connect", "connack"} => pc'["receiver"] = pc["receiver"]
            BY <1>1, <2>2
        <3>2. pc["owner"] \in {"tcp", "connect", "connack"} => pc["receiver"] = "off"
            BY DEF Inv, LinkInv
        <3> QED BY <1>1, <2>2, <2>4, <3>1, <3>2 DEF Onward, WithPacket
    <2>6. pc'["receiver"] \in EmptyHanded
        BY <1>1, <2>4 DEF EmptyHanded
    <2> QED BY <1>1, <2>3, <2>5, <2>6
<1>4. CASE \E place \in {"connect", "connack"} : Go(t, place) /\ UNCHANGED runVars
    <2>1. /\ pc' \in [Threads -> Places]
          /\ pc'[t] \in {"connect", "connack"}
          /\ \A u \in Threads \ {t} : pc'[u] = pc[u]
        <3>1. PICK place \in {"connect", "connack"} : Go(t, place)
            BY <1>4
        <3>2. t \in Threads /\ place \in Places
            BY <3>1
        <3> HIDE DEF Threads, Places
        <3>3. /\ pc' \in [Threads -> Places] /\ pc'[t] = place
              /\ \A u \in Threads \ {t} : pc'[u] = pc[u]
            BY <1>1, <3>1, <3>2, GoTyped, Zenon
        <3> QED BY <3>1, <3>3
    <2>2. t = "owner" => pc["receiver"] = "off"
        BY DEF Inv, LinkInv
    <2>3. /\ pc'["publisher"] = pc["publisher"]
          /\ \/ pc'["receiver"] = pc["receiver"]
             \/ pc'["receiver"] \in {"connect", "connack"}
        BY <2>1
    <2>4. Onward
        <3>1. pc'["owner"] \in {"tcp", "connect", "connack"} => pc'["receiver"] = "off"
            <4>1. CASE t = "owner"
                BY <2>1, <2>2, <4>1
            <4>2. CASE t = "receiver"
                BY <1>1, <2>1, <4>2
            <4> QED BY <4>1, <4>2
        <3> QED BY <1>1, <2>1, <2>3, <3>1 DEF Onward, WithPacket
    <2>5. pc'["receiver"] \in EmptyHanded
        BY <1>1, <2>3 DEF EmptyHanded
    <2> QED BY <1>1, <1>4, <2>4, <2>5 DEF runVars
<1> QED BY <1>2, <1>3, <1>4

LEMMA MakesConnection ==
    ASSUME Inv, NEW t \in {"owner", "receiver"}, DoTcpConnect(t) PROVE Inv'
<1>1. /\ pc[t] = "tcp" /\ toBroker' = <<>> /\ toClient' = <<>>
      /\ socket' \in BOOLEAN /\ broker' \in {"new", "gone"}
      /\ ConnectFailed(t) \/ (Go(t, "connect") /\ UNCHANGED runVars)
      /\ UNCHANGED <<qosVars, publishVars, handleVars, session, ghostVars, holder>>
    BY DEF DoTcpConnect, connectFrame
<1>2. ~ Connected(t)
    <2>1. "connect" \notin {"idle", "ended"} /\ pc \in [Threads -> Places]
        BY DEF Inv, ControlTypes
    <2> QED BY <1>1, <2>1 DEF Connected, ConnectFailed, Go, runVars, Threads, Places
<1>3. /\ Onward
      /\ state' \in {state, "ERROR_STATE", "CONNECTED"}
      /\ shouldRun' \in BOOLEAN /\ currentRetry' \in Nat
      /\ pc'["receiver"] \in EmptyHanded
    BY <1>1, <1>2, ConnectingThreads
<1>4. Calm
    BY <1>1, <1>3 DEF Calm, EmptyHanded
<1>5. \A U, D : Flows(U, D)
    BY <1>1, <1>4, FlowReset
<1>6. ControlTypes'
    BY <1>1, <1>3 DEF Inv, ControlTypes, Onward
<1>7. <<>> \in Seq(ToBroker) /\ <<>> \in Seq(ToClient)
    OBVIOUS
<1> QED BY <1>1, <1>3, <1>5, <1>6, <1>7, OnwardStep

LEMMA SendsConnect ==
    ASSUME Inv, NEW t \in {"owner", "receiver"}, SendConnect(t) PROVE Inv'
<1>1. /\ pc[t] = "connect"
      /\ Transmit(t, Packet("CONNECT", 0, 0)) \/ CannotSend(t)
      /\ ConnectFailed(t) \/ (Go(t, "connack") /\ UNCHANGED runVars)
      /\ UNCHANGED <<qosVars, publishVars, handleVars, session, ghostVars>>
    BY DEF SendConnect, connectFrame
<1>2. ~ Connected(t)
    <2>1. pc \in [Threads -> Places]
        BY DEF Inv, ControlTypes
    <2> QED BY <1>1, <2>1 DEF Connected, ConnectFailed, Go, runVars, Threads, Places
<1>3. /\ Onward
      /\ state' \in {state, "ERROR_STATE", "CONNECTED"}
      /\ shouldRun' \in BOOLEAN /\ currentRetry' \in Nat
      /\ pc'["receiver"] \in EmptyHanded
    BY <1>1, <1>2, ConnectingThreads
<1>4. UNCHANGED socket /\ holder' = "none"
    BY <1>1, Sends
<1>5. ControlTypes'
    BY <1>1, <1>3, <1>4 DEF Inv, ControlTypes, Onward
<1> QED BY <1>1, <1>3, <1>5, PlainSendStep

LEMMA AwaitsConnAck ==
    ASSUME Inv, NEW t \in {"owner", "receiver"}, AwaitConnAck(t) PROVE Inv'
<1>1. /\ UNCHANGED <<qosVars, publishVars, handleVars, session, ghostVars,
                     runVars, pc, linkVars>>
      /\ holder' = t
    BY DEF AwaitConnAck, StartReading, connectFrame
<1>2. Onward
    BY <1>1 DEF Onward, Inv, ControlTypes, LinkInv
<1>3. ControlTypes'
    BY <1>1 DEF Inv, ControlTypes, Threads, runVars, linkVars
<1> QED BY <1>1, <1>2, <1>3, AsideStep DEF linkVars

LEMMA TakesConnAck ==
    ASSUME Inv, NEW t \in {"owner", "receiver"}, TakeConnAck(t) PROVE Inv'
<1>1. /\ pc[t] = "connack" /\ holder' = "none"
      /\ \/ /\ toClient # <<>> /\ toClient' = Tail(toClient)
            /\ ConnectFailed(t) \/ Connected(t)
         \/ toClient' = toClient /\ ConnectFailed(t)
      /\ UNCHANGED <<qosVars, publishVars, handleVars, session, ghostVars,
                     socket, broker, toBroker>>
    BY DEF TakeConnAck, ReadPacket, ReadFails, linkVars, connectFrame
<1>2. /\ Onward
      /\ state' \in {state, "ERROR_STATE", "CONNECTED"}
      /\ shouldRun' \in BOOLEAN /\ currentRetry' \in Nat
      /\ ~ Connected(t) => pc'["receiver"] \in EmptyHanded
    BY <1>1, ConnectingThreads
<1>3. ControlTypes'
    BY <1>1, <1>2 DEF Inv, ControlTypes, Onward
<1>4. Calm
    BY <1>1, <1>2 DEF Calm, Onward, WithPacket, handleVars
<1>5. \A U, D : Flows(U, D)
    BY <1>1, <1>4, FlowTaken, FlowKept DEF Inv
<1>6. /\ broker \in {"gone", "new", "accepted"}
      /\ toBroker \in Seq(ToBroker) /\ toClient \in Seq(ToClient)
      /\ broker = "gone" => toBroker = <<>>
      /\ broker = "new" => toClient = <<>>
    BY DEF Inv, LinkInv
<1>7. broker = "new" => toClient' = <<>> /\ pc'["receiver"] \in EmptyHanded
    <2> SUFFICES ASSUME broker = "new" PROVE toClient' = <<>> /\ pc'["receiver"] \in EmptyHanded
        OBVIOUS
    <2>1. toClient' = <<>> /\ ConnectFailed(t)
        BY <1>1, <1>6
    <2>2. ~ Connected(t)
        <3>1. pc \in [Threads -> Places]
            BY DEF Inv, ControlTypes
        <3> QED BY <2>1, <3>1 DEF Connected, ConnectFailed, Go, Threads, Places
    <2> QED BY <1>2, <2>1, <2>2
<1>8. toClient' \in Seq(ToClient)
    BY <1>1, <1>6, HasRest
<1> QED BY <1>1, <1>2, <1>3, <1>5, <1>6, <1>7, <1>8, OnwardStep

\* The threads are joined: the connection is closed.
LEMMA OwnerDisconnected == ASSUME Inv, Disconnected PROVE Inv'
<1> USE DEF Threads, Places
<1>1. /\ pc["receiver"] \in {"off", "ended"}
      /\ pc' = [pc EXCEPT !["owner"] = "idle", !["receiver"] = "off", !["keeper"] = "off"]
      /\ socket' = FALSE /\ broker' = "gone" /\ toBroker' = <<>> /\ toClient' = <<>>
      /\ state' = "DISCONNECTED"
      /\ UNCHANGED <<qosVars, publishVars, handleVars, session, ghostVars,
                     shouldRun, currentRetry, holder>>
    BY DEF Disconnected, connectFrame
<1>2. /\ pc' \in [Threads -> Places]
      /\ pc'["receiver"] = "off" /\ pc'["owner"] = "idle"
      /\ pc'["publisher"] = pc["publisher"]
    BY <1>1 DEF Inv, ControlTypes
<1>3. Onward
    BY <1>1, <1>2 DEF Onward, WithPacket
<1>4. Calm
    BY <1>2 DEF Calm
<1>5. \A U, D : Flows(U, D)
    BY <1>1, <1>4, FlowReset
<1>6. ControlTypes'
    BY <1>1, <1>2 DEF Inv, ControlTypes
<1>7. <<>> \in Seq(ToBroker) /\ <<>> \in Seq(ToClient)
    OBVIOUS
<1> QED BY <1>1, <1>3, <1>5, <1>6, <1>7, OnwardStep

-----------------------------------------------------------------------------
(***************************************************************************)
(* publish.                                                                *)
(***************************************************************************)

LEMMA LinkKept ==
    ASSUME LinkInv, UNCHANGED <<broker, toBroker, toClient>>,
           pc'["owner"] = pc["owner"],
           \/ pc'["receiver"] = pc["receiver"]
           \/ pc["receiver"] \notin EmptyHanded
    PROVE  LinkInv'
BY DEF LinkInv, EmptyHanded

\* The publisher goes from one place to another.
LEMMA PublisherGoes ==
    ASSUME Inv, NEW place \in Places, Go("publisher", place)
    PROVE  /\ pc' \in [Threads -> Places] /\ pc'["publisher"] = place
           /\ pc'["receiver"] = pc["receiver"] /\ pc'["owner"] = pc["owner"]
BY GoTyped DEF Inv, ControlTypes, Threads

\* An id that is given out is one, and 0 is skipped.
LEMMA IdGiven ==
    ASSUME HandInv
    PROVE  NextId \in PacketIds /\ After(NextId) \in 0 .. MaxPacketId
<1>1. /\ nextPacketId \in 0 .. MaxPacketId /\ MaxPacketId \in Nat /\ MaxPacketId >= 1
    BY MqttClientAssumption DEF HandInv
<1>2. NextId \in 1 .. MaxPacketId
    <2>1. CASE nextPacketId = 0
        BY <1>1, <2>1 DEF NextId, After
    <2>2. CASE nextPacketId # 0
        BY <1>1, <2>2 DEF NextId
    <2> QED BY <2>1, <2>2
<1>3. After(NextId) \in 0 .. MaxPacketId
    BY <1>1, <1>2 DEF After
<1> QED BY <1>2, <1>3 DEF PacketIds

LEMMA PublishBegins ==
    ASSUME Inv, NEW q \in QoS, BeginPublish(q) PROVE Inv'
<1>0. PICK a \in PacketIds : a = NextId /\ After(a) \in 0 .. MaxPacketId
    BY IdGiven DEF Inv
<1>1. /\ pc["publisher"] = "idle"
      /\ publishing' = Packet("PUBLISH", a, q)
      /\ nextPacketId' = After(a)
      /\ publishes < MaxPublishes /\ publishes' = publishes + 1
      /\ Go("publisher", "send")
      /\ reused' = reused \cup ({a} \cap outbox)
      /\ inserted' = inserted \ ({a} \ outbox)
      /\ acked' = acked \ ({a} \ outbox)
      /\ UNCHANGED <<runVars, received, released, handleVars, holder, session,
                     outbox, linkVars, notified, leaked>>
    BY <1>0 DEF BeginPublish, publishFrame
<1>2. /\ pc' \in [Threads -> Places] /\ pc'["publisher"] = "send"
      /\ pc'["receiver"] = pc["receiver"] /\ pc'["owner"] = pc["owner"]
    BY <1>1, PublisherGoes DEF Places
<1>3. ControlTypes'
    BY <1>1, <1>2 DEF Inv, ControlTypes, runVars, linkVars
<1>4. LinkInv'
    BY <1>1, <1>2, LinkKept DEF Inv, linkVars
<1>5. nextPacketId' \in 0 .. MaxPacketId /\ publishes' \in 0 .. MaxPublishes
    BY <1>0, <1>1, MqttClientAssumption DEF Inv, HandInv
<1>6. Packet("PUBLISH", a, q) \in ToBroker
    <2>1. q \in 0 .. 2
        BY MqttClientAssumption
    <2>2. a \in 0 .. MaxPacketId
        BY <1>0, MqttClientAssumption DEF PacketIds
    <2> QED BY <1>0, <2>1, <2>2 DEF Packet, ToBroker, Packets, PacketTypes, Messages, Answers
<1>7. HandInv'
    <2>1. /\ publishing' \in Packets /\ publishing' \in ToBroker
          /\ publishing'.type = "PUBLISH"
        BY <1>1, <1>6 DEF Packet, ToBroker
    <2> QED BY <1>1, <1>2, <1>5, <2>1 DEF Inv, HandInv, handleVars
<1>8. Calm /\ UNCHANGED <<toBroker, toClient>>
    BY <1>1, <1>2 DEF Calm, handleVars, linkVars
<1>9. \A U, D : Flows(U, D)
    BY <1>8, FlowKept
<1>10. ASSUME NEW p \in PacketIds \ reused' PROVE Ledger(p)' /\ Outgoing(p)'
    <2>1. Ledger(p) /\ Outgoing(p) /\ OutFlows(p)
        BY <1>1, <1>9, <1>10, AllFlow DEF Inv, OutInv
    <2>2. /\ Sending(p)' <=> p = a
          /\ InUse(p)' <=> p \in outbox
          /\ InUse(p) <=> p \in outbox
        BY <1>1, <1>2 DEF Sending, Inserting, InUse, Packet
    <2>3. UNCHANGED <<outbox, released, leaked>>
        BY <1>1
    <2>4. CASE p # a
        <3>1. (p \in inserted' <=> p \in inserted) /\ (p \in acked' <=> p \in acked)
            BY <1>1, <2>4
        <3> QED BY <2>1, <2>2, <2>3, <2>4, <3>1 DEF Ledger, Outgoing, OutFlows, Flows
    <2>5. CASE p = a
        <3>1. p \notin outbox /\ p \notin inserted' /\ p \notin acked'
            BY <1>1, <1>10, <2>5
        <3>2. p \notin leaked /\ p \notin released
            BY <2>1, <2>2, <3>1 DEF Ledger, Outgoing
        <3>3. ~ Somewhere(Up(Messages, p), Down(Answers, p))
            BY <2>1, <2>2, <3>1 DEF Outgoing
        <3> QED BY <2>1, <2>3, <3>1, <3>2, <3>3 DEF Ledger, Outgoing, OutFlows, Flows
    <2> QED BY <2>4, <2>5
<1>11. OutInv'
    <2>1. /\ outbox' \subseteq PacketIds /\ released' \subseteq PacketIds
          /\ inserted' \subseteq PacketIds /\ acked' \subseteq PacketIds
          /\ leaked' \subseteq PacketIds /\ reused' \subseteq PacketIds
        BY <1>0, <1>1 DEF Inv, OutInv
    <2> QED BY <1>10, <2>1 DEF OutInv
<1>12. InInv'
    <2>1. \A i : Told(i) => Told(i)'
        BY <1>1, <1>2 DEF Told, handleVars
    <2> QED BY <1>1, <1>2, <1>9, <2>1, AllFlow, InKept DEF Inv
<1> QED BY <1>3, <1>4, <1>7, <1>11, <1>12 DEF Inv

LEMMA PublishSends == ASSUME Inv, SendPublish PROVE Inv'
<1>1. /\ pc["publisher"] = "send"
      /\ \/ /\ Transmit("publisher", publishing)
            /\ Go("publisher", "insert") /\ UNCHANGED publishing
         \/ /\ CannotSend("publisher")
            /\ Go("publisher", "idle") /\ publishing' = None
      /\ UNCHANGED <<runVars, received, released, handleVars, session,
                     outbox, nextPacketId, publishes, ghostVars>>
    BY DEF SendPublish, publishFrame
<1>2. /\ pc' \in [Threads -> Places] /\ pc'["publisher"] \in {"insert", "idle"}
      /\ pc'["receiver"] = pc["receiver"] /\ pc'["owner"] = pc["owner"]
    BY <1>1, PublisherGoes DEF Places
<1>3. /\ toBroker' \in {toBroker, Append(toBroker, publishing)}
      /\ UNCHANGED <<socket, broker, toClient>>
      /\ broker = "gone" => toBroker' = toBroker
      /\ holder' = "none"
    BY <1>1, Sends
<1>4. /\ publishing \in ToBroker /\ publishing.type = "PUBLISH"
      /\ publishing.id \in PacketIds
    BY <1>1 DEF Inv, HandInv, ToBroker, Messages
<1>5. toBroker \in Seq(ToBroker) /\ toBroker' \in Seq(ToBroker)
    BY <1>3, <1>4 DEF Inv, LinkInv
<1>6. ControlTypes'
    BY <1>1, <1>2, <1>3 DEF Inv, ControlTypes, runVars
<1>7. Calm
    BY <1>1, <1>2 DEF Calm, handleVars
<1>8. \A U, D : publishing \notin U => Flows(U, D)
    BY <1>3, <1>4, <1>7, FlowSent DEF Inv
<1>9. \A types, i : "PUBLISH" \notin types => publishing \notin Up(types, i)
    BY <1>4 DEF Up
<1>10. LinkInv'
    <2>1. broker = "new" => \A i \in InboundIds : ~ Has(toBroker', Up(Answers, i))
        BY <1>8, <1>9 DEF Inv, LinkInv, EmptyHanded, Flows, Answers
    <2> QED BY <1>2, <1>3, <1>5, <2>1 DEF Inv, LinkInv
<1>11. HandInv'
    <2>1. publishing' \in Packets
        <3>1. publishing \in Packets /\ None \in Packets
            BY MqttClientAssumption DEF Inv, HandInv, None, Packet, Packets, PacketTypes
        <3> QED BY <1>1, <3>1
    <2>2. pc'["publisher"] = "insert" => publishing' = publishing
        BY <1>1, PublisherGoes DEF Places
    <2> QED BY <1>1, <1>2, <1>4, <2>1, <2>2 DEF Inv, HandInv, handleVars
<1>12. \/ toBroker' = toBroker
       \/ pc'["publisher"] = "insert" /\ publishing' = publishing
    <2>1. CASE Transmit("publisher", publishing)
        BY <1>1, <2>1, PublisherGoes DEF Places, CannotSend, linkVars
    <2>2. CASE CannotSend("publisher")
        BY <2>2 DEF CannotSend, linkVars
    <2> QED BY <1>1, <2>1, <2>2
<1>13. ASSUME NEW p \in PacketIds \ reused PROVE Ledger(p)' /\ Outgoing(p)'
    <2>1. /\ Ledger(p) /\ Outgoing(p) /\ ~ Sending(p)'
          /\ UNCHANGED <<outbox, inserted, acked, leaked, released>>
          /\ InUse(p) => InUse(p)'
        BY <1>1, <1>2, <1>13 DEF Inv, OutInv, Sending, InUse, Inserting, ghostVars
    <2>2. CASE publishing.id # p
        <3>1. publishing \notin Up(Messages, p) /\ publishing \notin Up({"PUBLISH"}, p)
            BY <2>2 DEF Up
        <3> QED BY <1>8, <2>1, <3>1 DEF Ledger, Outgoing, Flows
    <2>3. CASE publishing.id = p
        <3> DEFINE U == Up(Messages, p)
                   D == Down(Answers, p)
        <3>1. Sending(p)
            BY <1>1, <2>3 DEF Sending
        <3>2. OneOf(U, D) /\ ~ Somewhere(U, D) /\ p \notin acked /\ p \notin released
            BY <2>1, <3>1 DEF Outgoing
        <3>3. AtMostOne(toBroker', U)
            <4>1. AtMostOne(toBroker, U) /\ ~ Has(toBroker, U)
                BY <3>2 DEF OneOf, Somewhere
            <4>2. AtMostOne(Append(toBroker, publishing), U)
                BY <1>4, <1>5, <4>1, HasAppended, Zenon
            <4> QED BY <1>3, <4>1, <4>2
        <3>4. toClient' = toClient /\ ~ Has(toClient, D) /\ ~ Busy(U, D)'
            BY <1>3, <1>7, <3>2, CalmBusy DEF Somewhere
        <3>5. OneOf(U, D)'
            BY <3>2, <3>3, <3>4 DEF OneOf
        <3>6. Somewhere(U, D)' => InUse(p)'
            <4>1. CASE toBroker' = toBroker
                BY <3>2, <3>4, <4>1 DEF Somewhere
            <4>2. CASE pc'["publisher"] = "insert" /\ publishing' = publishing
                BY <2>3, <4>2 DEF InUse, Inserting
            <4> QED BY <1>12, <4>1, <4>2
        <3> HIDE DEF U, D
        <3> QED BY <2>1, <3>2, <3>5, <3>6 DEF Ledger, Outgoing, U, D
    <2> QED BY <2>2, <2>3
<1>14. OutInv'
    BY <1>1, <1>13 DEF Inv, OutInv, ghostVars
<1>15. InInv'
    <2>1. \A i : Told(i) => Told(i)'
        BY <1>1, <1>2 DEF Told, ghostVars, handleVars
    <2>2. \A i : /\ InFlows(i)
                 /\ Flows(Up({"PUBCOMP"}, i), {}) /\ Flows(Up({"PUBACK", "PUBREC"}, i), {})
        BY <1>8, <1>9 DEF InFlows, Answers
    <2> QED BY <1>1, <1>2, <2>1, <2>2, InKept DEF Inv, ghostVars
<1> QED BY <1>6, <1>10, <1>11, <1>14, <1>15 DEF Inv

LEMMA OutboxInserted == ASSUME Inv, InsertOutbox PROVE Inv'
<1>1. /\ pc["publisher"] = "insert" /\ Go("publisher", "idle") /\ publishing' = None
      /\ outbox' = outbox \cup {publishing.id}
      /\ inserted' = inserted \cup {publishing.id}
      /\ leaked' = leaked \cup ({publishing.id} \cap acked)
      /\ UNCHANGED <<runVars, received, released, handleVars, holder, session,
                     nextPacketId, publishes, linkVars, notified, acked, reused>>
    BY DEF InsertOutbox, publishFrame
<1>2. /\ pc' \in [Threads -> Places] /\ pc'["publisher"] = "idle"
      /\ pc'["receiver"] = pc["receiver"] /\ pc'["owner"] = pc["owner"]
    BY <1>1, PublisherGoes DEF Places
<1>3. ControlTypes'
    BY <1>1, <1>2 DEF Inv, ControlTypes, runVars, linkVars
<1>4. LinkInv'
    BY <1>1, <1>2, LinkKept DEF Inv, linkVars
<1>5. HandInv'
    <2>1. None \in Packets
        BY MqttClientAssumption DEF None, Packet, Packets, PacketTypes
    <2> QED BY <1>1, <1>2, <2>1 DEF Inv, HandInv, handleVars
<1>6. \A U, D : Flows(U, D)
    <2>1. Calm /\ UNCHANGED <<toBroker, toClient>>
        BY <1>1, <1>2 DEF Calm, handleVars, linkVars
    <2> QED BY <2>1, FlowKept
<1>7. ASSUME NEW p \in PacketIds \ reused PROVE Ledger(p)' /\ Outgoing(p)'
    <2>1. Ledger(p) /\ Outgoing(p) /\ OutFlows(p) /\ ~ Sending(p)'
        BY <1>2, <1>6, <1>7, AllFlow DEF Inv, OutInv, Sending
    <2>2. UNCHANGED <<acked, released>>
        BY <1>1
    <2>3. InUse(p) => InUse(p)'
        BY <1>1 DEF InUse, Inserting
    <2>4. Ledger(p)'
        BY <1>1, <2>1 DEF Ledger
    <2> QED BY <2>1, <2>2, <2>3, <2>4 DEF Outgoing, OutFlows, Flows
<1>8. OutInv'
    <2>1. publishing.id \in PacketIds
        BY <1>1 DEF Inv, HandInv, ToBroker, Messages
    <2> QED BY <1>1, <1>7, <2>1 DEF Inv, OutInv
<1>9. InInv'
    <2>1. \A i : Told(i) => Told(i)'
        BY <1>1, <1>2 DEF Told, handleVars
    <2> QED BY <1>1, <1>2, <1>6, <2>1, AllFlow, InKept DEF Inv
<1> QED BY <1>3, <1>4, <1>5, <1>8, <1>9 DEF Inv

-----------------------------------------------------------------------------
(***************************************************************************)
(* The receive thread with a packet.                                       *)
(***************************************************************************)

LEMMA ReceiverAt ==
    ASSUME Inv, NEW place \in Places, Go("receiver", place)
    PROVE  /\ pc' \in [Threads -> Places] /\ pc'["receiver"] = place
           /\ pc'["publisher"] = pc["publisher"] /\ pc'["owner"] = pc["owner"]
BY GoTyped DEF Inv, ControlTypes, Threads

LEMMA PacketReceived == ASSUME Inv, Received PROVE Inv'
<1>1. /\ pc["receiver"] = "read" /\ toClient # <<>> /\ toClient' = Tail(toClient)
      /\ holder' = "none" /\ packet' = Head(toClient)
      /\ Go("receiver", "handle")
      /\ UNCHANGED <<publishVars, session, inserted, leaked, reused, runVars,
                     qosVars, reply, notified, acked, socket, broker, toBroker>>
    BY DEF Received, ReadPacket, receiveFrame
<1>2. /\ pc' \in [Threads -> Places] /\ pc'["receiver"] = "handle"
      /\ pc'["publisher"] = pc["publisher"] /\ pc'["owner"] = pc["owner"]
    BY <1>1, ReceiverAt DEF Places
<1>3. ControlTypes'
    BY <1>1, <1>2 DEF Inv, ControlTypes, runVars
<1>4. packet' \in ToClient /\ toClient' \in Seq(ToClient)
    BY <1>1, HasRest DEF Inv, LinkInv
<1>5. LinkInv'
    BY <1>1, <1>2, <1>4 DEF Inv, LinkInv, EmptyHanded
<1>6. HandInv'
    BY <1>1, <1>2, <1>4 DEF Inv, HandInv, publishVars, ToClient
<1>7. \A U, D : Flows(U, D)
    BY <1>1, <1>2, FlowReceived DEF Inv
<1>8. OutInv'
    <2>1. \A p \in PacketIds : /\ OutFlows(p)
                               /\ Sending(p)' => Sending(p)
                               /\ Inserting(p) => Inserting(p)'
        BY <1>1, <1>2, <1>7, AllFlow DEF Sending, Inserting, publishVars
    <2> QED BY <1>1, <2>1, OutKept DEF Inv, qosVars
<1>9. InInv'
    <2>1. \A i : Told(i) => Told(i)'
        BY <1>1 DEF Told
    <2> QED BY <1>1, <1>7, <2>1, AllFlow, InKept DEF Inv, qosVars
<1> QED BY <1>3, <1>5, <1>6, <1>8, <1>9 DEF Inv

\* The next round begins: nothing is sent.
LEMMA RoundEnds ==
    ASSUME Inv, pc["receiver"] \in {"handle", "notify"}, NextRound,
           UNCHANGED <<publishVars, session, inserted, leaked, reused, runVars,
                       holder, linkVars>>
    PROVE  /\ ControlTypes' /\ LinkInv' /\ HandInv'
           /\ pc'["receiver"] = "loop"
           /\ \A U, D : Flows(U, D) /\ ~ Busy(U, D)'
           /\ \A p : (Sending(p)' <=> Sending(p)) /\ (Inserting(p)' <=> Inserting(p))
<1>1. Go("receiver", "loop") /\ packet' = None /\ reply' = None
    BY DEF NextRound
<1>2. /\ pc' \in [Threads -> Places] /\ pc'["receiver"] = "loop"
      /\ pc'["publisher"] = pc["publisher"] /\ pc'["owner"] = pc["owner"]
    BY <1>1, ReceiverAt DEF Places
<1>3. ControlTypes'
    BY <1>2 DEF Inv, ControlTypes, runVars, linkVars
<1>4. LinkInv'
    BY <1>2, LinkKept DEF Inv, linkVars, EmptyHanded
<1>5. HandInv'
    <2>1. None \in Packets
        BY MqttClientAssumption DEF None, Packet, Packets, PacketTypes
    <2> QED BY <1>1, <1>2, <2>1 DEF Inv, HandInv, publishVars
<1>6. \A U, D : Flows(U, D) /\ ~ Busy(U, D)'
    <2>1. Calm /\ UNCHANGED <<toBroker, toClient>>
        BY <1>2 DEF Calm, linkVars
    <2> QED BY <1>2, <2>1, FlowKept DEF Busy
<1>7. \A p : (Sending(p)' <=> Sending(p)) /\ (Inserting(p)' <=> Inserting(p))
    BY <1>2 DEF Sending, Inserting, publishVars
<1> QED BY <1>2, <1>3, <1>4, <1>5, <1>6, <1>7

\* A message whose last answer is handled has no packet left.
LEMMA MessageAcked ==
    ASSUME Inv, pc["receiver"] = "handle", packet.type \in Answers, NEW p, p = packet.id,
           p \notin reused,
           \A U, D : Flows(U, D) /\ ~ Busy(U, D)',
           UNCHANGED <<toBroker, toClient>>
    PROVE  /\ p \notin acked /\ ~ Sending(p)
           /\ ~ Somewhere(Up(Messages, p), Down(Answers, p))'
           /\ packet.type \in {"PUBACK", "PUBREC"} => p \notin released
<1> DEFINE U == Up(Messages, p)
           D == Down(Answers, p)
<1>1. packet \in ToClient /\ packet \in D /\ p \in PacketIds
    BY DEF Inv, HandInv, ToClient, Down
<1>2. Busy(U, D) /\ Outgoing(p)
    BY <1>1 DEF Busy, Inv, OutInv
<1>3. ~ Has(toBroker, U) /\ ~ Has(toClient, D) /\ ~ Busy(U, D)'
    BY <1>2 DEF Outgoing, OneOf
<1>4. p \notin acked /\ ~ Sending(p)
    BY <1>2 DEF Outgoing, Somewhere
<1>5. packet.type \in {"PUBACK", "PUBREC"} => p \notin released
    <2> SUFFICES ASSUME packet.type \in {"PUBACK", "PUBREC"} PROVE p \notin released
        OBVIOUS
    <2>1. packet \in Down({"PUBACK", "PUBREC"}, p)
        BY <1>1 DEF Down
    <2>2. Busy(Up({"PUBLISH"}, p), Down({"PUBACK", "PUBREC"}, p))
        BY <2>1 DEF Busy
    <2> QED BY <1>2, <2>2 DEF Outgoing, Somewhere
<1> QED BY <1>3, <1>4, <1>5 DEF Somewhere

\* The sets of packets of fewer types are smaller.
LEMMA Within ==
    ASSUME NEW U, NEW D, NEW V \in SUBSET U, NEW E \in SUBSET D
    PROVE  /\ Somewhere(V, E) => Somewhere(U, D)
           /\ Somewhere(V, E)' => Somewhere(U, D)'
BY DEF Somewhere, Has, Busy

LEMMA PublishWithin ==
    ASSUME NEW p, Somewhere(Up({"PUBLISH"}, p), Down({"PUBACK", "PUBREC"}, p))'
    PROVE  Somewhere(Up(Messages, p), Down(Answers, p))'
<1>1. /\ Up({"PUBLISH"}, p) \in SUBSET Up(Messages, p)
      /\ Down({"PUBACK", "PUBREC"}, p) \in SUBSET Down(Answers, p)
    BY DEF Up, Down, Messages, Answers
<1> QED BY <1>1, Within

\* PUBACK and PUBCOMP: a message to the broker is over.
LEMMA AckHandled == ASSUME Inv, HandlePubAck \/ HandlePubComp PROVE Inv'
<1>1. /\ pc["receiver"] = "handle" /\ packet.type \in {"PUBACK", "PUBCOMP"}
      /\ NextRound
      /\ outbox' = outbox \ {packet.id} /\ acked' = acked \cup {packet.id}
      /\ released' = released \/ (released' = released \ {packet.id} /\ packet.type = "PUBCOMP")
      /\ packet.type = "PUBCOMP" => released' = released \ {packet.id}
      /\ UNCHANGED <<publishVars, session, inserted, leaked, reused, runVars,
                     holder, linkVars, notified, received>>
    <2>1. CASE HandlePubAck
        BY <2>1 DEF HandlePubAck, handleFrame, receiveFrame
    <2>2. CASE HandlePubComp
        BY <2>2 DEF HandlePubComp, handleFrame, receiveFrame
    <2> QED BY <2>1, <2>2
<1>2. /\ ControlTypes' /\ LinkInv' /\ HandInv' /\ pc'["receiver"] = "loop"
      /\ \A U, D : Flows(U, D) /\ ~ Busy(U, D)'
      /\ \A p : (Sending(p)' <=> Sending(p)) /\ (Inserting(p)' <=> Inserting(p))
    BY <1>1, RoundEnds
<1>3. PICK a \in PacketIds : a = packet.id
    BY <1>1 DEF Inv, HandInv, ToClient, Answers
<1>4. a \notin reused => /\ a \notin acked /\ ~ Sending(a)
                         /\ ~ Somewhere(Up(Messages, a), Down(Answers, a))'
                         /\ packet.type \in {"PUBACK", "PUBREC"} => a \notin released
    <2>1. packet.type \in Answers /\ UNCHANGED <<toBroker, toClient>>
        BY <1>1 DEF Answers, linkVars
    <2> QED BY <1>1, <1>2, <1>3, <2>1, MessageAcked
<1>5. /\ outbox' = outbox \ {a} /\ acked' = acked \cup {a}
      /\ released' \in {released, released \ {a}}
      /\ a \notin reused => a \notin released'
      /\ UNCHANGED <<inserted, leaked, reused>>
    BY <1>1, <1>3, <1>4
<1>6. ASSUME NEW p \in PacketIds \ reused PROVE Ledger(p)' /\ Outgoing(p)'
    <2>1. /\ Ledger(p) /\ Outgoing(p) /\ OutFlows(p)
          /\ Sending(p)' <=> Sending(p)
          /\ Inserting(p)' <=> Inserting(p)
        BY <1>2, <1>6, AllFlow DEF Inv, OutInv
    <2>2. CASE p # a
        <3>1. /\ p \in outbox' <=> p \in outbox
              /\ p \in acked' <=> p \in acked
              /\ p \in released' <=> p \in released
              /\ InUse(p)' <=> InUse(p)
            BY <1>5, <2>1, <2>2 DEF InUse
        <3> QED BY <1>5, <2>1, <3>1 DEF Ledger, Outgoing, OutFlows, Flows
    <2>3. CASE p = a
        <3>1. ~ Somewhere(Up(Messages, p), Down(Answers, p))'
            BY <1>4, <1>6, <2>3
        <3>2. ~ Somewhere(Up({"PUBLISH"}, p), Down({"PUBACK", "PUBREC"}, p))'
            BY <3>1, PublishWithin, Zenon
        <3>3. ~ Sending(p)' /\ p \notin acked /\ p \notin released'
            BY <1>4, <1>5, <1>6, <2>1, <2>3
        <3>4. Ledger(p)'
            BY <1>5, <2>1, <2>3, <3>3 DEF Ledger
        <3> QED BY <2>1, <3>1, <3>2, <3>3, <3>4 DEF Outgoing, OutFlows, Flows
    <2> QED BY <2>2, <2>3
<1>7. OutInv'
    <2>1. /\ outbox' \subseteq PacketIds /\ released' \subseteq PacketIds
          /\ inserted' \subseteq PacketIds /\ acked' \subseteq PacketIds
          /\ leaked' \subseteq PacketIds /\ reused' = reused /\ reused \subseteq PacketIds
        BY <1>3, <1>5 DEF Inv, OutInv
    <2> QED BY <1>6, <2>1 DEF OutInv
<1>8. InInv'
    <2>1. \A i : Told(i) => Told(i)'
        BY <1>1 DEF Told
    <2> QED BY <1>1, <1>2, <2>1, AllFlow, InKept DEF Inv
<1> QED BY <1>2, <1>7, <1>8 DEF Inv

LEMMA OtherHandled == ASSUME Inv, HandleOther PROVE Inv'
<1>1. /\ pc["receiver"] = "handle" /\ NextRound
      /\ UNCHANGED <<publishVars, session, inserted, leaked, reused, runVars,
                     holder, linkVars, notified, qosVars, acked>>
    BY DEF HandleOther, handleFrame, receiveFrame
<1>2. /\ ControlTypes' /\ LinkInv' /\ HandInv' /\ pc'["receiver"] = "loop"
      /\ \A U, D : Flows(U, D) /\ ~ Busy(U, D)'
      /\ \A p : (Sending(p)' <=> Sending(p)) /\ (Inserting(p)' <=> Inserting(p))
    BY <1>1, RoundEnds
<1>3. OutInv'
    BY <1>1, <1>2, AllFlow, OutKept DEF Inv, qosVars, publishVars
<1>4. InInv'
    <2>1. \A i : Told(i) => Told(i)'
        BY <1>1 DEF Told
    <2> QED BY <1>1, <1>2, <2>1, AllFlow, InKept DEF Inv, qosVars
<1> QED BY <1>2, <1>3, <1>4 DEF Inv

\* The callback is called.
LEMMA MessageNotified == ASSUME Inv, NotifyMessage PROVE Inv'
<1>1. /\ pc["receiver"] = "notify" /\ NextRound
      /\ notified' = notified \cup {packet.id}
      /\ UNCHANGED <<publishVars, session, inserted, leaked, reused, runVars,
                     holder, linkVars, qosVars, acked>>
    BY DEF NotifyMessage, receiveFrame
<1>2. /\ ControlTypes' /\ LinkInv' /\ HandInv' /\ pc'["receiver"] = "loop"
      /\ \A U, D : Flows(U, D) /\ ~ Busy(U, D)'
      /\ \A p : (Sending(p)' <=> Sending(p)) /\ (Inserting(p)' <=> Inserting(p))
    BY <1>1, RoundEnds
<1>3. OutInv'
    BY <1>1, <1>2, AllFlow, OutKept DEF Inv, qosVars, publishVars
<1>4. packet.id \in InboundIds
    BY <1>1 DEF Inv, HandInv, ToClient, Messages
<1>5. \A i : Told(i) => Told(i)'
    BY <1>1 DEF Told
<1>6. ASSUME NEW i \in InboundIds PROVE Incoming(i)'
    <2>1. /\ Incoming(i) /\ InFlows(i)
          /\ Flows(Up({"PUBCOMP"}, i), {}) /\ Flows(Up({"PUBACK", "PUBREC"}, i), {})
          /\ UNCHANGED <<received, session>>
        BY <1>1, <1>2, AllFlow DEF Inv, InInv, qosVars
    <2> QED BY <1>1, <1>5, <2>1 DEF Incoming, InFlows, Flows
<1>7. InInv'
    BY <1>1, <1>4, <1>6 DEF Inv, InInv, qosVars
<1> QED BY <1>2, <1>3, <1>7 DEF Inv

\* The receive thread answers the packet it has with r.
LEMMA AnswerGiven ==
    ASSUME Inv, pc["receiver"] = "handle", NEW r \in ToBroker, Answer(r),
           r.type \in {"PUBREL", "PUBCOMP"} \cup Answers,
           r.type \in {"PUBACK", "PUBREC"} => packet.type = "PUBLISH" /\ packet.id = r.id,
           UNCHANGED <<publishVars, session, inserted, leaked, reused, runVars,
                       holder, linkVars>>
    PROVE  /\ ControlTypes' /\ LinkInv' /\ HandInv'
           /\ \A U, D : (r \in U => packet \in D) => Flows(U, D)
           /\ \A U, D : Busy(U, D)' <=> r \in U
           /\ \A p : (Sending(p)' <=> Sending(p)) /\ (Inserting(p)' <=> Inserting(p))
           /\ UNCHANGED <<toBroker, toClient, nextPacketId>>
           /\ \A i : Told(i) /\ UNCHANGED notified => Told(i)'
<1>1. Go("receiver", "reply") /\ reply' = r /\ packet' = packet
    BY DEF Answer
<1>2. /\ pc' \in [Threads -> Places] /\ pc'["receiver"] = "reply"
      /\ pc'["publisher"] = pc["publisher"] /\ pc'["owner"] = pc["owner"]
    BY <1>1, ReceiverAt DEF Places
<1>3. ControlTypes'
    BY <1>2 DEF Inv, ControlTypes, runVars, linkVars
<1>4. LinkInv'
    BY <1>2, LinkKept DEF Inv, linkVars, EmptyHanded
<1>5. HandInv'
    <2>1. r \in Packets
        BY DEF ToBroker
    <2> QED BY <1>1, <1>2, <2>1 DEF Inv, HandInv, publishVars
<1>6. \A U, D : (r \in U => packet \in D) => Flows(U, D)
    BY <1>1, <1>2, FlowAnswered DEF linkVars
<1>7. \A U, D : Busy(U, D)' <=> r \in U
    BY <1>1, <1>2 DEF Busy
<1>8. \A p : (Sending(p)' <=> Sending(p)) /\ (Inserting(p)' <=> Inserting(p))
    BY <1>2 DEF Sending, Inserting, publishVars
<1>9. \A i : Told(i) /\ UNCHANGED notified => Told(i)'
    BY DEF Told
<1> QED BY <1>3, <1>4, <1>5, <1>6, <1>7, <1>8, <1>9 DEF linkVars, publishVars

\* An answer about message id is well-typed.
LEMMA AnswerType ==
    /\ \A id \in PacketIds : Packet("PUBREL", id, 0) \in ToBroker
    /\ \A id \in InboundIds, type \in Answers : Packet(type, id, 0) \in ToBroker
    /\ \A type, id : Packet(type, id, 0).type = type /\ Packet(type, id, 0).id = id
<1>1. ASSUME NEW id \in PacketIds PROVE Packet("PUBREL", id, 0) \in ToBroker
    <2>1. id \in 0 .. MaxPacketId
        BY MqttClientAssumption DEF PacketIds
    <2> QED BY <2>1 DEF Packet, ToBroker, Packets, PacketTypes, Messages, Answers
<1>2. ASSUME NEW id \in InboundIds, NEW type \in Answers PROVE Packet(type, id, 0) \in ToBroker
    BY DEF Packet, ToBroker, Packets, PacketTypes, Messages, Answers
<1>3. \A type, id : Packet(type, id, 0).type = type /\ Packet(type, id, 0).id = id
    BY DEF Packet
<1> QED BY <1>1, <1>2, <1>3

LEMMA PublishHandled == ASSUME Inv, HandlePublish PROVE Inv'
<1> DEFINE type == IF packet.qos = 2 THEN "PUBREC" ELSE "PUBACK"
<1>1. /\ pc["receiver"] = "handle" /\ packet.type = "PUBLISH"
      /\ Answer(Packet(type, packet.id, 0))
      /\ received' = IF packet.qos = 2 THEN received \cup {packet.id} ELSE received
      /\ UNCHANGED <<publishVars, session, inserted, leaked, reused, runVars,
                     holder, linkVars, notified, outbox, released, acked>>
    BY DEF HandlePublish, handleFrame, receiveFrame
<1>2. packet \in ToClient /\ packet.id \in InboundIds /\ packet.qos \in {1, 2}
    BY <1>1 DEF Inv, HandInv, ToClient, Messages
<1>3. PICK a \in InboundIds, q \in {1, 2}, ty \in {"PUBREC", "PUBACK"} :
         a = packet.id /\ q = packet.qos /\ ty = IF q = 2 THEN "PUBREC" ELSE "PUBACK"
    BY <1>2
<1>4. PICK r \in ToBroker : r = Packet(ty, a, 0) /\ r.type = ty /\ r.id = a
    BY AnswerType DEF Answers
<1>5. /\ ControlTypes' /\ LinkInv' /\ HandInv'
      /\ \A U, D : (r \in U => packet \in D) => Flows(U, D)
      /\ \A p : (Sending(p)' <=> Sending(p)) /\ (Inserting(p)' <=> Inserting(p))
      /\ UNCHANGED <<toBroker, toClient, nextPacketId>>
      /\ \A i : Told(i) /\ UNCHANGED notified => Told(i)'
    <2>1. /\ Answer(r) /\ r.type \in {"PUBREL", "PUBCOMP"} \cup Answers
          /\ packet.type = "PUBLISH" /\ packet.id = r.id
        BY <1>1, <1>3, <1>4 DEF Answers
    <2>2. UNCHANGED <<publishVars, session, inserted, leaked, reused, runVars,
                      holder, linkVars>>
        BY <1>1
    <2> QED BY <1>1, <2>1, <2>2, AnswerGiven
<1>6. OutInv'
    <2>1. \A p \in PacketIds : OutFlows(p)
        BY <1>3, <1>4, <1>5 DEF OutFlows, Up, Messages
    <2> QED BY <1>1, <1>5, <2>1, OutKept DEF Inv
<1>7. \A i \in InboundIds : InFlows(i) /\ Flows(Up({"PUBCOMP"}, i), {})
    <2> SUFFICES ASSUME NEW i \in InboundIds PROVE InFlows(i) /\ Flows(Up({"PUBCOMP"}, i), {})
        OBVIOUS
    <2>1. r \in Up(Answers, i) => packet \in Down(Messages, i)
        BY <1>1, <1>2, <1>3, <1>4 DEF Up, Down, Messages
    <2>2. r \in Up({"PUBACK"}, i) => packet \in Published(1, i)
        BY <1>1, <1>2, <1>3, <1>4 DEF Up, Down, Published
    <2>3. r \in Up({"PUBREC"}, i) => packet \in Published(2, i)
        BY <1>1, <1>2, <1>3, <1>4 DEF Up, Down, Published
    <2>4. r \notin Up({"PUBCOMP"}, i)
        BY <1>3, <1>4 DEF Up
    <2> QED BY <1>5, <2>1, <2>2, <2>3, <2>4 DEF InFlows
<1>8. q = 2 => session[a] = "sent2"
    <2> SUFFICES ASSUME q = 2 PROVE session[a] = "sent2"
        OBVIOUS
    <2>1. packet \in Published(2, a)
        BY <1>1, <1>2, <1>3 DEF Published, Down
    <2>2. Somewhere(Up({"PUBREC"}, a), Published(2, a))
        BY <1>1, <2>1 DEF Somewhere, Busy
    <2> QED BY <2>2 DEF Inv, InInv, Incoming
<1>9. ASSUME NEW i \in InboundIds PROVE Incoming(i)'
    <2>1. /\ Incoming(i) /\ InFlows(i) /\ Flows(Up({"PUBCOMP"}, i), {})
          /\ Told(i) => Told(i)'
          /\ UNCHANGED <<session, toBroker>>
        BY <1>1, <1>5, <1>7 DEF Inv, InInv
    <2>2. i \in received' => i \in received \/ session[i] = "sent2"
        BY <1>1, <1>3, <1>8
    <2>3. Somewhere(Up({"PUBCOMP"}, i), {}) => session[i] = "rel"
        <3>1. Somewhere(Up({"PUBCOMP"}, i), {})
                 => Somewhere(Up({"PUBCOMP"}, i), Down({"PUBREL"}, i))
            BY Within
        <3> QED BY <2>1, <3>1 DEF Incoming
    <2> QED BY <2>1, <2>2, <2>3 DEF Incoming, InFlows, Flows
<1>10. InInv'
    BY <1>1, <1>2, <1>9 DEF Inv, InInv
<1> QED BY <1>5, <1>6, <1>10 DEF Inv

LEMMA PubRecHandled == ASSUME Inv, HandlePubRec PROVE Inv'
<1>1. /\ pc["receiver"] = "handle" /\ packet.type = "PUBREC"
      /\ Answer(Packet("PUBREL", packet.id, 0))
      /\ released' = released \cup {packet.id}
      /\ UNCHANGED <<publishVars, session, inserted, leaked, reused, runVars,
                     holder, linkVars, notified, outbox, received, acked>>
    BY DEF HandlePubRec, handleFrame, receiveFrame
<1>2. packet \in ToClient /\ packet.id \in PacketIds
    BY <1>1 DEF Inv, HandInv, ToClient, Answers
<1>3. PICK a \in PacketIds : a = packet.id
    BY <1>2
<1>4. PICK r \in ToBroker : r = Packet("PUBREL", a, 0) /\ r.type = "PUBREL" /\ r.id = a
    BY AnswerType
<1>5. /\ ControlTypes' /\ LinkInv' /\ HandInv'
      /\ \A U, D : (r \in U => packet \in D) => Flows(U, D)
      /\ \A U, D : Busy(U, D)' <=> r \in U
      /\ \A p : (Sending(p)' <=> Sending(p)) /\ (Inserting(p)' <=> Inserting(p))
      /\ UNCHANGED <<toBroker, toClient, nextPacketId>>
      /\ \A i : Told(i) /\ UNCHANGED notified => Told(i)'
    <2>1. Answer(r) /\ r.type \in {"PUBREL", "PUBCOMP"} \cup Answers
          /\ r.type \notin {"PUBACK", "PUBREC"}
        BY <1>1, <1>3, <1>4
    <2>2. UNCHANGED <<publishVars, session, inserted, leaked, reused, runVars,
                      holder, linkVars>>
        BY <1>1
    <2> QED BY <1>1, <2>1, <2>2, AnswerGiven
<1>6. \A p \in PacketIds : OutFlows(p)
    <2> SUFFICES ASSUME NEW p \in PacketIds PROVE OutFlows(p)
        OBVIOUS
    <2>1. r \in Up(Messages, p) => packet \in Down(Answers, p)
        BY <1>1, <1>2, <1>3, <1>4 DEF Up, Down, Answers
    <2>2. r \notin Up({"PUBLISH"}, p)
        BY <1>4 DEF Up
    <2> QED BY <1>5, <2>1, <2>2 DEF OutFlows
<1>7. a \notin reused => /\ a \notin acked /\ ~ Sending(a) /\ InUse(a)
                         /\ ~ Has(toBroker, Up(Messages, a))
                         /\ ~ Has(toClient, Down(Answers, a))
    <2>1. packet \in Down(Answers, a)
        BY <1>1, <1>2, <1>3 DEF Down, Answers
    <2>2. Busy(Up(Messages, a), Down(Answers, a)) /\ (a \notin reused => Outgoing(a))
        BY <1>1, <2>1 DEF Busy, Inv, OutInv
    <2> QED BY <2>2 DEF Outgoing, OneOf, Somewhere
<1>8. a \notin reused => ~ Somewhere(Up({"PUBLISH"}, a), Down({"PUBACK", "PUBREC"}, a))'
    <2> SUFFICES ASSUME a \notin reused
                 PROVE  ~ Somewhere(Up({"PUBLISH"}, a), Down({"PUBACK", "PUBREC"}, a))'
        OBVIOUS
    <2>1. /\ Up({"PUBLISH"}, a) \subseteq Up(Messages, a)
          /\ Down({"PUBACK", "PUBREC"}, a) \subseteq Down(Answers, a)
        BY DEF Up, Down, Messages, Answers
    <2>2. /\ ~ Has(toBroker, Up({"PUBLISH"}, a))
          /\ ~ Has(toClient, Down({"PUBACK", "PUBREC"}, a))
        BY <1>7, <2>1 DEF Has
    <2>3. r \notin Up({"PUBLISH"}, a)
        BY <1>4 DEF Up
    <2>4. ~ Busy(Up({"PUBLISH"}, a), Down({"PUBACK", "PUBREC"}, a))'
        BY <1>5, <2>3
    <2> QED BY <1>5, <2>2, <2>4 DEF Somewhere
<1>9. ASSUME NEW p \in PacketIds \ reused PROVE Ledger(p)' /\ Outgoing(p)'
    <2>1. /\ Ledger(p) /\ Outgoing(p) /\ OutFlows(p)
          /\ Sending(p)' <=> Sending(p)
          /\ UNCHANGED <<outbox, inserted, acked, leaked>>
          /\ InUse(p)' <=> InUse(p)
        BY <1>1, <1>5, <1>6, <1>9 DEF Inv, OutInv, InUse
    <2>2. released' = released \cup {a}
        BY <1>1, <1>3
    <2>3. CASE p # a
        BY <2>1, <2>2, <2>3 DEF Ledger, Outgoing, OutFlows, Flows
    <2>4. CASE p = a
        <3>1. /\ ~ Sending(p)' /\ ~ Somewhere(Up({"PUBLISH"}, p), Down({"PUBACK", "PUBREC"}, p))'
              /\ p \notin acked /\ InUse(p)
            BY <1>7, <1>8, <1>9, <2>1, <2>4
        <3> QED BY <2>1, <3>1 DEF Ledger, Outgoing, OutFlows, Flows
    <2> QED BY <2>3, <2>4
<1>10. OutInv'
    BY <1>1, <1>2, <1>9 DEF Inv, OutInv
<1>11. InInv'
    <2>1. \A i \in InboundIds : InFlows(i) /\ Flows(Up({"PUBCOMP"}, i), {})
        BY <1>4, <1>5 DEF InFlows, Up, Answers
    <2> QED BY <1>1, <1>5, <2>1, InKept DEF Inv
<1> QED BY <1>5, <1>10, <1>11 DEF Inv

LEMMA PubRelHandled == ASSUME Inv, HandlePubRel PROVE Inv'
<1>1. /\ pc["receiver"] = "handle" /\ packet.type = "PUBREL"
      /\ Answer(Packet("PUBCOMP", packet.id, 0))
      /\ received' = received \ {packet.id}
      /\ UNCHANGED <<publishVars, session, inserted, leaked, reused, runVars,
                     holder, linkVars, notified, outbox, released, acked>>
    BY DEF HandlePubRel, handleFrame, receiveFrame
<1>2. packet \in ToClient /\ packet.id \in InboundIds
    BY <1>1 DEF Inv, HandInv, ToClient, Messages
<1>3. PICK a \in InboundIds : a = packet.id
    BY <1>2
<1>4. PICK r \in ToBroker : r = Packet("PUBCOMP", a, 0) /\ r.type = "PUBCOMP" /\ r.id = a
    BY AnswerType DEF Answers
<1>5. /\ ControlTypes' /\ LinkInv' /\ HandInv'
      /\ \A U, D : (r \in U => packet \in D) => Flows(U, D)
      /\ \A U, D : Busy(U, D)' <=> r \in U
      /\ \A p : (Sending(p)' <=> Sending(p)) /\ (Inserting(p)' <=> Inserting(p))
      /\ UNCHANGED <<toBroker, toClient, nextPacketId>>
      /\ \A i : Told(i) /\ UNCHANGED notified => Told(i)'
    <2>1. Answer(r) /\ r.type \in {"PUBREL", "PUBCOMP"} \cup Answers
          /\ r.type \notin {"PUBACK", "PUBREC"}
        BY <1>1, <1>3, <1>4
    <2>2. UNCHANGED <<publishVars, session, inserted, leaked, reused, runVars,
                      holder, linkVars>>
        BY <1>1
    <2> QED BY <1>1, <2>1, <2>2, AnswerGiven
<1>6. OutInv'
    <2>1. \A p \in PacketIds : OutFlows(p)
        BY <1>4, <1>5 DEF OutFlows, Up, Messages
    <2> QED BY <1>1, <1>5, <2>1, OutKept DEF Inv
<1>7. \A i \in InboundIds : InFlows(i)
    <2> SUFFICES ASSUME NEW i \in InboundIds PROVE InFlows(i)
        OBVIOUS
    <2>1. r \in Up(Answers, i) => packet \in Down(Messages, i)
        BY <1>1, <1>2, <1>3, <1>4 DEF Up, Down, Messages
    <2>2. r \in Up({"PUBCOMP"}, i) => packet \in Down({"PUBREL"}, i)
        BY <1>1, <1>2, <1>3, <1>4 DEF Up, Down
    <2>3. r \notin Up({"PUBACK"}, i) /\ r \notin Up({"PUBREC"}, i)
        BY <1>4 DEF Up
    <2> QED BY <1>5, <2>1, <2>2, <2>3 DEF InFlows
<1>8. ASSUME NEW i \in InboundIds PROVE Incoming(i)'
    <2>1. /\ Incoming(i) /\ InFlows(i) /\ (Told(i) => Told(i)')
          /\ UNCHANGED <<session, toBroker>> /\ received' = received \ {a}
        BY <1>1, <1>3, <1>5, <1>7 DEF Inv, InInv
    <2>2. i \in received' => i \in received /\ i # a
        BY <2>1
    <2>3. i # a => Flows(Up({"PUBCOMP"}, i), {})
        BY <1>4, <1>5 DEF Up
    <2> QED BY <2>1, <2>2, <2>3 DEF Incoming, InFlows, Flows
<1>9. InInv'
    BY <1>1, <1>8 DEF Inv, InInv
<1> QED BY <1>5, <1>6, <1>9 DEF Inv

\* The answer is sent; it has not been forgotten what it answers.
LEMMA ReplySent == ASSUME Inv, SendReply PROVE Inv'
<1>1. /\ pc["receiver"] = "reply" /\ TrySend("receiver", reply) /\ reply' = None
      /\ \/ packet.type = "PUBLISH" /\ Go("receiver", "notify") /\ packet' = packet
         \/ packet.type # "PUBLISH" /\ Go("receiver", "loop") /\ packet' = None
      /\ UNCHANGED <<publishVars, session, inserted, leaked, reused, runVars,
                     qosVars, notified, acked>>
    BY DEF SendReply, NextRound, receiveFrame
<1>2. /\ pc' \in [Threads -> Places] /\ pc'["receiver"] \in {"notify", "loop"}
      /\ packet.type = "PUBLISH" => pc'["receiver"] = "notify" /\ packet' = packet
      /\ pc'["receiver"] = "notify" => packet.type = "PUBLISH" /\ packet' = packet
      /\ pc'["publisher"] = pc["publisher"] /\ pc'["owner"] = pc["owner"]
    BY <1>1, ReceiverAt DEF Places
<1>3. /\ toBroker' \in {toBroker, Append(toBroker, reply)}
      /\ UNCHANGED <<socket, broker, toClient>>
      /\ broker = "gone" => toBroker' = toBroker
      /\ holder' = "none"
    BY <1>1, Sends
<1>4. /\ packet \in ToClient /\ reply \in ToBroker
      /\ reply.type \in {"PUBACK", "PUBREC"} => packet.type = "PUBLISH" /\ packet.id = reply.id
    BY <1>1 DEF Inv, HandInv
<1>5. ControlTypes'
    BY <1>1, <1>2, <1>3 DEF Inv, ControlTypes, runVars
<1>6. LinkInv'
    <2>1. /\ toBroker' \in Seq(ToBroker) /\ toClient' \in Seq(ToClient)
          /\ broker' \in {"gone", "accepted"} /\ (broker' = "gone" => toBroker' = <<>>)
        BY <1>1, <1>3, <1>4 DEF Inv, LinkInv, EmptyHanded
    <2>2. pc'["owner"] \notin {"tcp", "connect", "connack"}
        BY <1>1, <1>2 DEF Inv, LinkInv
    <2> QED BY <2>1, <2>2 DEF LinkInv
<1>7. HandInv'
    <2>1. None \in Packets
        BY MqttClientAssumption DEF None, Packet, Packets, PacketTypes
    <2>2. packet' \in Packets /\ reply' \in Packets
        BY <1>1, <1>4, <2>1 DEF ToClient
    <2> QED BY <1>1, <1>2, <1>4, <2>2 DEF Inv, HandInv, publishVars
<1>8. \A U, D : Flows(U, D)
    BY <1>1, <1>2, <1>3, FlowReplied DEF Inv
<1>9. OutInv'
    <2>1. \A p \in PacketIds : /\ OutFlows(p)
                               /\ Sending(p)' => Sending(p)
                               /\ Inserting(p) => Inserting(p)'
        BY <1>1, <1>2, <1>8, AllFlow DEF Sending, Inserting, publishVars
    <2> QED BY <1>1, <2>1, OutKept DEF Inv, qosVars
<1>10. ASSUME NEW i \in InboundIds, Has(toBroker', Up({"PUBACK", "PUBREC"}, i))
       PROVE  Has(toBroker, Up({"PUBACK", "PUBREC"}, i)) \/ Told(i)'
    <2>1. \/ Has(toBroker, Up({"PUBACK", "PUBREC"}, i))
          \/ reply \in Up({"PUBACK", "PUBREC"}, i)
        <3>1. \A A : Has(Append(toBroker, reply), A) => Has(toBroker, A) \/ reply \in A
            <4>1. toBroker \in Seq(ToBroker)
                BY DEF Inv, LinkInv
            <4> QED BY <1>4, <4>1, HasAppended, Zenon
        <3> QED BY <1>3, <1>10, <3>1
    <2>2. CASE reply \in Up({"PUBACK", "PUBREC"}, i)
        <3>1. packet.type = "PUBLISH" /\ packet.id = i
            BY <1>4, <2>2 DEF Up
        <3> QED BY <1>2, <3>1 DEF Told
    <2> QED BY <2>1, <2>2
<1>11. ASSUME NEW i \in InboundIds PROVE Incoming(i)'
    <2>1. /\ Incoming(i) /\ InFlows(i) /\ Flows(Up({"PUBCOMP"}, i), {})
          /\ Told(i) => Told(i)'
          /\ UNCHANGED <<session, received>>
        BY <1>1, <1>8, AllFlow DEF Inv, InInv, Told, qosVars
    <2> QED BY <1>10, <2>1 DEF Incoming, InFlows, Flows
<1>12. InInv'
    BY <1>1, <1>11 DEF Inv, InInv, qosVars
<1> QED BY <1>5, <1>6, <1>7, <1>9, <1>12 DEF Inv

-----------------------------------------------------------------------------
(***************************************************************************)
(* The broker and the network: the threads stand still.                    *)
(***************************************************************************)

LEMMA ThreadsStill ==
    ASSUME Inv, UNCHANGED brokerFrame
    PROVE  /\ ControlTypes' /\ HandInv' /\ Onward /\ Calm
           /\ pc' = pc /\ packet' = packet
           /\ UNCHANGED <<qosVars, publishVars, handleVars, ghostVars>>
           /\ \A U, D : Busy(U, D)' <=> Busy(U, D)
           /\ \A p : (Sending(p)' <=> Sending(p)) /\ (Inserting(p)' <=> Inserting(p))
           /\ \A i : Told(i)' <=> Told(i)
<1>1. /\ pc' = pc /\ holder' = holder /\ socket' = socket
      /\ UNCHANGED <<qosVars, publishVars, handleVars, ghostVars, runVars>>
    BY DEF brokerFrame
<1>2. ControlTypes'
    BY <1>1 DEF Inv, ControlTypes, runVars
<1>3. HandInv'
    BY <1>1 DEF Inv, HandInv, publishVars, handleVars
<1>4. Onward /\ Calm
    BY <1>1 DEF Onward, Calm, Inv, ControlTypes, LinkInv, handleVars
<1>5. \A U, D : Busy(U, D)' <=> Busy(U, D)
    BY <1>1 DEF Busy, handleVars
<1>6. \A p : (Sending(p)' <=> Sending(p)) /\ (Inserting(p)' <=> Inserting(p))
    BY <1>1 DEF Sending, Inserting, publishVars
<1>7. \A i : Told(i)' <=> Told(i)
    BY <1>1 DEF Told, ghostVars, handleVars
<1> QED BY <1>1, <1>2, <1>3, <1>4, <1>5, <1>6, <1>7 DEF handleVars

LEMMA ConnectionEnds == ASSUME Inv, BrokerCloses \/ Break PROVE Inv'
<1>1. /\ UNCHANGED brokerFrame /\ session' = session
      /\ broker' = "gone" /\ toBroker' = <<>> /\ toClient' \in {toClient, <<>>}
    BY DEF BrokerCloses, Break, Gone
<1>3. /\ ControlTypes' /\ Onward /\ Calm
      /\ UNCHANGED <<qosVars, publishVars, handleVars, ghostVars>>
    BY <1>1, ThreadsStill
<1>4. \A U, D : Flows(U, D)
    BY <1>1, <1>3, FlowReset
<1>5. toBroker' \in Seq(ToBroker) /\ toClient' \in Seq(ToClient)
    <2>1. <<>> \in Seq(ToBroker) /\ <<>> \in Seq(ToClient)
        OBVIOUS
    <2> QED BY <1>1, <2>1 DEF Inv, LinkInv
<1> QED BY <1>1, <1>3, <1>4, <1>5, OnwardStep

\* The broker, having accepted, keeps the connection.
LEMMA LinkStays ==
    ASSUME Inv, UNCHANGED <<pc, broker>>, broker = "accepted",
           toBroker' \in Seq(ToBroker), toClient' \in Seq(ToClient)
    PROVE  LinkInv'
BY DEF Inv, LinkInv

\* It answers a packet about a message it is being sent, or a ping.
LEMMA BrokerReplies ==
    ASSUME Inv, UNCHANGED <<brokerFrame, broker, session>>,
           broker = "accepted", toBroker # <<>>, NEW y \in ToClient, y.type \notin Messages,
           \A p : /\ y \in Down(Answers, p) => Head(toBroker) \in Up(Messages, p)
                  /\ y \in Down({"PUBACK", "PUBREC"}, p)
                        => Head(toBroker) \in Up({"PUBLISH"}, p),
           toBroker' = Tail(toBroker), toClient' = Append(toClient, y)
    PROVE  Inv'
<1>2. /\ ControlTypes' /\ HandInv' /\ Calm /\ pc' = pc
      /\ UNCHANGED <<qosVars, publishVars, handleVars, ghostVars>>
      /\ \A p : (Sending(p)' <=> Sending(p)) /\ (Inserting(p)' <=> Inserting(p))
      /\ \A i : Told(i)' <=> Told(i)
    BY ThreadsStill
<1>3. toBroker' \in Seq(ToBroker) /\ toClient' \in Seq(ToClient)
    <2>1. toBroker \in Seq(ToBroker) /\ toClient \in Seq(ToClient)
        BY DEF Inv, LinkInv
    <2>2. Tail(toBroker) \in Seq(ToBroker) /\ Append(toClient, y) \in Seq(ToClient)
        BY <2>1
    <2> QED BY <2>2
<1>4. LinkInv'
    BY <1>2, <1>3, LinkStays
<1>5. \A U, D : (y \in D => Head(toBroker) \in U) => Flows(U, D)
    BY <1>2, FlowBroker DEF Inv
<1>6. OutInv'
    <2>1. \A p \in PacketIds : OutFlows(p)
        BY <1>5 DEF OutFlows
    <2> QED BY <1>2, <2>1, OutKept DEF Inv, qosVars, publishVars, ghostVars
<1>7. InInv'
    <2>1. \A i : y \notin Down(Messages, i) /\ y \notin Down({"PUBREL"}, i)
        BY DEF Down, Messages
    <2>2. \A i, q : y \notin Published(q, i)
        BY DEF Published, Down, Messages
    <2>3. \A i : /\ InFlows(i)
                 /\ Flows(Up({"PUBCOMP"}, i), {}) /\ Flows(Up({"PUBACK", "PUBREC"}, i), {})
        BY <1>5, <2>1, <2>2 DEF InFlows
    <2> QED BY <1>2, <2>3, InKept DEF Inv, qosVars, ghostVars
<1> QED BY <1>2, <1>4, <1>6, <1>7 DEF Inv

\* What the broker finds at the head.
LEMMA HeadSent ==
    ASSUME Inv, toBroker # <<>>
    PROVE  /\ Head(toBroker) \in ToBroker
           /\ \A U : Head(toBroker) \in U => Has(toBroker, U)
           /\ \A U : AtMostOne(toBroker, U) /\ Head(toBroker) \in U
                        => ~ Has(Tail(toBroker), U)
BY HasRest DEF Inv, LinkInv

LEMMA BrokerAnswersPublish == ASSUME Inv, BrokerTakesPublish PROVE Inv'
<1>0. PICK ty \in {"PUBACK", "PUBREC"} : BrokerAnswers("PUBLISH", ty) /\ session' = session
    BY DEF BrokerTakesPublish
<1>1. PICK h :
         /\ h = Head(toBroker) /\ h.type = "PUBLISH"
         /\ broker = "accepted" /\ toBroker # <<>>
         /\ toBroker' = Tail(toBroker)
         /\ toClient' = Append(toClient, Packet(ty, h.id, 0))
         /\ UNCHANGED <<brokerFrame, broker, session>>
    BY <1>0 DEF BrokerAnswers
<1>2. h \in ToBroker /\ h.id \in PacketIds
    BY <1>1, HeadSent DEF ToBroker, Messages
<1>3. PICK y : y = Packet(ty, h.id, 0)
    OBVIOUS
<1>4. y \in ToClient /\ y.type = ty /\ y.id = h.id
    <2>1. h.id \in 0 .. MaxPacketId
        BY <1>2, MqttClientAssumption DEF PacketIds
    <2> QED BY <1>2, <1>3, <2>1 DEF Packet, ToClient, Packets, PacketTypes, Messages, Answers
<1>5. \A p : /\ y \in Down(Answers, p) => h \in Up(Messages, p)
             /\ y \in Down({"PUBACK", "PUBREC"}, p) => h \in Up({"PUBLISH"}, p)
    BY <1>1, <1>2, <1>4 DEF Up, Down, Messages
<1>6. y.type \notin Messages
    BY <1>4 DEF Messages
<1> QED BY <1>1, <1>3, <1>4, <1>5, <1>6, BrokerReplies

LEMMA BrokerAnswersPubRel == ASSUME Inv, BrokerTakesPubRel PROVE Inv'
<1>1. PICK h :
         /\ h = Head(toBroker) /\ h.type = "PUBREL"
         /\ broker = "accepted" /\ toBroker # <<>>
         /\ toBroker' = Tail(toBroker)
         /\ toClient' = Append(toClient, Packet("PUBCOMP", h.id, 0))
         /\ UNCHANGED <<brokerFrame, broker, session>>
    BY DEF BrokerTakesPubRel, BrokerAnswers
<1>2. h \in ToBroker /\ h.id \in PacketIds
    BY <1>1, HeadSent DEF ToBroker, Messages
<1>3. PICK y : y = Packet("PUBCOMP", h.id, 0)
    OBVIOUS
<1>4. y \in ToClient /\ y.type = "PUBCOMP" /\ y.id = h.id
    <2>1. h.id \in 0 .. MaxPacketId
        BY <1>2, MqttClientAssumption DEF PacketIds
    <2> QED BY <1>2, <1>3, <2>1 DEF Packet, ToClient, Packets, PacketTypes, Messages, Answers
<1>5. \A p : /\ y \in Down(Answers, p) => h \in Up(Messages, p)
             /\ y \notin Down({"PUBACK", "PUBREC"}, p)
    BY <1>1, <1>2, <1>4 DEF Up, Down, Messages
<1>6. y.type \notin Messages
    BY <1>4 DEF Messages
<1> QED BY <1>1, <1>3, <1>4, <1>5, <1>6, BrokerReplies

LEMMA BrokerAnswersPing == ASSUME Inv, BrokerTakesPing PROVE Inv'
<1>1. PICK h :
         /\ h = Head(toBroker)
         /\ broker = "accepted" /\ toBroker # <<>>
         /\ toBroker' = Tail(toBroker)
         /\ toClient' = Append(toClient, Packet("PINGRESP", h.id, 0))
         /\ UNCHANGED <<brokerFrame, broker, session>>
    BY DEF BrokerTakesPing, BrokerAnswers
<1>2. h \in ToBroker
    BY <1>1, HeadSent
<1>3. PICK y : y = Packet("PINGRESP", h.id, 0)
    OBVIOUS
<1>4. y \in ToClient /\ y.type = "PINGRESP"
    BY <1>2, <1>3 DEF Packet, ToBroker, ToClient, Packets, PacketTypes, Messages, Answers
<1>5. y.type \notin Messages /\ \A p : y \notin Down(Answers, p) /\ y \notin Down({"PUBACK", "PUBREC"}, p)
    BY <1>4 DEF Messages, Answers, Down
<1> QED BY <1>1, <1>3, <1>4, <1>5, BrokerReplies

\* The packets about a message from the broker are of three kinds each way.
LEMMA InKinds ==
    /\ \A i : Up(Answers, i) = Up({"PUBACK"}, i) \cup Up({"PUBREC"}, i) \cup Up({"PUBCOMP"}, i)
    /\ \A i : Down(Messages, i) = Published(1, i) \cup Published(2, i) \cup Down({"PUBREL"}, i)
<1>1. \A x \in ToClient : x.type = "PUBLISH" => x.qos = 1 \/ x.qos = 2
    BY DEF ToClient
<1> QED BY <1>1 DEF Up, Down, Published, Messages, Answers

\* Nothing is under way about a message that the broker does not wait for.
LEMMA NothingUnderWay ==
    ASSUME Inv, NEW i \in InboundIds, session[i] \notin {"sent1", "sent2", "rel"}
    PROVE  /\ ~ Has(toBroker, Up(Answers, i)) /\ ~ Has(toClient, Down(Messages, i))
           /\ ~ Busy(Up(Answers, i), Down(Messages, i))
<1>1. Incoming(i)
    BY DEF Inv, InInv
<1>2. /\ ~ Somewhere(Up({"PUBACK"}, i), Published(1, i))
      /\ ~ Somewhere(Up({"PUBREC"}, i), Published(2, i))
      /\ ~ Somewhere(Up({"PUBCOMP"}, i), Down({"PUBREL"}, i))
    BY <1>1 DEF Incoming
<1> QED BY <1>2, InKinds DEF Somewhere, Has, Busy

\* The answer at the head is the only packet about its message.
LEMMA HeadAlone ==
    ASSUME Inv, toBroker # <<>>, NEW i \in InboundIds, Head(toBroker) \in Up(Answers, i)
    PROVE  /\ ~ Has(Tail(toBroker), Up(Answers, i)) /\ ~ Has(toClient, Down(Messages, i))
           /\ ~ Busy(Up(Answers, i), Down(Messages, i))
<1>1. Incoming(i)
    BY DEF Inv, InInv
<1> QED BY <1>1, HeadSent DEF Incoming, OneOf

\* What it tells of the broker's side.
LEMMA HeadStage ==
    ASSUME Inv, toBroker # <<>>, NEW i \in InboundIds, Head(toBroker) \in Up(Answers, i)
    PROVE  /\ Head(toBroker).type = "PUBACK" => session[i] = "sent1"
           /\ Head(toBroker).type = "PUBREC" => session[i] = "sent2"
           /\ Head(toBroker).type = "PUBCOMP" => session[i] = "rel" /\ i \notin received
           /\ Told(i)
<1>1. Incoming(i)
    BY DEF Inv, InInv
<1>2. \A type \in Answers : Head(toBroker).type = type => Has(toBroker, Up({type}, i))
    BY HeadSent DEF Up
<1>3. Head(toBroker).type = "PUBACK" => session[i] = "sent1"
    BY <1>1, <1>2 DEF Incoming, Somewhere, Answers
<1>4. Head(toBroker).type = "PUBREC" => session[i] = "sent2"
    BY <1>1, <1>2 DEF Incoming, Somewhere, Answers
<1>5. Head(toBroker).type = "PUBCOMP" => session[i] = "rel" /\ i \notin received
    BY <1>1, <1>2 DEF Incoming, Somewhere, Answers
<1>6. Head(toBroker).type \in {"PUBACK", "PUBREC"} => Has(toBroker, Up({"PUBACK", "PUBREC"}, i))
    BY HeadSent DEF Up
<1>7. Head(toBroker).type \in Answers
    BY DEF Up
<1> QED BY <1>1, <1>3, <1>4, <1>5, <1>6, <1>7 DEF Incoming, Answers

\* A message of which nothing is under way after the step.
LEMMA QuietIncoming ==
    ASSUME NEW i \in InboundIds,
           ~ Has(toBroker', Up(Answers, i)), ~ Has(toClient', Down(Messages, i)),
           ~ Busy(Up(Answers, i), Down(Messages, i))',
           i \in received' => session'[i] \in {"sent2", "rel", "dropped"},
           session'[i] \in {"rel", "done"} => Told(i)'
    PROVE  Incoming(i)'
<1>1. OneOf(Up(Answers, i), Down(Messages, i))'
    BY DEF OneOf, AtMostOne, Has
<1>2. ~ Somewhere(Up(Answers, i), Down(Messages, i))'
    BY DEF Somewhere
<1>3. /\ ~ Somewhere(Up({"PUBACK"}, i), Published(1, i))'
      /\ ~ Somewhere(Up({"PUBREC"}, i), Published(2, i))'
      /\ ~ Somewhere(Up({"PUBCOMP"}, i), Down({"PUBREL"}, i))'
      /\ ~ Somewhere(Up({"PUBCOMP"}, i), {})'
    <2>1. \A V \in SUBSET Up(Answers, i), E \in SUBSET Down(Messages, i) : ~ Somewhere(V, E)'
        BY <1>2, Within
    <2>2. /\ Up({"PUBACK"}, i) \in SUBSET Up(Answers, i)
          /\ Up({"PUBREC"}, i) \in SUBSET Up(Answers, i)
          /\ Up({"PUBCOMP"}, i) \in SUBSET Up(Answers, i)
        BY InKinds
    <2>3. /\ Published(1, i) \in SUBSET Down(Messages, i)
          /\ Published(2, i) \in SUBSET Down(Messages, i)
          /\ Down({"PUBREL"}, i) \in SUBSET Down(Messages, i)
          /\ {} \in SUBSET Down(Messages, i)
        BY InKinds
    <2> QED BY <2>1, <2>2, <2>3
<1>4. ~ Has(toBroker', Up({"PUBACK", "PUBREC"}, i))
    <2>1. Up({"PUBACK", "PUBREC"}, i) \subseteq Up(Answers, i)
        BY DEF Up, Answers
    <2> QED BY <2>1 DEF Has
<1> QED BY <1>1, <1>3, <1>4 DEF Incoming

\* A message the step does not touch.
LEMMA OthersIncoming ==
    ASSUME Inv, NEW i \in InboundIds, InFlows(i), Flows(Up({"PUBCOMP"}, i), {}),
           Flows(Up({"PUBACK", "PUBREC"}, i), {}),
           session'[i] = session[i], received' = received, Told(i) => Told(i)',
           pc["receiver"] # "reply" \/ pc'["receiver"] = "reply"
    PROVE  Incoming(i)'
<1>1. Incoming(i)
    BY DEF Inv, InInv
<1> QED BY <1>1 DEF Incoming, InFlows, Flows

LEMMA BrokerTakesLastAnswer == ASSUME Inv, BrokerTakesLast PROVE Inv'
<1>1. PICK h, a :
         /\ h = Head(toBroker) /\ a = h.id /\ h.type \in {"PUBACK", "PUBCOMP"}
         /\ broker = "accepted" /\ toBroker # <<>>
    BY DEF BrokerTakesLast
<1>2. /\ toBroker' = Tail(toBroker)
      /\ session' = [session EXCEPT ![a] = IF @ \in {"sent1", "rel"} THEN "done" ELSE @]
      /\ UNCHANGED <<brokerFrame, broker, toClient>>
    BY <1>1 DEF BrokerTakesLast
<1>3. a \in InboundIds /\ h \in Up(Answers, a)
    BY <1>1, HeadSent DEF ToBroker, Answers, Up
<1>4. /\ ControlTypes' /\ HandInv' /\ Calm /\ pc' = pc
      /\ UNCHANGED <<qosVars, publishVars, handleVars, ghostVars>>
      /\ \A U, D : Busy(U, D)' <=> Busy(U, D)
      /\ \A p : (Sending(p)' <=> Sending(p)) /\ (Inserting(p)' <=> Inserting(p))
      /\ \A i : Told(i)' <=> Told(i)
    BY <1>2, ThreadsStill
<1>5. toBroker' \in Seq(ToBroker) /\ toClient' \in Seq(ToClient)
    BY <1>1, <1>2, HasRest DEF Inv, LinkInv
<1>6. LinkInv'
    BY <1>1, <1>2, <1>4, <1>5, LinkStays
<1>7. \A U, D : Flows(U, D)
    BY <1>1, <1>2, <1>4, FlowLast DEF Inv
<1>8. OutInv'
    BY <1>4, <1>7, AllFlow, OutKept DEF Inv, qosVars, publishVars, ghostVars
<1>9. session[a] \in {"sent1", "rel"} /\ a \notin received /\ Told(a)
    <2>1. /\ h.type = "PUBACK" => session[a] = "sent1"
          /\ h.type = "PUBCOMP" => session[a] = "rel" /\ a \notin received
          /\ Told(a)
        BY <1>1, <1>3, HeadStage
    <2> QED BY <1>1, <2>1 DEF Inv, InInv, Incoming
<1>10. session \in [InboundIds -> {"none", "sent1", "sent2", "rel", "done", "dropped"}]
    BY DEF Inv, InInv
<1>11. /\ session' \in [InboundIds -> {"none", "sent1", "sent2", "rel", "done", "dropped"}]
       /\ session'[a] = "done"
       /\ \A i \in InboundIds \ {a} : session'[i] = session[i]
    BY <1>2, <1>3, <1>9, <1>10
<1>12. Incoming(a)'
    <2>1. /\ ~ Has(toBroker', Up(Answers, a)) /\ ~ Has(toClient', Down(Messages, a))
          /\ ~ Busy(Up(Answers, a), Down(Messages, a))'
        BY <1>1, <1>2, <1>3, <1>4, HeadAlone
    <2> QED BY <1>3, <1>4, <1>9, <1>11, <2>1, QuietIncoming DEF qosVars
<1>13. ASSUME NEW i \in InboundIds PROVE Incoming(i)'
    <2>1. CASE i = a
        BY <1>12, <2>1
    <2>2. CASE i # a
        BY <1>4, <1>7, <1>11, <2>2, AllFlow, OthersIncoming DEF qosVars
    <2> QED BY <2>1, <2>2
<1>14. InInv'
    BY <1>4, <1>11, <1>13 DEF Inv, InInv, qosVars, ghostVars
<1> QED BY <1>4, <1>6, <1>8, <1>14 DEF Inv

LEMMA BrokerAnswersPubRec == ASSUME Inv, BrokerTakesPubRec PROVE Inv'
<1>1. PICK h, a :
         /\ h = Head(toBroker) /\ a = h.id /\ h.type = "PUBREC"
         /\ broker = "accepted" /\ toBroker # <<>>
    BY DEF BrokerTakesPubRec, BrokerAnswers
<1>2. /\ toBroker' = Tail(toBroker)
      /\ toClient' = Append(toClient, Packet("PUBREL", a, 0))
      /\ session' = [session EXCEPT ![a] = IF @ = "sent2" THEN "rel" ELSE @]
      /\ UNCHANGED <<brokerFrame, broker>>
    BY <1>1 DEF BrokerTakesPubRec, BrokerAnswers
<1>3. a \in InboundIds /\ h \in Up(Answers, a)
    BY <1>1, HeadSent DEF ToBroker, Answers, Up
<1>4. PICK y : y = Packet("PUBREL", a, 0)
    OBVIOUS
<1>5. y \in ToClient /\ y.type = "PUBREL" /\ y.id = a
    BY <1>3, <1>4 DEF Packet, ToClient, Packets, PacketTypes, Messages, Answers
<1>6. /\ ControlTypes' /\ HandInv' /\ Calm /\ pc' = pc
      /\ UNCHANGED <<qosVars, publishVars, handleVars, ghostVars>>
      /\ \A U, D : Busy(U, D)' <=> Busy(U, D)
      /\ \A p : (Sending(p)' <=> Sending(p)) /\ (Inserting(p)' <=> Inserting(p))
      /\ \A i : Told(i)' <=> Told(i)
    BY <1>2, ThreadsStill
<1>7. toBroker \in Seq(ToBroker) /\ toClient \in Seq(ToClient)
    BY DEF Inv, LinkInv
<1>8. LinkInv'
    <2>1. Tail(toBroker) \in Seq(ToBroker) /\ Append(toClient, y) \in Seq(ToClient)
        BY <1>1, <1>5, <1>7
    <2>2. toBroker' \in Seq(ToBroker) /\ toClient' \in Seq(ToClient)
        BY <1>2, <1>4, <2>1
    <2> QED BY <1>1, <1>2, <1>6, <2>2, LinkStays
<1>9. \A U, D : (y \in D => h \in U) => Flows(U, D)
    BY <1>1, <1>2, <1>4, <1>5, <1>6, FlowBroker DEF Inv
<1>10. OutInv'
    <2>1. \A p : y \notin Down(Answers, p) /\ y \notin Down({"PUBACK", "PUBREC"}, p)
        BY <1>5 DEF Down, Answers
    <2>2. \A p \in PacketIds : OutFlows(p)
        BY <1>9, <2>1 DEF OutFlows
    <2> QED BY <1>6, <2>2, OutKept DEF Inv, qosVars, publishVars, ghostVars
<1>11. session[a] = "sent2" /\ Told(a)
    BY <1>1, <1>3, HeadStage
<1>12. session \in [InboundIds -> {"none", "sent1", "sent2", "rel", "done", "dropped"}]
    BY DEF Inv, InInv
<1>13. /\ session' \in [InboundIds -> {"none", "sent1", "sent2", "rel", "done", "dropped"}]
       /\ session'[a] = "rel"
       /\ \A i \in InboundIds \ {a} : session'[i] = session[i]
    BY <1>2, <1>3, <1>11, <1>12
<1>14. \A i : /\ y \notin Published(1, i) /\ y \notin Published(2, i)
              /\ y \in Down(Messages, i) => i = a
              /\ y \in Down({"PUBREL"}, i) => i = a
    BY <1>5 DEF Published, Down
<1>15. Incoming(a)'
    <2>1. /\ ~ Has(toBroker', Up(Answers, a)) /\ ~ Has(toClient, Down(Messages, a))
          /\ ~ Busy(Up(Answers, a), Down(Messages, a))'
        BY <1>1, <1>2, <1>3, <1>6, HeadAlone
    <2>2. OneOf(Up(Answers, a), Down(Messages, a))'
        <3>1. OneOf(Up(Answers, a), Down(Messages, a))
            BY <1>3 DEF Inv, InInv, Incoming
        <3> QED BY <1>3, <1>9, <3>1 DEF Flows
    <2>3. \A U \in SUBSET Up(Answers, a), D \in SUBSET Down(Messages, a) :
             y \notin D => ~ Somewhere(U, D)'
        <3> SUFFICES ASSUME NEW U \in SUBSET Up(Answers, a), NEW D \in SUBSET Down(Messages, a),
                            y \notin D
                     PROVE  ~ Somewhere(U, D)'
            OBVIOUS
        <3>1. ~ Has(toBroker', U) /\ ~ Has(toClient, D) /\ ~ Busy(U, D)'
            BY <2>1 DEF Has, Busy
        <3>2. Has(Append(toClient, y), D) => Has(toClient, D)
            BY <1>5, <1>7, HasAppended, Zenon
        <3>3. ~ Has(toClient', D)
            BY <1>2, <1>4, <3>1, <3>2
        <3> QED BY <3>1, <3>3 DEF Somewhere
    <2>4. /\ Up({"PUBACK"}, a) \in SUBSET Up(Answers, a)
          /\ Up({"PUBREC"}, a) \in SUBSET Up(Answers, a)
          /\ Up({"PUBCOMP"}, a) \in SUBSET Up(Answers, a)
          /\ Published(1, a) \in SUBSET Down(Messages, a)
          /\ Published(2, a) \in SUBSET Down(Messages, a)
          /\ {} \in SUBSET Down(Messages, a)
        BY InKinds
    <2>5. /\ ~ Somewhere(Up({"PUBACK"}, a), Published(1, a))'
          /\ ~ Somewhere(Up({"PUBREC"}, a), Published(2, a))'
          /\ ~ Somewhere(Up({"PUBCOMP"}, a), {})'
        BY <1>14, <2>3, <2>4
    <2>6. Told(a)'
        BY <1>6, <1>11
    <2> QED BY <1>13, <2>2, <2>5, <2>6 DEF Incoming
<1>16. ASSUME NEW i \in InboundIds PROVE Incoming(i)'
    <2>1. CASE i = a
        BY <1>15, <2>1
    <2>2. CASE i # a
        <3>1. InFlows(i)
            BY <1>9, <1>14, <2>2 DEF InFlows
        <3>2. Flows(Up({"PUBCOMP"}, i), {}) /\ Flows(Up({"PUBACK", "PUBREC"}, i), {})
            BY <1>9
        <3> QED BY <1>6, <1>13, <2>2, <3>1, <3>2, OthersIncoming DEF qosVars
    <2> QED BY <2>1, <2>2
<1>17. InInv'
    BY <1>6, <1>13, <1>16 DEF Inv, InInv, qosVars, ghostVars
<1> QED BY <1>6, <1>8, <1>10, <1>17 DEF Inv

\* The broker gives the client a packet that is of no such kind.
LEMMA FlowGiven ==
    ASSUME LinkInv, Calm, NEW U, NEW D, NEW y \in ToClient, y \notin D,
           toClient' = Append(toClient, y), toBroker' = toBroker
    PROVE  Flows(U, D)
<1>1. /\ Has(Append(toClient, y), D) <=> Has(toClient, D) \/ y \in D
      /\ AtMostOne(toClient, D) /\ (y \notin D \/ ~ Has(toClient, D))
            => AtMostOne(Append(toClient, y), D)
    <2>1. toClient \in Seq(ToClient)
        BY DEF LinkInv
    <2> QED BY <2>1, HasAppended, Zenon
<1> QED BY <1>1, CalmBusy, Fewer

LEMMA BrokerPublishes ==
    ASSUME Inv, NEW a \in InboundIds, NEW q \in QoS, BrokerPublish(a, q) PROVE Inv'
<1>1. /\ broker = "accepted" /\ session[a] = "none"
      /\ session' = [session EXCEPT ![a] = IF q = 1 THEN "sent1" ELSE "sent2"]
      /\ toClient' = Append(toClient, Packet("PUBLISH", a, q))
      /\ UNCHANGED <<brokerFrame, broker, toBroker>>
    BY DEF BrokerPublish
<1>2. q \in {1, 2}
    BY MqttClientAssumption
<1>3. PICK y : y = Packet("PUBLISH", a, q)
    OBVIOUS
<1>4. y \in ToClient /\ y.type = "PUBLISH" /\ y.id = a /\ y.qos = q
    BY <1>2, <1>3 DEF Packet, ToClient, Packets, PacketTypes, Messages, Answers
<1>5. /\ ControlTypes' /\ HandInv' /\ Calm /\ pc' = pc
      /\ UNCHANGED <<qosVars, publishVars, handleVars, ghostVars>>
      /\ \A U, D : Busy(U, D)' <=> Busy(U, D)
      /\ \A p : (Sending(p)' <=> Sending(p)) /\ (Inserting(p)' <=> Inserting(p))
      /\ \A i : Told(i)' <=> Told(i)
    BY <1>1, ThreadsStill
<1>6. toBroker \in Seq(ToBroker) /\ toClient \in Seq(ToClient)
    BY DEF Inv, LinkInv
<1>7. LinkInv'
    <2>1. Append(toClient, y) \in Seq(ToClient)
        BY <1>4, <1>6
    <2>2. toBroker' \in Seq(ToBroker) /\ toClient' \in Seq(ToClient)
        BY <1>1, <1>3, <1>6, <2>1
    <2> QED BY <1>1, <1>5, <2>2, LinkStays
<1>8. \A U, D : y \notin D => Flows(U, D)
    BY <1>1, <1>3, <1>4, <1>5, FlowGiven DEF Inv
<1>9. OutInv'
    <2>1. \A p : y \notin Down(Answers, p) /\ y \notin Down({"PUBACK", "PUBREC"}, p)
        BY <1>4 DEF Down, Answers
    <2>2. \A p \in PacketIds : OutFlows(p)
        BY <1>8, <2>1 DEF OutFlows
    <2> QED BY <1>5, <2>2, OutKept DEF Inv, qosVars, publishVars, ghostVars
<1>10. session \in [InboundIds -> {"none", "sent1", "sent2", "rel", "done", "dropped"}]
    BY DEF Inv, InInv
<1>11. /\ session' \in [InboundIds -> {"none", "sent1", "sent2", "rel", "done", "dropped"}]
       /\ session'[a] = IF q = 1 THEN "sent1" ELSE "sent2"
       /\ \A i \in InboundIds \ {a} : session'[i] = session[i]
    BY <1>1, <1>10
<1>12. /\ ~ Has(toBroker', Up(Answers, a)) /\ ~ Has(toClient, Down(Messages, a))
       /\ ~ Busy(Up(Answers, a), Down(Messages, a))'
    BY <1>1, <1>5, NothingUnderWay
<1>13. Incoming(a)'
    <2>1. AtMostOne(toClient', Down(Messages, a))
        <3>1. AtMostOne(toClient, Down(Messages, a))
            BY DEF Inv, InInv, Incoming, OneOf
        <3>2. \A A : AtMostOne(toClient, A) /\ ~ Has(toClient, A)
                        => AtMostOne(Append(toClient, y), A)
            BY <1>4, <1>6, HasAppended, Zenon
        <3> QED BY <1>1, <1>3, <1>12, <3>1, <3>2
    <2>2. OneOf(Up(Answers, a), Down(Messages, a))'
        BY <1>12, <2>1 DEF OneOf, AtMostOne, Has
    <2>3. \A U \in SUBSET Up(Answers, a), D \in SUBSET Down(Messages, a) :
             y \notin D => ~ Somewhere(U, D)'
        <3> SUFFICES ASSUME NEW U \in SUBSET Up(Answers, a), NEW D \in SUBSET Down(Messages, a),
                            y \notin D
                     PROVE  ~ Somewhere(U, D)'
            OBVIOUS
        <3>1. ~ Has(toBroker', U) /\ ~ Has(toClient, D) /\ ~ Busy(U, D)'
            BY <1>12 DEF Has, Busy
        <3>2. Has(Append(toClient, y), D) => Has(toClient, D)
            BY <1>4, <1>6, HasAppended, Zenon
        <3>3. ~ Has(toClient', D)
            BY <1>1, <1>3, <3>1, <3>2
        <3> QED BY <3>1, <3>3 DEF Somewhere
    <2>4. /\ Up({"PUBACK"}, a) \in SUBSET Up(Answers, a)
          /\ Up({"PUBREC"}, a) \in SUBSET Up(Answers, a)
          /\ Up({"PUBCOMP"}, a) \in SUBSET Up(Answers, a)
          /\ Published(1, a) \in SUBSET Down(Messages, a)
          /\ Published(2, a) \in SUBSET Down(Messages, a)
          /\ Down({"PUBREL"}, a) \in SUBSET Down(Messages, a)
          /\ {} \in SUBSET Down(Messages, a)
        BY InKinds
    <2>5. /\ y \in Published(1, a) => q = 1
          /\ y \in Published(2, a) => q = 2
          /\ y \notin Down({"PUBREL"}, a)
        BY <1>4 DEF Published, Down
    <2>6. /\ Somewhere(Up({"PUBACK"}, a), Published(1, a))' => q = 1
          /\ Somewhere(Up({"PUBREC"}, a), Published(2, a))' => q = 2
          /\ ~ Somewhere(Up({"PUBCOMP"}, a), Down({"PUBREL"}, a))'
          /\ ~ Somewhere(Up({"PUBCOMP"}, a), {})'
        BY <2>3, <2>4, <2>5
    <2>7. ~ Has(toBroker', Up({"PUBACK", "PUBREC"}, a))
        <3>1. Up({"PUBACK", "PUBREC"}, a) \subseteq Up(Answers, a)
            BY DEF Up, Answers
        <3> QED BY <1>12, <3>1 DEF Has
    <2>8. a \notin received'
        BY <1>1, <1>5 DEF Inv, InInv, Incoming, qosVars
    <2>9. /\ q = 1 => session'[a] = "sent1"
          /\ q = 2 => session'[a] = "sent2"
          /\ session'[a] \notin {"rel", "done"}
        BY <1>2, <1>11
    <2> QED BY <2>2, <2>6, <2>7, <2>8, <2>9 DEF Incoming
<1>14. ASSUME NEW i \in InboundIds PROVE Incoming(i)'
    <2>1. CASE i = a
        BY <1>13, <2>1
    <2>2. CASE i # a
        <3>1. y \notin Published(1, i) /\ y \notin Published(2, i) /\ y \notin Down(Messages, i)
              /\ y \notin Down({"PUBREL"}, i)
            BY <1>4, <2>2 DEF Published, Down
        <3>2. InFlows(i)
            BY <1>8, <3>1 DEF InFlows
        <3>3. Flows(Up({"PUBCOMP"}, i), {}) /\ Flows(Up({"PUBACK", "PUBREC"}, i), {})
            BY <1>8
        <3> QED BY <1>5, <1>11, <2>2, <3>2, <3>3, OthersIncoming DEF qosVars
    <2> QED BY <2>1, <2>2
<1>15. InInv'
    BY <1>5, <1>11, <1>14 DEF Inv, InInv, qosVars, ghostVars
<1> QED BY <1>5, <1>7, <1>9, <1>15 DEF Inv

LEMMA BrokerRefuses ==
    ASSUME Inv, BrokerConnect, broker' = "gone" PROVE Inv'
<1>1. /\ UNCHANGED brokerFrame /\ session' = session
      /\ toBroker' = <<>>
      /\ toClient' = Append(toClient, Packet("REFUSED", 0, 0))
    BY DEF BrokerConnect, Gone
<1>2. PICK y \in ToClient : y = Packet("REFUSED", 0, 0) /\ y.type = "REFUSED"
    BY Plain
<1>3. /\ ControlTypes' /\ Onward /\ Calm
      /\ UNCHANGED <<qosVars, publishVars, handleVars, ghostVars>>
    BY <1>1, ThreadsStill
<1>4. toClient \in Seq(ToClient)
    BY DEF Inv, LinkInv
<1>5. \A U, D : Conversation(U, D) => Flows(U, D)
    <2> SUFFICES ASSUME NEW U, NEW D, Conversation(U, D) PROVE Flows(U, D)
        OBVIOUS
    <2>1. y \notin D
        BY <1>2 DEF Conversation, Messages, Answers
    <2>2. /\ \A A : Has(Append(toClient, y), A) => Has(toClient, A) \/ y \in A
          /\ \A A : AtMostOne(toClient, A) /\ y \notin A => AtMostOne(Append(toClient, y), A)
        BY <1>4, HasAppended, Zenon
    <2>3. /\ Has(toClient', D) => Has(toClient, D)
          /\ AtMostOne(toClient, D) => AtMostOne(toClient', D)
        BY <1>1, <1>2, <2>1, <2>2
    <2>4. ~ Has(toBroker', U) /\ AtMostOne(toBroker', U)
        BY <1>1, HasNothing
    <2> QED BY <1>3, <2>3, <2>4, CalmBusy, Fewer
<1>6. toBroker' \in Seq(ToBroker) /\ toClient' \in Seq(ToClient)
    <2>1. <<>> \in Seq(ToBroker) /\ Append(toClient, y) \in Seq(ToClient)
        BY <1>2, <1>4
    <2> QED BY <1>1, <1>2, <2>1
<1> QED BY <1>1, <1>3, <1>5, <1>6, OnwardStep

LEMMA BrokerAccepts ==
    ASSUME Inv, BrokerConnect, broker' # "gone" PROVE Inv'
<1>1. /\ broker = "new" /\ toBroker # <<>>
      /\ broker' = "accepted" /\ toBroker' = Tail(toBroker)
      /\ session' = [i \in InboundIds |-> IF Unanswered(i) THEN "dropped" ELSE session[i]]
      /\ toClient' = Append(toClient, Packet("CONNACK", 0, 0))
      /\ UNCHANGED brokerFrame
    BY DEF BrokerConnect, Gone
<1>2. PICK c \in ToClient : c = Packet("CONNACK", 0, 0) /\ c.type = "CONNACK"
    BY Plain
<1>3. /\ toClient = <<>> /\ pc["receiver"] \in EmptyHanded
      /\ \A i \in InboundIds : ~ Has(toBroker, Up(Answers, i))
      /\ toBroker \in Seq(ToBroker) /\ toClient \in Seq(ToClient)
    BY <1>1 DEF Inv, LinkInv
<1>4. /\ ControlTypes' /\ HandInv' /\ Calm /\ pc' = pc
      /\ UNCHANGED <<qosVars, publishVars, handleVars, ghostVars>>
      /\ \A U, D : Busy(U, D)' <=> Busy(U, D)
      /\ \A p : (Sending(p)' <=> Sending(p)) /\ (Inserting(p)' <=> Inserting(p))
      /\ \A i : Told(i)' <=> Told(i)
    BY <1>1, ThreadsStill
<1>5. toBroker' \in Seq(ToBroker) /\ toClient' \in Seq(ToClient)
    <2>1. Tail(toBroker) \in Seq(ToBroker) /\ Append(toClient, c) \in Seq(ToClient)
        BY <1>1, <1>2, <1>3
    <2> QED BY <1>1, <1>2, <2>1
<1>6. \A D : c \notin D => ~ Has(toClient', D)
    <2>1. c \in ToClient /\ toClient \in Seq(ToClient)
        BY <1>2, <1>3
    <2>2. \A D : Has(Append(toClient, c), D) => Has(toClient, D) \/ c \in D
        BY <2>1, HasAppended, Zenon
    <2>3. toClient = <<>> /\ toClient' = Append(toClient, c)
        BY <1>1, <1>2, <1>3
    <2> QED BY <2>2, <2>3, HasNothing
<1>7. \A i : /\ c \notin Down(Answers, i) /\ c \notin Down({"PUBACK", "PUBREC"}, i)
             /\ c \notin Down(Messages, i)
    BY <1>2 DEF Down, Messages, Answers
<1>8. LinkInv'
    <2>1. pc["owner"] \in {"tcp", "connect", "connack"} => pc["receiver"] = "off"
        BY DEF Inv, LinkInv
    <2> QED BY <1>1, <1>4, <1>5, <2>1 DEF LinkInv
<1>9. OutInv'
    <2>1. \A U : /\ Has(toBroker', U) => Has(toBroker, U)
                 /\ AtMostOne(toBroker, U) => AtMostOne(toBroker', U)
        BY <1>1, <1>3, HasRest, Zenon
    <2>2. \A D : ~ Has(toClient', D) => AtMostOne(toClient', D)
        BY DEF Has, AtMostOne
    <2>3. ASSUME NEW U, NEW D, c \notin D PROVE Flows(U, D)
        <3>1. ~ Has(toClient', D) /\ AtMostOne(toClient', D)
            BY <1>6, <2>2, <2>3, Zenon
        <3> QED BY <1>4, <2>1, <3>1, Fewer
    <2>4. \A p \in PacketIds : OutFlows(p)
        BY <1>7, <2>3 DEF OutFlows
    <2> QED BY <1>4, <2>4, OutKept DEF Inv, qosVars, ghostVars
<1>10. session \in [InboundIds -> {"none", "sent1", "sent2", "rel", "done", "dropped"}]
    BY DEF Inv, InInv
<1>11. /\ session' \in [InboundIds -> {"none", "sent1", "sent2", "rel", "done", "dropped"}]
       /\ \A i \in InboundIds : session'[i] = session[i] \/ session'[i] = "dropped"
    BY <1>1, <1>10
<1>12. ASSUME NEW i \in InboundIds PROVE Incoming(i)'
    <2>1. ~ Has(toBroker', Up(Answers, i)) /\ ~ Has(toClient', Down(Messages, i))
        BY <1>1, <1>3, <1>6, <1>7, HasRest, Zenon
    <2>2. ~ Busy(Up(Answers, i), Down(Messages, i))'
        BY <1>3, <1>4 DEF Busy, EmptyHanded
    <2>3. Incoming(i) /\ received' = received
        BY <1>4 DEF Inv, InInv, qosVars
    <2>4. i \in received' => session'[i] \in {"sent2", "rel", "dropped"}
        BY <1>11, <2>3 DEF Incoming
    <2>5. session'[i] \in {"rel", "done"} => Told(i)'
        BY <1>4, <1>11, <2>3 DEF Incoming
    <2> QED BY <2>1, <2>2, <2>4, <2>5, QuietIncoming
<1>13. InInv'
    BY <1>4, <1>11, <1>12 DEF Inv, InInv, qosVars, ghostVars
<1> QED BY <1>4, <1>8, <1>9, <1>13 DEF Inv

-----------------------------------------------------------------------------
(***************************************************************************)
(* The steps together.                                                     *)
(***************************************************************************)

LEMMA Starts == ASSUME Init PROVE Inv
<1>1. None \in Packets
    BY MqttClientAssumption DEF None, Packet, Packets, PacketTypes
<1>2. /\ pc \in [Threads -> Places]
      /\ pc["receiver"] = "off" /\ pc["owner"] = "idle" /\ pc["publisher"] = "idle"
    BY DEF Init, Threads, Places
<1>3. ControlTypes
    <2>1. /\ state = "DISCONNECTED" /\ shouldRun = FALSE /\ socket = FALSE
          /\ currentRetry = 0 /\ holder = "none"
        BY DEF Init
    <2> QED BY <1>2, <2>1 DEF ControlTypes
<1>4. <<>> \in Seq(ToBroker) /\ <<>> \in Seq(ToClient)
    OBVIOUS
<1>5. LinkInv
    BY <1>2, <1>4 DEF Init, LinkInv
<1>6. HandInv
    BY <1>1, <1>2, MqttClientAssumption DEF Init, HandInv
<1>7. \A U, D : ~ Somewhere(U, D) /\ OneOf(U, D)
    BY <1>2, HasNothing DEF Init, Somewhere, Busy, OneOf
<1>8. OutInv
    BY <1>2, <1>7 DEF Init, OutInv, Ledger, Outgoing, Sending
<1>9. InInv
    BY <1>7, HasNothing DEF Init, InInv, Incoming
<1> QED BY <1>3, <1>5, <1>6, <1>8, <1>9 DEF Inv

LEMMA Stutters == ASSUME Inv, UNCHANGED vars PROVE Inv'
<1> USE DEF vars, runVars, qosVars, publishVars, handleVars, linkVars, ghostVars
<1>1. ControlTypes' /\ LinkInv' /\ HandInv'
    BY DEF Inv, ControlTypes, LinkInv, HandInv
<1>2. \A U, D : Flows(U, D)
    BY FlowKept DEF Calm
<1>3. OutInv'
    BY <1>2, AllFlow, OutKept DEF Inv, Sending, Inserting
<1>4. InInv'
    BY <1>2, AllFlow, InKept DEF Inv, Told
<1> QED BY <1>1, <1>3, <1>4 DEF Inv

LEMMA MqttStep == ASSUME Inv, [Next]_vars PROVE Inv'
<1>1. \A t \in {"owner", "receiver"} : Connecting(t) => Inv'
    BY MakesConnection, SendsConnect, AwaitsConnAck, TakesConnAck DEF Connecting
<1>2. CASE Owner
    BY <1>1, <1>2, OwnerSendsDisconnect, OwnerDisconnected DEF Owner
<1>3. CASE Handle
    BY <1>3, PublishHandled, AckHandled, PubRecHandled, PubRelHandled, OtherHandled DEF Handle
<1>4. CASE Receiver
    BY <1>1, <1>3, <1>4, ReceiverGoesOn, PacketReceived, ReplySent, MessageNotified DEF Receiver
<1>5. CASE Broker
    BY <1>5, BrokerRefuses, BrokerAccepts, ConnectionEnds, BrokerAnswersPublish,
       BrokerAnswersPubRel, BrokerAnswersPing, BrokerAnswersPubRec, BrokerTakesLastAnswer
    DEF Broker
<1>6. CASE Connect \/ Disconnect
    BY <1>6, OwnerAsks
<1>7. CASE (\E q \in QoS : BeginPublish(q)) \/ SendPublish \/ InsertOutbox
    BY <1>7, PublishBegins, PublishSends, OutboxInserted
<1>8. CASE KeepAlive \/ Ping
    BY <1>8, KeeperTicks, KeeperPings
<1>9. CASE (\E i \in InboundIds, q \in QoS : BrokerPublish(i, q)) \/ Break
    BY <1>9, BrokerPublishes, ConnectionEnds
<1>10. CASE \E t \in Threads : NoRoom(t)
    BY <1>10, RoomAwaited
<1>11. CASE UNCHANGED vars
    BY <1>11, Stutters
<1> QED BY <1>2, <1>4, <1>5, <1>6, <1>7, <1>8, <1>9, <1>10, <1>11 DEF Next

THEOREM Invariance == Spec => []Inv
<1>1. Init => Inv
    BY Starts
<1>2. Inv /\ [Next]_vars => Inv'
    BY MqttStep
<1> QED BY <1>1, <1>2, PTL DEF Spec

\* Every variable has its type: in particular no packet id but those of this
\* client's messages, and of the broker's, ever reaches outbox_, qos2Released_ or
\* qos2Received_, and nothing but the packets of the protocol is on the connection.
THEOREM TypeCorrect == Spec => []TypeOK
<1>1. Inv => TypeOK
    BY InvImplies
<1> QED BY <1>1, Invariance, PTL

\* outbox_, qos2Released_ and qos2Received_ (handlePacket, publish) hold what the
\* handshakes call for, however many connections are lost on the way and however
\* often the packet ids wrap: a message whose last answer is handled is in neither
\* store, but for the one publish() puts into outbox_ only afterwards.  This holds
\* for every id that is not given out again while outbox_ has it.
THEOREM StoresStayExact == Spec => []StoresExact
<1>1. Inv => StoresExact
    BY InvImplies
<1> QED BY <1>1, Invariance, PTL

\* The answer that handlePublish sends before the callback is called never stands
\* alone: the broker takes a message for delivered only if the callback has had it
\* or the receive thread has nothing left to do but call it.
THEOREM AnswersReachCallback == Spec => []AnsweredReachCallback
<1>1. Inv => AnsweredReachCallback
    BY InvImplies
<1> QED BY <1>1, Invariance, PTL

=============================================================================
