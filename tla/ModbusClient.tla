----------------------------- MODULE ModbusClient -----------------------------
(***************************************************************************)
(* The Modbus client of the SCADA module (scada/src/modbus_client.cpp,     *)
(* class ModbusClient), over TCP and over a serial line (RTU).             *)
(*                                                                         *)
(* Two threads use it: the one that owns the object ("user"), which calls  *)
(* every public function, and the one startPolling() makes ("poll"), which *)
(* reads the variables of the poll groups.  No mutex covers a transaction: *)
(* the two share the socket and m_transactionId.  Only stopPolling(),      *)
(* which disconnect() and reconnect() begin with, waits for the other one. *)
(*                                                                         *)
(* A transaction is: draw a transaction id, send, wait for the socket to   *)
(* become readable, receive, parse.  Over TCP the thread then receives     *)
(* exactly the bytes that it expects, however long that takes; over RTU it *)
(* receives what there is until the line is silent.                        *)
(*                                                                         *)
(* What the device sends is a stream of bytes: each answer has the place   *)
(* of its first byte, and all of it arrives at once.                       *)
(***************************************************************************)
EXTENDS Naturals, Sequences, FiniteSets, FiniteSetsExt

CONSTANTS
    Requests,       \* what the user asks for: records with a function and a count
    Mappings,       \* the requests for the variables of the poll group
    HighBytes,      \* what the first byte of a register or of coils can be
    Lines,          \* the values of endpoint.isRtu
    MaxRequests,    \* bound: the requests of one behaviour
    MaxConnections  \* bound: the connections of one behaviour

RequestType == [fn : {"holding", "input", "coils", "write"}, count : Nat]
IsRegisters(fn) == fn \in {"holding", "input"}

ASSUME ModbusClientAssumption ==
    /\ Requests \subseteq RequestType
    /\ Mappings \in Seq({r \in RequestType : IsRegisters(r.fn)})
    /\ HighBytes \subseteq 0 .. 255
    /\ Lines \subseteq BOOLEAN
    /\ MaxRequests \in Nat /\ MaxConnections \in Nat

Threads == {"user", "poll"}

VARIABLES
    connected,      \* m_connected, and m_fd >= 0
    rtu,            \* m_endpoint.isRtu
    transactionId,  \* m_transactionId
    registered,     \* m_registerMappings: the variables that have a mapping
    polling,        \* m_polling
    requestsSent, responsesReceived, timeouts, errors,   \* the statistics
    pc,             \* where a thread is
    request,        \* the request it makes
    tid,            \* the transaction id it has drawn
    want,           \* the bytes it has yet to receive
    got,            \* the answer its response begins with, if it is complete
    next,           \* the variable the poll thread reads next
    after,          \* what the user does once the poll thread has ended
    outstanding,    \* the device: the requests it has not answered
    stream,         \* the answers of which bytes are on the connection
    written, taken, \* the bytes the device has sent, and those received of them
    peerOpen,       \* the device has not closed the connection
    serial,         \* counts the requests
    mine,           \* the serial number of a thread's request
    result,         \* what its last call returned
    overlap,        \* the other thread had a transaction at the same time
    raced,          \* one thread has read m_transactionId while the other drew it
    faulty,         \* the device has not answered, or with an exception
    carried,        \* the transactions under way when statistics were reset
    connections     \* counts the connections

statistics == <<requestsSent, responsesReceived, timeouts, errors, carried>>
callVars == <<request, tid, want, got, mine, result, overlap>>
pollVars == <<registered, polling, next, after>>
byteVars == <<stream, written, taken>>
linkVars == <<outstanding, byteVars, peerOpen, faulty, raced>>
endpointVars == <<connected, rtu, connections>>
vars == <<endpointVars, transactionId, pollVars, statistics, pc, callVars,
          linkVars, serial>>

TidSpace == 65536   \* uint16_t

None == [fn |-> "write", count |-> 0]
Failure == [success |-> FALSE, items |-> 0]

Init ==
    /\ connected = FALSE /\ rtu \in Lines
    /\ transactionId = 1
    /\ registered = {} /\ polling = FALSE
    /\ requestsSent = 0 /\ responsesReceived = 0 /\ timeouts = 0 /\ errors = 0
    /\ pc = [t \in Threads |-> IF t = "user" THEN "idle" ELSE "off"]
    /\ request = [t \in Threads |-> None]
    /\ tid = [t \in Threads |-> 0]
    /\ want = [t \in Threads |-> 0]
    /\ got = [t \in Threads |-> {}]
    /\ next = 1 /\ after = "stop"
    /\ outstanding = {} /\ stream = {} /\ written = 0 /\ taken = 0 /\ peerOpen = FALSE
    /\ serial = 0
    /\ mine = [t \in Threads |-> 0]
    /\ result = [t \in Threads |-> Failure]
    /\ overlap = [t \in Threads |-> FALSE]
    /\ raced = FALSE /\ faulty = FALSE /\ carried = 0 /\ connections = 0

-----------------------------------------------------------------------------
(***************************************************************************)
(* Frames.                                                                 *)
(***************************************************************************)

\* uint8_t byteCount
ByteCount(count) == ((count + 7) \div 8) % 256

\* Mutation: coils are expected bit by bit.
ExpectedBits(r) ==
    IF IsRegisters(r.fn) THEN 9 + r.count * 2
    ELSE IF r.fn = "coils" THEN 9 + r.count
    ELSE 12

\* The bytes a TCP call asks recv() for.
Expected(r) ==
    CASE IsRegisters(r.fn) -> 9 + r.count * 2
      [] r.fn = "coils"    -> 9 + ByteCount(r.count)
      [] r.fn = "write"    -> 12

\* The bytes of a frame of the device: the header and the function, and an
\* exception code, a byte count with the data, or an address and a value.
AnswerLength(a) ==
    CASE a.fn = "exception" -> 9
      [] IsRegisters(a.fn)  -> 9 + a.count * 2
      [] a.fn = "coils"     -> 9 + ByteCount(a.count)
      [] a.fn = "write"     -> 12

\* The bytes that wait on the connection.
Available == written - taken

\* Of an answer that fits in what the parser is given, the TCP parser hands on
\* what follows the ninth byte, although the byte count is that byte, and the
\* RTU parser what follows the function, which begins with the byte count.
DataSize(a) ==
    CASE a.fn = "write" -> IF rtu THEN 4 ELSE 3
      [] OTHER -> AnswerLength(a) - (IF rtu THEN 8 ELSE 9)

FirstByte(a) ==
    IF rtu /\ a.fn # "write" THEN AnswerLength(a) - 9 ELSE a.high

\* Mutation: the transaction id is not compared.
MatchesAny(t) == got[t] # {}

\* The parser accepts the response: over TCP its transaction id must be the one
\* before m_transactionId, which is read again; the slave is always the same.
Matches(t) ==
    \E a \in got[t] :
        rtu \/ a.tid = (transactionId + TidSpace - 1) % TidSpace

\* The call reports success.
Succeeds(r, a) ==
    CASE IsRegisters(r.fn) -> DataSize(a) >= 1 /\ FirstByte(a) = r.count * 2
      [] r.fn = "coils"    -> DataSize(a) >= 2
      [] r.fn = "write"    -> DataSize(a) >= 4

\* How many registers a register read returns, or bits a read of coils: the
\* caller takes the first byte for the byte count.
Items(r, a) ==
    CASE IsRegisters(r.fn) /\ Succeeds(r, a) -> (DataSize(a) - 1) \div 2
      [] r.fn = "coils" /\ Succeeds(r, a)    -> Min({r.count, FirstByte(a) * 8})
      [] OTHER -> 0

-----------------------------------------------------------------------------
(***************************************************************************)
(* A transaction.                                                          *)
(***************************************************************************)

InTransaction(t) == pc[t] \in {"draw", "send", "wait", "receive", "parse"}

\* A call that finds the client connected: over TCP it reads m_transactionId.
Begin(t, r) ==
    /\ connected
    /\ request' = [request EXCEPT ![t] = r]
    /\ tid' = [tid EXCEPT ![t] = transactionId]
    /\ serial' = serial + 1
    /\ mine' = [mine EXCEPT ![t] = serial + 1]
    /\ overlap' = [u \in Threads |->
                      IF u = t THEN \E v \in Threads \ {t} : InTransaction(v)
                      ELSE overlap[u] \/ InTransaction(u)]
    /\ raced' = (raced \/ \E v \in Threads : pc[v] = "draw")
    /\ got' = [got EXCEPT ![t] = {}]
    /\ result' = [result EXCEPT ![t] = Failure]
    /\ want' = [want EXCEPT ![t] = Expected(r)]
    /\ pc' = [pc EXCEPT ![t] = IF rtu THEN "send" ELSE "draw"]
    /\ UNCHANGED <<endpointVars, transactionId, pollVars, statistics, outstanding, byteVars,
                   peerOpen, faulty>>

\* The second half of m_transactionId++.
Draw(t) ==
    /\ pc[t] = "draw"
    /\ transactionId' = (tid[t] + 1) % TidSpace
    /\ pc' = [pc EXCEPT ![t] = "send"]
    /\ UNCHANGED <<endpointVars, pollVars, statistics, callVars, linkVars, serial>>

\* The call returns r, and its local variables are gone.
Return(t, r) ==
    /\ pc' = [pc EXCEPT ![t] = IF t = "user" THEN "idle" ELSE "round"]
    /\ next' = IF t = "poll" THEN next + 1 ELSE next
    /\ result' = [result EXCEPT ![t] = r]
    /\ request' = [request EXCEPT ![t] = None]
    /\ tid' = [tid EXCEPT ![t] = 0]
    /\ want' = [want EXCEPT ![t] = 0]
    /\ got' = [got EXCEPT ![t] = {}]
    /\ mine' = [mine EXCEPT ![t] = 0]
    /\ overlap' = [overlap EXCEPT ![t] = FALSE]
    /\ UNCHANGED <<registered, polling, after>>

\* A closed connection may take one more frame.
Send(t) ==
    /\ pc[t] = "send"
    /\ requestsSent' = requestsSent + 1
    /\ pc' = [pc EXCEPT ![t] = "wait"]
    /\ outstanding' =
          IF peerOpen
          THEN outstanding \cup {[owner |-> mine[t], tid |-> tid[t],
                                  fn |-> request[t].fn, count |-> request[t].count]}
          ELSE outstanding
    /\ UNCHANGED <<endpointVars, transactionId, pollVars, responsesReceived, timeouts,
                   errors, carried, callVars, byteVars, peerOpen, faulty, raced, serial>>

\* Mutation: the request is counted before the result of send() is looked at.
SendFailsCounted(t) ==
    /\ pc[t] = "send" /\ ~peerOpen
    /\ requestsSent' = requestsSent + 1
    /\ Return(t, Failure)
    /\ UNCHANGED <<endpointVars, transactionId, responsesReceived, timeouts, errors,
                   carried, linkVars, serial>>
SendFails(t) ==
    /\ pc[t] = "send" /\ ~peerOpen
    /\ Return(t, Failure)
    /\ UNCHANGED <<endpointVars, transactionId, statistics, linkVars, serial>>

\* select() finds something to read, or the end of the connection.
Readable == stream # {} \/ ~peerOpen

Ready(t) ==
    /\ pc[t] = "wait" /\ Readable
    /\ pc' = [pc EXCEPT ![t] = "receive"]
    /\ UNCHANGED <<endpointVars, transactionId, pollVars, statistics, callVars,
                   linkVars, serial>>

\* A call whose receiveRaw() returns false.
NotReceived(t) ==
    /\ timeouts' = timeouts + 1
    /\ Return(t, Failure)
    /\ UNCHANGED <<endpointVars, transactionId, requestsSent, responsesReceived,
                   errors, carried, linkVars, serial>>

\* Mutation: a serial line has no timeout.
TimeoutTcp(t) == ~rtu /\ pc[t] = "wait" /\ ~Readable /\ NotReceived(t)

\* responseTimeout has passed in select().
Timeout(t) == pc[t] = "wait" /\ ~Readable /\ NotReceived(t)

\* n bytes are received; an answer is gone with its last byte.
TakeBytes(n) ==
    /\ taken' = taken + n
    /\ stream' = {a \in stream : a.at + AnswerLength(a) > taken + n}
    /\ UNCHANGED written

\* The answer whose bytes are the first of the next n.
Whole(n) == {a \in stream : a.at = taken /\ AnswerLength(a) <= n}

Received(t) ==
    /\ responsesReceived' = responsesReceived + 1
    /\ pc' = [pc EXCEPT ![t] = "parse"]

\* TCP: recv() with MSG_WAITALL takes what there is, up to what it still wants,
\* and goes on waiting if that is not enough.
Take(t) ==
    /\ ~rtu /\ pc[t] = "receive" /\ stream # {}
    /\ LET n == Min({want[t], Available})
       IN  /\ TakeBytes(n)
           /\ want' = [want EXCEPT ![t] = @ - n]
           /\ got' = [got EXCEPT ![t] =
                         IF want[t] = Expected(request[t]) THEN Whole(n) ELSE @]
           /\ IF n = want[t] THEN Received(t)
              ELSE UNCHANGED <<responsesReceived, pc>>
    /\ UNCHANGED <<endpointVars, transactionId, pollVars, requestsSent, timeouts,
                   errors, carried, request, tid, mine, result, overlap,
                   outstanding, peerOpen, faulty, raced, serial>>

\* TCP: the connection has ended, and with it recv(), with less than it wanted
\* or nothing.
ReceiveShort(t) ==
    /\ ~rtu /\ pc[t] = "receive" /\ stream = {} /\ ~peerOpen
    /\ want[t] < Expected(request[t])
    /\ Received(t)
    /\ UNCHANGED <<endpointVars, transactionId, pollVars, requestsSent, timeouts,
                   errors, carried, callVars, linkVars, serial>>

ReceiveNothing(t) ==
    /\ ~rtu /\ pc[t] = "receive" /\ stream = {} /\ ~peerOpen
    /\ want[t] = Expected(request[t])
    /\ NotReceived(t)

\* RTU: everything there is until the line is silent; the checksum of more than
\* one answer is wrong.
ReceiveFrame(t) ==
    /\ rtu /\ pc[t] = "receive" /\ stream # {}
    /\ Received(t)
    /\ got' = [got EXCEPT ![t] = IF Cardinality(stream) = 1 THEN stream ELSE {}]
    /\ TakeBytes(Available)
    /\ UNCHANGED <<endpointVars, transactionId, pollVars, requestsSent, timeouts,
                   errors, carried, request, tid, want, mine, result, overlap,
                   outstanding, peerOpen, faulty, raced, serial>>

\* RTU: both threads read bytes of it, and both have more than four, or only
\* this one.
ReceivePart(t) ==
    /\ rtu /\ stream # {}
    /\ \A u \in Threads : pc[u] = "receive"
    /\ TakeBytes(Available)
    /\ \E who \in {{t}, Threads} :
          /\ pc' = [u \in Threads |-> IF u \in who THEN "parse" ELSE pc[u]]
          /\ responsesReceived' = responsesReceived + Cardinality(who)
    /\ UNCHANGED <<endpointVars, transactionId, pollVars, requestsSent, timeouts,
                   errors, carried, callVars, outstanding, peerOpen, faulty, raced,
                   serial>>

\* RTU: the other thread has read it all.
ReceiveSilence(t) == rtu /\ pc[t] = "receive" /\ stream = {} /\ NotReceived(t)

\* Only reads of holding registers count exceptions.
CountError(t) ==
    errors' = IF request[t].fn = "holding" THEN errors + 1 ELSE errors

\* The caller reads the exception although a parser that rejects the response
\* has not set it.
Reject(t) ==
    /\ pc[t] = "parse" /\ ~Matches(t)
    /\ CountError(t) \/ UNCHANGED errors
    /\ Return(t, Failure)
    /\ UNCHANGED <<endpointVars, transactionId, requestsSent, responsesReceived,
                   timeouts, carried, linkVars, serial>>

Parse(t) ==
    /\ pc[t] = "parse" /\ Matches(t)
    /\ \E a \in got[t] :
          IF a.fn = "exception"
          THEN CountError(t) /\ Return(t, Failure)
          ELSE /\ Return(t, [success |-> Succeeds(request[t], a),
                             items |-> Items(request[t], a)])
               /\ UNCHANGED errors
    /\ UNCHANGED <<endpointVars, transactionId, requestsSent, responsesReceived,
                   timeouts, carried, linkVars, serial>>

Transaction(t) ==
    \/ Draw(t) \/ Send(t) \/ SendFails(t) \/ Ready(t) \/ Timeout(t)
    \/ Take(t) \/ ReceiveShort(t) \/ ReceiveNothing(t)
    \/ ReceiveFrame(t) \/ ReceivePart(t) \/ ReceiveSilence(t)
    \/ Reject(t) \/ Parse(t)

-----------------------------------------------------------------------------
(***************************************************************************)
(* The poll thread.                                                        *)
(***************************************************************************)

Polls(state) == pc' = [pc EXCEPT !["poll"] = state]

\* Mutation: the thread ends only when there is nothing to read.
PollEndsUnmapped ==
    /\ pc["poll"] = "top" /\ ~polling /\ registered = {} /\ Polls("off")
    /\ UNCHANGED <<endpointVars, transactionId, pollVars, statistics, callVars,
                   linkVars, serial>>
PollEnds ==
    /\ pc["poll"] = "top" /\ ~polling /\ Polls("off")
    /\ UNCHANGED <<endpointVars, transactionId, pollVars, statistics, callVars,
                   linkVars, serial>>

\* A copy of the groups is taken; the reads of a round are kept within the
\* bound of requests.
PollRound ==
    /\ pc["poll"] = "top" /\ polling
    /\ serial + Len(Mappings) <= MaxRequests
    /\ Polls("round")
    /\ UNCHANGED <<endpointVars, transactionId, pollVars, statistics, callVars,
                   linkVars, serial>>

\* readVariable() of a variable that has a mapping, and of one that has none or
\* with the client not connected.
PollRead ==
    /\ pc["poll"] = "round" /\ next \in registered
    /\ Begin("poll", Mappings[next])

PollSkip ==
    /\ pc["poll"] = "round" /\ next \in DOMAIN Mappings
    /\ next \notin registered \/ ~connected
    /\ next' = next + 1
    /\ UNCHANGED <<endpointVars, transactionId, registered, polling, after,
                   statistics, pc, callVars, linkVars, serial>>

\* onDataReceived and the sleep.
PollPublish ==
    /\ pc["poll"] = "round" /\ next > Len(Mappings)
    /\ Polls("top")
    /\ next' = 1
    /\ UNCHANGED <<endpointVars, transactionId, registered, polling, after,
                   statistics, callVars, linkVars, serial>>

PollThread == PollEnds \/ PollRound \/ PollRead \/ PollSkip \/ PollPublish

-----------------------------------------------------------------------------
(***************************************************************************)
(* The user.                                                               *)
(***************************************************************************)

UserIn(state) == pc' = [pc EXCEPT !["user"] = state]

\* The requests that are left for the round the poll thread is in.
Reserved == IF pc["poll"] \in {"off", "top"} THEN 0 ELSE Len(Mappings)

UserCall ==
    /\ pc["user"] = "idle" /\ serial + Reserved < MaxRequests
    /\ \E r \in Requests : Begin("user", r)

\* connect() of a client that is not connected; reconnect() calls it with the
\* same endpoint.
Connect ==
    /\ ~connected /\ connections < MaxConnections
    /\ \/ pc["user"] = "idle" /\ rtu' \in Lines
       \/ pc["user"] = "connect" /\ UNCHANGED rtu
    /\ UserIn("idle")
    /\ connections' = connections + 1
    /\ connected' = TRUE /\ peerOpen' = TRUE /\ faulty' = FALSE /\ raced' = FALSE
    /\ UNCHANGED <<transactionId, pollVars, statistics, callVars, outstanding,
                   byteVars, serial>>

ConnectFails ==
    /\ ~connected
    /\ \/ pc["user"] = "idle" /\ rtu' \in Lines
       \/ pc["user"] = "connect" /\ UNCHANGED rtu
    /\ UserIn("idle")
    /\ UNCHANGED <<connected, connections, transactionId, pollVars, statistics,
                   callVars, linkVars, serial>>

StartPolling ==
    /\ pc["user"] = "idle" /\ ~polling
    /\ polling' = TRUE
    /\ Polls("top")
    /\ UNCHANGED <<endpointVars, transactionId, registered, next, after,
                   statistics, callVars, linkVars, serial>>

\* stopPolling(), disconnect() and reconnect() wait for the poll thread.
Halt(what) ==
    /\ pc["user"] = "idle"
    /\ polling' = FALSE
    /\ after' = what
    /\ UserIn("join")
    /\ UNCHANGED <<endpointVars, transactionId, registered, next,
                   statistics, callVars, linkVars, serial>>

Stopped ==
    /\ pc["user"] = "join" /\ pc["poll"] = "off" /\ after = "stop"
    /\ UserIn("idle")
    /\ UNCHANGED <<endpointVars, transactionId, pollVars, statistics, callVars,
                   linkVars, serial>>

\* Mutation: the socket is not closed.
CloseUnclosed ==
    /\ pc["user"] = "join" /\ pc["poll"] = "off" /\ after # "stop"
    /\ UserIn(IF after = "reconnect" THEN "connect" ELSE "idle")
    /\ after' = "stop"
    /\ connected' = FALSE
    /\ UNCHANGED <<rtu, connections, transactionId, registered, polling, next,
                   statistics, callVars, linkVars, serial>>
\* The connection is closed, with all that is on it.
Close ==
    /\ pc["user"] = "join" /\ pc["poll"] = "off" /\ after # "stop"
    /\ UserIn(IF after = "reconnect" THEN "connect" ELSE "idle")
    /\ after' = "stop"
    /\ connected' = FALSE
    /\ outstanding' = {} /\ stream' = {} /\ written' = 0 /\ taken' = 0
    /\ peerOpen' = FALSE /\ faulty' = FALSE /\ raced' = FALSE
    /\ UNCHANGED <<rtu, connections, transactionId, registered, polling, next,
                   statistics, callVars, serial>>

\* addRegisterMapping() and removeRegisterMapping().  A round of a group that
\* is removed or disabled reads nothing either: addPollGroup() and
\* removePollGroup() make no other difference.
Configure ==
    /\ pc["user"] = "idle"
    /\ \E v \in DOMAIN Mappings :
          registered' \in {registered \cup {v}, registered \ {v}}
    /\ UNCHANGED <<endpointVars, transactionId, polling, next, after, statistics, pc,
                   callVars, linkVars, serial>>

\* The transactions that were sent and are not yet counted as received or timed
\* out.
UnderWay == {t \in Threads : pc[t] \in {"wait", "receive"}}

ResetStatistics ==
    /\ pc["user"] = "idle" /\ requestsSent > 0
    /\ requestsSent' = 0 /\ responsesReceived' = 0 /\ timeouts' = 0 /\ errors' = 0
    /\ carried' = Cardinality(UnderWay)
    /\ UNCHANGED <<endpointVars, transactionId, pollVars, pc, callVars, linkVars,
                   serial>>

User ==
    \/ Transaction("user") \/ UserCall \/ Connect \/ ConnectFails \/ StartPolling
    \/ (\E what \in {"stop", "disconnect", "reconnect"} : Halt(what))
    \/ Stopped \/ Close \/ Configure \/ ResetStatistics

-----------------------------------------------------------------------------
(***************************************************************************)
(* The device, at the other end of the connection.                         *)
(***************************************************************************)

deviceFrame == <<endpointVars, transactionId, pollVars, statistics, pc, callVars,
                 taken, peerOpen, raced, serial>>

\* It sends the answer a to the request q.
Device(q, a) ==
    /\ outstanding' = outstanding \ {q}
    /\ stream' = stream \cup {a}
    /\ written' = written + AnswerLength(a)
    /\ UNCHANGED deviceFrame

Reply(q, fn, high) ==
    [owner |-> q.owner, tid |-> q.tid, fn |-> fn, count |-> q.count, high |-> high,
     at |-> written]

Answer ==
    \E q \in outstanding, high \in HighBytes :
        Device(q, Reply(q, q.fn, high)) /\ UNCHANGED faulty

AnswerException ==
    \E q \in outstanding : Device(q, Reply(q, "exception", 0)) /\ faulty' = TRUE

Lose ==
    /\ \E q \in outstanding : outstanding' = outstanding \ {q}
    /\ faulty' = TRUE
    /\ UNCHANGED <<deviceFrame, stream, written>>

PeerClose ==
    /\ ~rtu /\ peerOpen
    /\ peerOpen' = FALSE
    /\ outstanding' = {}
    /\ UNCHANGED <<endpointVars, transactionId, pollVars, statistics, pc, callVars,
                   byteVars, faulty, raced, serial>>

Next ==
    \/ User \/ Transaction("poll") \/ PollThread
    \/ Answer \/ AnswerException \/ Lose \/ PeerClose

Spec == Init /\ [][Next]_vars

\* The threads are scheduled, time passes, and a device that does answer does
\* so at some time.
FairSpec ==
    /\ Spec
    /\ WF_vars(Transaction("user") \/ Stopped \/ Close)
    /\ WF_vars(Transaction("poll") \/ PollThread)
    /\ WF_vars(Answer)

-----------------------------------------------------------------------------
(***************************************************************************)
(* Properties.                                                             *)
(***************************************************************************)

\* Every variable has its type.
TypeOK ==
    /\ connected \in BOOLEAN /\ rtu \in BOOLEAN /\ peerOpen \in BOOLEAN
    /\ peerOpen => connected
    /\ transactionId \in 0 .. TidSpace - 1
    /\ registered \subseteq DOMAIN Mappings /\ next \in 1 .. Len(Mappings) + 1
    /\ polling \in BOOLEAN /\ faulty \in BOOLEAN /\ raced \in BOOLEAN
    /\ \A n \in {requestsSent, responsesReceived, timeouts, errors, carried, taken,
                 written, serial, connections} : n \in Nat
    /\ pc \in [Threads -> {"idle", "join", "connect", "draw", "send", "wait",
                           "receive", "parse", "off", "top", "round"}]
    /\ request \in [Threads -> RequestType]
    /\ tid \in [Threads -> 0 .. TidSpace - 1]
    /\ want \in [Threads -> Nat]
    /\ \A t \in Threads : Cardinality(got[t]) <= 1
    /\ taken <= written /\ (taken = written <=> stream = {})
    /\ \A a \in stream : a.at + AnswerLength(a) \in taken + 1 .. written

\* The statistics account for every request: each one that was sent was
\* received once, or has timed out once, or is under way, whatever the two
\* threads do and wherever a transaction fails; the ones that were under way
\* when the statistics were reset are counted only at their end.
StatisticsAccount ==
    requestsSent + carried = responsesReceived + timeouts + Cardinality(UnderWay)

Waits(t) == IF t \in UnderWay THEN want[t] ELSE 0
Wanted == Waits("user") + Waits("poll")
Owed == MapThenSumSet(AnswerLength, outstanding)

\* As long as the device answers, late or not, and without an exception, what
\* is on the connection and what is to come are enough for the calls that wait
\* for it, which take each other's bytes: none blocks in recv() for ever.
BytesSuffice ==
    ~rtu /\ peerOpen /\ ~faulty => Available + Owed >= Wanted

\* Over TCP, a call whose transaction did not overlap one of the other thread
\* accepts no answer but its own, however many late ones are on the connection,
\* until the transaction ids begin again.  The two threads must not have drawn
\* ids at the same time on this connection: then an id is drawn twice, and the
\* late answer to the one call is taken for the answer to the other.
OwnAnswer ==
    \A t \in Threads :
        /\ pc[t] = "parse" /\ Matches(t) /\ ~rtu
        /\ ~overlap[t] /\ ~raced /\ serial < TidSpace
        => \A a \in got[t] : a.owner = mine[t]

\* A call returns if the device answers it and the others, or the line is
\* serial.
CallsReturn ==
    [](rtu \/ ~faulty) => \A t \in Threads : InTransaction(t) ~> ~InTransaction(t)

\* And then stopPolling() and disconnect() return: the poll thread, wherever it
\* is in its round, comes to see m_polling.
StopReturns == [](rtu \/ ~faulty) => (pc["user"] = "join" ~> pc["user"] # "join")
=============================================================================
