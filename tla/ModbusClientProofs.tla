--------------------------- MODULE ModbusClientProofs ---------------------------
(***************************************************************************)
(* What holds of ModbusClient for any requests and mappings, any values    *)
(* the device sends and any number of requests and connections.            *)
(*                                                                         *)
(* The requests of a connection have the ids that follow one another in    *)
(* the order of their serial numbers, unless the threads have raced for    *)
(* m_transactionId (IdInv), and nothing that is on the connection belongs  *)
(* to a request yet to come (OwnerInv): an answer with a call's id is then *)
(* its own.  A request adds as many bytes to those the device owes as its  *)
(* call waits for (BytesSuffice).                                          *)
(***************************************************************************)
EXTENDS ModbusClient, SetLemmas

-----------------------------------------------------------------------------
(***************************************************************************)
(* The invariant.                                                          *)
(***************************************************************************)

Steps == {"draw", "send", "wait", "receive", "parse"}
Places == {"idle", "join", "connect", "off", "top", "round"} \cup Steps
Functions == {"holding", "input", "coils", "write"}
Ids == 0 .. TidSpace - 1

Queries == [owner : Nat, tid : Ids, fn : Functions, count : Nat]
Answers == [owner : Nat, tid : Ids, fn : Functions \cup {"exception"}, count : Nat,
            high : 0 .. 255, at : Nat]

\* Where the threads can be.  A client with a transaction is connected, and a
\* poll thread exists only while m_polling is set or stopPolling() waits for it.
ControlInv ==
    /\ connected \in BOOLEAN /\ rtu \in BOOLEAN /\ peerOpen \in BOOLEAN
    /\ polling \in BOOLEAN /\ faulty \in BOOLEAN /\ raced \in BOOLEAN
    /\ peerOpen => connected
    /\ transactionId \in Ids /\ serial \in Nat /\ connections \in Nat
    /\ registered \subseteq DOMAIN Mappings /\ next \in 1 .. Len(Mappings) + 1
    /\ pc \in [Threads -> Places]
    /\ pc["user"] \in {"idle", "join", "connect"} \cup Steps
    /\ pc["poll"] \in {"off", "top", "round"} \cup Steps
    /\ InTransaction("poll") => next \in DOMAIN Mappings
    /\ ~polling /\ pc["user"] # "join" => pc["poll"] = "off"
    /\ \A t \in Threads : InTransaction(t) => connected

\* The calls.  Each has a serial number of its own, and the one that overlaps
\* no other has the last.
CallInv ==
    /\ request \in [Threads -> RequestType] /\ tid \in [Threads -> Ids]
    /\ want \in [Threads -> Nat] /\ mine \in [Threads -> Nat]
    /\ overlap \in [Threads -> BOOLEAN]
    /\ \A t \in Threads :
          /\ ~InTransaction(t) => got[t] = {}
          /\ InTransaction(t) => mine[t] <= serial /\ want[t] <= Expected(request[t])
          /\ pc[t] \in {"draw", "send", "wait"} => want[t] = Expected(request[t])
          /\ InTransaction(t) /\ ~overlap[t] => mine[t] = serial
    /\ \A t, u \in Threads :
          t # u /\ InTransaction(t) /\ InTransaction(u)
          => overlap[t] /\ mine[t] # mine[u]

CountInv ==
    /\ requestsSent \in Nat /\ responsesReceived \in Nat /\ timeouts \in Nat
    /\ errors \in Nat /\ carried \in Nat
    /\ StatisticsAccount

End(a) == a.at + AnswerLength(a)

\* The bytes on the connection: the answers lie on it one after the other, and
\* the last of those that are not received reaches to its end.
StreamInv ==
    /\ stream \subseteq Answers /\ IsFiniteSet(stream)
    /\ taken \in Nat /\ written \in Nat /\ taken <= written
    /\ \A a \in stream : taken < End(a) /\ End(a) <= written
    /\ \A a, b \in stream : a.at = b.at => a = b
    /\ taken < written => \E a \in stream : End(a) = written
    /\ got \in [Threads -> SUBSET Answers]
    /\ \A t \in Threads : \A a, b \in got[t] : a = b

\* Whose the requests and the answers are.
OwnerInv ==
    /\ outstanding \subseteq Queries /\ IsFiniteSet(outstanding)
    /\ ~connected => outstanding = {} /\ stream = {}
    /\ \A q \in outstanding : q.owner <= serial
    /\ \A a \in stream : a.owner <= serial
    /\ \A t \in Threads : \A a \in got[t] : a.owner <= serial
    /\ \A t \in Threads :
          pc[t] \in {"draw", "send"} => \A q \in outstanding : q.owner # mine[t]

\* The transaction ids of a connection: the requests have them in the order of
\* their serial numbers, from c on.
IdOf(c, n) == (c + n) % TidSpace
Drawing == \E t \in Threads : pc[t] = "draw"
InOrder(c) ==
    /\ \A q \in outstanding : q.tid = IdOf(c, q.owner)
    /\ \A a \in stream : a.tid = IdOf(c, a.owner)
    /\ \A t \in Threads : \A a \in got[t] : a.tid = IdOf(c, a.owner)
    /\ \A t \in Threads : InTransaction(t) => tid[t] = IdOf(c, mine[t])
    /\ transactionId = IdOf(c, IF Drawing THEN serial ELSE serial + 1)

IdInv ==
    ~rtu /\ connected /\ ~raced
    => /\ \E c \in Ids : InOrder(c)
       /\ \A t \in Threads : pc[t] = "draw" => mine[t] = serial

Inv ==
    /\ ControlInv /\ CallInv /\ CountInv /\ StreamInv /\ OwnerInv /\ IdInv
    /\ BytesSuffice

-----------------------------------------------------------------------------
(***************************************************************************)
(* Lengths, transaction ids, sums.                                         *)
(***************************************************************************)

LEMMA ByteCounts == \A n \in Nat : ByteCount(n) \in 0 .. 255
BY DEF ByteCount

\* The bytes a call asks for: the header and the function at the least.
LEMMA ExpectedLengths ==
    ASSUME NEW r \in RequestType
    PROVE  Expected(r) \in Nat /\ Expected(r) >= 9
<1>1. r.count \in Nat /\ ByteCount(r.count) \in 0 .. 255
    BY ByteCounts DEF RequestType
<1>2. CASE IsRegisters(r.fn)
    <2>1. Expected(r) = 9 + r.count * 2
        <3>1. r.fn # "coils" /\ r.fn # "write"
            BY <1>2 DEF IsRegisters
        <3> QED BY <1>2, <3>1, Zenon DEF Expected
    <2> QED BY <2>1, <1>1
<1>3. CASE r.fn = "coils"
    <2>1. Expected(r) = 9 + ByteCount(r.count)
        <3>1. ~ IsRegisters(r.fn) /\ r.fn # "write"
            BY <1>3 DEF IsRegisters
        <3> QED BY <1>3, <3>1, Zenon DEF Expected
    <2> QED BY <2>1, <1>1
<1>4. CASE r.fn = "write"
    <2>1. Expected(r) = 12
        <3>1. ~ IsRegisters(r.fn) /\ r.fn # "coils"
            BY <1>4 DEF IsRegisters
        <3> QED BY <1>4, <3>1, Zenon DEF Expected
    <2> QED BY <2>1
<1>5. IsRegisters(r.fn) \/ r.fn = "coils" \/ r.fn = "write"
    BY DEF RequestType, IsRegisters
<1> QED BY <1>2, <1>3, <1>4, <1>5

\* The frame of an answer that is no exception is as long as the call expects
\* that made the request.
LEMMA AnswerLengths ==
    ASSUME NEW a, a.fn \in Functions, a.count \in Nat,
           NEW r \in RequestType, r.fn = a.fn, r.count = a.count
    PROVE  AnswerLength(a) = Expected(r)
<1>1. a.fn # "exception"
    BY DEF Functions
<1>2. CASE IsRegisters(a.fn)
    <2>1. a.fn # "coils" /\ a.fn # "write"
        BY <1>2 DEF IsRegisters
    <2>2. AnswerLength(a) = 9 + a.count * 2
        BY <1>1, <1>2, <2>1, Zenon DEF AnswerLength
    <2>3. Expected(r) = 9 + r.count * 2
        BY <1>2, <2>1, Zenon DEF Expected
    <2> QED BY <2>2, <2>3
<1>3. CASE a.fn = "coils"
    <2>1. ~ IsRegisters(a.fn) /\ a.fn # "write"
        BY <1>3 DEF IsRegisters
    <2>2. AnswerLength(a) = 9 + ByteCount(a.count)
        BY <1>1, <1>3, <2>1, Zenon DEF AnswerLength
    <2>3. Expected(r) = 9 + ByteCount(r.count)
        BY <1>3, <2>1, Zenon DEF Expected
    <2> QED BY <2>2, <2>3
<1>4. CASE a.fn = "write"
    <2>1. ~ IsRegisters(a.fn) /\ a.fn # "coils"
        BY <1>4 DEF IsRegisters
    <2>2. AnswerLength(a) = 12
        BY <1>1, <1>4, <2>1, Zenon DEF AnswerLength
    <2>3. Expected(r) = 12
        BY <1>4, <2>1, Zenon DEF Expected
    <2> QED BY <2>2, <2>3
<1>5. IsRegisters(a.fn) \/ a.fn = "coils" \/ a.fn = "write"
    BY DEF Functions, IsRegisters
<1> QED BY <1>2, <1>3, <1>4, <1>5

LEMMA FrameLengths ==
    ASSUME NEW a, a.fn \in Functions \cup {"exception"}, a.count \in Nat
    PROVE  AnswerLength(a) \in Nat /\ AnswerLength(a) >= 9
<1>1. CASE a.fn = "exception"
    <2>1. ~ IsRegisters(a.fn) /\ a.fn # "coils" /\ a.fn # "write"
        BY <1>1 DEF IsRegisters
    <2>2. AnswerLength(a) = 9
        BY <1>1, <2>1, Zenon DEF AnswerLength
    <2> QED BY <2>2
<1>2. CASE a.fn \in Functions
    <2> DEFINE r == [fn |-> a.fn, count |-> a.count]
    <2>1. r \in RequestType /\ r.fn = a.fn /\ r.count = a.count
        BY <1>2 DEF RequestType, Functions
    <2> HIDE DEF r
    <2>2. AnswerLength(a) = Expected(r)
        BY <1>2, <2>1, AnswerLengths
    <2> QED BY <2>1, <2>2, ExpectedLengths
<1> QED BY <1>1, <1>2

\* The least of two numbers.
LEMMA MinOfTwo ==
    ASSUME NEW i \in Nat, NEW j \in Nat
    PROVE  Min({i, j}) \in Nat /\ Min({i, j}) <= i /\ Min({i, j}) <= j
           /\ Min({i, j}) \in {i, j}
<1>1. \E m \in {i, j} : \A n \in {i, j} : m <= n
    OBVIOUS
<1>2. Min({i, j}) \in {i, j} /\ \A n \in {i, j} : Min({i, j}) <= n
    BY <1>1 DEF Min
<1> QED BY <1>2

LEMMA IdRange == TidSpace \in Nat /\ \A i : i \in Ids <=> i \in Nat /\ i < TidSpace
<1>1. TidSpace \in Nat
    BY SMT DEF TidSpace
<1> QED BY <1>1, SMT DEF Ids

LEMMA IdsOf ==
    \A c \in Ids : \A n \in Nat :
        /\ IdOf(c, n) \in Ids
        /\ (IdOf(c, n) + 1) % TidSpace = IdOf(c, n + 1)
        /\ (IdOf(c, n + 1) + TidSpace - 1) % TidSpace = IdOf(c, n)
<1> SUFFICES ASSUME NEW c \in Nat, NEW n \in Nat
             PROVE  /\ IdOf(c, n) \in Nat /\ IdOf(c, n) < TidSpace
                    /\ (IdOf(c, n) + 1) % TidSpace = IdOf(c, n + 1)
                    /\ (IdOf(c, n + 1) + TidSpace - 1) % TidSpace = IdOf(c, n)
    BY IdRange
<1>1. IdOf(c, n) \in Nat /\ IdOf(c, n) < TidSpace
    BY SMT DEF IdOf, TidSpace
<1>2. (IdOf(c, n) + 1) % TidSpace = IdOf(c, n + 1)
    BY SMT DEF IdOf, TidSpace
<1>3. (IdOf(c, n + 1) + TidSpace - 1) % TidSpace = IdOf(c, n)
    BY SMT DEF IdOf, TidSpace
<1> QED BY <1>1, <1>2, <1>3

\* As many requests as there are ids have different ones.
LEMMA IdsDiffer ==
    \A c \in Ids : \A n, m \in Nat :
        m <= n /\ n < TidSpace /\ IdOf(c, m) = IdOf(c, n) => m = n
<1> SUFFICES ASSUME NEW c \in Nat, c < TidSpace, NEW n \in Nat, NEW m \in Nat,
                    m <= n, n < TidSpace, IdOf(c, m) = IdOf(c, n)
             PROVE  m = n
    BY IdRange
<1> QED BY SMT DEF IdOf, TidSpace

\* Any id can be that of the n-th request of a connection.
LEMMA IdsFrom ==
    ASSUME NEW x \in Ids, NEW n \in Nat
    PROVE  \E c \in Ids : x = IdOf(c, n)
<1> DEFINE Bad == {m \in Nat : ~ \E c \in Ids : x = IdOf(c, m)}
<1>1. \E c \in Ids : x = IdOf(c, 0)
    <2>1. x \in Nat /\ x < TidSpace
        BY IdRange
    <2>2. x = IdOf(x, 0)
        BY <2>1, SMT DEF IdOf, TidSpace
    <2> QED BY <2>2
<1>2. ASSUME NEW m \in Nat, NEW d \in Ids, x = IdOf(d, m)
      PROVE  \E c \in Ids : x = IdOf(c, m + 1)
    <2>1. CASE d = 0
        <3>1. TidSpace - 1 \in Ids
            <4>1. TidSpace - 1 \in Nat /\ TidSpace - 1 < TidSpace
                BY SMT DEF TidSpace
            <4> QED BY <4>1, IdRange
        <3>2. IdOf(TidSpace - 1, m + 1) = IdOf(0, m)
            BY SMT DEF IdOf, TidSpace
        <3> QED BY <1>2, <2>1, <3>1, <3>2
    <2>2. CASE d # 0
        <3>1. d \in Nat /\ d < TidSpace /\ TidSpace \in Nat
            BY IdRange
        <3>2. d - 1 \in Nat /\ d - 1 < TidSpace /\ (d - 1) + (m + 1) = d + m
            BY <2>2, <3>1
        <3>3. d - 1 \in Ids
            BY <3>2, IdRange
        <3>4. IdOf(d - 1, m + 1) = IdOf(d, m)
            BY <3>2 DEF IdOf
        <3> QED BY <1>2, <3>3, <3>4
    <2> QED BY <2>1, <2>2
<1>3. Bad = {}
    <2> SUFFICES ASSUME Bad # {} PROVE FALSE
        OBVIOUS
    <2>1. Bad \in SUBSET Nat
        OBVIOUS
    <2>2. PICK m \in Bad : \A k \in Bad : m <= k
        BY <2>1, NatMinimum
    <2>3. m \in Nat /\ m # 0
        BY <1>1, <2>2
    <2>4. m - 1 \in Nat /\ (m - 1) + 1 = m /\ ~ (m <= m - 1)
        BY <2>3
    <2>5. PICK d \in Ids : x = IdOf(d, m - 1)
        BY <2>2, <2>4
    <2>6. \E c \in Ids : x = IdOf(c, m)
        BY <1>2, <2>4, <2>5
    <2> QED BY <2>2, <2>6
<1> QED BY <1>3


\* What FoldSet makes of the lengths of some frames: the sum of them, taken in
\* any order.
OwedFor(S) == MapThenSumSet(AnswerLength, S)

Sums(g, S) ==
    /\ g \in [SUBSET S -> Nat]
    /\ g[{}] = 0
    /\ \A T \in SUBSET S : \A x \in T : g[T] = AnswerLength(x) + g[T \ {x}]

HaveLengths(S) == IsFiniteSet(S) /\ \A x \in S : AnswerLength(x) \in Nat

LEMMA SumsExist ==
    ASSUME NEW S, HaveLengths(S)
    PROVE  \E g : Sums(g, S)
<1> DEFINE Bad == {T \in SUBSET S : ~ \E g : Sums(g, T)}
<1>1. \E g : Sums(g, {})
    <2>1. Sums([T \in SUBSET {} |-> 0], {})
        BY DEF Sums
    <2> QED BY <2>1
<1>2. ASSUME NEW T \in SUBSET S, NEW x \in T, NEW h, Sums(h, T \ {x})
      PROVE  \E g : Sums(g, T)
    <2> DEFINE g == [U \in SUBSET T |->
                        IF x \in U THEN AnswerLength(x) + h[U \ {x}] ELSE h[U]]
    <2>1. AnswerLength(x) \in Nat /\ h \in [SUBSET (T \ {x}) -> Nat] /\ h[{}] = 0
        BY <1>2 DEF HaveLengths, Sums
    <2>2. \A U \in SUBSET T : /\ U \ {x} \in SUBSET (T \ {x})
                              /\ x \notin U => U \in SUBSET (T \ {x})
        OBVIOUS
    <2>3. g \in [SUBSET T -> Nat]
        BY <2>1, <2>2
    <2>4. g[{}] = 0
        BY <2>1
    <2>5. ASSUME NEW U \in SUBSET T, NEW y \in U
          PROVE  g[U] = AnswerLength(y) + g[U \ {y}]
        <3>1. U \ {y} \in SUBSET T
            OBVIOUS
        <3>2. CASE x = y
            <4>1. x \in U /\ x \notin U \ {y} /\ U \ {x} = U \ {y}
                BY <3>2
            <4> QED BY <3>1, <3>2, <4>1
        <3>3. CASE x \notin U
            <4>1. h[U] = AnswerLength(y) + h[U \ {y}]
                BY <1>2, <2>2, <3>3 DEF Sums
            <4> QED BY <3>1, <3>3, <4>1
        <3>4. CASE x # y /\ x \in U
            <4>1. y \in U \ {x} /\ U \ {x} \in SUBSET (T \ {x})
                  /\ (U \ {x}) \ {y} = (U \ {y}) \ {x} /\ x \in U \ {y}
                BY <3>4
            <4>2. h[U \ {x}] = AnswerLength(y) + h[(U \ {x}) \ {y}]
                BY <1>2, <4>1 DEF Sums
            <4>3. h[(U \ {x}) \ {y}] \in Nat /\ AnswerLength(y) \in Nat
                BY <2>1, <2>2, <4>1, <3>1 DEF HaveLengths
            <4>4. g[U] = AnswerLength(x) + h[U \ {x}]
                BY <3>4
            <4>5. g[U \ {y}] = AnswerLength(x) + h[(U \ {x}) \ {y}]
                BY <3>1, <4>1
            <4> HIDE DEF g
            <4> QED BY <2>1, <4>2, <4>3, <4>4, <4>5
        <3> QED BY <3>2, <3>3, <3>4
    <2>6. Sums(g, T)
        <3> HIDE DEF g
        <3> QED BY <2>3, <2>4, <2>5 DEF Sums
    <2> QED BY <2>6
<1>3. Bad = {}
    <2> SUFFICES ASSUME Bad # {} PROVE FALSE
        OBVIOUS
    <2>1. PICK T \in Bad : \A x \in T : T \ {x} \notin Bad
        <3>1. Bad \in SUBSET (SUBSET S)
            OBVIOUS
        <3> HIDE DEF Bad
        <3> QED BY <3>1, LeastSubset DEF HaveLengths
    <2>2. PICK x : x \in T
        BY <1>1
    <2>3. T \in SUBSET S /\ T \ {x} \in SUBSET S
        OBVIOUS
    <2>4. PICK h : Sums(h, T \ {x})
        BY <2>1, <2>2, <2>3
    <2>5. \E g : Sums(g, T)
        BY <1>2, <2>2, <2>3, <2>4
    <2> QED BY <2>5
<1>4. S \in SUBSET S
    OBVIOUS
<1> QED BY <1>3, <1>4

LEMMA OwedIsSum ==
    ASSUME NEW S, HaveLengths(S), NEW g, Sums(g, S)
    PROVE  OwedFor(S) = g[S]
<1> DEFINE rest(T) == T \ {CHOOSE x \in T : TRUE}
           Step(f) == [T \in SUBSET S |->
                          IF T = {} THEN 0
                          ELSE AnswerLength(CHOOSE x \in T : TRUE) + f[rest(T)]]
           f == CHOOSE f : f = Step(f)
<1>1. OwedFor(S) = f[S]
    BY SMT DEF OwedFor, MapThenSumSet, MapThenFoldSet
<1>2. g = Step(g)
    <2>1. \A T \in SUBSET S :
             g[T] = IF T = {} THEN 0
                    ELSE AnswerLength(CHOOSE x \in T : TRUE) + g[rest(T)]
        BY DEF Sums
    <2>2. g \in [SUBSET S -> Nat]
        BY DEF Sums
    <2> QED BY <2>1, <2>2
<1>3. f = Step(f)
    BY <1>2, Zenon
<1>4. \A T \in SUBSET S :
         f[T] = IF T = {} THEN 0 ELSE AnswerLength(CHOOSE x \in T : TRUE) + f[rest(T)]
    <2> HIDE DEF f
    <2> QED BY <1>3
<1> HIDE DEF f, Step
<1>5. S \in SUBSET S
    OBVIOUS
<1> DEFINE Bad == {T \in SUBSET S : f[T] # g[T]}
<1>6. Bad = {}
    <2> SUFFICES ASSUME Bad # {} PROVE FALSE
        OBVIOUS
    <2>1. PICK T \in Bad : \A x \in T : T \ {x} \notin Bad
        <3>1. Bad \in SUBSET (SUBSET S)
            OBVIOUS
        <3> HIDE DEF Bad
        <3> QED BY <3>1, LeastSubset DEF HaveLengths
    <2>2. T \in SUBSET S /\ f[T] # g[T]
        BY <2>1
    <2>3. T # {}
        BY <1>4, <2>2 DEF Sums
    <2> DEFINE x == CHOOSE x \in T : TRUE
    <2>4. x \in T
        BY <2>3
    <2>5. f[T] = AnswerLength(x) + f[T \ {x}]
        BY <1>4, <2>2, <2>3
    <2>6. g[T] = AnswerLength(x) + g[T \ {x}]
        BY <2>2, <2>4 DEF Sums
    <2>7. f[T \ {x}] = g[T \ {x}]
        <3> HIDE DEF x
        <3>1. T \ {x} \in SUBSET S /\ T \ {x} \notin Bad
            BY <2>1, <2>2, <2>4
        <3> QED BY <3>1
    <2> QED BY <2>2, <2>5, <2>6, <2>7
<1> QED BY <1>1, <1>5, <1>6


LEMMA OwedLess ==
    ASSUME NEW S, HaveLengths(S), NEW x \in S
    PROVE  /\ OwedFor(S) \in Nat /\ OwedFor(S \ {x}) \in Nat
           /\ OwedFor(S) = AnswerLength(x) + OwedFor(S \ {x})
<1> DEFINE R == S \ {x}
<1>1. PICK g : Sums(g, S)
    BY SumsExist
<1>2. OwedFor(S) = g[S]
    BY <1>1, OwedIsSum
<1> DEFINE h == [T \in SUBSET R |-> g[T]]
<1>3. SUBSET R \subseteq SUBSET S /\ \A T \in SUBSET R : \A y \in T : T \ {y} \in SUBSET R
    OBVIOUS
<1>4. Sums(h, R)
    BY <1>1, <1>3 DEF Sums
<1>5. HaveLengths(R)
    BY FS_Subset DEF HaveLengths
<1>6. OwedFor(R) = h[R]
    <2> HIDE DEF h, R
    <2> QED BY <1>4, <1>5, OwedIsSum
<1>7. S \in SUBSET S /\ R \in SUBSET S /\ h[R] = g[R]
    OBVIOUS
<1>8. g[S] = AnswerLength(x) + g[R] /\ g[S] \in Nat /\ g[R] \in Nat
    BY <1>1, <1>7 DEF Sums
<1> QED BY <1>2, <1>6, <1>7, <1>8

LEMMA OwedMore ==
    ASSUME NEW S, HaveLengths(S), NEW x, x \notin S, AnswerLength(x) \in Nat
    PROVE  OwedFor(S \cup {x}) = AnswerLength(x) + OwedFor(S)
<1>1. HaveLengths(S \cup {x})
    BY FS_AddElement DEF HaveLengths
<1>2. x \in S \cup {x} /\ (S \cup {x}) \ {x} = S
    OBVIOUS
<1>3. OwedFor(S \cup {x}) = AnswerLength(x) + OwedFor((S \cup {x}) \ {x})
    BY <1>1, <1>2, OwedLess
<1> QED BY <1>2, <1>3

LEMMA OwedIsNat ==
    ASSUME NEW S, HaveLengths(S)
    PROVE  OwedFor(S) \in Nat
<1>1. PICK g : Sums(g, S)
    BY SumsExist
<1>2. OwedFor(S) = g[S] /\ S \in SUBSET S
    BY <1>1, OwedIsSum
<1> QED BY <1>1, <1>2 DEF Sums

LEMMA OwedNothing == OwedFor({}) = 0
<1>1. HaveLengths({})
    BY FS_EmptySet DEF HaveLengths
<1>2. PICK g : Sums(g, {})
    BY <1>1, SumsExist
<1>3. OwedFor({}) = g[{}]
    BY <1>1, <1>2, OwedIsSum
<1> QED BY <1>2, <1>3 DEF Sums

\* How many threads a set of them has.
One(t, W) == IF t \in W THEN 1 ELSE 0
LEMMA CountThreads ==
    ASSUME NEW W \in SUBSET Threads
    PROVE  Cardinality(W) = One("user", W) + One("poll", W)
<1>1. ASSUME NEW a, NEW b, a # b, NEW V \in SUBSET {a, b}
      PROVE  Cardinality(V) = One(a, V) + One(b, V)
    <2>1. Cardinality({}) = 0
        BY FS_EmptySet
    <2>2. \A x : IsFiniteSet({x}) /\ Cardinality({x}) = 1
        BY FS_Singleton
    <2>3. Cardinality({a} \cup {b}) = 2
        <3>1. b \notin {a}
            BY <1>1
        <3>2. Cardinality({a} \cup {b}) = Cardinality({a}) + 1
            BY <2>2, <3>1, FS_AddElement
        <3> QED BY <2>2, <3>2
    <2>4. CASE a \in V /\ b \in V
        <3>1. V = {a} \cup {b}
            BY <2>4
        <3>2. One(a, V) = 1 /\ One(b, V) = 1
            BY <2>4 DEF One
        <3>3. Cardinality(V) = 2
            BY <2>3, <3>1, Zenon
        <3> QED BY <3>2, <3>3
    <2>5. CASE a \in V /\ b \notin V
        <3>1. V = {a}
            BY <2>5
        <3>2. One(a, V) = 1 /\ One(b, V) = 0
            BY <2>5 DEF One
        <3>3. Cardinality(V) = 1
            BY <2>2, <3>1, Zenon
        <3> QED BY <3>2, <3>3
    <2>6. CASE a \notin V /\ b \in V
        <3>1. V = {b}
            BY <2>6
        <3>2. One(a, V) = 0 /\ One(b, V) = 1
            BY <2>6 DEF One
        <3>3. Cardinality(V) = 1
            BY <2>2, <3>1, Zenon
        <3> QED BY <3>2, <3>3
    <2>7. CASE a \notin V /\ b \notin V
        <3>1. V = {}
            BY <2>7
        <3> QED BY <2>1, <2>7, <3>1 DEF One
    <2> QED BY <2>4, <2>5, <2>6, <2>7
<1> QED BY <1>1 DEF Threads


-----------------------------------------------------------------------------
(***************************************************************************)
(* The beginning, and the steps outside transactions.                      *)
(***************************************************************************)

LEMMA ThreadPair ==
    /\ "user" \in Threads /\ "poll" \in Threads /\ "user" # "poll"
    /\ \A t \in Threads : t = "user" \/ t = "poll"
BY DEF Threads

LEMMA NoneIsRequest == None \in RequestType
BY DEF None, RequestType

LEMMA FirstMapping == 1 \in 1 .. Len(Mappings) + 1
BY ModbusClientAssumption

LEMMA InitInv == Init => Inv
<1> SUFFICES ASSUME Init PROVE Inv
    OBVIOUS
<1> USE DEF Init
<1>1. \A t \in Threads : ~ InTransaction(t)
    BY ThreadPair DEF InTransaction
<1>2. ControlInv
    <2>1. 1 \in Ids
        <3>1. 1 < TidSpace
            BY SMT DEF TidSpace
        <3> QED BY <3>1, IdRange
    <2>2. rtu \in BOOLEAN
        BY ModbusClientAssumption
    <2>3. pc \in [Threads -> Places]
        BY DEF Places, Threads
    <2>4. registered \subseteq DOMAIN Mappings /\ next \in 1 .. Len(Mappings) + 1
        BY FirstMapping
    <2> QED BY <1>1, <2>1, <2>2, <2>3, <2>4, ThreadPair DEF ControlInv
<1>3. CallInv
    <2>1. 0 \in Ids
        <3>1. 0 < TidSpace
            BY SMT DEF TidSpace
        <3> QED BY <3>1, IdRange
    <2>2. \A t \in Threads : pc[t] \notin {"draw", "send", "wait"}
        BY <1>1 DEF InTransaction
    <2> QED BY <1>1, <2>1, <2>2, NoneIsRequest DEF CallInv
<1>4. CountInv
    <2>1. UnderWay = {}
        BY <1>1 DEF UnderWay, InTransaction
    <2>2. Cardinality(UnderWay) = 0
        BY <2>1, FS_EmptySet
    <2> QED BY <2>2 DEF CountInv, StatisticsAccount
<1>5. StreamInv
    <2>1. IsFiniteSet(stream)
        BY FS_EmptySet
    <2> QED BY <2>1 DEF StreamInv
<1>6. OwnerInv
    <2>1. IsFiniteSet(outstanding)
        BY FS_EmptySet
    <2> QED BY <2>1 DEF OwnerInv
<1>7. IdInv
    BY DEF IdInv
<1>8. BytesSuffice
    BY DEF BytesSuffice
<1> QED BY <1>2, <1>3, <1>4, <1>5, <1>6, <1>7, <1>8 DEF Inv

\* The threads in a transaction stay where they are.
SameSteps ==
    \A t \in Threads : InTransaction(t) \/ InTransaction(t)' => pc'[t] = pc[t]

LEMMA OutsideTransactions ==
    ASSUME Inv, SameSteps, connected' = connected, connected => rtu' = rtu,
           UNCHANGED <<transactionId, statistics, callVars, linkVars, serial>>
    PROVE  CallInv' /\ CountInv' /\ StreamInv' /\ OwnerInv' /\ IdInv' /\ BytesSuffice'
<1> USE DEF statistics, callVars, linkVars, byteVars
<1>1. \A t \in Threads :
         /\ InTransaction(t)' <=> InTransaction(t)
         /\ \A p \in Steps : pc'[t] = p <=> pc[t] = p
    BY DEF SameSteps, InTransaction, Steps
<1>2. \A t \in Threads :
         /\ pc'[t] = "draw" <=> pc[t] = "draw"
         /\ pc'[t] \in {"draw", "send"} <=> pc[t] \in {"draw", "send"}
         /\ pc'[t] \in {"draw", "send", "wait"} <=> pc[t] \in {"draw", "send", "wait"}
         /\ pc'[t] \in {"wait", "receive"} <=> pc[t] \in {"wait", "receive"}
    BY <1>1 DEF Steps
<1>3. UnderWay' = UnderWay
    BY <1>2 DEF UnderWay
<1>4. CallInv'
    BY <1>1, <1>2 DEF Inv, CallInv
<1>5. CountInv'
    BY <1>3 DEF Inv, CountInv, StatisticsAccount
<1>6. StreamInv'
    BY DEF Inv, StreamInv, End
<1>7. OwnerInv'
    BY <1>2 DEF Inv, OwnerInv
<1>8. IdInv'
    <2>1. Drawing' <=> Drawing
        BY <1>2 DEF Drawing
    <2>2. \A c : InOrder(c) => InOrder(c)'
        BY <1>1, <2>1 DEF InOrder
    <2> QED BY <1>2, <2>2 DEF Inv, IdInv
<1>9. BytesSuffice'
    BY <1>3 DEF Inv, ControlInv, BytesSuffice, Available, Owed, Wanted, Waits
<1> QED BY <1>4, <1>5, <1>6, <1>7, <1>8, <1>9


LEMMA MappingIndices ==
    /\ Len(Mappings) \in Nat /\ DOMAIN Mappings = 1 .. Len(Mappings)
    /\ \A n \in DOMAIN Mappings : Mappings[n] \in RequestType /\ n + 1 \in 1 .. Len(Mappings) + 1
    /\ \A n \in 1 .. Len(Mappings) + 1 : n \in DOMAIN Mappings \/ n > Len(Mappings)
<1>1. Mappings \in Seq({r \in RequestType : IsRegisters(r.fn)})
    BY ModbusClientAssumption
<1>2. Len(Mappings) \in Nat /\ DOMAIN Mappings = 1 .. Len(Mappings)
      /\ \A n \in DOMAIN Mappings : Mappings[n] \in {r \in RequestType : IsRegisters(r.fn)}
    BY <1>1
<1> QED BY <1>2

\* The poll thread between two reads.
LEMMA PollThreadKeeps ==
    ASSUME Inv, PollEnds \/ PollRound \/ PollSkip \/ PollPublish
    PROVE  Inv'
<1> USE DEF endpointVars, pollVars
<1>1. UNCHANGED <<endpointVars, transactionId, registered, polling, after, statistics,
                  callVars, linkVars, serial>>
    BY DEF PollEnds, PollRound, PollSkip, PollPublish
<1>2. pc' \in [Threads -> Places] /\ pc'["user"] = pc["user"]
      /\ pc["poll"] \in {"top", "round"} /\ pc'["poll"] \in {"off", "top", "round"}
      /\ (pc'["poll"] # "off" => pc["poll"] # "off")
    <2>1. pc \in [Threads -> Places]
        BY DEF Inv, ControlInv
    <2>2. CASE PollEnds
        BY <2>1, <2>2, ThreadPair DEF PollEnds, Polls, Places
    <2>3. CASE PollRound
        BY <2>1, <2>3, ThreadPair DEF PollRound, Polls, Places
    <2>4. CASE PollSkip
        BY <2>1, <2>4, ThreadPair DEF PollSkip, Places
    <2>5. CASE PollPublish
        BY <2>1, <2>5, ThreadPair DEF PollPublish, Polls, Places
    <2> QED BY <2>2, <2>3, <2>4, <2>5
<1>3. next' \in 1 .. Len(Mappings) + 1
    <2>1. next \in 1 .. Len(Mappings) + 1
        BY DEF Inv, ControlInv
    <2>2. CASE PollSkip
        BY <2>2, MappingIndices DEF PollSkip
    <2>3. CASE PollPublish
        BY <2>3, FirstMapping DEF PollPublish
    <2>4. CASE PollEnds \/ PollRound
        BY <2>1, <2>4 DEF PollEnds, PollRound
    <2> QED BY <2>2, <2>3, <2>4
<1>4. SameSteps
    BY <1>2, ThreadPair DEF SameSteps, InTransaction
<1>5. ControlInv'
    <2>1. ~ InTransaction("poll")' /\ (InTransaction("user")' <=> InTransaction("user"))
        BY <1>2 DEF InTransaction
    <2> QED BY <1>1, <1>2, <1>3, <2>1, ThreadPair
            DEF Inv, ControlInv, linkVars
<1>6. CallInv' /\ CountInv' /\ StreamInv' /\ OwnerInv' /\ IdInv' /\ BytesSuffice'
    BY <1>1, <1>4, OutsideTransactions
<1> QED BY <1>5, <1>6 DEF Inv

\* The user between two calls of the device.
LEMMA UserKeeps ==
    ASSUME Inv,
           \/ ConnectFails \/ StartPolling \/ Stopped \/ Configure
           \/ \E what \in {"stop", "disconnect", "reconnect"} : Halt(what)
    PROVE  Inv'
<1> USE DEF endpointVars, pollVars
<1>1. UNCHANGED <<connected, connections, transactionId, next, statistics, callVars,
                  linkVars, serial>>
      /\ rtu' \in BOOLEAN /\ (connected => rtu' = rtu)
    <2>1. rtu \in BOOLEAN
        BY DEF Inv, ControlInv
    <2>2. CASE ConnectFails
        BY <2>1, <2>2, ModbusClientAssumption DEF ConnectFails
    <2>3. CASE StartPolling \/ Stopped \/ Configure
        BY <2>1, <2>3 DEF StartPolling, Stopped, Configure
    <2>4. CASE \E what \in {"stop", "disconnect", "reconnect"} : Halt(what)
        BY <2>1, <2>4 DEF Halt
    <2> QED BY <2>2, <2>3, <2>4
<1>2. registered' \subseteq DOMAIN Mappings
    BY DEF Inv, ControlInv, ConnectFails, StartPolling, Stopped, Configure, Halt
<1>3. /\ pc' \in [Threads -> Places] /\ polling' \in BOOLEAN
      /\ pc["user"] \in {"idle", "join", "connect"}
      /\ pc'["user"] \in {"idle", "join", "connect"}
      /\ ~ polling' /\ pc'["user"] # "join" => pc'["poll"] = "off"
      /\ pc'["poll"] # pc["poll"] => pc["poll"] = "off" /\ pc'["poll"] = "top"
    <2> USE DEF Inv, ControlInv
    <2>1. CASE ConnectFails
        BY <2>1, ThreadPair DEF ConnectFails, UserIn, Places
    <2>2. CASE StartPolling
        BY <2>2, ThreadPair DEF StartPolling, Polls, Places
    <2>3. CASE Stopped
        BY <2>3, ThreadPair DEF Stopped, UserIn, Places
    <2>4. CASE Configure
        BY <2>4 DEF Configure
    <2>5. CASE \E what \in {"stop", "disconnect", "reconnect"} : Halt(what)
        BY <2>5, ThreadPair DEF Halt, UserIn, Places
    <2> QED BY <2>1, <2>2, <2>3, <2>4, <2>5
<1>4. SameSteps
    BY <1>3, ThreadPair DEF SameSteps, InTransaction
<1>5. ControlInv'
    <2>1. ~ InTransaction("user")' /\ (InTransaction("poll")' <=> InTransaction("poll"))
        BY <1>3 DEF InTransaction
    <2>2. pc'["poll"] \in {"off", "top", "round"} \cup Steps
        BY <1>3 DEF Inv, ControlInv
    <2> QED BY <1>1, <1>2, <1>3, <2>1, <2>2, ThreadPair DEF Inv, ControlInv, linkVars
<1>6. CallInv' /\ CountInv' /\ StreamInv' /\ OwnerInv' /\ IdInv' /\ BytesSuffice'
    BY <1>1, <1>4, OutsideTransactions
<1> QED BY <1>5, <1>6 DEF Inv

\* Statistics are reset: what is under way is carried over.
LEMMA ResetKeeps ==
    ASSUME Inv, ResetStatistics
    PROVE  Inv'
<1> USE DEF endpointVars, pollVars, callVars, linkVars, byteVars
<1>1. UNCHANGED <<endpointVars, transactionId, pollVars, pc, callVars, linkVars, serial>>
    BY DEF ResetStatistics
<1>2. \A t \in Threads : InTransaction(t)' <=> InTransaction(t)
    BY <1>1 DEF InTransaction
<1>3. UnderWay' = UnderWay /\ UnderWay \in SUBSET Threads
    BY <1>1 DEF UnderWay
<1>4. ControlInv'
    BY <1>1, <1>2, ThreadPair DEF Inv, ControlInv
<1>5. CallInv'
    BY <1>1, <1>2 DEF Inv, CallInv
<1>6. CountInv'
    <2>1. Cardinality(UnderWay) \in Nat
        BY <1>3, CountThreads DEF One
    <2> QED BY <1>3, <2>1 DEF ResetStatistics, CountInv, StatisticsAccount
<1>7. StreamInv'
    BY <1>1 DEF Inv, StreamInv, End
<1>8. OwnerInv'
    BY <1>1 DEF Inv, OwnerInv
<1>9. IdInv'
    <2>1. Drawing' <=> Drawing
        BY <1>1 DEF Drawing
    <2>2. \A c : InOrder(c) => InOrder(c)'
        BY <1>1, <1>2, <2>1 DEF InOrder
    <2> QED BY <1>1, <2>2 DEF Inv, IdInv
<1>10. BytesSuffice'
    BY <1>1, <1>3 DEF Inv, BytesSuffice, Available, Owed, Wanted, Waits
<1> QED BY <1>4, <1>5, <1>6, <1>7, <1>8, <1>9, <1>10 DEF Inv


-----------------------------------------------------------------------------
(***************************************************************************)
(* A connection is made and closed.                                        *)
(***************************************************************************)

\* What is to come is a number of bytes.
LEMMA OwedOutstanding ==
    ASSUME Inv
    PROVE  /\ HaveLengths(outstanding) /\ Owed = OwedFor(outstanding) /\ Owed \in Nat
           /\ \A q \in outstanding : AnswerLength(q) \in Nat
<1>1. \A q \in outstanding : AnswerLength(q) \in Nat
    <2>1. \A q \in outstanding : q.fn \in Functions \cup {"exception"} /\ q.count \in Nat
        BY DEF Inv, OwnerInv, Queries
    <2> QED BY <2>1, FrameLengths
<1>2. HaveLengths(outstanding)
    BY <1>1 DEF HaveLengths, Inv, OwnerInv
<1>3. Owed = OwedFor(outstanding)
    BY DEF Owed, OwedFor
<1>4. OwedFor(outstanding) \in Nat
    BY <1>2, OwedIsNat
<1> QED BY <1>1, <1>2, <1>3, <1>4

LEMMA AvailableIsNat == Inv => Available \in Nat
BY DEF Inv, StreamInv, Available

LEMMA ConnectKeeps ==
    ASSUME Inv, Connect
    PROVE  Inv'
<1> USE DEF endpointVars, pollVars, callVars, byteVars
<1>1. /\ UNCHANGED <<transactionId, pollVars, statistics, callVars, outstanding, byteVars,
                     serial>>
      /\ connected' = TRUE /\ peerOpen' = TRUE /\ faulty' = FALSE /\ raced' = FALSE
      /\ connections' = connections + 1 /\ rtu' \in BOOLEAN /\ ~ connected
    BY ModbusClientAssumption DEF Connect, Inv, ControlInv
<1>2. /\ pc' \in [Threads -> Places] /\ pc'["poll"] = pc["poll"]
      /\ pc["user"] \in {"idle", "connect"} /\ pc'["user"] = "idle"
    BY ThreadPair DEF Connect, UserIn, Inv, ControlInv, Places
<1>3. \A t \in Threads : ~ InTransaction(t) /\ ~ InTransaction(t)'
    <2>1. \A t \in Threads : ~ InTransaction(t)
        BY <1>1 DEF Inv, ControlInv
    <2> QED BY <2>1, <1>2, ThreadPair DEF InTransaction
<1>4. outstanding = {} /\ stream = {} /\ \A t \in Threads : got[t] = {}
    BY <1>1, <1>3 DEF Inv, OwnerInv, CallInv
<1>5. UnderWay = {} /\ UnderWay' = {}
    BY <1>3 DEF UnderWay, InTransaction
<1>6. ControlInv'
    <2>1. connections' \in Nat
        BY <1>1 DEF Inv, ControlInv
    <2> QED BY <1>1, <1>2, <1>3, <2>1, ThreadPair DEF Inv, ControlInv
<1>7. CallInv'
    BY <1>1, <1>3, <1>4 DEF Inv, CallInv, InTransaction
<1>8. CountInv'
    BY <1>1, <1>5 DEF Inv, CountInv, StatisticsAccount, statistics
<1>9. StreamInv'
    BY <1>1 DEF Inv, StreamInv, End
<1>10. OwnerInv'
    <2>1. \A t \in Threads : pc'[t] \notin {"draw", "send"}
        BY <1>3 DEF InTransaction
    <2> QED BY <1>1, <1>4, <2>1 DEF Inv, OwnerInv
<1>11. IdInv'
    <2>1. \A t \in Threads : pc'[t] # "draw"
        BY <1>3 DEF InTransaction
    <2>2. PICK c \in Ids : transactionId = IdOf(c, serial + 1)
        BY IdsFrom DEF Inv, ControlInv
    <2>3. InOrder(c)'
        BY <1>1, <1>3, <1>4, <2>1, <2>2 DEF InOrder, Drawing
    <2> QED BY <2>1, <2>3 DEF IdInv
<1>12. BytesSuffice'
    <2>1. Wanted' = 0
        BY <1>5 DEF Wanted, Waits
    <2>2. Available' \in Nat
        BY <1>1 DEF Available, Inv, StreamInv
    <2>3. Owed' \in Nat
        BY <1>1, OwedOutstanding DEF Owed
    <2>4. \A i, j \in Nat : i + j >= 0
        OBVIOUS
    <2>5. Available' + Owed' >= 0
        BY <2>2, <2>3, <2>4, Zenon
    <2> QED BY <2>1, <2>5, Zenon DEF BytesSuffice
<1> QED BY <1>6, <1>7, <1>8, <1>9, <1>10, <1>11, <1>12 DEF Inv

LEMMA CloseKeeps ==
    ASSUME Inv, Close
    PROVE  Inv'
<1> USE DEF endpointVars, pollVars, callVars, byteVars
<1>1. /\ UNCHANGED <<rtu, connections, transactionId, registered, polling, next,
                     statistics, callVars, serial>>
      /\ connected' = FALSE /\ outstanding' = {} /\ stream' = {}
      /\ written' = 0 /\ taken' = 0
      /\ peerOpen' = FALSE /\ faulty' = FALSE /\ raced' = FALSE
    BY DEF Close
<1>2. /\ pc' \in [Threads -> Places] /\ pc["poll"] = "off" /\ pc'["poll"] = "off"
      /\ pc["user"] = "join" /\ pc'["user"] \in {"idle", "connect"}
    BY ThreadPair DEF Close, UserIn, Inv, ControlInv, Places
<1>3. \A t \in Threads : ~ InTransaction(t) /\ ~ InTransaction(t)'
    BY <1>2, ThreadPair DEF InTransaction
<1>4. UnderWay = {} /\ UnderWay' = {}
    BY <1>3 DEF UnderWay, InTransaction
<1>5. \A t \in Threads : got[t] = {}
    BY <1>3 DEF Inv, CallInv
<1>6. ControlInv'
    BY <1>1, <1>2, <1>3, ThreadPair DEF Inv, ControlInv
<1>7. CallInv'
    BY <1>1, <1>3, <1>5 DEF Inv, CallInv, InTransaction
<1>8. CountInv'
    BY <1>1, <1>4 DEF Inv, CountInv, StatisticsAccount, statistics
<1>9. StreamInv'
    <2>1. IsFiniteSet({})
        BY FS_EmptySet
    <2> QED BY <1>1, <2>1 DEF Inv, StreamInv
<1>10. OwnerInv'
    <2>1. IsFiniteSet({})
        BY FS_EmptySet
    <2> QED BY <1>1, <1>5, <2>1 DEF OwnerInv
<1>11. IdInv' /\ BytesSuffice'
    BY <1>1 DEF IdInv, BytesSuffice
<1> QED BY <1>6, <1>7, <1>8, <1>9, <1>10, <1>11 DEF Inv


-----------------------------------------------------------------------------
(***************************************************************************)
(* A transaction begins.                                                   *)
(***************************************************************************)

LEMMA BeginKeeps ==
    ASSUME Inv, NEW t \in Threads, NEW r \in RequestType, Begin(t, r),
           pc[t] \in {"idle", "round"}, t = "user" => pc[t] = "idle",
           t = "poll" => pc[t] = "round" /\ next \in DOMAIN Mappings
    PROVE  Inv'
<1> USE DEF endpointVars, pollVars, callVars, byteVars
<1>1. /\ UNCHANGED <<endpointVars, transactionId, pollVars, statistics, outstanding,
                     byteVars, peerOpen, faulty>>
      /\ connected /\ serial' = serial + 1 /\ serial \in Nat
      /\ raced' = (raced \/ \E v \in Threads : pc[v] = "draw")
    BY DEF Begin, Inv, ControlInv
<1>2. /\ pc' \in [Threads -> Places]
      /\ pc'[t] = IF rtu THEN "send" ELSE "draw"
      /\ \A u \in Threads \ {t} : pc'[u] = pc[u]
    BY DEF Begin, Inv, ControlInv, Places, Steps
<1>3. /\ ~ InTransaction(t) /\ InTransaction(t)'
      /\ \A u \in Threads \ {t} : InTransaction(u)' <=> InTransaction(u)
    BY <1>2 DEF InTransaction
<1>4. /\ request' \in [Threads -> RequestType] /\ request'[t] = r
      /\ tid' \in [Threads -> Ids] /\ tid'[t] = transactionId
      /\ mine' \in [Threads -> Nat] /\ mine'[t] = serial + 1
      /\ want' \in [Threads -> Nat] /\ want'[t] = Expected(r)
      /\ got'[t] = {}
    <2>1. Expected(r) \in Nat /\ serial + 1 \in Nat
        BY <1>1, ExpectedLengths
    <2>2. \A A, x : \A f \in [Threads -> A] : x \in A
             => [f EXCEPT ![t] = x] \in [Threads -> A] /\ [f EXCEPT ![t] = x][t] = x
        OBVIOUS
    <2>4. got'[t] = {}
        BY DEF Begin, Inv, StreamInv
    <2> QED BY <2>1, <2>2, <2>4 DEF Begin, Inv, CallInv, ControlInv
<1>5. \A u \in Threads \ {t} :
         /\ request'[u] = request[u] /\ tid'[u] = tid[u] /\ mine'[u] = mine[u]
         /\ want'[u] = want[u] /\ got'[u] = got[u]
    <2>1. request \in [Threads -> RequestType] /\ tid \in [Threads -> Ids]
          /\ mine \in [Threads -> Nat] /\ want \in [Threads -> Nat]
          /\ got \in [Threads -> SUBSET Answers]
        BY DEF Inv, CallInv, StreamInv
    <2> QED BY <2>1 DEF Begin
<1>6. /\ overlap' \in [Threads -> BOOLEAN]
      /\ overlap'[t] <=> \E v \in Threads \ {t} : InTransaction(v)
      /\ \A u \in Threads \ {t} : InTransaction(u) => overlap'[u]
    <2>1. overlap' = [u \in Threads |->
                        IF u = t THEN \E v \in Threads \ {t} : InTransaction(v)
                        ELSE overlap[u] \/ InTransaction(u)]
        BY DEF Begin
    <2>2. \A u \in Threads : overlap[u] \in BOOLEAN
        BY DEF Inv, CallInv
    <2> HIDE DEF InTransaction
    <2> QED BY <2>1, <2>2
<1>7. UnderWay' = UnderWay /\ t \notin UnderWay
    BY <1>2 DEF UnderWay
<1>8. ControlInv'
    <2>1. raced' \in BOOLEAN
        BY <1>1
    <2>2. /\ pc'["user"] \in {"idle", "join", "connect"} \cup Steps
          /\ pc'["poll"] \in {"off", "top", "round"} \cup Steps
          /\ pc'["poll"] # pc["poll"] => t = "poll" /\ pc["poll"] = "round"
          /\ pc'["user"] # pc["user"] => pc["user"] = "idle"
        BY <1>2, ThreadPair DEF Inv, ControlInv, Steps
    <2>3. ~ polling' /\ pc'["user"] # "join" => pc'["poll"] = "off"
        BY <1>1, <2>2, <1>2, ThreadPair DEF Inv, ControlInv
    <2>4. InTransaction("poll")' => next' \in DOMAIN Mappings
        BY <1>1, <1>3, ThreadPair DEF Inv, ControlInv
    <2>5. serial' \in Nat /\ connected'
        BY <1>1
    <2>6. /\ connected' \in BOOLEAN /\ rtu' \in BOOLEAN /\ peerOpen' \in BOOLEAN
          /\ polling' \in BOOLEAN /\ faulty' \in BOOLEAN
          /\ transactionId' \in Ids /\ connections' \in Nat
          /\ registered' \subseteq DOMAIN Mappings /\ next' \in 1 .. Len(Mappings) + 1
        BY <1>1 DEF Inv, ControlInv
    <2> QED BY <1>2, <2>1, <2>2, <2>3, <2>4, <2>5, <2>6 DEF ControlInv
<1>9. CallInv'
    <2>1. ASSUME NEW u \in Threads
          PROVE  /\ ~ InTransaction(u)' => got'[u] = {}
                 /\ InTransaction(u)' => mine'[u] <= serial' /\ want'[u] <= Expected(request'[u])
                 /\ pc'[u] \in {"draw", "send", "wait"} => want'[u] = Expected(request'[u])
                 /\ InTransaction(u)' /\ ~ overlap'[u] => mine'[u] = serial'
        <3>1. CASE u = t
            <4>1. Expected(r) <= Expected(r) /\ serial + 1 <= serial + 1
                BY <1>1, ExpectedLengths
            <4> QED BY <1>1, <1>3, <1>4, <3>1, <4>1
        <3>2. CASE u # t
            <4>1. InTransaction(u) => mine[u] <= serial + 1
                BY <1>1 DEF Inv, CallInv
            <4> QED BY <1>1, <1>2, <1>3, <1>5, <1>6, <3>2, <4>1 DEF Inv, CallInv
        <3> QED BY <3>1, <3>2
    <2>2. ASSUME NEW u \in Threads, NEW v \in Threads, u # v,
                 InTransaction(u)', InTransaction(v)'
          PROVE  overlap'[u] /\ mine'[u] # mine'[v]
        <3>1. \A w \in Threads \ {t} : InTransaction(w) => mine[w] # serial + 1
            BY <1>1 DEF Inv, CallInv
        <3>2. CASE u = t
            <4>1. InTransaction(v)
                BY <1>3, <2>2, <3>2
            <4> QED BY <1>4, <1>5, <1>6, <2>2, <3>1, <3>2, <4>1
        <3>3. CASE v = t
            <4>1. InTransaction(u)
                BY <1>3, <2>2, <3>3
            <4> QED BY <1>4, <1>5, <1>6, <2>2, <3>1, <3>3, <4>1
        <3>4. CASE u # t /\ v # t
            BY <2>2, <3>4, ThreadPair
        <3> QED BY <3>2, <3>3, <3>4
    <2> QED BY <1>4, <1>6, <2>1, <2>2 DEF CallInv
<1>10. CountInv'
    BY <1>1, <1>7 DEF Inv, CountInv, StatisticsAccount, statistics
<1>11. /\ got' \in [Threads -> SUBSET Answers]
       /\ \A u \in Threads : got'[u] \subseteq got[u]
    BY <1>4, <1>5 DEF Begin, Inv, StreamInv
<1>12. StreamInv'
    BY <1>1, <1>11 DEF Inv, StreamInv, End
<1>13. OwnerInv'
    <2>1. \A q \in outstanding : q.owner \in Nat
        BY DEF Inv, OwnerInv, Queries
    <2>2. \A a \in stream : a.owner \in Nat
        BY DEF Inv, StreamInv, Answers
    <2>3. \A u \in Threads : \A a \in got'[u] : a.owner \in Nat /\ a.owner <= serial
        BY <1>11 DEF Inv, StreamInv, OwnerInv, Answers
    <2>4. \A n \in Nat : n <= serial => n <= serial' /\ n # serial + 1
        BY <1>1
    <2>5. ASSUME NEW u \in Threads, pc'[u] \in {"draw", "send"}, NEW q \in outstanding
          PROVE  q.owner # mine'[u]
        <3>1. CASE u = t
            BY <1>4, <2>1, <2>4, <3>1 DEF Inv, OwnerInv
        <3>2. CASE u # t
            BY <1>2, <1>5, <2>5, <3>2 DEF Inv, OwnerInv
        <3> QED BY <3>1, <3>2
    <2> QED BY <1>1, <2>1, <2>2, <2>3, <2>4, <2>5 DEF Inv, OwnerInv
<1>14. IdInv'
    <2> SUFFICES ASSUME ~ rtu, ~ raced'
                 PROVE  /\ \E c \in Ids : InOrder(c)'
                        /\ \A u \in Threads : pc'[u] = "draw" => mine'[u] = serial'
        BY <1>1 DEF IdInv
    <2>1. \A u \in Threads : pc[u] # "draw"
        BY <1>1
    <2>2. PICK c \in Ids : InOrder(c)
        BY <1>1 DEF Inv, IdInv
    <2>3. transactionId = IdOf(c, serial + 1)
        BY <2>1, <2>2 DEF InOrder, Drawing
    <2>4. Drawing'
        BY <1>2 DEF Drawing
    <2>5. \A u \in Threads : InTransaction(u)' => tid'[u] = IdOf(c, mine'[u])
        BY <1>3, <1>4, <1>5, <2>2, <2>3 DEF InOrder
    <2>6. InOrder(c)'
        BY <1>1, <1>11, <2>2, <2>3, <2>4, <2>5 DEF InOrder
    <2>7. \A u \in Threads : pc'[u] = "draw" => mine'[u] = serial'
        BY <1>1, <1>2, <1>4, <2>1
    <2> QED BY <2>6, <2>7
<1>15. BytesSuffice'
    <2>1. Waits("user")' = Waits("user") /\ Waits("poll")' = Waits("poll")
        BY <1>5, <1>7, ThreadPair DEF Waits
    <2> QED BY <1>1, <2>1 DEF Inv, BytesSuffice, Available, Owed, Wanted
<1> QED BY <1>8, <1>9, <1>10, <1>12, <1>13, <1>14, <1>15 DEF Inv


LEMMA OneThreadLess ==
    ASSUME NEW W \in SUBSET Threads, NEW t \in W
    PROVE  /\ Cardinality(W) \in Nat /\ Cardinality(W \ {t}) \in Nat
           /\ Cardinality(W) = Cardinality(W \ {t}) + 1
<1>1. \A V \in SUBSET Threads : Cardinality(V) = One("user", V) + One("poll", V)
    BY CountThreads
<1>2. W \ {t} \in SUBSET Threads
    OBVIOUS
<1>3. t = "user" \/ t = "poll"
    BY ThreadPair
<1> QED BY <1>1, <1>2, <1>3 DEF One

LEMMA UnderWayIn == UnderWay \in SUBSET Threads
BY DEF UnderWay

-----------------------------------------------------------------------------
(***************************************************************************)
(* A call returns.                                                         *)
(***************************************************************************)

LEMMA ReturnKeeps ==
    ASSUME Inv, NEW t \in Threads, NEW r, Return(t, r),
           pc[t] \in {"send", "wait", "receive", "parse"},
           UNCHANGED <<endpointVars, transactionId, linkVars, serial>>
    PROVE  /\ ControlInv' /\ CallInv' /\ StreamInv' /\ OwnerInv' /\ IdInv' /\ BytesSuffice'
           /\ UnderWay' = UnderWay \ {t}
<1> USE DEF endpointVars, linkVars, byteVars
<1>1. /\ pc' \in [Threads -> Places]
      /\ pc'[t] = IF t = "user" THEN "idle" ELSE "round"
      /\ \A u \in Threads \ {t} : pc'[u] = pc[u]
    BY DEF Return, Inv, ControlInv, Places
<1>2. /\ InTransaction(t) /\ ~ InTransaction(t)'
      /\ \A u \in Threads \ {t} : InTransaction(u)' <=> InTransaction(u)
    BY <1>1 DEF InTransaction
<1>3. /\ request' \in [Threads -> RequestType] /\ tid' \in [Threads -> Ids]
      /\ want' \in [Threads -> Nat] /\ mine' \in [Threads -> Nat]
      /\ overlap' \in [Threads -> BOOLEAN]
    <2>1. 0 \in Ids
        <3>1. 0 < TidSpace
            BY SMT DEF TidSpace
        <3> QED BY <3>1, IdRange
    <2>2. \A A, x : \A f \in [Threads -> A] : x \in A
             => [f EXCEPT ![t] = x] \in [Threads -> A]
        OBVIOUS
    <2> QED BY <2>1, <2>2, NoneIsRequest DEF Return, Inv, CallInv
<1>4. /\ \A u \in Threads \ {t} :
            /\ request'[u] = request[u] /\ tid'[u] = tid[u] /\ want'[u] = want[u]
            /\ got'[u] = got[u] /\ mine'[u] = mine[u] /\ overlap'[u] = overlap[u]
      /\ got'[t] = {} /\ got' \in [Threads -> SUBSET Answers]
    BY DEF Return, Inv, CallInv, StreamInv
<1>5. ControlInv'
    <2>1. next' \in 1 .. Len(Mappings) + 1
        BY <1>2, MappingIndices, ThreadPair DEF Return, Inv, ControlInv
    <2>2. /\ pc'["user"] \in {"idle", "join", "connect"} \cup Steps
          /\ pc'["poll"] \in {"off", "top", "round"} \cup Steps
          /\ pc'["poll"] = "off" <=> pc["poll"] = "off"
          /\ pc'["user"] = "join" <=> pc["user"] = "join"
        BY <1>1, ThreadPair DEF Inv, ControlInv
    <2>3. InTransaction("poll")' => next' \in DOMAIN Mappings
        BY <1>2, ThreadPair DEF Return, Inv, ControlInv
    <2>4. UNCHANGED <<polling, registered>>
        BY DEF Return
    <2> QED BY <1>1, <1>2, <2>1, <2>2, <2>3, <2>4 DEF Inv, ControlInv
<1>6. CallInv'
    BY <1>1, <1>2, <1>3, <1>4 DEF Inv, CallInv
<1>7. \A u \in Threads : got'[u] \subseteq got[u]
    BY <1>4
<1>8. StreamInv'
    BY <1>4, <1>7 DEF Inv, StreamInv, End
<1>9. OwnerInv'
    <2>1. \A u \in Threads : pc'[u] \in {"draw", "send"} => pc[u] \in {"draw", "send"} /\ mine'[u] = mine[u]
        BY <1>1, <1>4
    <2> QED BY <1>7, <2>1 DEF Inv, OwnerInv
<1>10. IdInv'
    <2>1. \A u \in Threads : pc'[u] = "draw" <=> pc[u] = "draw"
        BY <1>1
    <2>2. \A u \in Threads : pc'[u] = "draw" => mine'[u] = mine[u]
        BY <1>1, <1>4
    <2>3. Drawing' <=> Drawing
        BY <2>1 DEF Drawing
    <2>4. \A c : InOrder(c) => InOrder(c)'
        BY <1>2, <1>4, <1>7, <2>3 DEF InOrder
    <2> QED BY <2>1, <2>2, <2>4 DEF Inv, IdInv
<1>11. UnderWay' = UnderWay \ {t}
    BY <1>1 DEF UnderWay
<1>12. BytesSuffice'
    <2>1. \A u \in Threads : Waits(u) \in Nat /\ Waits(u)' \in Nat /\ Waits(u)' <= Waits(u)
        <3>1. \A u \in Threads : want[u] \in Nat
            BY DEF Inv, CallInv
        <3> QED BY <1>4, <1>11, <3>1 DEF Waits
    <2>2. Wanted' <= Wanted /\ Wanted \in Nat /\ Wanted' \in Nat
        BY <2>1, ThreadPair DEF Wanted
    <2>3. Available' = Available /\ Owed' = Owed /\ Available \in Nat /\ Owed \in Nat
        BY OwedOutstanding, AvailableIsNat DEF Available, Owed
    <2>4. \A i, j, m, n \in Nat : i + j >= m /\ n <= m => i + j >= n
        OBVIOUS
    <2> QED BY <2>2, <2>3, <2>4 DEF Inv, BytesSuffice
<1> QED BY <1>5, <1>6, <1>8, <1>9, <1>10, <1>11, <1>12

LEMMA SendFailsKeeps ==
    ASSUME Inv, NEW t \in Threads, SendFails(t)
    PROVE  Inv'
<1>1. /\ ControlInv' /\ CallInv' /\ StreamInv' /\ OwnerInv' /\ IdInv' /\ BytesSuffice'
      /\ UnderWay' = UnderWay \ {t}
    BY ReturnKeeps DEF SendFails
<1>2. t \notin UnderWay
    BY DEF SendFails, UnderWay
<1>3. UnderWay' = UnderWay
    BY <1>1, <1>2
<1>4. CountInv'
    BY <1>3 DEF SendFails, statistics, Inv, CountInv, StatisticsAccount
<1> QED BY <1>1, <1>4 DEF Inv

LEMMA NotReceivedKeeps ==
    ASSUME Inv, NEW t \in Threads, pc[t] \in {"wait", "receive"}, NotReceived(t)
    PROVE  Inv'
<1>1. /\ ControlInv' /\ CallInv' /\ StreamInv' /\ OwnerInv' /\ IdInv' /\ BytesSuffice'
      /\ UnderWay' = UnderWay \ {t}
    BY ReturnKeeps DEF NotReceived
<1>2. t \in UnderWay
    BY DEF UnderWay
<1>3. /\ Cardinality(UnderWay) \in Nat /\ Cardinality(UnderWay') \in Nat
      /\ Cardinality(UnderWay) = Cardinality(UnderWay') + 1
    BY <1>1, <1>2, UnderWayIn, OneThreadLess
<1>4. CountInv'
    BY <1>3 DEF NotReceived, Inv, CountInv, StatisticsAccount
<1> QED BY <1>1, <1>4 DEF Inv

LEMMA ParsedKeeps ==
    ASSUME Inv, NEW t \in Threads, Reject(t) \/ Parse(t)
    PROVE  Inv'
<1>1. /\ pc[t] = "parse" /\ \E r : Return(t, r)
      /\ UNCHANGED <<endpointVars, transactionId, requestsSent, responsesReceived,
                     timeouts, carried, linkVars, serial>>
      /\ errors' = errors \/ errors' = errors + 1
    <2>1. CASE Reject(t)
        BY <2>1 DEF Reject, CountError
    <2>2. CASE Parse(t)
        BY <2>2 DEF Parse, CountError
    <2> QED BY <2>1, <2>2
<1>2. PICK r : Return(t, r)
    BY <1>1
<1>3. /\ ControlInv' /\ CallInv' /\ StreamInv' /\ OwnerInv' /\ IdInv' /\ BytesSuffice'
      /\ UnderWay' = UnderWay \ {t}
    BY <1>1, <1>2, ReturnKeeps
<1>4. t \notin UnderWay
    BY <1>1 DEF UnderWay
<1>5. UnderWay' = UnderWay
    BY <1>3, <1>4
<1>6. CountInv'
    BY <1>1, <1>5 DEF Inv, CountInv, StatisticsAccount
<1> QED BY <1>3, <1>6 DEF Inv


-----------------------------------------------------------------------------
(***************************************************************************)
(* The steps of a transaction: the threads go on.                          *)
(***************************************************************************)

\* Every thread stays, or goes on in its transaction.
GoOn ==
    /\ pc' \in [Threads -> Places]
    /\ \A t \in Threads : pc'[t] = pc[t] \/ (pc[t] \in Steps /\ pc'[t] \in Steps)
    /\ \A t \in Threads : pc'[t] = "draw" => pc[t] = "draw"
    /\ \A t \in Threads : pc'[t] \in {"draw", "send"} => pc[t] \in {"draw", "send"}
    /\ \A t \in Threads :
          pc'[t] \in {"draw", "send", "wait"} => pc[t] \in {"draw", "send", "wait"}

LEMMA GoesOn ==
    ASSUME Inv, NEW t \in Threads,
           \/ pc[t] = "draw" /\ pc' = [pc EXCEPT ![t] = "send"]
           \/ pc[t] = "send" /\ pc' = [pc EXCEPT ![t] = "wait"]
           \/ pc[t] = "wait" /\ pc' = [pc EXCEPT ![t] = "receive"]
           \/ pc[t] = "receive" /\ pc' = [pc EXCEPT ![t] = "parse"]
    PROVE  GoOn /\ \A u \in Threads \ {t} : pc'[u] = pc[u]
<1>1. pc \in [Threads -> Places]
    BY DEF Inv, ControlInv
<1>2. ASSUME NEW p \in Places, pc' = [pc EXCEPT ![t] = p]
      PROVE  /\ pc' \in [Threads -> Places] /\ pc'[t] = p
             /\ \A u \in Threads \ {t} : pc'[u] = pc[u]
    BY <1>1, <1>2
<1>3. /\ pc' \in [Threads -> Places] /\ \A u \in Threads \ {t} : pc'[u] = pc[u]
      /\ \/ pc[t] = "draw" /\ pc'[t] = "send"
         \/ pc[t] = "send" /\ pc'[t] = "wait"
         \/ pc[t] = "wait" /\ pc'[t] = "receive"
         \/ pc[t] = "receive" /\ pc'[t] = "parse"
    <2>1. {"send", "wait", "receive", "parse"} \subseteq Places
        BY DEF Places, Steps
    <2> QED BY <1>2, <2>1
<1>4. /\ pc[t] \in Steps /\ pc'[t] \in Steps
      /\ pc'[t] # "draw"
      /\ pc'[t] \in {"draw", "send"} => pc[t] \in {"draw", "send"}
      /\ pc'[t] \in {"draw", "send", "wait"} => pc[t] \in {"draw", "send", "wait"}
    BY <1>3 DEF Steps
<1>5. GoOn
    BY <1>3, <1>4 DEF GoOn
<1> QED BY <1>3, <1>5

LEMMA SameTransactions ==
    ASSUME GoOn
    PROVE  \A t \in Threads : InTransaction(t)' <=> InTransaction(t)
BY DEF GoOn, InTransaction, Steps

LEMMA GoOnControl ==
    ASSUME Inv, GoOn, transactionId' \in Ids,
           UNCHANGED <<endpointVars, pollVars, peerOpen, faulty, raced, serial>>
    PROVE  ControlInv'
<1>1. \A t \in Threads : InTransaction(t)' <=> InTransaction(t)
    BY SameTransactions
<1>2. /\ pc'["user"] \in {"idle", "join", "connect"} \cup Steps
      /\ pc'["poll"] \in {"off", "top", "round"} \cup Steps
      /\ pc["poll"] = "off" => pc'["poll"] = "off"
      /\ pc["user"] = "join" => pc'["user"] = "join"
    BY ThreadPair DEF Inv, ControlInv, GoOn, Steps
<1> QED BY <1>1, <1>2, ThreadPair DEF Inv, ControlInv, GoOn, endpointVars, pollVars

LEMMA GoOnCalls ==
    ASSUME Inv, GoOn, UNCHANGED <<request, tid, mine, overlap, serial>>,
           want' \in [Threads -> Nat],
           \A t \in Threads :
              /\ InTransaction(t) => want'[t] <= Expected(request[t])
              /\ want'[t] = want[t] \/ pc'[t] \notin {"draw", "send", "wait"}
              /\ got'[t] = {} \/ InTransaction(t)
    PROVE  CallInv'
<1>1. \A t \in Threads : InTransaction(t)' <=> InTransaction(t)
    BY SameTransactions
<1> QED BY <1>1 DEF Inv, CallInv, GoOn

LEMMA GoOnOwners ==
    ASSUME Inv, GoOn, UNCHANGED <<outstanding, connected, mine, serial>>,
           stream' \subseteq stream,
           \A t \in Threads : got'[t] \subseteq got[t] \cup stream
    PROVE  OwnerInv'
BY DEF Inv, OwnerInv, GoOn

LEMMA GoOnIds ==
    ASSUME Inv, GoOn, \A t \in Threads : pc[t] = "draw" => pc'[t] = "draw",
           UNCHANGED <<connected, rtu, raced, transactionId, outstanding, tid, mine, serial>>,
           stream' \subseteq stream,
           \A t \in Threads : got'[t] \subseteq got[t] \cup stream
    PROVE  IdInv'
<1>1. \A t \in Threads : InTransaction(t)' <=> InTransaction(t)
    BY SameTransactions
<1>2. Drawing' <=> Drawing
    BY DEF Drawing, GoOn
<1>3. \A c : InOrder(c) => InOrder(c)'
    BY <1>1, <1>2 DEF InOrder
<1> QED BY <1>3 DEF Inv, IdInv, GoOn

\* One thread comes to wait for more bytes, or for less.
LEMMA WaitsChange ==
    ASSUME NEW t \in Threads, \A u \in Threads \ {t} : Waits(u)' = Waits(u),
           \A u \in Threads : Waits(u) \in Nat, Waits(t)' \in Nat
    PROVE  Wanted \in Nat /\ Wanted' \in Nat /\ Wanted' + Waits(t) = Wanted + Waits(t)'
BY ThreadPair DEF Wanted

LEMMA WaitsAreNat == Inv => \A t \in Threads : Waits(t) \in Nat
BY DEF Inv, CallInv, Waits

LEMMA DrawKeeps ==
    ASSUME Inv, NEW t \in Threads, Draw(t)
    PROVE  Inv'
<1> USE DEF callVars, linkVars, byteVars
<1>1. /\ pc[t] = "draw" /\ pc' = [pc EXCEPT ![t] = "send"]
      /\ transactionId' = (tid[t] + 1) % TidSpace
      /\ UNCHANGED <<endpointVars, pollVars, statistics, callVars, linkVars, serial>>
    BY DEF Draw
<1>2. GoOn /\ \A u \in Threads \ {t} : pc'[u] = pc[u]
    BY <1>1, GoesOn
<1>3. pc'[t] = "send"
    BY <1>1 DEF Inv, ControlInv
<1>4. tid[t] \in Ids /\ transactionId' \in Ids
    <2>1. \A c \in Nat : IdOf(0, c) \in Ids
        <3>1. 0 < TidSpace
            BY SMT DEF TidSpace
        <3>2. 0 \in Ids
            BY <3>1, IdRange
        <3> QED BY <3>2, IdsOf
    <2>2. tid[t] \in Ids
        BY DEF Inv, CallInv
    <2>3. tid[t] + 1 \in Nat /\ 0 + (tid[t] + 1) = tid[t] + 1
        BY <2>2, IdRange
    <2>4. IdOf(0, tid[t] + 1) = (tid[t] + 1) % TidSpace
        BY <2>3 DEF IdOf
    <2> QED BY <1>1, <2>1, <2>2, <2>3, <2>4
<1>5. ControlInv'
    BY <1>1, <1>2, <1>4, GoOnControl
<1>6. CallInv'
    <2>1. \A u \in Threads : /\ InTransaction(u) => want[u] <= Expected(request[u])
                             /\ got[u] = {} \/ InTransaction(u)
        BY DEF Inv, CallInv
    <2>2. want \in [Threads -> Nat]
        BY DEF Inv, CallInv
    <2> QED BY <1>1, <1>2, <2>1, <2>2, GoOnCalls
<1>7. UnderWay' = UnderWay
    BY <1>1, <1>2, <1>3 DEF UnderWay
<1>8. CountInv'
    BY <1>1, <1>7 DEF Inv, CountInv, StatisticsAccount, statistics
<1>9. StreamInv'
    BY <1>1 DEF Inv, StreamInv, End
<1>10. OwnerInv'
    <2>1. stream' \subseteq stream /\ \A u \in Threads : got'[u] \subseteq got[u] \cup stream
        BY <1>1
    <2> QED BY <1>1, <1>2, <2>1, GoOnOwners DEF endpointVars
<1>11. IdInv'
    <2> SUFFICES ASSUME ~ rtu, connected, ~ raced
                 PROVE  /\ \E c \in Ids : InOrder(c)'
                        /\ \A u \in Threads : pc'[u] = "draw" => mine'[u] = serial'
        BY <1>1 DEF IdInv, endpointVars
    <2>1. PICK c \in Ids : InOrder(c)
        BY DEF Inv, IdInv
    <2>2. \A u \in Threads : pc[u] = "draw" => mine[u] = serial
        BY DEF Inv, IdInv
    <2>3. \A u \in Threads \ {t} : pc[u] # "draw"
        <3>1. \A u \in Threads \ {t} : pc[u] = "draw" => mine[u] # mine[t]
            BY <1>1 DEF Inv, CallInv, InTransaction
        <3> QED BY <1>1, <2>2, <3>1
    <2>4. \A u \in Threads : pc'[u] # "draw"
        BY <1>2, <1>3, <2>3
    <2>5. transactionId' = IdOf(c, serial + 1)
        <3>1. tid[t] = IdOf(c, serial)
            BY <1>1, <2>1, <2>2 DEF InOrder, InTransaction
        <3>2. serial \in Nat
            BY DEF Inv, ControlInv
        <3> QED BY <1>1, <3>1, <3>2, IdsOf
    <2>6. \A u \in Threads : InTransaction(u)' <=> InTransaction(u)
        BY <1>2, SameTransactions
    <2>7. InOrder(c)'
        BY <1>1, <2>1, <2>4, <2>5, <2>6 DEF InOrder, Drawing
    <2> QED BY <2>4, <2>7
<1>12. BytesSuffice'
    <2>1. Wanted' = Wanted
        BY <1>1, <1>7 DEF Wanted, Waits
    <2> QED BY <1>1, <2>1 DEF Inv, BytesSuffice, Available, Owed, endpointVars
<1> QED BY <1>5, <1>6, <1>8, <1>9, <1>10, <1>11, <1>12 DEF Inv


LEMMA ReadyKeeps ==
    ASSUME Inv, NEW t \in Threads, Ready(t)
    PROVE  Inv'
<1> USE DEF callVars, linkVars, byteVars
<1>1. /\ pc[t] = "wait" /\ pc' = [pc EXCEPT ![t] = "receive"]
      /\ UNCHANGED <<endpointVars, transactionId, pollVars, statistics, callVars,
                     linkVars, serial>>
    BY DEF Ready
<1>2. GoOn /\ \A u \in Threads \ {t} : pc'[u] = pc[u]
    BY <1>1, GoesOn
<1>3. pc'[t] = "receive"
    BY <1>1 DEF Inv, ControlInv
<1>4. UnderWay' = UnderWay
    BY <1>1, <1>2, <1>3 DEF UnderWay
<1>5. stream' \subseteq stream /\ \A u \in Threads : got'[u] \subseteq got[u] \cup stream
    BY <1>1
<1>6. ControlInv'
    <2>1. transactionId' \in Ids
        BY <1>1 DEF Inv, ControlInv
    <2> QED BY <1>1, <1>2, <2>1, GoOnControl
<1>7. CallInv'
    <2>1. \A u \in Threads : /\ InTransaction(u) => want[u] <= Expected(request[u])
                             /\ got[u] = {} \/ InTransaction(u)
        BY DEF Inv, CallInv
    <2>2. want \in [Threads -> Nat]
        BY DEF Inv, CallInv
    <2> QED BY <1>1, <1>2, <2>1, <2>2, GoOnCalls
<1>8. CountInv'
    BY <1>1, <1>4 DEF Inv, CountInv, StatisticsAccount, statistics
<1>9. StreamInv'
    BY <1>1 DEF Inv, StreamInv, End
<1>10. OwnerInv'
    BY <1>1, <1>2, <1>5, GoOnOwners DEF endpointVars
<1>11. IdInv'
    <2>1. \A u \in Threads : pc[u] = "draw" => pc'[u] = "draw"
        BY <1>1, <1>2
    <2> QED BY <1>1, <1>2, <1>5, <2>1, GoOnIds DEF endpointVars
<1>12. BytesSuffice'
    <2>1. Wanted' = Wanted
        BY <1>1, <1>4 DEF Wanted, Waits
    <2> QED BY <1>1, <2>1 DEF Inv, BytesSuffice, Available, Owed, endpointVars
<1> QED BY <1>6, <1>7, <1>8, <1>9, <1>10, <1>11, <1>12 DEF Inv

\* What a call sends, if the device has not closed the connection.
QueryOf(t) == [owner |-> mine[t], tid |-> tid[t],
               fn |-> request[t].fn, count |-> request[t].count]

LEMMA Queried ==
    ASSUME Inv, NEW t \in Threads, pc[t] = "send"
    PROVE  /\ QueryOf(t) \in Queries /\ QueryOf(t) \notin outstanding
           /\ QueryOf(t).owner = mine[t] /\ QueryOf(t).tid = tid[t]
           /\ AnswerLength(QueryOf(t)) = want[t] /\ want[t] \in Nat
           /\ mine[t] <= serial
<1>1. /\ request[t] \in RequestType /\ tid[t] \in Ids /\ mine[t] \in Nat
      /\ want[t] \in Nat /\ mine[t] <= serial /\ want[t] = Expected(request[t])
    BY DEF Inv, CallInv, InTransaction
<1>2. request[t].fn \in Functions /\ request[t].count \in Nat
    BY <1>1 DEF RequestType, Functions
<1>3. QueryOf(t) \in Queries
    BY <1>1, <1>2 DEF QueryOf, Queries
<1>4. /\ QueryOf(t).owner = mine[t] /\ QueryOf(t).tid = tid[t]
      /\ QueryOf(t).fn = request[t].fn /\ QueryOf(t).count = request[t].count
    BY DEF QueryOf
<1>5. QueryOf(t) \notin outstanding
    BY <1>4 DEF Inv, OwnerInv
<1>6. AnswerLength(QueryOf(t)) = Expected(request[t])
    BY <1>1, <1>2, <1>4, AnswerLengths
<1> QED BY <1>1, <1>3, <1>4, <1>5, <1>6

LEMMA SendKeeps ==
    ASSUME Inv, NEW t \in Threads, Send(t)
    PROVE  Inv'
<1> USE DEF callVars, byteVars
<1> DEFINE q == QueryOf(t)
<1>1. /\ pc[t] = "send" /\ pc' = [pc EXCEPT ![t] = "wait"]
      /\ requestsSent' = requestsSent + 1
      /\ outstanding' = IF peerOpen THEN outstanding \cup {q} ELSE outstanding
      /\ UNCHANGED <<endpointVars, transactionId, pollVars, responsesReceived, timeouts,
                     errors, carried, callVars, byteVars, peerOpen, faulty, raced, serial>>
    BY DEF Send, QueryOf
<1>2. GoOn /\ \A u \in Threads \ {t} : pc'[u] = pc[u]
    BY <1>1, GoesOn
<1>3. pc'[t] = "wait"
    BY <1>1 DEF Inv, ControlInv
<1>4. /\ q \in Queries /\ q \notin outstanding
      /\ q.owner = mine[t] /\ q.tid = tid[t]
      /\ AnswerLength(q) = want[t] /\ want[t] \in Nat /\ mine[t] <= serial
    BY <1>1, Queried
<1> HIDE DEF q
<1>5. UnderWay = UnderWay' \ {t} /\ t \in UnderWay'
    BY <1>1, <1>2, <1>3 DEF UnderWay
<1>6. ControlInv'
    <2>1. transactionId' \in Ids
        BY <1>1 DEF Inv, ControlInv
    <2> QED BY <1>1, <1>2, <2>1, GoOnControl
<1>7. CallInv'
    <2>1. \A u \in Threads : /\ InTransaction(u) => want[u] <= Expected(request[u])
                             /\ got[u] = {} \/ InTransaction(u)
        BY DEF Inv, CallInv
    <2>2. want \in [Threads -> Nat]
        BY DEF Inv, CallInv
    <2> QED BY <1>1, <1>2, <2>1, <2>2, GoOnCalls
<1>8. CountInv'
    <2>1. UnderWay' \in SUBSET Threads
        BY DEF UnderWay
    <2>2. /\ Cardinality(UnderWay) \in Nat /\ Cardinality(UnderWay') \in Nat
          /\ Cardinality(UnderWay') = Cardinality(UnderWay) + 1
        BY <1>5, <2>1, OneThreadLess
    <2> QED BY <1>1, <2>2 DEF Inv, CountInv, StatisticsAccount
<1>9. StreamInv'
    BY <1>1 DEF Inv, StreamInv, End
<1>10. OwnerInv'
    <2>1. IsFiniteSet(outstanding') /\ outstanding' \subseteq Queries
        BY <1>1, <1>4, FS_AddElement DEF Inv, OwnerInv
    <2>2. InTransaction(t)
        BY <1>1 DEF InTransaction
    <2>3. connected
        BY <2>2 DEF Inv, ControlInv
    <2>4. \A u \in Threads : pc'[u] \in {"draw", "send"} =>
             u # t /\ pc[u] \in {"draw", "send"} /\ mine[u] # mine[t]
        BY <1>2, <1>3, <2>2 DEF Inv, CallInv, InTransaction
    <2>5. \A p \in outstanding' : p \in outstanding \/ p = q
        BY <1>1
    <2> QED BY <1>1, <1>4, <2>1, <2>3, <2>4, <2>5 DEF Inv, OwnerInv, endpointVars
<1>11. IdInv'
    <2>1. \A u \in Threads : pc'[u] = "draw" <=> pc[u] = "draw"
        BY <1>1, <1>2, <1>3
    <2>2. Drawing' <=> Drawing
        BY <2>1 DEF Drawing
    <2>3. \A u \in Threads : InTransaction(u)' <=> InTransaction(u)
        BY <1>2, SameTransactions
    <2>4. InTransaction(t)
        BY <1>1 DEF InTransaction
    <2>5. \A p \in outstanding' : p \in outstanding \/ p = q
        BY <1>1
    <2>6. \A c : InOrder(c) => InOrder(c)'
        BY <1>1, <1>4, <2>2, <2>3, <2>4, <2>5 DEF InOrder
    <2> QED BY <1>1, <2>1, <2>6 DEF Inv, IdInv, endpointVars
<1>12. BytesSuffice'
    <2> SUFFICES ASSUME ~ rtu, peerOpen, ~ faulty
                 PROVE  Available' + Owed' >= Wanted'
        BY <1>1 DEF BytesSuffice, endpointVars
    <2>1. Owed' = AnswerLength(q) + Owed
        <3>1. Owed' = OwedFor(outstanding \cup {q}) /\ Owed = OwedFor(outstanding)
            BY <1>1 DEF Owed, OwedFor
        <3>2. OwedFor(outstanding \cup {q}) = AnswerLength(q) + OwedFor(outstanding)
            BY <1>4, OwedOutstanding, OwedMore
        <3> QED BY <3>1, <3>2
    <2>2. /\ \A u \in Threads \ {t} : Waits(u)' = Waits(u)
          /\ Waits(t) = 0 /\ Waits(t)' = want[t]
        BY <1>1, <1>5 DEF Waits
    <2>3. Wanted \in Nat /\ Wanted' \in Nat /\ Wanted' + 0 = Wanted + want[t]
        BY <1>4, <2>2, WaitsAreNat, WaitsChange
    <2>4. Available' = Available /\ Available \in Nat /\ Owed \in Nat
        BY <1>1, AvailableIsNat, OwedOutstanding DEF Available
    <2>5. Available + Owed >= Wanted
        BY DEF Inv, BytesSuffice
    <2> QED BY <1>4, <2>1, <2>3, <2>4, <2>5
<1> QED BY <1>6, <1>7, <1>8, <1>9, <1>10, <1>11, <1>12 DEF Inv

LEMMA ReceiveShortKeeps ==
    ASSUME Inv, NEW t \in Threads, ReceiveShort(t)
    PROVE  Inv'
<1> USE DEF callVars, linkVars, byteVars
<1>1. /\ pc[t] = "receive" /\ pc' = [pc EXCEPT ![t] = "parse"] /\ ~ peerOpen
      /\ responsesReceived' = responsesReceived + 1
      /\ UNCHANGED <<endpointVars, transactionId, pollVars, requestsSent, timeouts,
                     errors, carried, callVars, linkVars, serial>>
    BY DEF ReceiveShort, Received
<1>2. GoOn /\ \A u \in Threads \ {t} : pc'[u] = pc[u]
    BY <1>1, GoesOn
<1>3. pc'[t] = "parse"
    BY <1>1 DEF Inv, ControlInv
<1>4. UnderWay' = UnderWay \ {t} /\ t \in UnderWay
    BY <1>1, <1>2, <1>3 DEF UnderWay
<1>5. stream' \subseteq stream /\ \A u \in Threads : got'[u] \subseteq got[u] \cup stream
    BY <1>1
<1>6. ControlInv'
    <2>1. transactionId' \in Ids
        BY <1>1 DEF Inv, ControlInv
    <2> QED BY <1>1, <1>2, <2>1, GoOnControl
<1>7. CallInv'
    <2>1. \A u \in Threads : /\ InTransaction(u) => want[u] <= Expected(request[u])
                             /\ got[u] = {} \/ InTransaction(u)
        BY DEF Inv, CallInv
    <2>2. want \in [Threads -> Nat]
        BY DEF Inv, CallInv
    <2> QED BY <1>1, <1>2, <2>1, <2>2, GoOnCalls
<1>8. CountInv'
    <2>1. /\ Cardinality(UnderWay) \in Nat /\ Cardinality(UnderWay') \in Nat
          /\ Cardinality(UnderWay) = Cardinality(UnderWay') + 1
        BY <1>4, UnderWayIn, OneThreadLess
    <2> QED BY <1>1, <2>1 DEF Inv, CountInv, StatisticsAccount
<1>9. StreamInv'
    BY <1>1 DEF Inv, StreamInv, End
<1>10. OwnerInv'
    BY <1>1, <1>2, <1>5, GoOnOwners DEF endpointVars
<1>11. IdInv'
    <2>1. \A u \in Threads : pc[u] = "draw" => pc'[u] = "draw"
        BY <1>1, <1>2
    <2> QED BY <1>1, <1>2, <1>5, <2>1, GoOnIds DEF endpointVars
<1>12. BytesSuffice'
    BY <1>1 DEF BytesSuffice
<1> QED BY <1>6, <1>7, <1>8, <1>9, <1>10, <1>11, <1>12 DEF Inv


-----------------------------------------------------------------------------
(***************************************************************************)
(* The steps of a transaction: bytes are received.                         *)
(***************************************************************************)

LEMMA StreamLengths ==
    ASSUME Inv, NEW a \in stream
    PROVE  AnswerLength(a) \in Nat /\ AnswerLength(a) >= 9 /\ a.at \in Nat /\ End(a) \in Nat
<1>1. a.fn \in Functions \cup {"exception"} /\ a.count \in Nat /\ a.at \in Nat
    BY DEF Inv, StreamInv, Answers
<1>2. AnswerLength(a) \in Nat /\ AnswerLength(a) >= 9
    BY <1>1, FrameLengths
<1> QED BY <1>1, <1>2 DEF End

LEMMA BytesTaken ==
    ASSUME Inv, NEW n \in Nat, n <= Available, TakeBytes(n)
    PROVE  /\ stream' \subseteq stream /\ IsFiniteSet(stream')
           /\ taken' \in Nat /\ taken' <= written' /\ written' = written
           /\ \A a \in stream' : taken' < End(a) /\ End(a) <= written'
           /\ taken' < written' => \E a \in stream' : End(a) = written'
           /\ Available' \in Nat /\ Available' + n = Available
<1>1. /\ taken \in Nat /\ written \in Nat /\ taken <= written
      /\ taken' = taken + n /\ written' = written
      /\ \A a \in stream : End(a) \in Nat /\ End(a) <= written
    BY StreamLengths DEF TakeBytes, Inv, StreamInv
<1>2. stream' = {a \in stream : End(a) > taken + n}
    BY DEF TakeBytes, End
<1>3. taken' \in Nat /\ taken' <= written'
    BY <1>1 DEF Available
<1>4. Available' \in Nat /\ Available' + n = Available
    BY <1>1, <1>3 DEF Available
<1>5. stream' \subseteq stream
    BY <1>2
<1>6. IsFiniteSet(stream')
    BY <1>5, FS_Subset DEF Inv, StreamInv
<1>7. \A a \in stream' : taken' < End(a) /\ End(a) <= written'
    BY <1>1, <1>2
<1>8. taken' < written' => \E a \in stream' : End(a) = written'
    <2> SUFFICES ASSUME taken' < written' PROVE \E a \in stream' : End(a) = written'
        OBVIOUS
    <2>1. taken < written
        BY <1>1
    <2>2. PICK a \in stream : End(a) = written
        BY <2>1 DEF Inv, StreamInv
    <2>3. End(a) > taken + n
        BY <1>1, <2>2
    <2> QED BY <1>1, <1>2, <2>2, <2>3
<1> QED BY <1>1, <1>3, <1>4, <1>5, <1>6, <1>7, <1>8

LEMMA TakeKeeps ==
    ASSUME Inv, NEW t \in Threads, Take(t)
    PROVE  Inv'
<1> DEFINE m == Min({want[t], Available})
<1>1. /\ want[t] \in Nat /\ Available \in Nat
      /\ m \in Nat /\ m <= want[t] /\ m <= Available
    <2>1. want[t] \in Nat
        BY DEF Inv, CallInv
    <2> QED BY <2>1, AvailableIsNat, MinOfTwo
<1>2. PICK n \in Nat : n = m
    BY <1>1
<1>3. /\ ~ rtu /\ pc[t] = "receive"
      /\ TakeBytes(n)
      /\ want' = [want EXCEPT ![t] = want[t] - n]
      /\ got' = [got EXCEPT ![t] = IF want[t] = Expected(request[t]) THEN Whole(n) ELSE got[t]]
      /\ IF n = want[t] THEN Received(t) ELSE UNCHANGED <<responsesReceived, pc>>
      /\ UNCHANGED <<endpointVars, transactionId, pollVars, requestsSent, timeouts,
                     errors, carried, request, tid, mine, result, overlap,
                     outstanding, peerOpen, faulty, raced, serial>>
    BY <1>2 DEF Take
<1>4. n <= want[t] /\ n <= Available
    BY <1>1, <1>2
<1> HIDE DEF m
<1>5. /\ stream' \subseteq stream /\ IsFiniteSet(stream')
      /\ taken' \in Nat /\ taken' <= written' /\ written' = written
      /\ \A a \in stream' : taken' < End(a) /\ End(a) <= written'
      /\ taken' < written' => \E a \in stream' : End(a) = written'
      /\ Available' \in Nat /\ Available' + n = Available
    BY <1>3, <1>4, BytesTaken
<1>6. /\ want' \in [Threads -> Nat] /\ want'[t] = want[t] - n
      /\ \A u \in Threads \ {t} : want'[u] = want[u]
    <2>1. want[t] - n \in Nat
        BY <1>1, <1>4
    <2> QED BY <1>3, <2>1 DEF Inv, CallInv
<1>7. /\ got' \in [Threads -> SUBSET Answers]
      /\ \A u \in Threads : got'[u] \subseteq got[u] \cup stream
      /\ \A u \in Threads : \A a, b \in got'[u] : a = b
    <2>1. Whole(n) \subseteq stream /\ \A a, b \in Whole(n) : a = b
        BY DEF Whole, Inv, StreamInv
    <2>2. got \in [Threads -> SUBSET Answers] /\ stream \subseteq Answers
          /\ \A u \in Threads : \A a, b \in got[u] : a = b
        BY DEF Inv, StreamInv
    <2>3. \A u \in Threads \ {t} : got'[u] = got[u]
        BY <1>3, <2>2
    <2>4. got'[t] = Whole(n) \/ got'[t] = got[t]
        BY <1>3, <2>2
    <2>5. got' \in [Threads -> SUBSET Answers]
        BY <1>3, <2>1, <2>2
    <2> QED BY <2>1, <2>2, <2>3, <2>4, <2>5
<1>8. /\ GoOn /\ \A u \in Threads \ {t} : pc'[u] = pc[u]
      /\ n = want[t] => pc'[t] = "parse"
      /\ n # want[t] => pc'[t] = "receive"
    <2>1. pc \in [Threads -> Places]
        BY DEF Inv, ControlInv
    <2>2. CASE n = want[t]
        <3>1. pc' = [pc EXCEPT ![t] = "parse"]
            BY <1>3, <2>2 DEF Received
        <3> QED BY <1>3, <2>1, <2>2, <3>1, GoesOn
    <2>3. CASE n # want[t]
        <3>1. pc' = pc
            BY <1>3, <2>3
        <3> QED BY <1>3, <2>1, <2>3, <3>1 DEF GoOn
    <2> QED BY <2>2, <2>3
<1>9. ControlInv'
    <2>1. transactionId' \in Ids
        BY <1>3 DEF Inv, ControlInv
    <2> QED BY <1>3, <1>8, <2>1, GoOnControl
<1>10. CallInv'
    <2>1. InTransaction(t)
        BY <1>3 DEF InTransaction
    <2>2. want'[t] <= Expected(request[t])
        <3>1. want[t] <= Expected(request[t]) /\ request[t] \in RequestType
            BY <2>1 DEF Inv, CallInv
        <3>2. Expected(request[t]) \in Nat
            BY <3>1, ExpectedLengths
        <3> QED BY <1>1, <1>6, <3>1, <3>2
    <2>3. \A u \in Threads :
             /\ InTransaction(u) => want'[u] <= Expected(request[u])
             /\ want'[u] = want[u] \/ pc'[u] \notin {"draw", "send", "wait"}
             /\ got'[u] = {} \/ InTransaction(u)
        <3>1. \A u \in Threads \ {t} : got'[u] = got[u]
            BY <1>3 DEF Inv, StreamInv
        <3> QED BY <1>6, <1>8, <2>1, <2>2, <3>1 DEF Inv, CallInv
    <2> QED BY <1>3, <1>6, <1>8, <2>3, GoOnCalls
<1>11. CountInv'
    <2>1. CASE n = want[t]
        <3>1. UnderWay' = UnderWay \ {t} /\ t \in UnderWay
            BY <1>3, <1>8, <2>1 DEF UnderWay
        <3>2. /\ Cardinality(UnderWay) \in Nat /\ Cardinality(UnderWay') \in Nat
              /\ Cardinality(UnderWay) = Cardinality(UnderWay') + 1
            BY <3>1, UnderWayIn, OneThreadLess
        <3>3. responsesReceived' = responsesReceived + 1
            BY <1>3, <2>1 DEF Received
        <3> QED BY <1>3, <3>2, <3>3 DEF Inv, CountInv, StatisticsAccount
    <2>2. CASE n # want[t]
        <3>1. UnderWay' = UnderWay
            BY <1>3, <2>2 DEF UnderWay
        <3> QED BY <1>3, <2>2, <3>1 DEF Inv, CountInv, StatisticsAccount
    <2> QED BY <2>1, <2>2
<1>12. StreamInv'
    <2>1. stream \subseteq Answers /\ written \in Nat /\ \A a, b \in stream : a.at = b.at => a = b
        BY DEF Inv, StreamInv
    <2>2. \A a : End(a)' = End(a)
        BY DEF End
    <2>3. \A a \in stream' : taken' < End(a)' /\ End(a)' <= written'
        BY <1>5, <2>2
    <2>4. taken' < written' => \E a \in stream' : End(a)' = written'
        BY <1>5, <2>2
    <2> QED BY <1>5, <1>7, <2>1, <2>3, <2>4 DEF StreamInv
<1>13. OwnerInv'
    BY <1>3, <1>5, <1>7, <1>8, GoOnOwners DEF endpointVars
<1>14. IdInv'
    <2>1. \A u \in Threads : pc[u] = "draw" => pc'[u] = "draw"
        BY <1>3, <1>8
    <2> QED BY <1>3, <1>5, <1>7, <1>8, <2>1, GoOnIds DEF endpointVars
<1>15. BytesSuffice'
    <2> SUFFICES ASSUME peerOpen, ~ faulty
                 PROVE  Available' + Owed' >= Wanted'
        BY <1>3 DEF BytesSuffice, endpointVars
    <2>1. t \in UnderWay /\ \A u \in Threads \ {t} : u \in UnderWay' <=> u \in UnderWay
        BY <1>3, <1>8 DEF UnderWay
    <2>2. \A u \in Threads \ {t} : Waits(u)' = Waits(u)
        BY <1>6, <2>1 DEF Waits
    <2>3. Waits(t) = want[t] /\ Waits(t)' = want[t] - n
        <3>1. CASE n = want[t]
            <4>1. t \notin UnderWay'
                BY <1>8, <3>1 DEF UnderWay
            <4> QED BY <1>1, <2>1, <3>1, <4>1 DEF Waits
        <3>2. CASE n # want[t]
            <4>1. t \in UnderWay'
                BY <1>8, <3>2 DEF UnderWay
            <4> QED BY <1>6, <2>1, <4>1 DEF Waits
        <3> QED BY <3>1, <3>2
    <2>4. Waits(t)' \in Nat
        BY <1>1, <1>4, <2>3
    <2>5. Wanted \in Nat /\ Wanted' \in Nat /\ Wanted' + want[t] = Wanted + (want[t] - n)
        BY <2>2, <2>3, <2>4, WaitsAreNat, WaitsChange
    <2>6. Owed' = Owed /\ Owed \in Nat
        BY <1>3, OwedOutstanding DEF Owed
    <2>7. Available + Owed >= Wanted
        BY <1>3 DEF Inv, BytesSuffice
    <2>8. \A i, j, k, w, x, y \in Nat :
             j + n = i /\ i + k >= x /\ y + w = x + (w - n) => j + k >= y
        OBVIOUS
    <2>9. Available' + Owed >= Wanted'
        BY <1>1, <1>5, <2>5, <2>6, <2>7, <2>8, Zenon
    <2> QED BY <2>6, <2>9
<1> QED BY <1>9, <1>10, <1>11, <1>12, <1>13, <1>14, <1>15 DEF Inv


LEMMA ReceiveFrameKeeps ==
    ASSUME Inv, NEW t \in Threads, ReceiveFrame(t)
    PROVE  Inv'
<1>1. /\ rtu /\ pc[t] = "receive" /\ pc' = [pc EXCEPT ![t] = "parse"]
      /\ responsesReceived' = responsesReceived + 1
      /\ got' = [got EXCEPT ![t] = IF Cardinality(stream) = 1 THEN stream ELSE {}]
      /\ TakeBytes(Available)
      /\ UNCHANGED <<endpointVars, transactionId, pollVars, requestsSent, timeouts,
                     errors, carried, request, tid, want, mine, result, overlap,
                     outstanding, peerOpen, faulty, raced, serial>>
    BY DEF ReceiveFrame, Received
<1>2. GoOn /\ \A u \in Threads \ {t} : pc'[u] = pc[u]
    BY <1>1, GoesOn
<1>3. pc'[t] = "parse"
    BY <1>1 DEF Inv, ControlInv
<1>4. UnderWay' = UnderWay \ {t} /\ t \in UnderWay
    BY <1>1, <1>2, <1>3 DEF UnderWay
<1>5. /\ stream' \subseteq stream /\ IsFiniteSet(stream')
      /\ taken' \in Nat /\ taken' <= written' /\ written' = written
      /\ \A a \in stream' : taken' < End(a) /\ End(a) <= written'
      /\ taken' < written' => \E a \in stream' : End(a) = written'
    <2>1. Available \in Nat /\ Available <= Available
        BY AvailableIsNat
    <2> QED BY <1>1, <2>1, BytesTaken
<1>6. /\ got' \in [Threads -> SUBSET Answers]
      /\ \A u \in Threads : got'[u] \subseteq got[u] \cup stream
      /\ \A u \in Threads : \A a, b \in got'[u] : a = b
      /\ \A u \in Threads \ {t} : got'[u] = got[u]
    <2>1. got \in [Threads -> SUBSET Answers] /\ stream \subseteq Answers
          /\ IsFiniteSet(stream) /\ \A u \in Threads : \A a, b \in got[u] : a = b
        BY DEF Inv, StreamInv
    <2>2. /\ got' \in [Threads -> SUBSET Answers]
          /\ \A u \in Threads \ {t} : got'[u] = got[u]
          /\ got'[t] = IF Cardinality(stream) = 1 THEN stream ELSE {}
        BY <1>1, <2>1
    <2>3. Cardinality(stream) = 1 => \A a, b \in stream : a = b
        <3> SUFFICES ASSUME Cardinality(stream) = 1, NEW a \in stream, NEW b \in stream, a # b
                     PROVE  FALSE
            OBVIOUS
        <3>1. IsFiniteSet(stream \ {a}) /\ Cardinality(stream \ {a}) = 0
            <4>1. /\ IsFiniteSet(stream \ {a})
                  /\ Cardinality(stream \ {a}) = IF a \in stream THEN Cardinality(stream) - 1
                                                 ELSE Cardinality(stream)
                BY <2>1, FS_RemoveElement, Zenon
            <4> QED BY <4>1
        <3>2. stream \ {a} = {}
            BY <3>1, FS_EmptySet
        <3> QED BY <3>2
    <2> QED BY <2>1, <2>2, <2>3
<1>7. ControlInv'
    <2>1. transactionId' \in Ids
        BY <1>1 DEF Inv, ControlInv
    <2> QED BY <1>1, <1>2, <2>1, GoOnControl
<1>8. CallInv'
    <2>1. InTransaction(t)
        BY <1>1 DEF InTransaction
    <2>2. \A u \in Threads : /\ InTransaction(u) => want'[u] <= Expected(request[u])
                             /\ want'[u] = want[u]
                             /\ got'[u] = {} \/ InTransaction(u)
        BY <1>1, <1>6, <2>1 DEF Inv, CallInv
    <2>3. want' \in [Threads -> Nat]
        BY <1>1 DEF Inv, CallInv
    <2> QED BY <1>1, <1>2, <2>2, <2>3, GoOnCalls
<1>9. CountInv'
    <2>1. /\ Cardinality(UnderWay) \in Nat /\ Cardinality(UnderWay') \in Nat
          /\ Cardinality(UnderWay) = Cardinality(UnderWay') + 1
        BY <1>4, UnderWayIn, OneThreadLess
    <2> QED BY <1>1, <2>1 DEF Inv, CountInv, StatisticsAccount
<1>10. StreamInv'
    <2>1. stream \subseteq Answers /\ written \in Nat /\ \A a, b \in stream : a.at = b.at => a = b
        BY DEF Inv, StreamInv
    <2>2. \A a : End(a)' = End(a)
        BY DEF End
    <2>3. \A a \in stream' : taken' < End(a)' /\ End(a)' <= written'
        BY <1>5, <2>2
    <2>4. taken' < written' => \E a \in stream' : End(a)' = written'
        BY <1>5, <2>2
    <2> QED BY <1>5, <1>6, <2>1, <2>3, <2>4 DEF StreamInv
<1>11. OwnerInv'
    BY <1>1, <1>2, <1>5, <1>6, GoOnOwners DEF endpointVars
<1>12. IdInv' /\ BytesSuffice'
    BY <1>1 DEF IdInv, BytesSuffice, endpointVars
<1> QED BY <1>7, <1>8, <1>9, <1>10, <1>11, <1>12 DEF Inv

LEMMA ReceivePartKeeps ==
    ASSUME Inv, NEW t \in Threads, ReceivePart(t)
    PROVE  Inv'
<1> USE DEF callVars
<1>1. /\ rtu /\ \A u \in Threads : pc[u] = "receive"
      /\ TakeBytes(Available)
      /\ UNCHANGED <<endpointVars, transactionId, pollVars, requestsSent, timeouts,
                     errors, carried, callVars, outstanding, peerOpen, faulty, raced,
                     serial>>
    BY DEF ReceivePart
<1>2. PICK who \in {{t}, Threads} :
         /\ pc' = [u \in Threads |-> IF u \in who THEN "parse" ELSE pc[u]]
         /\ responsesReceived' = responsesReceived + Cardinality(who)
    BY DEF ReceivePart
<1>3. who \in SUBSET Threads /\ \A u \in Threads : pc'[u] = IF u \in who THEN "parse" ELSE pc[u]
    BY <1>2
<1>4. GoOn
    <2>1. pc \in [Threads -> Places] /\ "parse" \in Places /\ {"parse", "receive"} \subseteq Steps
        BY DEF Inv, ControlInv, Places, Steps
    <2>2. pc' \in [Threads -> Places]
        BY <1>2, <2>1
    <2> QED BY <1>1, <1>3, <2>1, <2>2 DEF GoOn
<1>5. UnderWay = Threads /\ UnderWay' = Threads \ who
    BY <1>1, <1>3 DEF UnderWay
<1>6. /\ stream' \subseteq stream /\ IsFiniteSet(stream')
      /\ taken' \in Nat /\ taken' <= written' /\ written' = written
      /\ \A a \in stream' : taken' < End(a) /\ End(a) <= written'
      /\ taken' < written' => \E a \in stream' : End(a) = written'
    <2>1. Available \in Nat /\ Available <= Available
        BY AvailableIsNat
    <2> QED BY <1>1, <2>1, BytesTaken
<1>7. ControlInv'
    <2>1. transactionId' \in Ids
        BY <1>1 DEF Inv, ControlInv
    <2> QED BY <1>1, <1>4, <2>1, GoOnControl
<1>8. CallInv'
    <2>1. \A u \in Threads : /\ InTransaction(u) => want[u] <= Expected(request[u])
                             /\ got[u] = {} \/ InTransaction(u)
        BY DEF Inv, CallInv
    <2>2. want \in [Threads -> Nat]
        BY DEF Inv, CallInv
    <2> QED BY <1>1, <1>4, <2>1, <2>2, GoOnCalls
<1>9. CountInv'
    <2>1. \A W \in SUBSET Threads : Cardinality(W) = One("user", W) + One("poll", W)
        BY CountThreads
    <2>2. /\ Cardinality(Threads) = One("user", Threads) + One("poll", Threads)
          /\ Cardinality(who) = One("user", who) + One("poll", who)
          /\ Cardinality(Threads \ who) = One("user", Threads \ who) + One("poll", Threads \ who)
        BY <1>3, <2>1
    <2>3. /\ Cardinality(who) \in Nat /\ Cardinality(Threads \ who) \in Nat
          /\ Cardinality(Threads) = Cardinality(Threads \ who) + Cardinality(who)
        BY <1>3, <2>2, ThreadPair DEF One
    <2> QED BY <1>1, <1>2, <1>5, <2>3 DEF Inv, CountInv, StatisticsAccount
<1>10. StreamInv'
    <2>1. stream \subseteq Answers /\ written \in Nat /\ \A a, b \in stream : a.at = b.at => a = b
        BY DEF Inv, StreamInv
    <2>2. \A a : End(a)' = End(a)
        BY DEF End
    <2>3. \A a \in stream' : taken' < End(a)' /\ End(a)' <= written'
        BY <1>6, <2>2
    <2>4. taken' < written' => \E a \in stream' : End(a)' = written'
        BY <1>6, <2>2
    <2>5. got' \in [Threads -> SUBSET Answers] /\ \A u \in Threads : \A a, b \in got'[u] : a = b
        BY <1>1 DEF Inv, StreamInv
    <2> QED BY <1>6, <2>1, <2>3, <2>4, <2>5 DEF StreamInv
<1>11. OwnerInv'
    BY <1>1, <1>4, <1>6, GoOnOwners DEF endpointVars
<1>12. IdInv' /\ BytesSuffice'
    BY <1>1 DEF IdInv, BytesSuffice, endpointVars
<1> QED BY <1>7, <1>8, <1>9, <1>10, <1>11, <1>12 DEF Inv


-----------------------------------------------------------------------------
(***************************************************************************)
(* The device.                                                             *)
(***************************************************************************)

\* What the threads do not see of the device's steps.
LEMMA ThreadsKeep ==
    ASSUME Inv, peerOpen' \in BOOLEAN, peerOpen' => peerOpen, faulty' \in BOOLEAN,
           UNCHANGED <<endpointVars, transactionId, pollVars, statistics, pc, callVars,
                       raced, serial>>
    PROVE  /\ ControlInv' /\ CallInv' /\ CountInv'
           /\ UnderWay' = UnderWay /\ Wanted' = Wanted
           /\ Drawing' <=> Drawing
           /\ \A t \in Threads : InTransaction(t)' <=> InTransaction(t)
<1> USE DEF endpointVars, pollVars, statistics, callVars
<1>1. \A t \in Threads : InTransaction(t)' <=> InTransaction(t)
    BY DEF InTransaction
<1>2. UnderWay' = UnderWay /\ Wanted' = Wanted /\ (Drawing' <=> Drawing)
    BY DEF UnderWay, Wanted, Waits, Drawing
<1>3. ControlInv'
    BY <1>1, ThreadPair DEF Inv, ControlInv
<1>4. CallInv'
    BY <1>1 DEF Inv, CallInv
<1>5. CountInv'
    BY <1>2 DEF Inv, CountInv, StatisticsAccount
<1> QED BY <1>1, <1>2, <1>3, <1>4, <1>5

\* What an answer to a query may be, and what the device then writes.
AnswerKinds(q) == {q.fn, "exception"}

Answering(q, a) ==
    /\ a \in Answers /\ a.owner = q.owner /\ a.tid = q.tid /\ a.at = written
    /\ AnswerLength(a) \in Nat /\ AnswerLength(a) >= 9

LEMMA RepliesAre ==
    ASSUME Inv, NEW q \in outstanding, NEW fn \in AnswerKinds(q), NEW high \in 0 .. 255,
           NEW a, a = Reply(q, fn, high)
    PROVE  Answering(q, a)
<1>1. q \in Queries /\ written \in Nat
    BY DEF Inv, OwnerInv, StreamInv
<1>2. q.owner \in Nat /\ q.tid \in Ids /\ q.fn \in Functions /\ q.count \in Nat
    BY <1>1 DEF Queries
<1>3. a \in Answers
    <2>1. fn \in Functions \cup {"exception"}
        BY <1>2 DEF AnswerKinds
    <2> QED BY <1>1, <1>2, <2>1 DEF Reply, Answers
<1>4. /\ a.owner = q.owner /\ a.tid = q.tid /\ a.at = written /\ a.fn = fn
      /\ a.count = q.count
    BY DEF Reply
<1>5. a.fn \in Functions \cup {"exception"} /\ a.count \in Nat
    BY <1>2, <1>4 DEF AnswerKinds
<1> QED BY <1>3, <1>4, <1>5, FrameLengths DEF Answering

\* An answer that is no exception is as long as the query asks for.
LEMMA RepliesAsAsked ==
    ASSUME Inv, NEW q \in outstanding, NEW high \in 0 .. 255, NEW a, a = Reply(q, q.fn, high)
    PROVE  AnswerLength(a) = AnswerLength(q)
<1>1. q.fn \in Functions /\ q.count \in Nat
    BY DEF Inv, OwnerInv, Queries
<1>2. a.fn = q.fn /\ a.count = q.count
    BY DEF Reply
<1> DEFINE r == [fn |-> q.fn, count |-> q.count]
<1>3. r \in RequestType /\ r.fn = q.fn /\ r.count = q.count
    BY <1>1 DEF RequestType, Functions
<1> HIDE DEF r
<1>4. AnswerLength(q) = Expected(r)
    BY <1>1, <1>3, AnswerLengths
<1>5. a.fn = r.fn /\ a.count = r.count /\ a.fn \in Functions /\ a.count \in Nat
    BY <1>1, <1>2, <1>3
<1>6. AnswerLength(a) = Expected(r)
    BY <1>3, <1>5, AnswerLengths
<1> QED BY <1>4, <1>6

LEMMA DeviceKeeps ==
    ASSUME Inv, NEW q \in outstanding, NEW a \in Answers,
           a.owner = q.owner, a.tid = q.tid, a.at = written,
           AnswerLength(a) \in Nat, AnswerLength(a) >= 9,
           Device(q, a), faulty' \in BOOLEAN,
           ~ faulty' => ~ faulty /\ AnswerLength(a) = AnswerLength(q)
    PROVE  Inv'
<1>1. /\ outstanding' = outstanding \ {q} /\ stream' = stream \cup {a}
      /\ written' = written + AnswerLength(a)
      /\ UNCHANGED <<endpointVars, transactionId, pollVars, statistics, pc, callVars,
                     taken, peerOpen, raced, serial>>
    BY DEF Device, deviceFrame
<1>2. /\ ControlInv' /\ CallInv' /\ CountInv'
      /\ Wanted' = Wanted
      /\ Drawing' <=> Drawing
      /\ \A t \in Threads : InTransaction(t)' <=> InTransaction(t)
    <2>1. peerOpen' \in BOOLEAN /\ (peerOpen' => peerOpen)
        BY <1>1 DEF Inv, ControlInv
    <2> QED BY <1>1, <2>1, ThreadsKeep
<1>3. StreamInv'
    <2>1. /\ stream \subseteq Answers /\ IsFiniteSet(stream)
          /\ taken \in Nat /\ written \in Nat /\ taken <= written
          /\ \A x, y \in stream : x.at = y.at => x = y
        BY DEF Inv, StreamInv
    <2>2. \A x \in stream : /\ AnswerLength(x) \in Nat /\ AnswerLength(x) >= 9 /\ x.at \in Nat
                            /\ End(x) = x.at + AnswerLength(x)
                            /\ taken < End(x) /\ End(x) <= written
        BY StreamLengths DEF Inv, StreamInv, End
    <2>3. \A x \in stream : x.at < written
        BY <2>1, <2>2
    <2>4. IsFiniteSet(stream') /\ stream' \subseteq Answers
        BY <1>1, <2>1, FS_AddElement
    <2>5. \A x \in stream' : x \in stream \/ x = a
        BY <1>1
    <2>6. written' \in Nat /\ written <= written' /\ taken < written'
        BY <1>1, <2>1
    <2>7. \A x : End(x)' = End(x)
        BY DEF End
    <2>8. End(a) = written'
        BY <1>1 DEF End
    <2>9. ASSUME NEW x \in stream' PROVE taken' < End(x)' /\ End(x)' <= written'
        <3>1. CASE x = a
            BY <1>1, <2>6, <2>7, <2>8, <3>1
        <3>2. CASE x \in stream
            <4>1. End(x) \in Nat /\ taken < End(x) /\ End(x) <= written
                BY <2>2, <3>2
            <4>2. End(x) <= written'
                BY <2>1, <2>6, <4>1
            <4> QED BY <1>1, <2>7, <4>1, <4>2
        <3> QED BY <2>5, <3>1, <3>2
    <2>10. \A x, y \in stream' : x.at = y.at => x = y
        <3>1. \A x \in stream : x.at # a.at
            BY <2>1, <2>2, <2>3
        <3> QED BY <2>1, <2>5, <3>1
    <2>11. \E x \in stream' : End(x)' = written'
        BY <1>1, <2>7, <2>8
    <2>12. got' \in [Threads -> SUBSET Answers] /\ \A t \in Threads : \A x, y \in got'[t] : x = y
        BY <1>1 DEF Inv, StreamInv, callVars
    <2>13. taken' \in Nat /\ taken' <= written'
        BY <1>1, <2>1, <2>6
    <2> QED BY <2>4, <2>6, <2>9, <2>10, <2>11, <2>12, <2>13 DEF StreamInv
<1>4. OwnerInv'
    <2>1. IsFiniteSet(outstanding')
        BY <1>1, FS_RemoveElement DEF Inv, OwnerInv
    <2>2. connected
        BY DEF Inv, OwnerInv
    <2>3. q.owner <= serial
        BY DEF Inv, OwnerInv
    <2> QED BY <1>1, <2>1, <2>2, <2>3 DEF Inv, OwnerInv, endpointVars, callVars
<1>5. IdInv'
    <2>1. \A c : InOrder(c) => InOrder(c)'
        BY <1>1, <1>2 DEF InOrder, callVars
    <2> QED BY <1>1, <2>1 DEF Inv, IdInv, endpointVars, callVars
<1>6. BytesSuffice'
    <2> SUFFICES ASSUME ~ rtu, peerOpen, ~ faulty'
                 PROVE  Available' + Owed' >= Wanted'
        BY <1>1 DEF BytesSuffice, endpointVars
    <2>1. Owed = AnswerLength(q) + Owed' /\ Owed' \in Nat
        <3>1. Owed' = OwedFor(outstanding \ {q}) /\ Owed = OwedFor(outstanding)
            BY <1>1 DEF Owed, OwedFor
        <3> QED BY <3>1, OwedOutstanding, OwedLess
    <2>2. Available' = Available + AnswerLength(q)
        BY <1>1 DEF Available, Inv, StreamInv
    <2>3. Available + Owed >= Wanted
        BY DEF Inv, BytesSuffice
    <2>4. Available \in Nat /\ AnswerLength(q) \in Nat /\ Wanted \in Nat
        <3>1. Wanted \in Nat
            BY WaitsAreNat, ThreadPair DEF Wanted
        <3> QED BY <3>1, AvailableIsNat
    <2>5. \A i, k, l, x \in Nat : i + (l + k) >= x => (i + l) + k >= x
        OBVIOUS
    <2>6. (Available + AnswerLength(q)) + Owed' >= Wanted
        BY <2>1, <2>3, <2>4, <2>5, Zenon
    <2> QED BY <1>2, <2>2, <2>6, Zenon
<1> QED BY <1>2, <1>3, <1>4, <1>5, <1>6 DEF Inv

LEMMA AnswersKeep ==
    ASSUME Inv, Answer \/ AnswerException
    PROVE  Inv'
<1>1. CASE Answer
    <2>1. PICK q \in outstanding, high \in HighBytes :
             Device(q, Reply(q, q.fn, high)) /\ UNCHANGED faulty
        BY <1>1 DEF Answer
    <2>2. PICK a : a = Reply(q, q.fn, high)
        OBVIOUS
    <2>3. /\ high \in 0 .. 255 /\ faulty' \in BOOLEAN
        BY <2>1, ModbusClientAssumption DEF Inv, ControlInv
    <2>4. q.fn \in AnswerKinds(q)
        BY DEF AnswerKinds
    <2>5. Answering(q, a)
        BY <2>2, <2>3, <2>4, RepliesAre, Zenon
    <2>6. AnswerLength(a) = AnswerLength(q)
        BY <2>2, <2>3, RepliesAsAsked, Zenon
    <2>7. Device(q, a)
        BY <2>1, <2>2, Zenon
    <2> QED BY <2>1, <2>3, <2>5, <2>6, <2>7, DeviceKeeps DEF Answering
<1>2. CASE AnswerException
    <2>1. PICK q \in outstanding : Device(q, Reply(q, "exception", 0)) /\ faulty' = TRUE
        BY <1>2 DEF AnswerException
    <2>2. PICK a : a = Reply(q, "exception", 0)
        OBVIOUS
    <2>3. 0 \in 0 .. 255 /\ "exception" \in AnswerKinds(q)
        BY DEF AnswerKinds
    <2>4. Answering(q, a)
        BY <2>2, <2>3, RepliesAre, Zenon
    <2>5. Device(q, a)
        BY <2>1, <2>2, Zenon
    <2> QED BY <2>1, <2>4, <2>5, DeviceKeeps DEF Answering
<1> QED BY <1>1, <1>2

LEMMA LoseKeeps ==
    ASSUME Inv, Lose \/ PeerClose
    PROVE  Inv'
<1>1. /\ outstanding' \subseteq outstanding
      /\ peerOpen' \in BOOLEAN /\ (peerOpen' => peerOpen) /\ faulty' \in BOOLEAN
      /\ ~ peerOpen' \/ faulty'
      /\ UNCHANGED <<endpointVars, transactionId, pollVars, statistics, pc, callVars,
                     byteVars, raced, serial>>
    <2> USE DEF byteVars
    <2>1. CASE Lose
        <3>1. outstanding' \subseteq outstanding /\ faulty' = TRUE
            BY <2>1 DEF Lose
        <3>2. UNCHANGED <<deviceFrame, stream, written>>
            BY <2>1 DEF Lose
        <3> QED BY <3>1, <3>2 DEF deviceFrame, Inv, ControlInv
    <2>2. CASE PeerClose
        BY <2>2 DEF PeerClose, Inv, ControlInv
    <2> QED BY <2>1, <2>2
<1>2. /\ ControlInv' /\ CallInv' /\ CountInv'
      /\ Drawing' <=> Drawing
      /\ \A t \in Threads : InTransaction(t)' <=> InTransaction(t)
    BY <1>1, ThreadsKeep
<1>3. StreamInv'
    BY <1>1 DEF Inv, StreamInv, End, byteVars, callVars
<1>4. OwnerInv'
    <2>1. IsFiniteSet(outstanding')
        BY <1>1, FS_Subset DEF Inv, OwnerInv
    <2> QED BY <1>1, <2>1 DEF Inv, OwnerInv, endpointVars, callVars, byteVars
<1>5. IdInv'
    <2>1. \A c : InOrder(c) => InOrder(c)'
        BY <1>1, <1>2 DEF InOrder, callVars, byteVars
    <2> QED BY <1>1, <2>1 DEF Inv, IdInv, endpointVars, callVars
<1>6. BytesSuffice'
    BY <1>1 DEF BytesSuffice
<1> QED BY <1>2, <1>3, <1>4, <1>5, <1>6 DEF Inv


-----------------------------------------------------------------------------
(***************************************************************************)
(* The theorems.                                                           *)
(***************************************************************************)

LEMMA TransactionKeeps ==
    ASSUME Inv, NEW t \in Threads, Transaction(t)
    PROVE  Inv'
<1>1. CASE Draw(t)
    BY <1>1, DrawKeeps
<1>2. CASE Send(t)
    BY <1>2, SendKeeps
<1>3. CASE SendFails(t)
    BY <1>3, SendFailsKeeps
<1>4. CASE Ready(t)
    BY <1>4, ReadyKeeps
<1>5. CASE Timeout(t) \/ ReceiveNothing(t) \/ ReceiveSilence(t)
    <2>1. pc[t] \in {"wait", "receive"} /\ NotReceived(t)
        BY <1>5 DEF Timeout, ReceiveNothing, ReceiveSilence
    <2> QED BY <2>1, NotReceivedKeeps
<1>6. CASE Take(t)
    BY <1>6, TakeKeeps
<1>7. CASE ReceiveShort(t)
    BY <1>7, ReceiveShortKeeps
<1>8. CASE ReceiveFrame(t)
    BY <1>8, ReceiveFrameKeeps
<1>9. CASE ReceivePart(t)
    BY <1>9, ReceivePartKeeps
<1>10. CASE Reject(t) \/ Parse(t)
    BY <1>10, ParsedKeeps
<1> QED BY <1>1, <1>2, <1>3, <1>4, <1>5, <1>6, <1>7, <1>8, <1>9, <1>10 DEF Transaction

LEMMA BeginsKeep ==
    ASSUME Inv, UserCall \/ PollRead
    PROVE  Inv'
<1>1. CASE UserCall
    <2>1. PICK r \in Requests : Begin("user", r)
        BY <1>1 DEF UserCall
    <2>2. r \in RequestType /\ pc["user"] = "idle"
        BY <1>1, ModbusClientAssumption DEF UserCall
    <2> QED BY <2>1, <2>2, ThreadPair, BeginKeeps
<1>2. CASE PollRead
    <2>1. /\ pc["poll"] = "round" /\ next \in DOMAIN Mappings
          /\ Begin("poll", Mappings[next])
        BY <1>2 DEF PollRead, Inv, ControlInv
    <2>2. Mappings[next] \in RequestType
        BY <2>1, MappingIndices
    <2> QED BY <2>1, <2>2, ThreadPair, BeginKeeps
<1> QED BY <1>1, <1>2

LEMMA NextInv == Inv /\ [Next]_vars => Inv'
<1> SUFFICES ASSUME Inv, [Next]_vars PROVE Inv'
    OBVIOUS
<1>1. CASE Transaction("user") \/ Transaction("poll")
    BY <1>1, ThreadPair, TransactionKeeps
<1>2. CASE UserCall \/ PollRead
    BY <1>2, BeginsKeep
<1>3. CASE Connect
    BY <1>3, ConnectKeeps
<1>4. CASE Close
    BY <1>4, CloseKeeps
<1>5. CASE \/ ConnectFails \/ StartPolling \/ Stopped \/ Configure
           \/ \E what \in {"stop", "disconnect", "reconnect"} : Halt(what)
    BY <1>5, UserKeeps
<1>6. CASE ResetStatistics
    BY <1>6, ResetKeeps
<1>7. CASE PollEnds \/ PollRound \/ PollSkip \/ PollPublish
    BY <1>7, PollThreadKeeps
<1>8. CASE Answer \/ AnswerException
    BY <1>8, AnswersKeep
<1>9. CASE Lose \/ PeerClose
    BY <1>9, LoseKeeps
<1>10. CASE UNCHANGED vars
    <2> USE <1>10 DEF vars, endpointVars, pollVars, statistics, callVars, linkVars, byteVars
    <2>1. SameSteps
        BY DEF SameSteps
    <2>2. CallInv' /\ CountInv' /\ StreamInv' /\ OwnerInv' /\ IdInv' /\ BytesSuffice'
        BY <2>1, OutsideTransactions
    <2>3. \A t \in Threads : InTransaction(t)' <=> InTransaction(t)
        BY DEF InTransaction
    <2>4. ControlInv'
        BY <2>3, ThreadPair DEF Inv, ControlInv
    <2> QED BY <2>2, <2>4 DEF Inv
<1> QED BY <1>1, <1>2, <1>3, <1>4, <1>5, <1>6, <1>7, <1>8, <1>9, <1>10
        DEF Next, User, PollThread

\* The invariant holds: the control of the two threads, the serial numbers of
\* their calls, the statistics, the bytes on the connection, whose they are and
\* the ids they have.
THEOREM Invariance == Spec => []Inv
<1> QED BY InitInv, NextInv, PTL DEF Spec

\* Every variable has its type.
THEOREM TypeCorrect == Spec => []TypeOK
<1>1. Inv => TypeOK
    <2> SUFFICES ASSUME Inv PROVE TypeOK
        OBVIOUS
    <2> USE DEF Inv
    <2>1. \A n \in {requestsSent, responsesReceived, timeouts, errors, carried, taken,
                    written, serial, connections} : n \in Nat
        BY DEF ControlInv, CountInv, StreamInv
    <2>2. \A t \in Threads : Cardinality(got[t]) <= 1
        <3> SUFFICES ASSUME NEW t \in Threads PROVE Cardinality(got[t]) <= 1
            OBVIOUS
        <3>1. \A a, b \in got[t] : a = b
            BY DEF StreamInv
        <3>2. CASE got[t] = {}
            <4>1. Cardinality(got[t]) = 0
                BY <3>2, FS_EmptySet
            <4> QED BY <4>1
        <3>3. CASE got[t] # {}
            <4>1. PICK a : got[t] = {a}
                BY <3>1, <3>3
            <4>2. Cardinality(got[t]) = 1
                BY <4>1, FS_Singleton
            <4> QED BY <4>2
        <3> QED BY <3>2, <3>3
    <2>3. taken <= written /\ (taken = written <=> stream = {})
        <3>1. taken \in Nat /\ written \in Nat /\ taken <= written
            BY DEF StreamInv
        <3>2. \A a \in stream : End(a) \in Nat /\ taken < End(a) /\ End(a) <= written
            BY StreamLengths DEF StreamInv
        <3>3. taken < written => stream # {}
            BY DEF StreamInv
        <3> QED BY <3>1, <3>2, <3>3
    <2>4. \A a \in stream : a.at + AnswerLength(a) \in taken + 1 .. written
        <3> SUFFICES ASSUME NEW a \in stream PROVE End(a) \in taken + 1 .. written
            BY DEF End
        <3>1. taken \in Nat /\ written \in Nat /\ End(a) \in Nat
              /\ taken < End(a) /\ End(a) <= written
            BY StreamLengths DEF StreamInv
        <3> QED BY <3>1
    <2>5. pc \in [Threads -> {"idle", "join", "connect", "draw", "send", "wait",
                              "receive", "parse", "off", "top", "round"}]
        <3>1. Places = {"idle", "join", "connect", "draw", "send", "wait",
                        "receive", "parse", "off", "top", "round"}
            BY DEF Places, Steps
        <3> QED BY <3>1 DEF ControlInv
    <2>6. transactionId \in 0 .. TidSpace - 1 /\ tid \in [Threads -> 0 .. TidSpace - 1]
        BY DEF ControlInv, CallInv, Ids
    <2> QED BY <2>1, <2>2, <2>3, <2>4, <2>5, <2>6 DEF TypeOK, ControlInv, CallInv
<1> QED BY <1>1, Invariance, PTL

\* tcpTransaction(), rtuTransaction() and the statistics: every request that is
\* sent is received once, or has timed out once, or is under way, whatever the
\* two threads do and wherever a transaction fails.
THEOREM StatisticsAlwaysAccount == Spec => []StatisticsAccount
<1>1. Inv => StatisticsAccount
    BY DEF Inv, CountInv
<1> QED BY <1>1, Invariance, PTL

\* receiveRaw(): over TCP, while the device answers without an exception, what
\* is on the connection and what is to come are enough for the calls that wait
\* for it, although the two threads take each other's bytes.
THEOREM BytesAlwaysSuffice == Spec => []BytesSuffice
<1>1. Inv => BytesSuffice
    BY DEF Inv
<1> QED BY <1>1, Invariance, PTL

\* parseTcpResponse(): over TCP, a call whose transaction did not overlap one
\* of the other thread accepts no answer but its own, unless the two threads
\* have drawn ids at the same time on this connection, and until the ids begin
\* again.
THEOREM OwnAnswerOnly == Spec => []OwnAnswer
<1>1. Inv => OwnAnswer
    <2> SUFFICES ASSUME Inv, NEW t \in Threads, pc[t] = "parse", Matches(t), ~ rtu,
                        ~ overlap[t], ~ raced, serial < TidSpace, NEW b \in got[t]
                 PROVE  b.owner = mine[t]
        BY DEF OwnAnswer
    <2>1. PICK a \in got[t] : a.tid = (transactionId + TidSpace - 1) % TidSpace
        BY DEF Matches
    <2>2. a = b /\ a.owner \in Nat /\ a.owner <= serial /\ serial \in Nat
        BY DEF Inv, StreamInv, OwnerInv, ControlInv, Answers
    <2>3. InTransaction(t)
        BY DEF InTransaction
    <2>4. mine[t] = serial /\ connected
        BY <2>3 DEF Inv, CallInv, ControlInv
    <2>5. \A u \in Threads : pc[u] # "draw"
        <3>1. \A u \in Threads \ {t} : ~ InTransaction(u)
            BY <2>3 DEF Inv, CallInv
        <3> QED BY <3>1 DEF InTransaction
    <2>6. PICK c \in Ids : InOrder(c)
        BY <2>4 DEF Inv, IdInv
    <2>7. transactionId = IdOf(c, serial + 1) /\ a.tid = IdOf(c, a.owner)
        BY <2>5, <2>6 DEF InOrder, Drawing
    <2>8. IdOf(c, a.owner) = IdOf(c, serial)
        <3>1. (IdOf(c, serial + 1) + TidSpace - 1) % TidSpace = IdOf(c, serial)
            BY <2>2, IdsOf
        <3> QED BY <2>1, <2>7, <3>1
    <2>9. a.owner = serial
        BY <2>2, <2>8, IdsDiffer
    <2> QED BY <2>2, <2>4, <2>9
<1> QED BY <1>1, Invariance, PTL
================================================================================
