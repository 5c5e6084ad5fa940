------------------------ MODULE GridConnectivityProofs ------------------------
(***************************************************************************)
(* What holds of GridConnectivity for any bus numbers and any branches.    *)
(*                                                                         *)
(* What a walk has marked is closed under the graph it walks except for    *)
(* the buses on its work list, and lies in every closed set its root is    *)
(* in.  So at its end it is the set of what the root reaches; as the       *)
(* graphs are symmetric, it is what each of its buses reaches.             *)
(***************************************************************************)
EXTENDS GridConnectivity, SetLemmas

Symmetric(joined) ==
    /\ joined \subseteq Ids \X Ids
    /\ \A p \in joined : <<p[2], p[1]>> \in joined

\* S holds nothing but what root reaches.
Within(joined, root, S) ==
    \A C \in SUBSET Ids : root \in C /\ Closed(C, joined) => S \subseteq C

ClassOf(joined, a) == {b \in Ids : Reached(joined, a, b)}

\* What b is joined to.
Joins(joined, b) == {c \in Ids : <<b, c>> \in joined}

\* A walk from root has marked S and has the buses in list still to do.
Walk(joined, root, S, list) ==
    /\ S \subseteq Ids /\ root \in S /\ list \subseteq S
    /\ \A b \in S \ list : Joins(joined, b) \subseteq S
    /\ Within(joined, root, S)

\* The graph of isConnected.
Counted == JoinedBy({br \in InService : br.ends \subseteq Places})

ConnectedInv ==
    search = "isConnected" =>
        /\ pc \in {"called", "walk", "done"}
        /\ pc = "called" => ~ answer
        /\ pc = "walk" => slack # {} /\ Walk(Counted, FirstSlack, visited, work)
        /\ ConnectedExact

CollectedIn(seq) == {b \in Ids : \E i \in 1 .. Len(seq) : b \in seq[i]}

\* seq lists sets of what their members reach, each with a bus of B, each once.
Classes(seq, joined, B) ==
    /\ \A i \in 1 .. Len(seq) :
         /\ \E b \in B : b \in seq[i]
         /\ \A a \in seq[i] : seq[i] = ClassOf(joined, a)
    /\ \A i, j \in 1 .. Len(seq) : i # j => seq[i] \cap seq[j] = {}
    /\ Closed(CollectedIn(seq), joined)

\* The graph of findIslands.
Linking == JoinedBy(InService)

\* visited holds the islands that are complete; the one that is collected is
\* walked from a bus outside them.
IslandsInv ==
    search = "findIslands" =>
        /\ pc = "called" => islands = <<>> /\ visited = {} /\ island = {} /\ work = {}
        /\ pc \in {"next", "walk"} =>
             /\ Classes(islands, Linking, buses)
             /\ visited = CollectedIn(islands) /\ todo \subseteq buses
        /\ pc = "next" => island = {} /\ work = {} /\ buses \ todo \subseteq visited
        /\ pc = "walk" =>
             \E root \in buses \ visited :
                 /\ Walk(Linking, root, island \cup work, work)
                 /\ buses \ todo \subseteq visited \cup {root}
        /\ IslandsExact

\* The graph of findUnobservableIslands.
Open == Places \ HasDirectMeas
Unmeasuring == {p \in JoinedBy(branches) : {p[1], p[2]} \subseteq Open}

\* visited holds the islands that are complete and the one that is collected.
UnobservableInv ==
    search = "findUnobservableIslands" =>
        /\ pc = "called" => islands = <<>> /\ visited = {} /\ island = {} /\ work = {}
        /\ pc \in {"next", "walk"} =>
             /\ Classes(islands, Unmeasuring, Open)
             /\ visited = CollectedIn(islands) \cup island \cup work
        /\ pc = "next" => island = {} /\ work = {} /\ Open \ todo \subseteq visited
        /\ pc = "walk" =>
             \E root \in Open \ CollectedIn(islands) :
                 /\ Walk(Unmeasuring, root, island \cup work, work)
                 /\ Open \ todo \subseteq CollectedIn(islands) \cup {root}
        /\ pc = "done" => Open = {}

-----------------------------------------------------------------------------
(***************************************************************************)
(* Closed sets of a symmetric relation.                                    *)
(***************************************************************************)

\* What is outside a closed set is closed.
LEMMA ComplementClosed ==
    ASSUME NEW joined, Symmetric(joined), NEW S \in SUBSET Ids, Closed(S, joined)
    PROVE  Closed(Ids \ S, joined)
<1> SUFFICES ASSUME NEW p \in joined, p[1] \in Ids \ S
             PROVE  p[2] \in Ids \ S
    BY DEF Closed
<1>1. p[2] \in Ids
    BY DEF Symmetric
<1>2. <<p[2], p[1]>> \in joined
    BY DEF Symmetric
<1>3. <<p[2], p[1]>>[1] = p[2] /\ <<p[2], p[1]>>[2] = p[1]
    OBVIOUS
<1>4. p[2] \in S => p[1] \in S
    BY <1>2, <1>3 DEF Closed
<1> QED BY <1>1, <1>4

\* A closed set that holds only what one of its members reaches is what each
\* of its members reaches.
LEMMA ClosedIsClass ==
    ASSUME NEW joined, Symmetric(joined),
           NEW I \in SUBSET Ids, Closed(I, joined),
           NEW root \in I, Within(joined, root, I),
           NEW a \in I
    PROVE  I = ClassOf(joined, a)
<1>1. ASSUME NEW b \in ClassOf(joined, a) PROVE b \in I
    BY <1>1 DEF ClassOf, Reached
<1>2. ASSUME NEW b \in I PROVE b \in ClassOf(joined, a)
    <2> SUFFICES ASSUME NEW S \in SUBSET Ids, a \in S, Closed(S, joined)
                 PROVE  b \in S
        BY DEF ClassOf, Reached
    <2>1. CASE root \in S
        BY <2>1 DEF Within
    <2>2. CASE root \notin S
        <3>1. Closed(Ids \ S, joined)
            BY ComplementClosed
        <3>2. I \subseteq Ids \ S
            BY <2>2, <3>1 DEF Within
        <3> QED BY <3>2
    <2> QED BY <2>1, <2>2
<1> QED BY <1>1, <1>2

\* Nothing that a bus outside a closed set reaches is inside it.
LEMMA ApartFromClosed ==
    ASSUME NEW joined, Symmetric(joined),
           NEW V \in SUBSET Ids, Closed(V, joined),
           NEW root \in Ids \ V, NEW S, Within(joined, root, S)
    PROVE  S \cap V = {}
<1>1. Closed(Ids \ V, joined)
    BY ComplementClosed
<1>2. S \subseteq Ids \ V
    BY <1>1 DEF Within
<1> QED BY <1>2

\* The pairs that branches join are symmetric.
LEMMA JoinedBySymmetric == \A bs : Symmetric(JoinedBy(bs))
<1> SUFFICES ASSUME NEW bs PROVE Symmetric(JoinedBy(bs))
    OBVIOUS
<1>1. ASSUME NEW p \in JoinedBy(bs)
      PROVE  p \in Ids \X Ids /\ <<p[2], p[1]>> \in JoinedBy(bs)
    <2>1. p \in Ids \X Ids /\ \E br \in bs : {p[1], p[2]} \subseteq br.ends
        BY <1>1 DEF JoinedBy
    <2> DEFINE q == <<p[2], p[1]>>
    <2>2. q \in Ids \X Ids /\ q[1] = p[2] /\ q[2] = p[1]
        BY <2>1
    <2>3. \E br \in bs : {q[1], q[2]} \subseteq br.ends
        BY <2>1, <2>2
    <2> QED BY <2>1, <2>2, <2>3 DEF JoinedBy
<1> QED BY <1>1 DEF Symmetric

-----------------------------------------------------------------------------
(***************************************************************************)
(* Types.                                                                  *)
(***************************************************************************)

\* The systems a search can be called on do not change while it runs.
LEMMA SystemKept ==
    ASSUME TypeOK, UNCHANGED <<grid, direct>>
    PROVE  /\ search' \in Searches /\ SystemOf(search)'
           /\ buses' \subseteq Ids /\ slack' \subseteq buses'
           /\ branches' \subseteq Branches /\ direct' \subseteq Places'
<1>1. /\ search' = search /\ buses' = buses /\ slack' = slack
      /\ branches' = branches /\ direct' = direct
    BY DEF grid
<1>2. Places' = Places
    BY <1>1 DEF Places
<1>3. SystemOf(search)' <=> SystemOf(search)
    BY <1>1, <1>2 DEF SystemOf, TwoEnded
<1> QED BY <1>1, <1>2, <1>3 DEF TypeOK

\* The ends of the branches are bus numbers.
LEMMA EndsAreIds ==
    ASSUME TypeOK
    PROVE  /\ Places \subseteq Ids /\ IsFiniteSet(Ids)
           /\ buses \subseteq Places
           /\ \A br \in branches : br.ends \subseteq Ids
           /\ \A b : /\ Adjacent(b) \subseteq Ids
                     /\ Linked(b) \subseteq Ids
                     /\ Unmeasured(b) \subseteq Places
<1>1. Places \subseteq Ids /\ IsFiniteSet(Ids)
    BY GridConnectivityAssumption DEF Places
<1>2. \A br \in branches : br.ends \subseteq Ids
    BY GridConnectivityAssumption DEF TypeOK
<1>3. \A b : Adjacent(b) \subseteq Ids /\ Linked(b) \subseteq Ids
    BY <1>2 DEF Adjacent, Linked, InService
<1>4. \A b : Unmeasured(b) \subseteq Places
    BY DEF Unmeasured
<1>5. buses \subseteq Places
    BY GridConnectivityAssumption DEF TypeOK, Places
<1> QED BY <1>1, <1>2, <1>3, <1>4, <1>5

\* The slack bus the search starts at is one.
LEMMA FirstSlackIsSlack ==
    ASSUME TypeOK, slack # {}
    PROVE  FirstSlack \in slack
<1>1. slack \in SUBSET Nat
    BY GridConnectivityAssumption DEF TypeOK
<1> QED BY <1>1, NatMinimum DEF FirstSlack

LEMMA InitTypeOK == Init => TypeOK
<1> SUFFICES ASSUME Init PROVE TypeOK
    OBVIOUS
<1>1. buses \subseteq Places
    BY GridConnectivityAssumption DEF Init, Places
<1>2. <<>> \in Seq(SUBSET Ids)
    OBVIOUS
<1>3. Cardinality({}) = 0
    BY FS_EmptySet
<1> QED BY <1>1, <1>2, <1>3 DEF Init, TypeOK

LEMMA StepTypeOK == TypeOK /\ [Next]_vars => TypeOK'
<1> SUFFICES ASSUME TypeOK, [Next]_vars PROVE TypeOK'
    OBVIOUS
<1> USE DEF TypeOK
<1>0. /\ Places \subseteq Ids /\ IsFiniteSet(Ids) /\ buses \subseteq Places
      /\ \A b : Adjacent(b) \subseteq Ids /\ Linked(b) \subseteq Ids
                /\ Unmeasured(b) \subseteq Places
    BY EndsAreIds
<1>1. ASSUME UNCHANGED <<grid, direct>>
      PROVE  /\ search' \in Searches /\ SystemOf(search)'
             /\ buses' \subseteq Ids /\ slack' \subseteq buses'
             /\ branches' \subseteq Branches /\ direct' \subseteq Places'
             /\ search' = search /\ Places' = Places
    <2>1. search' = search /\ Places' = Places
        BY <1>1 DEF grid, Places
    <2> QED BY <1>1, <2>1, SystemKept
<1>2. CASE NoSlack
    BY <1>1, <1>2 DEF NoSlack
<1>3. CASE StartAtSlack
    <2>1. FirstSlack \in Ids
        BY <1>3, FirstSlackIsSlack DEF StartAtSlack
    <2>2. Cardinality({FirstSlack}) = 1
        BY FS_Singleton
    <2> QED BY <1>1, <1>3, <2>1, <2>2 DEF StartAtSlack
<1>4. CASE VisitNeighbours
    <2>1. PICK b \in work :
             /\ work' = (work \ {b}) \cup (Adjacent(b) \ visited)
             /\ visited' = visited \cup (Adjacent(b) \ visited)
             /\ visitedCount' = visitedCount + Cardinality(Adjacent(b) \ visited)
        BY <1>4 DEF VisitNeighbours
    <2> DEFINE found == Adjacent(b) \ visited
    <2>2. IsFiniteSet(visited) /\ IsFiniteSet(found)
        BY <1>0, FS_Subset
    <2>3. Cardinality(visited) \in Nat /\ Cardinality(found) \in Nat
        BY <2>2, FS_CardinalityType
    <2>4. visited \cap found = {} /\ Cardinality({}) = 0
        BY FS_EmptySet
    <2>5. Cardinality(visited \cup found) = Cardinality(visited) + Cardinality(found)
        <3>1. Cardinality(visited \cup found)
                = Cardinality(visited) + Cardinality(found) - Cardinality(visited \cap found)
            BY <2>2, FS_Union
        <3>2. Cardinality(visited \cap found) = 0
            BY <2>4
        <3> HIDE DEF found
        <3> QED BY <2>3, <3>1, <3>2
    <2>6. visitedCount' = Cardinality(visited')
        <3>1. visitedCount = Cardinality(visited)
            BY <1>4 DEF VisitNeighbours
        <3>2. visitedCount' = visitedCount + Cardinality(found) /\ visited' = visited \cup found
            BY <2>1
        <3> HIDE DEF found
        <3> QED BY <2>5, <3>1, <3>2
    <2>7. work' \subseteq Ids /\ visited' \subseteq Ids
        BY <1>0, <2>1
    <2> QED BY <1>1, <1>4, <2>6, <2>7 DEF VisitNeighbours
<1>5. CASE CompareCounts
    BY <1>1, <1>5 DEF CompareCounts
<1>6. CASE StartIslands
    BY <1>0, <1>1, <1>6 DEF StartIslands
<1>7. CASE StartIsland
    BY <1>0, <1>1, <1>7 DEF StartIsland
<1>8. CASE CollectBus
    BY <1>0, <1>1, <1>8 DEF CollectBus
<1>9. CASE EndIsland
    <2>1. Append(islands, island) \in Seq(SUBSET Ids)
        OBVIOUS
    <2> QED BY <1>1, <1>9, <2>1 DEF EndIsland
<1>10. CASE ReportIslands
    BY <1>1, <1>10 DEF ReportIslands
<1>11. CASE StartUnobservable
    BY <1>1, <1>11 DEF StartUnobservable
<1>12. CASE StartUnobservableIsland
    BY <1>0, <1>1, <1>12 DEF StartUnobservableIsland
<1>13. CASE CollectUnobservable
    BY <1>0, <1>1, <1>13 DEF CollectUnobservable
<1>14. CASE EndUnobservableIsland
    <2>1. Append(islands, island) \in Seq(SUBSET Ids)
        OBVIOUS
    <2> QED BY <1>1, <1>14, <2>1 DEF EndUnobservableIsland
<1>15. CASE AddPseudoMeasurements
    <2>1. /\ search' = search /\ buses' = buses /\ slack' = slack
          /\ branches' = branches /\ direct' = direct \cup InIslands
        BY <1>15 DEF AddPseudoMeasurements, grid
    <2>2. Places' = Places /\ InIslands \subseteq Places
        BY <2>1 DEF Places, InIslands
    <2>3. TwoEnded /\ buses = Places
        BY <1>15 DEF SystemOf, AddPseudoMeasurements
    <2>4. SystemOf(search)'
        BY <1>15, <2>1, <2>2, <2>3 DEF SystemOf, TwoEnded, AddPseudoMeasurements
    <2> QED BY <1>15, <2>1, <2>2, <2>4 DEF AddPseudoMeasurements
<1>16. CASE UNCHANGED vars
    <2>1. UNCHANGED <<grid, direct, pc, todo, work, visited, visitedCount, island,
                      islands, answer>>
        BY <1>16 DEF vars, grid
    <2> QED BY <1>1, <2>1
<1> QED BY <1>2, <1>3, <1>4, <1>5, <1>6, <1>7, <1>8, <1>9, <1>10, <1>11, <1>12,
           <1>13, <1>14, <1>15, <1>16
        DEF Next, IsConnected, FindIslands, FindUnobservableIslands

\* Every variable has its type, and the count isConnected keeps beside its
\* marks is their number: parallel branches, loops and buses that two others
\* reach count once.
THEOREM TypeCorrect == Spec => []TypeOK
BY InitTypeOK, StepTypeOK, PTL DEF Spec

-----------------------------------------------------------------------------
(***************************************************************************)
(* Walks.                                                                  *)
(***************************************************************************)

\* A set is closed when it has what its members are joined to.
LEMMA ClosedByJoins ==
    ASSUME NEW joined, Symmetric(joined), NEW S \in SUBSET Ids
    PROVE  Closed(S, joined) <=> \A b \in S : Joins(joined, b) \subseteq S
<1>1. ASSUME Closed(S, joined), NEW b \in S, NEW c \in Joins(joined, b)
      PROVE  c \in S
    <2>1. <<b, c>> \in joined /\ <<b, c>>[1] = b /\ <<b, c>>[2] = c
        BY <1>1 DEF Joins
    <2> QED BY <1>1, <2>1 DEF Closed
<1>2. ASSUME \A b \in S : Joins(joined, b) \subseteq S, NEW p \in joined, p[1] \in S
      PROVE  p[2] \in S
    <2>1. p = <<p[1], p[2]>> /\ p[2] \in Ids
        BY <1>2 DEF Symmetric
    <2>2. p[2] \in Joins(joined, p[1])
        BY <1>2, <2>1 DEF Joins
    <2> QED BY <1>2, <2>2
<1> QED BY <1>1, <1>2 DEF Closed

\* A walk begins with its root, marked and to do.
LEMMA WalkStarts ==
    ASSUME NEW joined, NEW root \in Ids
    PROVE  Walk(joined, root, {root}, {root})
BY DEF Walk, Within

\* A bus that is taken from the list leaves what it is joined to marked, and
\* what of that was not marked before on the list.
LEMMA WalkGoesOn ==
    ASSUME NEW joined, Symmetric(joined),
           NEW root, NEW S, NEW list, Walk(joined, root, S, list),
           NEW b \in list, NEW list2,
           list \ {b} \subseteq list2,
           Joins(joined, b) \ S \subseteq list2,
           list2 \subseteq S \cup Joins(joined, b)
    PROVE  Walk(joined, root, S \cup Joins(joined, b), list2)
<1> DEFINE S2 == S \cup Joins(joined, b)
<1>1. S2 \subseteq Ids /\ root \in S2 /\ list2 \subseteq S2
    BY DEF Walk, Joins
<1>2. ASSUME NEW c \in S2 \ list2 PROVE Joins(joined, c) \subseteq S2
    <2>1. c \in S
        BY <1>2
    <2>2. CASE c = b
        BY <2>2
    <2>3. CASE c # b
        <3>1. c \in S \ list
            BY <1>2, <2>1, <2>3
        <3> QED BY <3>1 DEF Walk
    <2> QED BY <2>2, <2>3
<1>3. ASSUME NEW C \in SUBSET Ids, root \in C, Closed(C, joined)
      PROVE  S2 \subseteq C
    <2>1. S \subseteq C
        BY <1>3 DEF Walk, Within
    <2>2. b \in C
        BY <2>1 DEF Walk
    <2>3. Joins(joined, b) \subseteq C
        BY <1>3, <2>2, ClosedByJoins
    <2> QED BY <2>1, <2>3
<1> HIDE DEF S2
<1>4. Walk(joined, root, S2, list2)
    BY <1>1, <1>2, <1>3 DEF Walk, Within
<1> QED BY <1>4 DEF S2

\* A walk with nothing to do has marked what each bus of it reaches.
LEMMA WalkEnds ==
    ASSUME NEW joined, Symmetric(joined),
           NEW root, NEW S, Walk(joined, root, S, {})
    PROVE  /\ Closed(S, joined)
           /\ \A a \in S : S = ClassOf(joined, a)
<1>1. S \in SUBSET Ids /\ root \in S /\ Within(joined, root, S)
    BY DEF Walk
<1>2. Closed(S, joined)
    BY <1>1, ClosedByJoins DEF Walk
<1> QED BY <1>1, <1>2, ClosedIsClass

-----------------------------------------------------------------------------
(***************************************************************************)
(* isConnected.                                                            *)
(***************************************************************************)

\* Its lists of neighbours are the graph of the branches in service whose
\* ends have places.
LEMMA AdjacentIsJoined ==
    ASSUME TypeOK, NEW b \in Ids
    PROVE  Adjacent(b) = Joins(Counted, b)
<1>1. ASSUME NEW c \in Adjacent(b) PROVE c \in Joins(Counted, b)
    <2>1. PICK br \in InService : b \in br.ends /\ br.ends \subseteq Places /\ c \in br.ends
        BY <1>1 DEF Adjacent
    <2>2. c \in Ids
        BY <1>1, EndsAreIds
    <2> DEFINE p == <<b, c>>
    <2>3. p \in Ids \X Ids /\ {p[1], p[2]} \subseteq br.ends
        BY <2>1, <2>2
    <2>4. p \in Counted
        BY <2>1, <2>3 DEF Counted, JoinedBy
    <2> QED BY <2>2, <2>4 DEF Joins
<1>2. ASSUME NEW c \in Joins(Counted, b) PROVE c \in Adjacent(b)
    <2> DEFINE p == <<b, c>>
    <2>1. p \in Counted /\ p[1] = b /\ p[2] = c
        BY <1>2 DEF Joins
    <2>2. PICK br \in InService : br.ends \subseteq Places /\ {p[1], p[2]} \subseteq br.ends
        BY <2>1 DEF Counted, JoinedBy
    <2> QED BY <2>1, <2>2 DEF Adjacent
<1> QED BY <1>1, <1>2

\* When the counts are equal, what the walk has marked is the system, if no
\* number is missing.
LEMMA EqualCounts ==
    ASSUME TypeOK, search = "isConnected", buses = Places, slack # {},
           Walk(Counted, FirstSlack, visited, {})
    PROVE  visitedCount = Cardinality(buses)
             <=> \A a, b \in buses : Reached(Counted, a, b)
<1>1. IsFiniteSet(buses) /\ buses \in SUBSET Ids
    BY EndsAreIds, FS_Subset DEF TypeOK
<1>2. FirstSlack \in buses
    BY FirstSlackIsSlack DEF TypeOK
<1>3. Symmetric(Counted)
    BY JoinedBySymmetric DEF Counted
<1>4. Closed(buses, Counted)
    <2>1. ASSUME NEW p \in Counted PROVE p[2] \in Places
        BY <2>1 DEF Counted, JoinedBy
    <2> QED BY <2>1 DEF Closed
<1>5. visited \subseteq buses
    BY <1>1, <1>2, <1>4 DEF Walk, Within
<1>6. visitedCount = Cardinality(visited)
    BY DEF TypeOK
<1>7. visitedCount = Cardinality(buses) <=> visited = buses
    BY <1>1, <1>5, <1>6, FS_Subset
<1>8. FirstSlack \in visited /\ \A a \in visited : visited = ClassOf(Counted, a)
    BY <1>3, WalkEnds DEF Walk
<1>9. ASSUME visited = buses, NEW a \in buses, NEW b \in buses
      PROVE  Reached(Counted, a, b)
    BY <1>8, <1>9 DEF ClassOf
<1>10. ASSUME \A a, b \in buses : Reached(Counted, a, b) PROVE buses \subseteq visited
    <2>1. ASSUME NEW b \in buses PROVE b \in visited
        <3>1. Reached(Counted, FirstSlack, b) /\ b \in Ids
            BY <1>1, <1>2, <1>10, <2>1
        <3>2. b \in ClassOf(Counted, FirstSlack)
            BY <3>1 DEF ClassOf
        <3> QED BY <1>8, <3>2
    <2> QED BY <2>1
<1> QED BY <1>5, <1>7, <1>9, <1>10

LEMMA InitConnected == Init => ConnectedInv
BY DEF Init, ConnectedInv, ConnectedExact

LEMMA StepConnected ==
    ASSUME TypeOK, ConnectedInv, [Next]_vars
    PROVE  ConnectedInv'
<1>1. CASE search' # "isConnected"
    BY <1>1 DEF ConnectedInv
<1>2. ASSUME search' = "isConnected", UNCHANGED <<grid, direct>>
      PROVE  /\ search = "isConnected" /\ buses' = buses /\ slack' = slack
             /\ Places' = Places /\ InService' = InService
             /\ Counted' = Counted /\ FirstSlack' = FirstSlack
    <2>1. /\ search = "isConnected" /\ buses' = buses /\ slack' = slack
          /\ branches' = branches
        BY <1>2 DEF grid
    <2>2. Places' = Places /\ InService' = InService
        BY <2>1 DEF Places, InService
    <2>3. Counted' = Counted
        BY <2>2 DEF Counted
    <2> QED BY <2>1, <2>2, <2>3 DEF FirstSlack
<1>3. CASE search' = "isConnected" /\ NoSlack
    <2>1. UNCHANGED <<grid, direct>> /\ pc' = "done" /\ answer' = answer /\ pc = "called"
          /\ slack = {}
        BY <1>3 DEF NoSlack
    <2> QED BY <1>2, <1>3, <2>1 DEF ConnectedInv, ConnectedExact
<1>4. CASE search' = "isConnected" /\ StartAtSlack
    <2>1. /\ UNCHANGED <<grid, direct>> /\ pc' = "walk" /\ slack # {}
          /\ work' = {FirstSlack} /\ visited' = {FirstSlack}
        BY <1>4 DEF StartAtSlack
    <2>2. FirstSlack \in Ids
        BY <2>1, FirstSlackIsSlack DEF TypeOK
    <2>3. Walk(Counted, FirstSlack, visited', work')
        BY <2>1, <2>2, WalkStarts
    <2> QED BY <1>2, <1>4, <2>1, <2>3 DEF ConnectedInv, ConnectedExact
<1>5. CASE search' = "isConnected" /\ VisitNeighbours
    <2>1. UNCHANGED <<grid, direct, pc>> /\ pc = "walk"
        BY <1>5 DEF VisitNeighbours
    <2>2. PICK b \in work :
             /\ work' = (work \ {b}) \cup (Adjacent(b) \ visited)
             /\ visited' = visited \cup (Adjacent(b) \ visited)
        BY <1>5 DEF VisitNeighbours
    <2>3. Walk(Counted, FirstSlack, visited, work) /\ slack # {}
        BY <1>2, <1>5, <2>1 DEF ConnectedInv
    <2>4. Adjacent(b) = Joins(Counted, b)
        BY AdjacentIsJoined DEF TypeOK
    <2>5. Symmetric(Counted)
        BY JoinedBySymmetric DEF Counted
    <2>6. work \subseteq visited
        BY <2>3 DEF Walk
    <2>7. visited' = visited \cup Joins(Counted, b)
        BY <2>2, <2>4
    <2>8. Walk(Counted, FirstSlack, visited', work')
        <3>1. /\ work \ {b} \subseteq work'
              /\ Joins(Counted, b) \ visited \subseteq work'
              /\ work' \subseteq visited \cup Joins(Counted, b)
            BY <2>2, <2>4, <2>6
        <3>2. Walk(Counted, FirstSlack, visited \cup Joins(Counted, b), work')
            BY <2>3, <2>5, <3>1, WalkGoesOn
        <3> QED BY <2>7, <3>2
    <2> QED BY <1>2, <1>5, <2>1, <2>3, <2>8 DEF ConnectedInv, ConnectedExact
<1>6. CASE search' = "isConnected" /\ CompareCounts
    <2>1. /\ UNCHANGED <<grid, direct>> /\ pc = "walk" /\ pc' = "done" /\ work = {}
          /\ answer' = (visitedCount = Cardinality(buses))
        BY <1>6 DEF CompareCounts
    <2>2. search = "isConnected" /\ buses' = buses /\ slack' = slack
          /\ Places' = Places /\ Counted' = Counted /\ InService' = InService
        BY <1>2, <1>6, <2>1
    <2>3. Walk(Counted, FirstSlack, visited, {}) /\ slack # {}
        BY <2>1, <2>2 DEF ConnectedInv
    <2>4. ASSUME buses = Places
          PROVE  visitedCount = Cardinality(buses)
                   <=> \A a, b \in buses : Reached(Counted, a, b)
        BY <2>2, <2>3, <2>4, EqualCounts
    <2>5. buses = Places =>
             JoinedBy({br \in InService : br.ends \subseteq buses}) = Counted
        BY DEF Counted
    <2> QED BY <2>1, <2>2, <2>3, <2>4, <2>5 DEF ConnectedInv, ConnectedExact
<1>7. CASE UNCHANGED vars
    <2>1. UNCHANGED <<grid, direct, pc, work, visited, answer>>
        BY <1>7 DEF vars, grid
    <2> QED BY <1>1, <1>2, <2>1 DEF ConnectedInv, ConnectedExact
<1>8. CASE search' = "isConnected" /\ (FindIslands \/ FindUnobservableIslands)
    <2>1. search # "isConnected" /\ search' = search
        BY <1>8 DEF FindIslands, FindUnobservableIslands, StartIslands, StartIsland,
                    CollectBus, EndIsland, ReportIslands, StartUnobservable,
                    StartUnobservableIsland, CollectUnobservable,
                    EndUnobservableIsland, AddPseudoMeasurements, grid
    <2> QED BY <1>8, <2>1
<1> QED BY <1>1, <1>3, <1>4, <1>5, <1>6, <1>7, <1>8 DEF Next, IsConnected

\* When no number is missing, isConnected says TRUE exactly of a system with a
\* slack bus whose buses all reach each other over branches in service.
THEOREM ConnectedIsExact == Spec => []ConnectedExact
<1>1. TypeOK /\ ConnectedInv /\ [Next]_vars => ConnectedInv'
    BY StepConnected
<1>2. ConnectedInv => ConnectedExact
    BY DEF ConnectedInv, ConnectedExact
<1> QED BY InitConnected, <1>1, <1>2, TypeCorrect, PTL DEF Spec

-----------------------------------------------------------------------------
(***************************************************************************)
(* Lists of islands.                                                       *)
(***************************************************************************)

\* No island, nothing collected.
LEMMA NoClasses ==
    ASSUME NEW joined, NEW B
    PROVE  Classes(<<>>, joined, B) /\ CollectedIn(<<>>) = {}
<1>1. 1 .. Len(<<>>) = {}
    OBVIOUS
<1>2. CollectedIn(<<>>) = {}
    BY <1>1 DEF CollectedIn
<1> QED BY <1>1, <1>2 DEF Classes, Closed

\* A walk that has ended and began outside the islands is one more.
LEMMA OneMoreClass ==
    ASSUME NEW joined, Symmetric(joined), NEW B,
           NEW seq \in Seq(SUBSET Ids), Classes(seq, joined, B),
           NEW root \in B, root \in Ids, root \notin CollectedIn(seq),
           NEW I, Walk(joined, root, I, {})
    PROVE  /\ Classes(Append(seq, I), joined, B)
           /\ CollectedIn(Append(seq, I)) = CollectedIn(seq) \cup I
<1> DEFINE longer == Append(seq, I)
           n == Len(seq) + 1
           V == CollectedIn(seq)
<1>1. I \in SUBSET Ids /\ root \in I /\ Within(joined, root, I)
    BY DEF Walk
<1>2. Closed(I, joined) /\ \A a \in I : I = ClassOf(joined, a)
    BY WalkEnds
<1>3. V \in SUBSET Ids /\ Closed(V, joined) /\ root \notin V
    BY DEF CollectedIn, Classes
<1>4. I \cap V = {}
    <2> HIDE DEF V
    <2> QED BY <1>1, <1>3, ApartFromClosed
<1>5. /\ Len(seq) \in Nat /\ Len(longer) = n
      /\ 1 .. n = (1 .. Len(seq)) \cup {n} /\ n \notin 1 .. Len(seq)
      /\ longer[n] = I
      /\ \A i \in 1 .. Len(seq) : longer[i] = seq[i]
    <2>1. Len(seq) \in Nat /\ DOMAIN seq = 1 .. Len(seq)
        OBVIOUS
    <2>2. 1 .. n = (1 .. Len(seq)) \cup {n} /\ n \notin 1 .. Len(seq)
        BY <2>1
    <2>3. Len(longer) = n /\ longer[n] = I
        BY <1>1
    <2>4. \A i \in 1 .. Len(seq) : longer[i] = seq[i]
        BY <1>1, <2>1
    <2> QED BY <2>1, <2>2, <2>3, <2>4
<1> HIDE DEF longer, n
<1>6. CollectedIn(longer) = V \cup I
    BY <1>1, <1>5 DEF CollectedIn
<1>7. Closed(V \cup I, joined)
    <2> HIDE DEF V
    <2> QED BY <1>2, <1>3 DEF Closed
<1>8. ASSUME NEW i \in 1 .. Len(longer)
      PROVE  /\ \E b \in B : b \in longer[i]
             /\ \A a \in longer[i] : longer[i] = ClassOf(joined, a)
    <2>1. CASE i = n
        BY <1>1, <1>2, <1>5, <2>1
    <2>2. CASE i \in 1 .. Len(seq)
        BY <1>5, <2>2 DEF Classes
    <2> QED BY <1>5, <2>1, <2>2
<1>9. ASSUME NEW i \in 1 .. Len(seq) PROVE seq[i] \cap I = {}
    <2>1. seq[i] \subseteq V
        BY DEF CollectedIn
    <2> HIDE DEF V
    <2> QED BY <1>4, <2>1
<1>10. ASSUME NEW i \in 1 .. Len(longer), NEW j \in 1 .. Len(longer), i # j
       PROVE  longer[i] \cap longer[j] = {}
    <2>1. CASE i = n
        BY <1>5, <1>9, <1>10, <2>1
    <2>2. CASE j = n
        BY <1>5, <1>9, <1>10, <2>2
    <2>3. CASE i # n /\ j # n
        BY <1>5, <1>10, <2>3 DEF Classes
    <2> QED BY <2>1, <2>2, <2>3
<1>11. Classes(longer, joined, B)
    BY <1>6, <1>7, <1>8, <1>10 DEF Classes
<1> QED BY <1>6, <1>11 DEF longer

\* Islands that hold all of B are its partition.
LEMMA ClassesPartition ==
    ASSUME NEW joined, NEW B, Classes(islands, joined, B),
           B \subseteq CollectedIn(islands)
    PROVE  Partition(joined, B)
BY DEF Classes, CollectedIn, Partition, ClassOf

-----------------------------------------------------------------------------
(***************************************************************************)
(* findIslands.                                                            *)
(***************************************************************************)

\* Its map of neighbours is the graph of the branches in service.
LEMMA LinkedIsJoined ==
    ASSUME TypeOK, NEW b \in Ids
    PROVE  Linked(b) = Joins(Linking, b)
<1>1. ASSUME NEW c \in Linked(b) PROVE c \in Joins(Linking, b)
    <2>1. PICK br \in InService : b \in br.ends /\ c \in br.ends
        BY <1>1 DEF Linked
    <2>2. c \in Ids
        BY <1>1, EndsAreIds
    <2> DEFINE p == <<b, c>>
    <2>3. p \in Ids \X Ids /\ {p[1], p[2]} \subseteq br.ends
        BY <2>1, <2>2
    <2>4. p \in Linking
        BY <2>1, <2>3 DEF Linking, JoinedBy
    <2> QED BY <2>2, <2>4 DEF Joins
<1>2. ASSUME NEW c \in Joins(Linking, b) PROVE c \in Linked(b)
    <2> DEFINE p == <<b, c>>
    <2>1. p \in Linking /\ p[1] = b /\ p[2] = c
        BY <1>2 DEF Joins
    <2>2. PICK br \in InService : {p[1], p[2]} \subseteq br.ends
        BY <2>1 DEF Linking, JoinedBy
    <2> QED BY <2>1, <2>2 DEF Linked
<1> QED BY <1>1, <1>2

LEMMA InitIslands == Init => IslandsInv
BY DEF Init, IslandsInv, IslandsExact

LEMMA StepIslands ==
    ASSUME TypeOK, IslandsInv, [Next]_vars
    PROVE  IslandsInv'
<1>1. CASE search' # "findIslands"
    BY <1>1 DEF IslandsInv
<1>2. ASSUME search' = "findIslands", UNCHANGED <<grid, direct>>
      PROVE  /\ search = "findIslands" /\ buses' = buses
             /\ InService' = InService /\ Linking' = Linking
    <2>1. search = "findIslands" /\ buses' = buses /\ branches' = branches
        BY <1>2 DEF grid
    <2>2. InService' = InService
        BY <2>1 DEF InService
    <2> QED BY <2>1, <2>2 DEF Linking
<1>2a. ASSUME search' = "findIslands", UNCHANGED <<grid, direct, islands>>
       PROVE  Partition(Linking, buses)' <=> Partition(Linking, buses)
    <2>1. Linking' = Linking /\ buses' = buses /\ islands' = islands
        BY <1>2, <1>2a
    <2>2. ASSUME NEW a, NEW b
          PROVE  Reached(Linking, a, b)' <=> Reached(Linking, a, b)
        BY <2>1 DEF Reached, Closed
    <2>3. ASSUME NEW a
          PROVE  {b \in Ids : Reached(Linking, a, b)}' = {b \in Ids : Reached(Linking, a, b)}
        BY <2>2
    <2> QED BY <2>1, <2>3 DEF Partition
<1> USE DEF IslandsInv, IslandsExact
<1>3. CASE search' = "findIslands" /\ StartIslands
    <2>1. /\ UNCHANGED <<grid, direct, work, visited, island, islands>>
          /\ pc = "called" /\ pc' = "next" /\ todo' = buses
        BY <1>3 DEF StartIslands
    <2>2. islands = <<>> /\ visited = {} /\ island = {} /\ work = {}
        BY <1>2, <1>3, <2>1
    <2>3. Classes(islands, Linking, buses) /\ CollectedIn(islands) = {}
        BY <2>2, NoClasses
    <2> QED BY <1>2, <1>3, <2>1, <2>2, <2>3
<1>4. CASE search' = "findIslands" /\ StartIsland
    <2>1. UNCHANGED <<grid, direct, visited, island, islands>> /\ pc = "next"
        BY <1>4 DEF StartIsland
    <2>2. PICK b \in todo :
             /\ todo' = todo \ {b}
             /\ IF b \in visited THEN UNCHANGED <<work, pc>>
                                 ELSE work' = {b} /\ pc' = "walk"
        BY <1>4 DEF StartIsland
    <2>3. /\ Classes(islands, Linking, buses)
          /\ visited = CollectedIn(islands) /\ todo \subseteq buses
          /\ island = {} /\ work = {} /\ buses \ todo \subseteq visited
        BY <1>2, <1>4, <2>1
    <2>4. CASE b \in visited
        <3>1. buses \ todo' \subseteq visited /\ todo' \subseteq buses
            BY <2>2, <2>3, <2>4
        <3> QED BY <1>2, <1>4, <2>1, <2>2, <2>3, <2>4, <3>1
    <2>5. CASE b \notin visited
        <3>1. buses \ todo' \subseteq visited \cup {b} /\ todo' \subseteq buses
            BY <2>2, <2>3
        <3>2. work' = {b} /\ pc' = "walk" /\ b \in buses \ visited /\ b \in Ids
            BY <2>2, <2>3, <2>5 DEF TypeOK
        <3>3. Walk(Linking, b, {b}, {b})
            BY <3>2, WalkStarts
        <3>4. island \cup work' = {b}
            BY <2>3, <3>2
        <3>5. Walk(Linking, b, island \cup work', work')
            BY <3>2, <3>3, <3>4
        <3>6. \E root \in buses \ visited :
                 /\ Walk(Linking, root, island \cup work', work')
                 /\ buses \ todo' \subseteq visited \cup {root}
            BY <3>1, <3>2, <3>5
        <3> QED BY <1>2, <1>4, <2>1, <2>3, <3>1, <3>2, <3>6
    <2> QED BY <2>4, <2>5
<1>5. CASE search' = "findIslands" /\ CollectBus
    <2>1. UNCHANGED <<grid, direct, pc, todo, visited, islands>> /\ pc = "walk"
        BY <1>5 DEF CollectBus
    <2>2. PICK b \in work :
             /\ island' = island \cup {b}
             /\ work' = (work \ {b}) \cup (Linked(b) \ island')
        BY <1>5 DEF CollectBus
    <2>3. /\ Classes(islands, Linking, buses)
          /\ visited = CollectedIn(islands) /\ todo \subseteq buses
        BY <1>2, <1>5, <2>1
    <2>4. PICK root \in buses \ visited :
                 /\ Walk(Linking, root, island \cup work, work)
                 /\ buses \ todo \subseteq visited \cup {root}
        BY <1>2, <1>5, <2>1
    <2>5. Linked(b) = Joins(Linking, b)
        BY LinkedIsJoined DEF TypeOK
    <2>6. Symmetric(Linking)
        BY JoinedBySymmetric DEF Linking
    <2>7. /\ work \ {b} \subseteq work'
          /\ Joins(Linking, b) \ (island \cup work) \subseteq work'
          /\ work' \subseteq (island \cup work) \cup Joins(Linking, b)
        BY <2>2, <2>5
    <2>8. Walk(Linking, root, (island \cup work) \cup Joins(Linking, b), work')
        BY <2>4, <2>6, <2>7, WalkGoesOn
    <2>9. (island \cup work) \cup Joins(Linking, b) = island' \cup work'
        BY <2>2, <2>5
    <2>10. Walk(Linking, root, island' \cup work', work')
        BY <2>8, <2>9
    <2> QED BY <1>2, <1>5, <2>1, <2>3, <2>4, <2>10
<1>6. CASE search' = "findIslands" /\ EndIsland
    <2>1. /\ UNCHANGED <<grid, direct, todo, work>> /\ pc = "walk" /\ work = {}
          /\ islands' = Append(islands, island)
          /\ visited' = visited \cup island /\ island' = {} /\ pc' = "next"
        BY <1>6 DEF EndIsland
    <2>2. /\ Classes(islands, Linking, buses)
          /\ visited = CollectedIn(islands) /\ todo \subseteq buses
        BY <1>2, <1>6, <2>1
    <2>3. PICK root \in buses \ visited :
                 /\ Walk(Linking, root, island \cup work, work)
                 /\ buses \ todo \subseteq visited \cup {root}
        BY <1>2, <1>6, <2>1
    <2>4. island \cup work = island
        BY <2>1
    <2>5. Walk(Linking, root, island, {})
        BY <2>1, <2>3, <2>4
    <2>6. Symmetric(Linking)
        BY JoinedBySymmetric DEF Linking
    <2>7. root \in buses /\ root \in Ids /\ root \notin CollectedIn(islands)
        BY <2>2, <2>3 DEF TypeOK
    <2>8. islands \in Seq(SUBSET Ids)
        BY DEF TypeOK
    <2>9. /\ Classes(islands', Linking, buses)
          /\ CollectedIn(islands') = CollectedIn(islands) \cup island
        BY <2>1, <2>2, <2>5, <2>6, <2>7, <2>8, OneMoreClass
    <2>10. buses \ todo \subseteq visited'
        <3>1. root \in island
            BY <2>5 DEF Walk
        <3> QED BY <2>1, <2>3, <3>1
    <2> QED BY <1>2, <1>6, <2>1, <2>2, <2>9, <2>10
<1>7. CASE search' = "findIslands" /\ ReportIslands
    <2>1. /\ UNCHANGED <<grid, direct, todo, work, visited, island, islands>>
          /\ pc = "next" /\ pc' = "done" /\ todo = {}
        BY <1>7 DEF ReportIslands
    <2>2. /\ Classes(islands, Linking, buses)
          /\ visited = CollectedIn(islands) /\ buses \ todo \subseteq visited
        BY <1>2, <1>7, <2>1
    <2>3. buses \subseteq CollectedIn(islands)
        BY <2>1, <2>2
    <2>4. Partition(Linking, buses)
        BY <2>2, <2>3, ClassesPartition
    <2>5. Partition(Linking, buses)'
        BY <1>2a, <1>7, <2>1, <2>4
    <2> QED BY <1>2, <1>7, <2>1, <2>5 DEF Linking
<1>8. CASE search' = "findIslands" /\ UNCHANGED vars
    <2>1. UNCHANGED <<grid, direct, pc, todo, work, visited, island, islands>>
        BY <1>8 DEF vars, grid
    <2>2. pc = "done" => Partition(Linking, buses)
        BY <1>2, <1>8, <2>1 DEF Linking
    <2>3. Partition(Linking, buses)' <=> Partition(Linking, buses)
        BY <1>2a, <1>8, <2>1
    <2>4. IslandsExact'
        BY <1>8, <2>1, <2>2, <2>3 DEF Linking
    <2> QED BY <1>2, <1>8, <2>1, <2>4
<1>9. CASE search' = "findIslands" /\ (IsConnected \/ FindUnobservableIslands)
    <2>1. search # "findIslands" /\ search' = search
        BY <1>9 DEF IsConnected, FindUnobservableIslands, NoSlack, StartAtSlack,
                    VisitNeighbours, CompareCounts, StartUnobservable,
                    StartUnobservableIsland, CollectUnobservable,
                    EndUnobservableIsland, AddPseudoMeasurements, grid
    <2> QED BY <1>9, <2>1
<1> QED BY <1>1, <1>3, <1>4, <1>5, <1>6, <1>7, <1>8, <1>9 DEF Next, FindIslands

\* findIslands lists the islands of the system, each once.
THEOREM IslandsAreExact == Spec => []IslandsExact
<1>1. TypeOK /\ IslandsInv /\ [Next]_vars => IslandsInv'
    BY StepIslands
<1>2. IslandsInv => IslandsExact
    BY DEF IslandsInv, IslandsExact
<1> QED BY InitIslands, <1>1, <1>2, TypeCorrect, PTL DEF Spec

-----------------------------------------------------------------------------
(***************************************************************************)
(* findUnobservableIslands and addPseudoMeasurements.                      *)
(***************************************************************************)

\* What the search goes on to is the graph of the buses that have no
\* measurement of their own.
LEMMA UnmeasuredIsJoined ==
    ASSUME TypeOK, NEW b \in Open
    PROVE  Unmeasured(b) = Joins(Unmeasuring, b)
<1>1. Open \subseteq Ids
    BY EndsAreIds DEF Open
<1>2. ASSUME NEW c \in Unmeasured(b) PROVE c \in Joins(Unmeasuring, b)
    <2>1. PICK br \in branches : b \in br.ends /\ c \in br.ends
        BY <1>2 DEF Unmeasured
    <2>2. c \in Open /\ c \in Ids
        BY <1>1, <1>2 DEF Unmeasured, Open
    <2> DEFINE p == <<b, c>>
    <2>3. p \in Ids \X Ids /\ {p[1], p[2]} \subseteq br.ends /\ {p[1], p[2]} \subseteq Open
        BY <1>1, <2>1, <2>2
    <2>4. p \in Unmeasuring
        BY <2>1, <2>3 DEF Unmeasuring, JoinedBy
    <2> QED BY <2>2, <2>4 DEF Joins
<1>3. ASSUME NEW c \in Joins(Unmeasuring, b) PROVE c \in Unmeasured(b)
    <2> DEFINE p == <<b, c>>
    <2>1. p \in Unmeasuring /\ p[1] = b /\ p[2] = c
        BY <1>3 DEF Joins
    <2>2. PICK br \in branches : {p[1], p[2]} \subseteq br.ends
        BY <2>1 DEF Unmeasuring, JoinedBy
    <2>3. c \in Open
        BY <2>1 DEF Unmeasuring
    <2> QED BY <2>1, <2>2, <2>3 DEF Unmeasured, Open
<1> QED BY <1>2, <1>3

LEMMA UnmeasuringSymmetric == Symmetric(Unmeasuring)
<1>1. Symmetric(JoinedBy(branches))
    BY JoinedBySymmetric
<1>2. ASSUME NEW p \in Unmeasuring
      PROVE  p \in Ids \X Ids /\ <<p[2], p[1]>> \in Unmeasuring
    <2>1. p \in JoinedBy(branches) /\ p[1] \in Open /\ p[2] \in Open
        BY DEF Unmeasuring
    <2> DEFINE q == <<p[2], p[1]>>
    <2>2. q \in JoinedBy(branches) /\ q[1] = p[2] /\ q[2] = p[1]
        BY <1>1, <2>1 DEF Symmetric
    <2>3. q \in Unmeasuring
        BY <2>1, <2>2 DEF Unmeasuring
    <2> QED BY <1>1, <2>1, <2>3 DEF Symmetric
<1> QED BY <1>2 DEF Symmetric

\* A walk from an open bus stays among them.
LEMMA WalkStaysOpen ==
    ASSUME TypeOK, NEW root \in Open, NEW S, NEW list,
           Walk(Unmeasuring, root, S, list)
    PROVE  S \subseteq Open
<1>1. Open \in SUBSET Ids
    BY EndsAreIds DEF Open
<1>2. Closed(Open, Unmeasuring)
    BY DEF Closed, Unmeasuring
<1> QED BY <1>1, <1>2 DEF Walk, Within

LEMMA InitUnobservable == Init => UnobservableInv
BY DEF Init, UnobservableInv

LEMMA StepUnobservable ==
    ASSUME TypeOK, UnobservableInv, [Next]_vars
    PROVE  UnobservableInv'
<1>1. CASE search' # "findUnobservableIslands"
    BY <1>1 DEF UnobservableInv
<1>2. ASSUME search' = "findUnobservableIslands", UNCHANGED <<grid, direct>>
      PROVE  /\ search = "findUnobservableIslands" /\ Places' = Places
             /\ Open' = Open /\ Unmeasuring' = Unmeasuring
    <2>1. /\ search = "findUnobservableIslands" /\ buses' = buses
          /\ branches' = branches /\ slack' = slack /\ direct' = direct
        BY <1>2 DEF grid
    <2>2. Places' = Places /\ Open' = Open
        BY <2>1 DEF Places, Open, HasDirectMeas
    <2> QED BY <2>1, <2>2 DEF Unmeasuring
<1> USE DEF UnobservableInv
<1>3. CASE search' = "findUnobservableIslands" /\ StartUnobservable
    <2>1. /\ UNCHANGED <<grid, direct, work, visited, island, islands>>
          /\ pc = "called" /\ pc' = "next" /\ todo' = Places
        BY <1>3 DEF StartUnobservable
    <2>2. islands = <<>> /\ visited = {} /\ island = {} /\ work = {}
        BY <1>2, <1>3, <2>1
    <2>3. Classes(islands, Unmeasuring, Open) /\ CollectedIn(islands) = {}
        BY <2>2, NoClasses
    <2>4. Open \ todo' \subseteq visited
        BY <2>1 DEF Open
    <2> QED BY <1>2, <1>3, <2>1, <2>2, <2>3, <2>4
<1>4. CASE search' = "findUnobservableIslands" /\ StartUnobservableIsland
    <2>1. UNCHANGED <<grid, direct, island, islands>> /\ pc = "next"
        BY <1>4 DEF StartUnobservableIsland
    <2>2. PICK b \in todo :
             /\ todo' = todo \ {b}
             /\ IF b \in visited \cup HasDirectMeas
                THEN UNCHANGED <<work, visited, pc>>
                ELSE work' = {b} /\ visited' = visited \cup {b} /\ pc' = "walk"
        BY <1>4 DEF StartUnobservableIsland
    <2>3. /\ Classes(islands, Unmeasuring, Open)
          /\ visited = CollectedIn(islands) \cup island \cup work
          /\ island = {} /\ work = {} /\ Open \ todo \subseteq visited
        BY <1>2, <1>4, <2>1
    <2>4. CASE b \in visited \cup HasDirectMeas
        <3>1. Open \ todo' \subseteq visited
            BY <2>2, <2>3, <2>4 DEF Open
        <3> QED BY <1>2, <1>4, <2>1, <2>2, <2>3, <2>4, <3>1
    <2>5. CASE b \notin visited \cup HasDirectMeas
        <3>1. b \in Places /\ b \in Open /\ b \in Ids
            BY <2>5, EndsAreIds DEF Open, TypeOK
        <3>2. /\ work' = {b} /\ visited' = visited \cup {b} /\ pc' = "walk"
              /\ visited = CollectedIn(islands)
            BY <2>2, <2>3, <2>5
        <3>3. Walk(Unmeasuring, b, {b}, {b})
            BY <3>1, WalkStarts
        <3>4. island \cup work' = {b} /\ visited' = CollectedIn(islands) \cup island \cup work'
            BY <2>3, <3>2
        <3>5. Walk(Unmeasuring, b, island \cup work', work')
            BY <3>2, <3>3, <3>4
        <3>6. Open \ todo' \subseteq CollectedIn(islands) \cup {b}
            BY <2>2, <2>3, <3>2
        <3>7. \E root \in Open \ CollectedIn(islands) :
                 /\ Walk(Unmeasuring, root, island \cup work', work')
                 /\ Open \ todo' \subseteq CollectedIn(islands) \cup {root}
            BY <2>5, <3>1, <3>2, <3>5, <3>6
        <3> QED BY <1>2, <1>4, <2>1, <2>3, <3>2, <3>4, <3>7
    <2> QED BY <2>4, <2>5
<1>5. CASE search' = "findUnobservableIslands" /\ CollectUnobservable
    <2>1. UNCHANGED <<grid, direct, pc, todo, islands>> /\ pc = "walk"
        BY <1>5 DEF CollectUnobservable
    <2>2. PICK b \in work :
             /\ island' = island \cup {b}
             /\ work' = (work \ {b}) \cup (Unmeasured(b) \ visited)
             /\ visited' = visited \cup (Unmeasured(b) \ visited)
        BY <1>5 DEF CollectUnobservable
    <2> DEFINE V == CollectedIn(islands)
               S == island \cup work
               J == Joins(Unmeasuring, b)
    <2>3. Classes(islands, Unmeasuring, Open) /\ visited = V \cup S
        BY <1>2, <1>5, <2>1
    <2>4. PICK root \in Open \ V :
                 /\ Walk(Unmeasuring, root, S, work)
                 /\ Open \ todo \subseteq V \cup {root}
        BY <1>2, <1>5, <2>1
    <2>5. Symmetric(Unmeasuring)
        BY UnmeasuringSymmetric
    <2>6. Unmeasured(b) = J
        <3>1. b \in Open
            BY <2>4, WalkStaysOpen
        <3> QED BY <3>1, UnmeasuredIsJoined
    <2>7. J \cap V = {}
        <3>1. Walk(Unmeasuring, root, S \cup J, S \cup J)
            <4>1. work \ {b} \subseteq S \cup J /\ J \ S \subseteq S \cup J
                OBVIOUS
            <4> HIDE DEF S
            <4> QED BY <2>4, <2>5, <4>1, WalkGoesOn
        <3>2. V \in SUBSET Ids /\ Closed(V, Unmeasuring) /\ root \in Ids \ V
            BY <2>3, <2>4, EndsAreIds DEF CollectedIn, Classes, Open
        <3>3. Within(Unmeasuring, root, S \cup J)
            BY <3>1 DEF Walk
        <3>4. (S \cup J) \cap V = {}
            <4> HIDE DEF V, S, J
            <4> QED BY <2>5, <3>2, <3>3, ApartFromClosed
        <3> QED BY <3>4
    <2>8. J \ visited = J \ S
        BY <2>3, <2>7
    <2>9. Walk(Unmeasuring, root, S \cup J, work')
        <3>1. /\ work \ {b} \subseteq work'
              /\ J \ S \subseteq work'
              /\ work' \subseteq S \cup J
            BY <2>2, <2>6, <2>8
        <3> HIDE DEF S
        <3> QED BY <2>4, <2>5, <3>1, WalkGoesOn
    <2>10. /\ S \cup J = island' \cup work'
           /\ visited' = V \cup island' \cup work'
        BY <2>2, <2>3, <2>6, <2>8
    <2>11. Walk(Unmeasuring, root, island' \cup work', work')
        BY <2>9, <2>10
    <2> QED BY <1>2, <1>5, <2>1, <2>3, <2>4, <2>10, <2>11
<1>6. CASE search' = "findUnobservableIslands" /\ EndUnobservableIsland
    <2>1. /\ UNCHANGED <<grid, direct, todo, work, visited>> /\ pc = "walk" /\ work = {}
          /\ islands' = Append(islands, island)
          /\ island' = {} /\ pc' = "next"
        BY <1>6 DEF EndUnobservableIsland
    <2>2. /\ Classes(islands, Unmeasuring, Open)
          /\ visited = CollectedIn(islands) \cup island \cup work
        BY <1>2, <1>6, <2>1
    <2>3. PICK root \in Open \ CollectedIn(islands) :
                 /\ Walk(Unmeasuring, root, island \cup work, work)
                 /\ Open \ todo \subseteq CollectedIn(islands) \cup {root}
        BY <1>2, <1>6, <2>1
    <2>4. island \cup work = island
        BY <2>1
    <2>5. Walk(Unmeasuring, root, island, {})
        BY <2>1, <2>3, <2>4
    <2>6. root \in Open /\ root \in Ids /\ root \notin CollectedIn(islands)
        BY <2>3, EndsAreIds DEF Open
    <2>7. islands \in Seq(SUBSET Ids) /\ Symmetric(Unmeasuring)
        BY UnmeasuringSymmetric DEF TypeOK
    <2>8. /\ Classes(islands', Unmeasuring, Open)
          /\ CollectedIn(islands') = CollectedIn(islands) \cup island
        BY <2>1, <2>2, <2>5, <2>6, <2>7, OneMoreClass
    <2>9. visited' = CollectedIn(islands') \cup island' \cup work'
        BY <2>1, <2>2, <2>8
    <2>10. Open \ todo \subseteq visited'
        <3>1. root \in island
            BY <2>5 DEF Walk
        <3> QED BY <2>1, <2>2, <2>3, <3>1
    <2> QED BY <1>2, <1>6, <2>1, <2>8, <2>9, <2>10
<1>7. CASE search' = "findUnobservableIslands" /\ AddPseudoMeasurements
    <2>1. /\ search' = search /\ buses' = buses /\ slack' = slack
          /\ direct' = direct \cup InIslands
          /\ pc = "next" /\ pc' = "done" /\ todo = {}
        BY <1>7 DEF AddPseudoMeasurements, grid
    <2>2. /\ visited = CollectedIn(islands) \cup island \cup work
          /\ island = {} /\ work = {} /\ Open \ todo \subseteq visited
        BY <1>7, <2>1
    <2>3. Open \subseteq CollectedIn(islands)
        BY <2>1, <2>2
    <2>4. Open \subseteq InIslands
        BY <2>3 DEF CollectedIn, InIslands, Open
    <2>5. Open' = {}
        BY <2>1, <2>4 DEF Open, HasDirectMeas, Places
    <2> QED BY <1>7, <2>1, <2>5
<1>8. CASE search' = "findUnobservableIslands" /\ UNCHANGED vars
    <2>1. UNCHANGED <<grid, direct, pc, todo, work, visited, island, islands>>
        BY <1>8 DEF vars, grid
    <2> QED BY <1>2, <1>8, <2>1
<1>9. CASE search' = "findUnobservableIslands" /\ (IsConnected \/ FindIslands)
    <2>1. search # "findUnobservableIslands" /\ search' = search
        BY <1>9 DEF IsConnected, FindIslands, NoSlack, StartAtSlack,
                    VisitNeighbours, CompareCounts, StartIslands, StartIsland,
                    CollectBus, EndIsland, ReportIslands, grid
    <2> QED BY <1>9, <2>1
<1> QED BY <1>1, <1>3, <1>4, <1>5, <1>6, <1>7, <1>8, <1>9
        DEF Next, FindUnobservableIslands

\* findUnobservableIslands lists the sets of buses without a measurement of
\* their own that are joined past no measured bus, each once, and leaves none
\* without a measurement.
THEOREM UnobservableIsExact == Spec => []UnobservableExact
<1>1. TypeOK /\ UnobservableInv /\ [Next]_vars => UnobservableInv'
    BY StepUnobservable
<1>2. UnobservableInv => UnobservableExact
    <2> SUFFICES ASSUME UnobservableInv, search = "findUnobservableIslands"
                 PROVE  /\ pc = "next" /\ todo = {} => Partition(Unmeasuring, Open)
                        /\ pc = "done" => Open = {}
        BY DEF UnobservableExact, Unmeasuring, Open
    <2>1. ASSUME pc = "next", todo = {} PROVE Partition(Unmeasuring, Open)
        <3>1. /\ Classes(islands, Unmeasuring, Open)
              /\ Open \subseteq CollectedIn(islands)
            BY <2>1 DEF UnobservableInv
        <3> QED BY <3>1, ClassesPartition
    <2> QED BY <2>1 DEF UnobservableInv
<1> QED BY InitUnobservable, <1>1, <1>2, TypeCorrect, PTL DEF Spec
================================================================================
