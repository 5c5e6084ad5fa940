--------------------------- MODULE GridConnectivity ---------------------------
(***************************************************************************)
(* The three searches of the program over the graph of a power system:     *)
(* PowerSystem::isConnected (core/src/power_system.cpp), findIslands of    *)
(* the validation after an import (io/post_import_validator.cpp), and      *)
(* findUnobservableIslands of the state estimator                          *)
(* (core/state_estimation/state_estimator_wls.cpp) with the pseudo         *)
(* measurements that are added for what it finds.                          *)
(*                                                                         *)
(* Each is a loop over a work list, one action for each bus that is taken  *)
(* from it.  The list is kept as a set: the order in which a queue or a    *)
(* stack hands out its buses is left open, and a bus that is on a stack    *)
(* twice counts once, for the code skips it the second time.               *)
(***************************************************************************)
EXTENDS Naturals, Sequences, FiniteSets

CONSTANTS
    Ids,        \* the numbers a bus may have
    Branches    \* the lines and transformers there may be

\* A branch: the buses it joins (three for a transformer with a tertiary
\* winding) and whether its status is 1.
ASSUME GridConnectivityAssumption ==
    /\ Ids \subseteq Nat \ {0} /\ IsFiniteSet(Ids)
    /\ Branches \subseteq [ends : SUBSET Ids, inService : BOOLEAN]

VARIABLES
    search,         \* which of the three searches runs
    buses,          \* the numbers of the buses of the system
    slack,          \* the buses of type Slack
    branches,       \* the branches of the system
    direct,         \* the buses with a measurement of their own: see HasDirectMeas
    pc,             \* where the search is
    todo,           \* the buses the outer loop has still to look at
    work,           \* the queue or stack
    visited,        \* visited
    visitedCount,   \* visitedCount
    island,         \* the island being collected
    islands,        \* the islands found
    answer          \* what the search returns, or warns of

grid == <<search, buses, slack, branches>>
vars == <<search, buses, slack, branches, direct, pc, todo, work, visited,
          visitedCount, island, islands, answer>>

Searches == {"isConnected", "findIslands", "findUnobservableIslands"}

\* topology_.buses has a place for each number up to the largest: addBus fills
\* the places of the numbers it was not given with buses of number 0.
Places == {id \in Ids : \E b \in buses : id <= b}

InService == {br \in branches : br.inService}

\* Mutation: only one of a branch's ends has to be among the places, so that
\* the walk leaves the system.
AdjacentOutside(b) == UNION {br.ends : br \in {l \in InService : b \in l.ends}}

\* The neighbours in the lists of isConnected: ends outside the places are
\* left out, ends at a place no bus was added for are not.
Adjacent(b) ==
    UNION {br.ends : br \in {l \in InService : b \in l.ends /\ l.ends \subseteq Places}}

\* The neighbours in the map of validateConnectivity, which has an entry for
\* each end of a branch, of a bus that exists or not.
Linked(b) == UNION {br.ends : br \in {l \in InService : b \in l.ends}}

\* Mutation: the walk goes on through buses with a measurement of their own.
UnmeasuredAny(b) ==
    (UNION {br.ends : br \in {l \in branches : b \in l.ends}}) \cap Places

\* The buses with a voltage magnitude, a voltage angle, or an active or reactive
\* injection measured at them, and the slack buses.  A measurement of any other
\* type, a PMU's voltages and every flow included, makes no bus one of these.
HasDirectMeas == direct \cup slack

\* The neighbours findUnobservableIslands goes on to: those that are none of
\* these.  The estimator's branches have no status.
Unmeasured(b) ==
    ((UNION {br.ends : br \in {l \in branches : b \in l.ends}}) \cap Places)
        \ HasDirectMeas

-----------------------------------------------------------------------------
(* The systems a search can be called on.                                  *)

TwoEnded == \A br \in branches : Cardinality(br.ends) <= 2

SystemOf(s) ==
    CASE s = "isConnected" -> TwoEnded /\ direct = {}
      [] s = "findIslands" -> buses # {} /\ slack = {} /\ direct = {}
      \* The estimator numbers its buses without a gap, here from 1.
      [] s = "findUnobservableIslands" ->
            TwoEnded /\ buses = Places /\ direct \subseteq buses

Init ==
    /\ search \in Searches
    /\ buses \in SUBSET Ids /\ slack \in SUBSET buses
    /\ branches \in SUBSET Branches
    /\ direct \in SUBSET buses
    /\ SystemOf(search)
    /\ pc = "called" /\ todo = {} /\ work = {} /\ visited = {} /\ visitedCount = 0
    /\ island = {} /\ islands = <<>> /\ answer = FALSE

-----------------------------------------------------------------------------
(* PowerSystem::isConnected                                                *)

FirstSlack == CHOOSE b \in slack : \A c \in slack : b <= c

\* No bus, or none of type Slack: the answer is FALSE.
NoSlack ==
    /\ search = "isConnected" /\ pc = "called" /\ slack = {}
    /\ pc' = "done"
    /\ UNCHANGED <<grid, direct, todo, work, visited, visitedCount, island,
                   islands, answer>>

\* Mutation: the slack bus is queued but not counted.
StartAtSlackUncounted ==
    /\ search = "isConnected" /\ pc = "called" /\ slack # {}
    /\ work' = {FirstSlack} /\ visited' = {FirstSlack} /\ visitedCount' = 0
    /\ pc' = "walk"
    /\ UNCHANGED <<grid, direct, todo, island, islands, answer>>

StartAtSlack ==
    /\ search = "isConnected" /\ pc = "called" /\ slack # {}
    /\ work' = {FirstSlack} /\ visited' = {FirstSlack} /\ visitedCount' = 1
    /\ pc' = "walk"
    /\ UNCHANGED <<grid, direct, todo, island, islands, answer>>

\* Mutation: the neighbours are marked when they are taken from the queue.
VisitNeighboursLate ==
    /\ search = "isConnected" /\ pc = "walk"
    /\ \E b \in work :
         LET found == Adjacent(b) \ visited
         IN  /\ work' = (work \ {b}) \cup found
             /\ visited' = visited \cup {b}
             /\ visitedCount' = visitedCount + Cardinality(found)
    /\ UNCHANGED <<grid, direct, pc, todo, island, islands, answer>>

\* One bus from the queue: its neighbours are marked as they are queued.
VisitNeighbours ==
    /\ search = "isConnected" /\ pc = "walk"
    /\ \E b \in work :
         LET found == Adjacent(b) \ visited
         IN  /\ work' = (work \ {b}) \cup found
             /\ visited' = visited \cup found
             /\ visitedCount' = visitedCount + Cardinality(found)
    /\ UNCHANGED <<grid, direct, pc, todo, island, islands, answer>>

CompareCounts ==
    /\ search = "isConnected" /\ pc = "walk" /\ work = {}
    /\ answer' = (visitedCount = Cardinality(buses))
    /\ pc' = "done"
    /\ UNCHANGED <<grid, direct, todo, work, visited, visitedCount, island, islands>>

-----------------------------------------------------------------------------
(* PostImportValidator::findIslands                                        *)

StartIslands ==
    /\ search = "findIslands" /\ pc = "called"
    /\ todo' = buses /\ pc' = "next"
    /\ UNCHANGED <<grid, direct, work, visited, visitedCount, island, islands, answer>>

\* The next bus of the list starts an island unless it is in one.
StartIsland ==
    /\ search = "findIslands" /\ pc = "next"
    /\ \E b \in todo :
         /\ todo' = todo \ {b}
         /\ IF b \in visited THEN UNCHANGED <<work, pc>>
                             ELSE work' = {b} /\ pc' = "walk"
    /\ UNCHANGED <<grid, direct, visited, visitedCount, island, islands, answer>>

\* Mutation: visited is not brought up to date at the end of an island.
EndIslandUnmarked ==
    /\ search = "findIslands" /\ pc = "walk" /\ work = {}
    /\ islands' = Append(islands, island)
    /\ island' = {} /\ pc' = "next"
    /\ UNCHANGED <<grid, direct, todo, work, visited, visitedCount, answer>>

\* One bus from the stack of dfsConnectivity, marked as it is taken.
CollectBus ==
    /\ search = "findIslands" /\ pc = "walk"
    /\ \E b \in work :
         /\ island' = island \cup {b}
         /\ work' = (work \ {b}) \cup (Linked(b) \ island')
    /\ UNCHANGED <<grid, direct, pc, todo, visited, visitedCount, islands, answer>>

EndIsland ==
    /\ search = "findIslands" /\ pc = "walk" /\ work = {}
    /\ islands' = Append(islands, island)
    /\ visited' = visited \cup island
    /\ island' = {} /\ pc' = "next"
    /\ UNCHANGED <<grid, direct, todo, work, visitedCount, answer>>

\* validateConnectivity warns of more islands than one.
ReportIslands ==
    /\ search = "findIslands" /\ pc = "next" /\ todo = {}
    /\ answer' = (Len(islands) > 1)
    /\ pc' = "done"
    /\ UNCHANGED <<grid, direct, todo, work, visited, visitedCount, island, islands>>

-----------------------------------------------------------------------------
(* StateEstimatorWLS::findUnobservableIslands and addPseudoMeasurements    *)

StartUnobservable ==
    /\ search = "findUnobservableIslands" /\ pc = "called"
    /\ todo' = Places /\ pc' = "next"
    /\ UNCHANGED <<grid, direct, work, visited, visitedCount, island, islands, answer>>

StartUnobservableIsland ==
    /\ search = "findUnobservableIslands" /\ pc = "next"
    /\ \E b \in todo :
         /\ todo' = todo \ {b}
         /\ IF b \in visited \cup HasDirectMeas
            THEN UNCHANGED <<work, visited, pc>>
            ELSE work' = {b} /\ visited' = visited \cup {b} /\ pc' = "walk"
    /\ UNCHANGED <<grid, direct, visitedCount, island, islands, answer>>

CollectUnobservable ==
    /\ search = "findUnobservableIslands" /\ pc = "walk"
    /\ \E b \in work :
         LET found == Unmeasured(b) \ visited
         IN  /\ island' = island \cup {b}
             /\ work' = (work \ {b}) \cup found
             /\ visited' = visited \cup found
    /\ UNCHANGED <<grid, direct, pc, todo, visitedCount, islands, answer>>

EndUnobservableIsland ==
    /\ search = "findUnobservableIslands" /\ pc = "walk" /\ work = {}
    /\ islands' = Append(islands, island)
    /\ island' = {} /\ pc' = "next"
    /\ UNCHANGED <<grid, direct, todo, work, visited, visitedCount, answer>>

InIslands == {b \in Places : \E i \in 1 .. Len(islands) : b \in islands[i]}

\* Each bus of an unobservable island gets a voltage and an angle of its own.
AddPseudoMeasurements ==
    /\ search = "findUnobservableIslands" /\ pc = "next" /\ todo = {}
    /\ direct' = direct \cup InIslands
    /\ pc' = "done"
    /\ UNCHANGED <<grid, todo, work, visited, visitedCount, island, islands, answer>>

-----------------------------------------------------------------------------
IsConnected == NoSlack \/ StartAtSlack \/ VisitNeighbours \/ CompareCounts
FindIslands == StartIslands \/ StartIsland \/ CollectBus \/ EndIsland \/ ReportIslands
FindUnobservableIslands ==
    \/ StartUnobservable \/ StartUnobservableIsland \/ CollectUnobservable
    \/ EndUnobservableIsland \/ AddPseudoMeasurements

Next == IsConnected \/ FindIslands \/ FindUnobservableIslands

Spec == Init /\ [][Next]_vars

-----------------------------------------------------------------------------
(* What the searches should find, without a word about how.                *)

\* The pairs of buses a set of branches joins.
JoinedBy(bs) ==
    {p \in Ids \X Ids : \E br \in bs : {p[1], p[2]} \subseteq br.ends}

\* b is reached from a when every set of buses that has a and, with a bus, all
\* that it is joined to, has b.
Closed(S, joined) == \A p \in joined : p[1] \in S => p[2] \in S
Reached(joined, a, b) == \A S \in SUBSET Ids : a \in S /\ Closed(S, joined) => b \in S

\* islands lists the sets of buses of B that are joined to each other, each
\* set once.
Partition(joined, B) ==
    /\ \A b \in B : \E i \in 1 .. Len(islands) : b \in islands[i]
    /\ \A i \in 1 .. Len(islands) :
         /\ \E b \in B : b \in islands[i]
         /\ \A a \in islands[i] : islands[i] = {b \in Ids : Reached(joined, a, b)}
    /\ \A i, j \in 1 .. Len(islands) : i # j => islands[i] \cap islands[j] = {}

TypeOK ==
    /\ search \in Searches /\ SystemOf(search)
    /\ buses \subseteq Ids /\ slack \subseteq buses
    /\ branches \subseteq Branches /\ direct \subseteq Places
    /\ pc \in {"called", "walk", "next", "done"}
    /\ todo \subseteq Places /\ work \subseteq Ids /\ visited \subseteq Ids
    /\ visitedCount = IF search = "isConnected" THEN Cardinality(visited) ELSE 0
    /\ island \subseteq Ids /\ islands \in Seq(SUBSET Ids)
    /\ answer \in BOOLEAN

\* When no number is missing, isConnected says TRUE exactly of a system that
\* has a slack bus and whose buses are all joined by branches in service.
ConnectedExact ==
    search = "isConnected" /\ pc = "done" /\ buses = Places =>
        (answer <=>
            /\ slack # {}
            /\ \A a, b \in buses :
                 Reached(JoinedBy({br \in InService : br.ends \subseteq buses}), a, b))

\* findIslands finds the islands, each once, though it looks again at every
\* bus an earlier island took in; a number no bus has belongs to the island of
\* the branches that name it.
IslandsExact ==
    search = "findIslands" /\ pc = "done" => Partition(JoinedBy(InService), buses)

\* findUnobservableIslands finds the sets of buses without a measurement of
\* their own that are joined past no measured bus; once the pseudo
\* measurements are added no bus is without one.  Only the four types of
\* state_estimator_wls.cpp:1015-1018 are measurements of a bus's own: a bus seen
\* by a PMU or through flows alone is in an island, and gets pseudo measurements.
UnobservableExact ==
    search = "findUnobservableIslands" =>
        LET open == Places \ HasDirectMeas
        IN  /\ pc = "next" /\ todo = {} =>
                 Partition({p \in JoinedBy(branches) : {p[1], p[2]} \subseteq open}, open)
            /\ pc = "done" => open = {}

\* power_system.h:119 has isConnected check that all buses are reachable from
\* the slack bus; the code compares two counts, and a place no bus was added
\* for makes up for a bus that is not reached.
ConnectedMeansReachable ==
    search = "isConnected" /\ pc = "done" /\ answer =>
        \A b \in buses : Reached(JoinedBy(InService), FirstSlack, b)

=============================================================================
