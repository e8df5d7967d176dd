---------------------------- MODULE GuideSearch -----------------------------
(***************************************************************************)
(* The search of class Guide (main/Guide.cpp): guide() takes the two       *)
(* places of a request to their nearest nodes and searchpath looks for a   *)
(* path between these with A-star over the map loadMap reads.              *)
(*                                                                         *)
(* The code computes with doubles and cuts some of them to int.  Here a    *)
(* position is in thousandths and a weight in ten-thousandths of the unit  *)
(* of the map file, which holds no finer digit, and the cuts are divisions.*)
(* A starnode is named by its node: v_open and v_close together never hold *)
(* two of the same node (NodesOnce).  Its h and f, and the maps dist and   *)
(* parent of the class, are written and never read, and left out.          *)
(***************************************************************************)
EXTENDS Integers, SequencesExt

CONSTANTS
    NodeNum,   \* g.node_num
    EdgeLines, \* the edges of the map file: edgeid, front, last, weight
    Position,  \* Position[n]: x and y of node n
    Places     \* the places requests name: records of x and y, in map units

\* The map file: the numbers of its edges are those of elements of newedge, and no
\* line joins a node to itself, which would make findPath put the node it expands
\* into the open list once more.
ASSUME MapAssumption ==
    /\ NodeNum \in Nat \ {0}
    /\ EdgeLines \in Seq([edgeid : Nat, front : Nat, last : Nat, weight : Nat])
    /\ \A k \in DOMAIN EdgeLines :
         /\ EdgeLines[k].edgeid < Len(EdgeLines)
         /\ EdgeLines[k].front # EdgeLines[k].last
    /\ Position \in [0 .. NodeNum - 1 -> [x : Nat, y : Nat]]
    /\ Places \subseteq [x : Int, y : Int]

VARIABLES
    pc,          \* "startGuide", "select", "expand", "path" or "finishGuide"
    startPoint,  \* startPoint_index
    endPoint,    \* endPoint_index
    v_open,      \* the nodes in the open list
    v_close,     \* the nodes in the closed list
    g,           \* g of each starnode
    parent,      \* the parent of each starnode, or None
    Node,        \* the starnode findPath works on, or None
    next,        \* the loop variable i of findPath
    path         \* the result

vars == <<pc, startPoint, endPoint, v_open, v_close, g, parent, Node, next, path>>

Nodes == 0 .. NodeNum - 1
None == -1
INFI_MAX == 65535
PosUnit == 1000
WeightUnit == 10000

\* loadMap: a later line for the same two nodes overwrites an earlier one.
LinesFor(a, b) ==
    {k \in DOMAIN EdgeLines : EdgeLines[k].front = a /\ EdgeLines[k].last = b}

matrix == [a \in Nodes |-> [b \in Nodes |->
    IF LinesFor(a, b) = {} THEN -1 ELSE EdgeLines[Max(LinesFor(a, b))].edgeid]]

\* newedge, read at the number matrix holds.
edgeweight(id) == EdgeLines[id + 1].weight

Linked(a, b) == matrix[a][b] >= 0 /\ matrix[a][b] < INFI_MAX

\* The constructor of starnode cuts the coordinates to int.
starnode(n) == [x |-> Position[n].x \div PosUnit, y |-> Position[n].y \div PosUnit]

\* (int) sqrt(d)
IntSqrt(d) == CHOOSE r \in 0 .. INFI_MAX : r * r <= d /\ d < (r + 1) * (r + 1)

distanceFromA2B == [a \in Nodes |-> [b \in Nodes |->
    LET dx == starnode(a).x - starnode(b).x
        dy == starnode(a).y - starnode(b).y
    IN  IntSqrt(dx * dx + dy * dy)]]

\* check(A, B, C): seen from C, the directions to A and to B differ by at most
\* a right angle.  A has its exact position, B and C are starnodes.
check(a, b, c) ==
    LET A == Position[a]  B == starnode(b)  C == starnode(c)
    IN  (PosUnit * C.x - A.x) * (C.x - B.x) + (PosUnit * C.y - A.y) * (C.y - B.y) >= 0

\* The square of i, as millions and what is over: TLC's integers are too small for
\* it in one.
Square(i) ==
    LET a == IF i < 0 THEN -i ELSE i
        q == a \div PosUnit
        r == a % PosUnit
        t == 2 * q * r
    IN  [high |-> q * q + t \div PosUnit, low |-> PosUnit * (t % PosUnit) + r * r]

\* The square of the distance between a place and a node, in the same way.
distanceSquared(place, n) ==
    LET dx == Square(PosUnit * place.x - Position[n].x)
        dy == Square(PosUnit * place.y - Position[n].y)
        low == dx.low + dy.low
    IN  [high |-> dx.high + dy.high + low \div (PosUnit * PosUnit),
         low |-> low % (PosUnit * PosUnit)]

Less(d, e) == d.high < e.high \/ (d.high = e.high /\ d.low < e.low)

\* getIndexStart: the nearest node, the first of several.
getIndexStart(place) ==
    CHOOSE n \in Nodes :
        /\ \A m \in Nodes : ~Less(distanceSquared(place, m), distanceSquared(place, n))
        /\ \A m \in 0 .. n - 1 : Less(distanceSquared(place, n), distanceSquared(place, m))

TypeOK ==
    /\ pc \in {"startGuide", "select", "expand", "path", "finishGuide"}
    /\ startPoint \in Nodes /\ endPoint \in Nodes
    /\ v_open \in Seq(Nodes) /\ v_close \in Seq(Nodes)
    /\ g \in [Nodes -> Nat]
    /\ parent \in [Nodes -> Nodes \cup {None}]
    /\ Node \in Nodes \cup {None}
    /\ next \in 0 .. NodeNum
    /\ path \in Seq(Nodes)

Init ==
    /\ pc = "startGuide"
    /\ startPoint = 0 /\ endPoint = 0
    /\ v_open = <<>> /\ v_close = <<>>
    /\ g = [n \in Nodes |-> 0]
    /\ parent = [n \in Nodes |-> None]
    /\ Node = None /\ next = 0 /\ path = <<>>
-----------------------------------------------------------------------------
\* guide(): the nearest nodes.  searchpath: deleteVec empties both lists, the
\* start node becomes the open list.
searchpath(sour, dest) ==
    /\ pc \in {"startGuide", "finishGuide"}
    /\ pc' = "select"
    /\ startPoint' = getIndexStart(sour)
    /\ endPoint' = getIndexStart(dest)
    /\ v_open' = <<startPoint'>>
    /\ v_close' = <<>>
    /\ g' = [n \in Nodes |-> 0]
    /\ parent' = [n \in Nodes |-> None]
    /\ Node' = None /\ next' = 0 /\ path' = <<>>

\* A variant with one slip: the length of the way so far left out.
fAheadOnly(n) == distanceFromA2B[n][endPoint]

\* A variant with one slip: no square root in the distance.
fSquared(n) == distanceFromA2B[n][endPoint] * distanceFromA2B[n][endPoint]
               + g[n] \div WeightUnit

\* The estimate by which findMinNode2EndInOpen compares.
f(n) == distanceFromA2B[n][endPoint] + g[n] \div WeightUnit

\* The first node of the open list with the least f below 65535.
IsMinInOpen(n) ==
    \E k \in DOMAIN v_open :
        /\ n = v_open[k]
        /\ f(n) < INFI_MAX
        /\ \A j \in DOMAIN v_open : f(n) <= f(v_open[j])
        /\ \A j \in 1 .. k - 1 : f(n) < f(v_open[j])

\* result is null until a node below the limit is seen, and the loop reads
\* result->nodeid in every round.
SelectsNull == v_open # <<>> /\ f(v_open[1]) >= INFI_MAX

\* findPath: the next node leaves the open list; at the end point it breaks.
findMinNode2EndInOpen ==
    /\ pc = "select"
    /\ v_open # <<>>
    /\ ~SelectsNull
    /\ \E n \in ToSet(v_open) :
         /\ IsMinInOpen(n)
         /\ v_open' = RemoveFirst(v_open, n)
         /\ Node' = n
         /\ pc' = IF n = endPoint THEN "path" ELSE "expand"
    /\ next' = 0
    /\ UNCHANGED <<startPoint, endPoint, v_close, g, parent, path>>

\* findPath: the open list is empty, the result stays empty.
NotFound ==
    /\ pc = "select"
    /\ v_open = <<>>
    /\ pc' = "finishGuide"
    /\ UNCHANGED <<startPoint, endPoint, v_open, v_close, g, parent, Node, next, path>>

\* A variant with one slip: checkPath adds a node that is in the open list.
checkPathAdds(cur) ==
    IF cur \in ToSet(v_close)
    THEN UNCHANGED <<v_open, g, parent>>
    ELSE LET newg == g[Node] + edgeweight(matrix[Node][cur])
         IN  /\ g' = [g EXCEPT ![cur] = newg]
             /\ parent' = [parent EXCEPT ![cur] = Node]
             /\ v_open' = Append(v_open, cur)

\* A variant with one slip: a better way updates g and not the parent.
checkPathKeepsParent(cur) ==
    LET newg == g[Node] + edgeweight(matrix[Node][cur])
    IN  IF cur \in ToSet(v_close) \/ (cur \in ToSet(v_open) /\ newg >= g[cur])
        THEN UNCHANGED <<v_open, g, parent>>
        ELSE IF cur \in ToSet(v_open)
        THEN g' = [g EXCEPT ![cur] = newg] /\ UNCHANGED <<v_open, parent>>
        ELSE /\ g' = [g EXCEPT ![cur] = newg]
             /\ parent' = [parent EXCEPT ![cur] = Node]
             /\ v_open' = Append(v_open, cur)

\* checkPath: nothing for a closed node; an open one gets a better g and parent
\* if this way is shorter; a new one enters the open list.
checkPath(cur) ==
    LET newg == g[Node] + edgeweight(matrix[Node][cur])
    IN  IF cur \in ToSet(v_close) \/ (cur \in ToSet(v_open) /\ newg >= g[cur])
        THEN UNCHANGED <<v_open, g, parent>>
        ELSE /\ g' = [g EXCEPT ![cur] = newg]
             /\ parent' = [parent EXCEPT ![cur] = Node]
             /\ v_open' = IF cur \in ToSet(v_open) THEN v_open ELSE Append(v_open, cur)

\* findPath: the loop over all nodes i.
Expand ==
    /\ pc = "expand"
    /\ next < NodeNum
    /\ IF Linked(Node, next) /\ check(next, endPoint, Node)
       THEN checkPath(next)
       ELSE UNCHANGED <<v_open, g, parent>>
    /\ next' = next + 1
    /\ UNCHANGED <<pc, startPoint, endPoint, v_close, Node, path>>

\* A variant with one slip: the node pushed back on the open list.
CloseIntoOpen ==
    /\ pc = "expand"
    /\ next = NodeNum
    /\ v_open' = Append(v_open, Node)
    /\ pc' = "select"
    /\ UNCHANGED <<startPoint, endPoint, v_close, g, parent, Node, next, path>>

\* findPath: after the loop the node is closed.
Close ==
    /\ pc = "expand"
    /\ next = NodeNum
    /\ v_close' = Append(v_close, Node)
    /\ pc' = "select"
    /\ UNCHANGED <<startPoint, endPoint, v_open, g, parent, Node, next, path>>

\* Variants with one slip: the parent pushed for the node; push_back.
PushFrontParent ==
    /\ pc = "path"
    /\ Node # None
    /\ path' = <<parent[Node]>> \o path
    /\ Node' = parent[Node]
    /\ UNCHANGED <<pc, startPoint, endPoint, v_open, v_close, g, parent, next>>

PushBack ==
    /\ pc = "path"
    /\ Node # None
    /\ path' = Append(path, Node)
    /\ Node' = parent[Node]
    /\ UNCHANGED <<pc, startPoint, endPoint, v_open, v_close, g, parent, next>>

\* findPath: the parents of the end node, pushed in front one by one.
PushFront ==
    /\ pc = "path"
    /\ Node # None
    /\ path' = <<Node>> \o path
    /\ Node' = parent[Node]
    /\ UNCHANGED <<pc, startPoint, endPoint, v_open, v_close, g, parent, next>>

PathDone ==
    /\ pc = "path"
    /\ Node = None
    /\ pc' = "finishGuide"
    /\ UNCHANGED <<startPoint, endPoint, v_open, v_close, g, parent, Node, next, path>>

Search ==
    \/ findMinNode2EndInOpen
    \/ NotFound
    \/ Expand
    \/ Close
    \/ PushFront
    \/ PathDone

Next == (\E sour, dest \in Places : searchpath(sour, dest)) \/ Search

\* The Guide thread is scheduled while it searches.
Spec == Init /\ [][Next]_vars /\ WF_vars(Search)
-----------------------------------------------------------------------------
\* isInOpenVec and isInCloseVec return the first node they find: there is never
\* a second, within a list or across the two, nor is the node being expanded in
\* either.
NodesOnce ==
    /\ \A i, j \in DOMAIN v_open : i # j => v_open[i] # v_open[j]
    /\ \A i, j \in DOMAIN v_close : i # j => v_close[i] # v_close[j]
    /\ ToSet(v_open) \cap ToSet(v_close) = {}
    /\ pc = "expand" => Node \notin ToSet(v_open) \cup ToSet(v_close)

Settled == ToSet(v_close) \cup (IF pc = "expand" THEN {Node} ELSE {})

\* Every node met but the start was reached over an edge of the map from a node
\* that is settled, and its g is the length of that way.
ParentsAreSettled ==
    pc \in {"select", "expand"} =>
        \A n \in ToSet(v_open) \cup Settled :
            IF n = startPoint THEN parent[n] = None /\ g[n] = 0
            ELSE /\ parent[n] \in Settled
                 /\ Linked(parent[n], n)
                 /\ g[n] = g[parent[n]] + edgeweight(matrix[parent[n]][n])

\* No estimate can reach the limit on a map whose edges weigh at most w: not even
\* that of a way through every node.
MapIsSmall(w) ==
    /\ w \in Nat
    /\ \A k \in DOMAIN EdgeLines : EdgeLines[k].weight <= w
    /\ \A a, b \in Nodes :
         /\ distanceFromA2B[a][b] \in Nat
         /\ distanceFromA2B[a][b] + (NodeNum * w) \div WeightUnit < INFI_MAX

\* findMinNode2EndInOpen never meets the node it would dereference as null.
NeverSelectsNull == pc = "select" => ~SelectsNull

PathLength(p) ==
    FoldSet(LAMBDA k, sum : sum + edgeweight(matrix[p[k]][p[k + 1]]), 0, 1 .. Len(p) - 1)

\* A path handed to finishGuide leads from the start to the end over edges; an
\* empty one stands for none found.
PathIsWalk ==
    pc = "finishGuide" /\ path # <<>> =>
        /\ path[1] = startPoint /\ path[Len(path)] = endPoint
        /\ \A k \in 1 .. Len(path) - 1 : Linked(path[k], path[k + 1])

\* Every search ends.
SearchEnds == pc = "select" ~> pc = "finishGuide"
=============================================================================
