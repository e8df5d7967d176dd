--------------------------- MODULE MCGuideSearch ----------------------------
(***************************************************************************)
(* GuideSearch on the map of the repository, src/data.txt (nodes 0 to 11), *)
(* and beside it, with no edge between them, a small map where some ways   *)
(* lead away from their end:                                               *)
(*                                                                         *)
(*        15 -- 16 -- 17                                                   *)
(*        |          /                                                     *)
(*        14 -- 12  13     12 and 13 are joined through the others only    *)
(*                                                                         *)
(* findPath skips edges that lead away from the end, so it finds no path   *)
(* from 12 to 13.  Requests name the position of each node, cut to int as  *)
(* a client sends it, so every pair of nodes is searched, after every      *)
(* other: paths found, found after a longer one, and not found.            *)
(***************************************************************************)
EXTENDS GuideSearch

E(id, a, b, w) == [edgeid |-> id, front |-> a, last |-> b, weight |-> w]

RepositoryNodes == 0 .. 11

MCNodeNum == 18

MCEdgeLines == <<
    E(0, 0, 1, 1825500), E(1, 1, 0, 1825500),
    E(2, 1, 2, 332600), E(3, 2, 1, 332600),
    E(4, 2, 3, 1821100), E(5, 3, 2, 1821100),
    E(6, 3, 4, 1051300), E(7, 4, 3, 1051300),
    E(8, 5, 1, 1891785), E(9, 1, 5, 1891785),
    E(10, 1, 6, 951825), E(11, 6, 1, 951825),
    E(12, 5, 6, 1166499), E(13, 6, 5, 1166499),
    E(14, 0, 5, 1126357), E(15, 5, 0, 1126357),
    E(16, 0, 6, 1665096), E(17, 6, 0, 1665096),
    E(18, 2, 7, 595453), E(19, 7, 2, 595453),
    E(20, 2, 8, 1783122), E(21, 8, 2, 1783122),
    E(22, 3, 7, 1490672), E(23, 7, 3, 1490672),
    E(24, 7, 8, 1181059), E(25, 8, 7, 1181059),
    E(26, 3, 8, 1426865), E(27, 8, 3, 1426885),
    E(28, 4, 9, 1200100), E(29, 9, 4, 1200100),
    E(30, 9, 10, 1102100), E(31, 10, 9, 1102100),
    E(32, 10, 11, 210000), E(33, 11, 10, 210000),
    E(34, 12, 14, 100000), E(35, 14, 12, 100000),
    E(36, 14, 15, 100000), E(37, 15, 14, 100000),
    E(38, 15, 16, 100000), E(39, 16, 15, 100000),
    E(40, 16, 17, 100000), E(41, 17, 16, 100000),
    E(42, 17, 13, 120000), E(43, 13, 17, 120000),
    E(44, 15, 17, 250000), E(45, 17, 15, 250000)>>

P(a, b) == [x |-> a, y |-> b]

MCPositions == <<
    P(449308, 1687610), P(449308, 1870160), P(449308, 1903420),
    P(449308, 2085530), P(449308, 2190660), P(340208, 1715600),
    P(363008, 1830010), P(405000, 1943200), P(320001, 2025200),
    P(449308, 2310670), P(449308, 2420880), P(521308, 2441880),
    P(10000, 0), P(16000, 0), P(0, 0), P(0, 10000), P(10000, 10000), P(20000, 10000)>>

MCPosition == [n \in 0 .. MCNodeNum - 1 |-> MCPositions[n + 1]]

MCPlaces ==
    {P(MCPosition[n].x \div 1000, MCPosition[n].y \div 1000) : n \in 0 .. MCNodeNum - 1}

\* Both maps are small enough for the limit of 65535.
ASSUME SmallAssumption == MapIsSmall(2000000)

\* The reference: lengths of shortest paths through nodes below k (Floyd and
\* Warshall); Far for none.
Far == 1000000000

\* TLC computes a function joined to the empty one as a table, once.
Table(fn) == fn @@ <<>>

Direct ==
    Table([a, b \in Nodes |->
        IF a = b THEN 0 ELSE IF Linked(a, b) THEN edgeweight(matrix[a][b]) ELSE Far])

Through(s, k) == Table([a, b \in Nodes |-> Min({s[a, b], s[a, k] + s[k, b]})])

Shortest == FoldLeft(Through, Direct, [k \in 1 .. NodeNum |-> k - 1])

\* On the map of the repository the path found is a shortest one, though the
\* estimates are cut to int, closed nodes are never opened again and edges that
\* lead away from the end are skipped.
PathIsShortest ==
    pc = "finishGuide" /\ {startPoint, endPoint} \subseteq RepositoryNodes =>
        path # <<>> /\ PathLength(path) = Shortest[startPoint, endPoint]
=============================================================================
