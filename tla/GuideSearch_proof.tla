------------------------- MODULE GuideSearch_proof --------------------------
(***************************************************************************)
(* Proofs about GuideSearch, for every map and every request.              *)
(***************************************************************************)
EXTENDS GuideSearch, FiniteSetTheorems, SequenceTheorems, TLAPS

Numbers == INSTANCE Naturals_proof WITH P <- LAMBDA n : TRUE

-----------------------------------------------------------------------------
(* The map.                                                                *)

\* A number from quotient and remainder, squared.
LEMMA SquareOfSum ==
    ASSUME NEW q \in Int, NEW u \in Int, NEW r \in Int
    PROVE  (q * u + r) * (q * u + r) = (q * q) * (u * u) + (2 * q * r) * u + r * r
  OBVIOUS

\* The unit squared: high parts are counted in it.
Million == PosUnit * PosUnit

LEMMA Units == PosUnit \in Nat /\ PosUnit > 0 /\ Million \in Nat /\ Million > 0
  BY DEF PosUnit, Million

\* Two parts put together.
Whole(d) == d.high * Million + d.low

\* Square computes the square, though in two parts.
LEMMA SquareIsExact ==
    ASSUME NEW i \in Int
    PROVE  Square(i).high \in Nat /\ Square(i).low \in Nat /\ Whole(Square(i)) = i * i
<1> DEFINE a == IF i < 0 THEN -i ELSE i
           u == PosUnit
           q == a \div u
           r == a % u
           t == 2 * q * r
           c == t \div u
           e == t % u
<1>1. a \in Nat /\ a * a = i * i
  <2>1. CASE i < 0
    BY <2>1
  <2>2. CASE ~(i < 0)
    BY <2>2
  <2> QED BY <2>1, <2>2
<1>2. Square(i).high = q * q + c /\ Square(i).low = u * e + r * r
  BY DEF Square
<1> HIDE DEF a
<1>3. u \in Nat /\ u > 0 /\ Million = u * u
  BY Units DEF Million
<1> HIDE DEF u
<1>4. q \in Nat /\ r \in Nat /\ a = q * u + r
  BY <1>1, <1>3, Numbers!Division
<1> HIDE DEF q, r
<1>5. i * i = (q * q) * (u * u) + t * u + r * r
  BY <1>1, <1>3, <1>4, SquareOfSum
<1>6. q * q \in Nat /\ r * r \in Nat /\ q * r \in Nat /\ 2 * q * r = 2 * (q * r)
  BY <1>4
<1>7. t \in Nat
  BY <1>6
<1> HIDE DEF t
<1>8. c \in Nat /\ e \in Nat /\ t = c * u + e
  BY <1>3, <1>7, Numbers!Division
<1> HIDE DEF c, e
<1>9. t * u = c * (u * u) + u * e
  BY <1>3, <1>8
<1>10. u * e \in Nat
  BY <1>3, <1>8
<1>11. (q * q + c) * Million = (q * q) * (u * u) + c * (u * u)
  BY <1>3, <1>6, <1>8
<1>12. (q * q + c) * Million + (u * e + r * r) = i * i
  <2> DEFINE x == (q * q) * (u * u)
             y == c * (u * u)
  <2>1. x \in Int /\ y \in Int
    BY <1>3, <1>6, <1>8
  <2> HIDE DEF x, y
  <2>2. i * i = x + (y + u * e) + r * r /\ (q * q + c) * Million = x + y
    BY <1>5, <1>9, <1>11 DEF x, y
  <2> QED BY <1>6, <1>10, <2>1, <2>2
<1> QED BY <1>2, <1>6, <1>8, <1>10, <1>12 DEF Whole

\* The square of the distance that getIndexStart compares.
SquareSum(place, n) ==
    LET dx == PosUnit * place.x - Position[n].x
        dy == PosUnit * place.y - Position[n].y
    IN  dx * dx + dy * dy

\* distanceSquared is that square, though in two parts.
LEMMA DistanceIsExact ==
    ASSUME NEW place \in Places, NEW n \in Nodes
    PROVE  LET d == distanceSquared(place, n)
           IN  /\ d.high \in Nat /\ d.low \in 0 .. Million - 1
               /\ SquareSum(place, n) = Whole(d)
<1> DEFINE dx == PosUnit * place.x - Position[n].x
           dy == PosUnit * place.y - Position[n].y
           X == Square(dx)
           Y == Square(dy)
           low == X.low + Y.low
           c == low \div Million
           e == low % Million
<1>1. place.x \in Int /\ place.y \in Int /\ Position[n].x \in Nat /\ Position[n].y \in Nat
  BY MapAssumption DEF Nodes
<1>2. dx \in Int /\ dy \in Int
  BY <1>1, Units
<1>3. /\ distanceSquared(place, n).high = X.high + Y.high + c
      /\ distanceSquared(place, n).low = e
  BY DEF distanceSquared, Million
<1>4. SquareSum(place, n) = dx * dx + dy * dy
  BY DEF SquareSum
<1> HIDE DEF dx, dy
<1>5. /\ X.high \in Nat /\ X.low \in Nat /\ Y.high \in Nat /\ Y.low \in Nat
      /\ dx * dx = X.high * Million + X.low
      /\ dy * dy = Y.high * Million + Y.low
  BY <1>2, SquareIsExact DEF Whole
<1> HIDE DEF X, Y
<1>6. low \in Nat
  BY <1>5
<1> HIDE DEF low
<1>7. c \in Nat /\ e \in 0 .. Million - 1 /\ low = c * Million + e
  BY <1>6, Units, Numbers!Division
<1> HIDE DEF c, e
<1>8. (X.high + Y.high + c) * Million = X.high * Million + Y.high * Million + c * Million
  BY <1>5, <1>7, Units
<1>9. X.high * Million \in Nat /\ Y.high * Million \in Nat /\ c * Million \in Nat
  BY <1>5, <1>7, Units
<1>10. X.low + Y.low = c * Million + e
  BY <1>7 DEF low
<1>11. (X.high + Y.high + c) * Million + e = dx * dx + dy * dy
  <2> DEFINE x == X.high * Million
             y == Y.high * Million
             z == c * Million
             w == (X.high + Y.high + c) * Million
  <2>1. /\ x \in Nat /\ y \in Nat /\ z \in Nat /\ w = x + y + z
        /\ dx * dx = x + X.low /\ dy * dy = y + Y.low /\ X.low + Y.low = z + e
    BY <1>5, <1>8, <1>9, <1>10
  <2>2. e \in Nat /\ X.low \in Nat /\ Y.low \in Nat
    BY <1>5, <1>7, Units
  <2> HIDE DEF x, y, z, w
  <2>3. w + e = (x + X.low) + (y + Y.low)
    BY <2>1, <2>2
  <2> QED BY <2>1, <2>3 DEF w
<1> QED BY <1>3, <1>4, <1>5, <1>7, <1>11 DEF Whole

\* Less compares the squares: the high parts decide unless they are the same.
LEMMA LessIsLess ==
    ASSUME NEW place \in Places, NEW m \in Nodes, NEW n \in Nodes
    PROVE  Less(distanceSquared(place, m), distanceSquared(place, n)) <=>
           SquareSum(place, m) < SquareSum(place, n)
<1> DEFINE d == distanceSquared(place, m)
           e == distanceSquared(place, n)
<1>1. /\ d.high \in Nat /\ d.low \in 0 .. Million - 1
      /\ e.high \in Nat /\ e.low \in 0 .. Million - 1
      /\ SquareSum(place, m) = Whole(d) /\ SquareSum(place, n) = Whole(e)
  BY DistanceIsExact
<1> HIDE DEF d, e
<1>2. ASSUME NEW a \in Nat, NEW b \in Nat, NEW k \in 0 .. Million - 1,
             NEW l \in 0 .. Million - 1, a < b
      PROVE  a * Million + k < b * Million + l
  <2>1. (a + 1) * Million <= b * Million
    BY <1>2, Units, Numbers!ProductGrows
  <2>2. (a + 1) * Million = a * Million + Million /\ a * Million \in Nat
    BY Units, Numbers!OneFrameMore
  <2>3. b * Million \in Nat
    BY Units
  <2> QED BY <2>1, <2>2, <2>3, Units
<1>3. CASE d.high < e.high
  <2>1. Less(d, e)
    BY <1>3 DEF Less
  <2>2. Whole(d) < Whole(e)
    BY <1>1, <1>2, <1>3 DEF Whole
  <2> QED BY <1>1, <2>1, <2>2 DEF d, e
<1>4. CASE e.high < d.high
  <2>1. Whole(e) < Whole(d)
    BY <1>1, <1>2, <1>4 DEF Whole
  <2>2. Whole(e) \in Int /\ Whole(d) \in Int
    BY <1>1, Units DEF Whole
  <2>3. ~Less(d, e)
    BY <1>1, <1>4 DEF Less
  <2> QED BY <1>1, <2>1, <2>2, <2>3 DEF d, e
<1>5. CASE d.high = e.high
  <2>1. d.high * Million \in Int
    BY <1>1, Units
  <2>2. Less(d, e) <=> d.low < e.low
    BY <1>1, <1>5 DEF Less
  <2>3. Whole(d) < Whole(e) <=> d.low < e.low
    BY <1>1, <1>5, <2>1, Units DEF Whole
  <2> QED BY <1>1, <2>2, <2>3 DEF d, e
<1> QED BY <1>1, <1>3, <1>4, <1>5 DEF d, e

\* getIndexStart finds a node for every place a request can name, and there is none
\* nearer to it and none before it as near.
LEMMA NearestNode ==
    ASSUME NEW place \in Places
    PROVE  LET n == getIndexStart(place)
           IN  /\ n \in Nodes
               /\ \A m \in Nodes : SquareSum(place, n) <= SquareSum(place, m)
               /\ \A m \in 0 .. n - 1 : SquareSum(place, n) < SquareSum(place, m)
<1> DEFINE t(n) == SquareSum(place, n)
           D == {t(n) : n \in Nodes}
           Nearest(n) ==
               /\ \A m \in Nodes :
                     ~Less(distanceSquared(place, m), distanceSquared(place, n))
               /\ \A m \in 0 .. n - 1 :
                     Less(distanceSquared(place, n), distanceSquared(place, m))
<1>1. ASSUME NEW n \in Nodes
      PROVE  t(n) \in Nat
  BY DistanceIsExact, Units DEF Whole
<1>2. \A n \in Nodes : Nearest(n) <=> /\ \A m \in Nodes : t(n) <= t(m)
                                      /\ \A m \in 0 .. n - 1 : t(n) < t(m)
  <2> SUFFICES ASSUME NEW n \in Nodes
               PROVE  Nearest(n) <=> /\ \A m \in Nodes : t(n) <= t(m)
                                     /\ \A m \in 0 .. n - 1 : t(n) < t(m)
    OBVIOUS
  <2>1. 0 .. n - 1 \subseteq Nodes
    BY MapAssumption DEF Nodes
  <2>2. \A m \in Nodes :
          /\ Less(distanceSquared(place, m), distanceSquared(place, n)) <=> t(m) < t(n)
          /\ Less(distanceSquared(place, n), distanceSquared(place, m)) <=> t(n) < t(m)
    BY LessIsLess
  <2> HIDE DEF t
  <2>3. \A m \in Nodes : ~(t(m) < t(n)) <=> t(n) <= t(m)
    BY <1>1
  <2> QED BY <2>1, <2>2, <2>3
<1> HIDE DEF t
<1>3. D \in SUBSET Nat /\ 0 \in Nodes
  BY <1>1, MapAssumption DEF Nodes
<1>4. PICK d \in D : \A e \in D : d <= e
  BY <1>3, Numbers!LeastElement
<1> DEFINE S == {n \in Nodes : t(n) = d}
<1>5. S \in SUBSET Nat /\ S # {}
  BY <1>4 DEF Nodes
<1>6. PICK n \in S : \A m \in S : n <= m
  BY <1>5, Numbers!LeastElement
<1>7. \A m \in Nodes : t(n) <= t(m)
  BY <1>4, <1>6
<1>8. ASSUME NEW m \in 0 .. n - 1
      PROVE  t(n) < t(m)
  <2>1. m \in Nodes /\ m < n
    BY <1>6, MapAssumption DEF Nodes
  <2>2. t(m) # d
    BY <1>6, <2>1 DEF Nodes
  <2> QED BY <1>1, <1>6, <1>7, <2>1, <2>2
<1>9. \E k \in Nodes : Nearest(k)
  BY <1>2, <1>6, <1>7, <1>8
<1>10. getIndexStart(place) \in Nodes /\ Nearest(getIndexStart(place))
  BY <1>9 DEF getIndexStart
<1> QED BY <1>2, <1>10 DEF t

\* The matrix holds -1 or the number of a line for two nodes, which differ.
LEMMA MatrixLine ==
    ASSUME NEW a \in Nodes, NEW b \in Nodes, matrix[a][b] # -1
    PROVE  /\ matrix[a][b] \in Nat
           /\ matrix[a][b] + 1 \in DOMAIN EdgeLines
           /\ a # b
<1> DEFINE L == LinesFor(a, b)
           k == Max(L)
<1>1. matrix[a][b] = IF L = {} THEN -1 ELSE EdgeLines[k].edgeid
  BY DEF matrix
<1>2. L # {}
  BY <1>1
<1>3. Len(EdgeLines) \in Nat /\ DOMAIN EdgeLines = 1 .. Len(EdgeLines)
  BY MapAssumption, LenProperties
<1>4. L \in SUBSET (0 .. Len(EdgeLines))
  BY <1>3 DEF LinesFor
<1>5. k \in L
  BY <1>2, <1>3, <1>4, Numbers!GreatestElement DEF Max
<1> HIDE DEF k
<1>6. k \in DOMAIN EdgeLines /\ EdgeLines[k].front = a /\ EdgeLines[k].last = b
  BY <1>5 DEF LinesFor
<1>7. /\ EdgeLines[k].edgeid \in Nat
      /\ EdgeLines[k].edgeid < Len(EdgeLines)
      /\ a # b
  <2>1. EdgeLines[k] \in [edgeid : Nat, front : Nat, last : Nat, weight : Nat]
    BY <1>3, <1>6, ElementOfSeq, MapAssumption
  <2>2. EdgeLines[k].edgeid < Len(EdgeLines) /\ EdgeLines[k].front # EdgeLines[k].last
    BY <1>6, MapAssumption
  <2> QED BY <1>6, <2>1, <2>2
<1>8. EdgeLines[k].edgeid + 1 \in 1 .. Len(EdgeLines)
  BY <1>3, <1>7
<1> QED BY <1>1, <1>2, <1>3, <1>7, <1>8

\* The matrix holds -1 or the number of an element of newedge, whose weight is
\* that of the edge.
LEMMA MatrixEntry ==
    ASSUME NEW a \in Nodes, NEW b \in Nodes, matrix[a][b] # -1
    PROVE  /\ matrix[a][b] \in Nat
           /\ edgeweight(matrix[a][b]) \in Nat
           /\ a # b
<1>1. /\ matrix[a][b] \in Nat /\ a # b
      /\ matrix[a][b] + 1 \in 1 .. Len(EdgeLines)
  BY MatrixLine, MapAssumption, LenProperties
<1>2. EdgeLines[matrix[a][b] + 1] \in [edgeid : Nat, front : Nat, last : Nat, weight : Nat]
  BY <1>1, ElementOfSeq, MapAssumption
<1> QED BY <1>1, <1>2 DEF edgeweight

-----------------------------------------------------------------------------
(* The two lists of starnodes and the path.                                *)

Distinct(s) == \A i, j \in DOMAIN s : i # j => s[i] # s[j]

\* push_back adds one element, and keeps a list without repetitions so.
LEMMA Appended ==
    ASSUME NEW S, NEW s \in Seq(S), NEW e \in S
    PROVE  /\ Append(s, e) \in Seq(S)
           /\ ToSet(Append(s, e)) = ToSet(s) \cup {e}
           /\ Distinct(s) /\ e \notin ToSet(s) => Distinct(Append(s, e))
<1> DEFINE t == Append(s, e)
           n == Len(s)
<1>1. n \in Nat /\ DOMAIN s = 1 .. n
  BY LenProperties
<1>2. /\ t \in Seq(S) /\ Len(t) = n + 1
      /\ \A i \in 1 .. n : t[i] = s[i]
      /\ t[n + 1] = e
  BY AppendProperties
<1>3. DOMAIN t = 1 .. n + 1
  BY <1>2, LenProperties
<1> HIDE DEF t, n
<1>4. ToSet(t) = ToSet(s) \cup {e}
  <2>1. ASSUME NEW x \in ToSet(t)
        PROVE  x \in ToSet(s) \cup {e}
    BY <1>1, <1>2, <1>3 DEF ToSet
  <2>2. ASSUME NEW x \in ToSet(s)
        PROVE  x \in ToSet(t)
    <3>1. PICK i \in 1 .. n : x = s[i]
      BY <1>1 DEF ToSet
    <3>2. i \in 1 .. n + 1 /\ t[i] = x
      BY <1>1, <1>2, <3>1
    <3> QED BY <1>3, <3>2 DEF ToSet
  <2>3. n + 1 \in DOMAIN t /\ t[n + 1] = e
    BY <1>1, <1>2, <1>3
  <2>4. e \in ToSet(t)
    BY <2>3 DEF ToSet
  <2> QED BY <2>1, <2>2, <2>4
<1>5. ASSUME Distinct(s), e \notin ToSet(s)
      PROVE  Distinct(t)
  <2> SUFFICES ASSUME NEW i \in 1 .. n + 1, NEW j \in 1 .. n + 1, i # j
               PROVE  t[i] # t[j]
    BY <1>3 DEF Distinct
  <2>1. \A k \in 1 .. n : s[k] # e
    BY <1>1, <1>5 DEF ToSet
  <2>2. CASE i = n + 1
    <3>1. j \in 1 .. n
      BY <1>1, <2>2
    <3> QED BY <1>2, <2>1, <2>2, <3>1
  <2>3. CASE j = n + 1
    <3>1. i \in 1 .. n
      BY <1>1, <2>3
    <3> QED BY <1>2, <2>1, <2>3, <3>1
  <2>4. CASE i # n + 1 /\ j # n + 1
    <3>1. i \in 1 .. n /\ j \in 1 .. n
      BY <1>1, <2>4
    <3> QED BY <1>1, <1>2, <1>5, <3>1 DEF Distinct
  <2> QED BY <2>2, <2>3, <2>4
<1> QED BY <1>2, <1>4, <1>5 DEF t

\* deleteInOpenVec takes the node out of a list without repetitions.
LEMMA Removed ==
    ASSUME NEW S, NEW s \in Seq(S), Distinct(s), NEW e \in ToSet(s)
    PROVE  /\ RemoveFirst(s, e) \in Seq(S)
           /\ ToSet(RemoveFirst(s, e)) = ToSet(s) \ {e}
           /\ Distinct(RemoveFirst(s, e))
<1> DEFINE n == Len(s)
<1>1. n \in Nat /\ DOMAIN s = 1 .. n
  BY LenProperties
<1>2. PICK k \in 1 .. n : s[k] = e
  BY <1>1 DEF ToSet
<1> DEFINE a == SubSeq(s, 1, k - 1)
           b == SubSeq(s, k + 1, n)
           t == a \o b
           Old(i) == IF i < k THEN i ELSE i + 1
<1>3. RemoveFirst(s, e) = t
  <2>1. {i \in 1 .. n : s[i] = e} = {k}
    BY <1>1, <1>2 DEF Distinct
  <2>2. Min({k}) = k
    BY DEF Min
  <2>3. SelectInSeq(s, LAMBDA v : v = e) = k
    BY <2>1, <2>2 DEF SelectInSeq
  <2> QED BY <1>2, <2>3 DEF RemoveFirst, RemoveAt
<1>4. a \in Seq(S) /\ Len(a) = k - 1 /\ \A i \in 1 .. k - 1 : a[i] = s[i]
  BY <1>1, <1>2, SubSeqProperties
<1>5. b \in Seq(S) /\ Len(b) = n - k /\ \A i \in 1 .. n - k : b[i] = s[i + k]
  <2>1. k + 1 \in Int /\ n \in Int /\ \A i \in k + 1 .. n : s[i] \in S
    BY <1>1, <1>2, ElementOfSeq
  <2>2. /\ b \in Seq(S)
        /\ Len(b) = IF k + 1 <= n THEN n - (k + 1) + 1 ELSE 0
        /\ \A i \in 1 .. n - (k + 1) + 1 : b[i] = s[(k + 1) + i - 1]
    BY <2>1, SubSeqProperties
  <2>3. \A i \in 1 .. n - k : i \in 1 .. n - (k + 1) + 1 /\ (k + 1) + i - 1 = i + k
    BY <1>1, <1>2
  <2> HIDE DEF b, n
  <2>4. Len(b) = n - k
    BY <1>1, <1>2, <2>2
  <2> QED BY <2>2, <2>3, <2>4
<1> HIDE DEF a, b
<1>6. /\ t \in Seq(S)
      /\ Len(t) = Len(a) + Len(b)
      /\ \A i \in 1 .. Len(a) + Len(b) : t[i] = IF i <= Len(a) THEN a[i] ELSE b[i - Len(a)]
  BY <1>4, <1>5, ConcatProperties
<1> HIDE DEF n, t
<1>7. Len(t) = n - 1
  BY <1>1, <1>2, <1>4, <1>5, <1>6
<1>8. DOMAIN t = 1 .. n - 1
  BY <1>6, <1>7, LenProperties
<1>9. ASSUME NEW i \in 1 .. n - 1
       PROVE  Old(i) \in 1 .. n /\ Old(i) # k /\ t[i] = s[Old(i)]
  <2>1. Old(i) \in 1 .. n /\ Old(i) # k
    BY <1>1, <1>2
  <2>2. CASE i < k
    <3>1. i \in 1 .. k - 1 /\ i <= Len(a) /\ Len(a) + Len(b) = n - 1 /\ Old(i) = i
      BY <1>1, <1>2, <1>4, <1>5, <2>2
    <3>2. t[i] = a[i] /\ a[i] = s[i]
      BY <1>4, <1>6, <3>1
    <3> QED BY <2>1, <3>1, <3>2
  <2>3. CASE ~(i < k)
    <3>1. i - (k - 1) \in 1 .. n - k
      BY <1>1, <1>2, <2>3
    <3>2. b[i - (k - 1)] = s[i + 1]
      BY <1>1, <1>2, <1>5, <3>1
    <3> QED BY <1>1, <1>2, <1>4, <1>5, <1>6, <2>3, <3>2
  <2> QED BY <2>1, <2>2, <2>3
<1>10. ASSUME NEW j \in 1 .. n, j # k
       PROVE  \E i \in 1 .. n - 1 : Old(i) = j
  <2>1. CASE j < k
    <3>1. j \in 1 .. n - 1 /\ Old(j) = j
      BY <1>1, <1>2, <2>1
    <3> QED BY <3>1
  <2>2. CASE j > k
    <3>1. j - 1 \in 1 .. n - 1 /\ Old(j - 1) = j
      BY <1>1, <1>2, <2>2
    <3> QED BY <3>1
  <2> QED BY <1>2, <1>10, <2>1, <2>2
<1>11. \A i, j \in 1 .. n - 1 : i # j => Old(i) # Old(j)
  BY <1>1, <1>2
<1> HIDE DEF Old
<1>12. ToSet(t) = ToSet(s) \ {e}
  <2>1. ASSUME NEW x \in ToSet(t)
        PROVE  x \in ToSet(s) /\ x # e
    <3>1. PICK i \in 1 .. n - 1 : x = t[i]
      BY <1>8 DEF ToSet
    <3> QED BY <1>1, <1>2, <1>9, <3>1 DEF ToSet, Distinct
  <2>2. ASSUME NEW x \in ToSet(s), x # e
        PROVE  x \in ToSet(t)
    <3>1. PICK j \in 1 .. n : x = s[j]
      BY <1>1 DEF ToSet
    <3>2. PICK i \in 1 .. n - 1 : Old(i) = j
      BY <1>2, <1>10, <2>2, <3>1
    <3> QED BY <1>8, <1>9, <3>1, <3>2 DEF ToSet
  <2> QED BY <2>1, <2>2
<1>13. Distinct(t)
  BY <1>1, <1>8, <1>9, <1>11 DEF Distinct
<1> QED BY <1>3, <1>6, <1>12, <1>13

\* push_front adds one element before the others.
LEMMA Prepended ==
    ASSUME NEW S, NEW s \in Seq(S), NEW e \in S
    PROVE  /\ <<e>> \o s \in Seq(S)
           /\ Len(<<e>> \o s) = Len(s) + 1
           /\ (<<e>> \o s)[1] = e
           /\ \A i \in 1 .. Len(s) : (<<e>> \o s)[i + 1] = s[i]
<1>1. <<e>> \in Seq(S) /\ Len(<<e>>) = 1 /\ <<e>>[1] = e
  OBVIOUS
<1>2. Len(s) \in Nat
  BY LenProperties
<1>3. /\ <<e>> \o s \in Seq(S)
      /\ Len(<<e>> \o s) = 1 + Len(s)
      /\ \A i \in 1 .. 1 + Len(s) :
           (<<e>> \o s)[i] = IF i <= 1 THEN <<e>>[i] ELSE s[i - 1]
  BY <1>1, ConcatProperties
<1>4. (<<e>> \o s)[1] = e
  BY <1>1, <1>2, <1>3
<1>5. ASSUME NEW i \in 1 .. Len(s)
      PROVE  (<<e>> \o s)[i + 1] = s[i]
  <2>1. i + 1 \in 1 .. 1 + Len(s) /\ ~(i + 1 <= 1) /\ i + 1 - 1 = i
    BY <1>2
  <2> QED BY <1>3, <2>1
<1> QED BY <1>2, <1>3, <1>4, <1>5

-----------------------------------------------------------------------------
(* The inductive invariant.                                                *)

\* While the search goes on, the node expanded is one, no path is built and the
\* start was met; so checkPath, which lets it alone, never gives it a parent.
StartIsMet ==
    /\ pc = "expand" => Node # None
    /\ pc \in {"select", "expand"} =>
         path = <<>> /\ startPoint \in ToSet(v_open) \cup Settled

\* The parent of a node on the way back is a closed node.
Chained(n) ==
    IF n = startPoint THEN parent[n] = None
    ELSE parent[n] \in ToSet(v_close) /\ Linked(parent[n], n)

\* While the parents are followed back, the path so far is a walk to the end and
\* Node is what comes before it.
WayBack ==
    pc = "path" =>
        /\ \A n \in ToSet(v_close) : Chained(n)
        /\ Node # None => Chained(Node)
        /\ path = <<>> => Node = endPoint
        /\ path # <<>> =>
             /\ path[Len(path)] = endPoint
             /\ \A k \in 1 .. Len(path) - 1 : Linked(path[k], path[k + 1])
             /\ Node = None => path[1] = startPoint
             /\ Node # None => Linked(Node, path[1])

SearchInv ==
    /\ TypeOK
    /\ NodesOnce
    /\ ParentsAreSettled
    /\ StartIsMet
    /\ WayBack
    /\ PathIsWalk

\* None is not a node, and the nodes are numbers.
LEMMA NodesAreNats == Nodes \subseteq Nat /\ None \notin Nodes /\ 0 \in Nodes
  BY MapAssumption DEF Nodes, None

\* A linked pair is two nodes, and the weight of its edge a number.
LEMMA LinkedNodes ==
    ASSUME NEW a \in Nodes, NEW b \in Nodes, Linked(a, b)
    PROVE  a # b /\ edgeweight(matrix[a][b]) \in Nat
<1>1. matrix[a][b] # -1
  BY DEF Linked
<1> QED BY <1>1, MatrixEntry

\* Empty lists repeat nothing and hold nothing.
LEMMA EmptyList == Distinct(<<>>) /\ ToSet(<<>>) = {} /\ \A S : <<>> \in Seq(S)
<1>1. DOMAIN <<>> = {}
  OBVIOUS
<1> QED BY <1>1, EmptySeq DEF Distinct, ToSet

\* A list of one node repeats nothing.
LEMMA SingleList ==
    ASSUME NEW S, NEW e \in S
    PROVE  <<e>> \in Seq(S) /\ Distinct(<<e>>) /\ ToSet(<<e>>) = {e}
<1>1. DOMAIN <<e>> = {1} /\ <<e>>[1] = e /\ <<e>> \in Seq(S)
  OBVIOUS
<1> QED BY <1>1 DEF Distinct, ToSet

\* Before the first request nothing is searched.
LEMMA InitSearch == Init => SearchInv
<1> SUFFICES ASSUME Init
             PROVE  SearchInv
  OBVIOUS
<1>1. TypeOK
  BY EmptyList, NodesAreNats, MapAssumption DEF Init, TypeOK
<1>2. NodesOnce
  BY EmptyList DEF Init, NodesOnce, Distinct
<1> QED BY <1>1, <1>2 DEF Init, SearchInv, ParentsAreSettled, StartIsMet, WayBack, PathIsWalk

\* A search starts with the node nearest to its start alone in the open list.
LEMMA SearchpathKeeps ==
    ASSUME SearchInv, NEW sour \in Places, NEW dest \in Places, searchpath(sour, dest)
    PROVE  SearchInv'
<1>1. startPoint' \in Nodes /\ endPoint' \in Nodes
  BY NearestNode DEF searchpath
<1>2. /\ pc' = "select" /\ v_open' = <<startPoint'>> /\ v_close' = <<>>
      /\ g' = [n \in Nodes |-> 0] /\ parent' = [n \in Nodes |-> None]
      /\ Node' = None /\ next' = 0 /\ path' = <<>>
  BY DEF searchpath
<1>3. /\ v_open' \in Seq(Nodes) /\ Distinct(v_open') /\ ToSet(v_open') = {startPoint'}
      /\ v_close' \in Seq(Nodes) /\ Distinct(v_close') /\ ToSet(v_close') = {}
  BY <1>1, <1>2, SingleList, EmptyList
<1>4. TypeOK'
  BY <1>1, <1>2, <1>3, NodesAreNats, MapAssumption DEF TypeOK
<1>5. NodesOnce'
  BY <1>2, <1>3 DEF NodesOnce, Distinct
<1>6. ParentsAreSettled' /\ StartIsMet'
  BY <1>1, <1>2, <1>3 DEF ParentsAreSettled, StartIsMet, Settled
<1> QED BY <1>2, <1>4, <1>5, <1>6 DEF SearchInv, WayBack, PathIsWalk

\* The node taken from the open list is settled from then on; at the end point
\* the way back starts.
LEMMA SelectKeeps ==
    ASSUME SearchInv, findMinNode2EndInOpen
    PROVE  SearchInv'
<1> USE DEF SearchInv
<1>1. PICK n \in ToSet(v_open) :
             /\ v_open' = RemoveFirst(v_open, n)
             /\ Node' = n
             /\ pc' = IF n = endPoint THEN "path" ELSE "expand"
  BY DEF findMinNode2EndInOpen
<1>2. /\ pc = "select" /\ next' = 0
      /\ UNCHANGED <<startPoint, endPoint, v_close, g, parent, path>>
  BY DEF findMinNode2EndInOpen
<1>3. v_open \in Seq(Nodes) /\ v_close \in Seq(Nodes) /\ Distinct(v_open) /\ Distinct(v_close)
  BY DEF TypeOK, NodesOnce, Distinct
<1>4. /\ v_open' \in Seq(Nodes)
      /\ ToSet(v_open') = ToSet(v_open) \ {n}
      /\ Distinct(v_open')
  BY <1>1, <1>3, Removed
<1>5. n \in Nodes
  BY <1>3, ElementOfSeq, LenProperties DEF ToSet
<1>6. TypeOK'
  BY <1>1, <1>2, <1>4, <1>5, MapAssumption DEF TypeOK
<1>7. NodesOnce'
  BY <1>1, <1>2, <1>3, <1>4 DEF NodesOnce, Distinct
<1>8. Settled = ToSet(v_close) /\ (pc' = "expand" => Settled' = Settled \cup {n})
  BY <1>1, <1>2 DEF Settled
<1>9. ParentsAreSettled'
  BY <1>1, <1>2, <1>4, <1>8 DEF ParentsAreSettled
<1>10. StartIsMet'
  BY <1>1, <1>2, <1>4, <1>5, <1>8, NodesAreNats DEF StartIsMet
<1>11. WayBack'
  <2> SUFFICES ASSUME pc' = "path"
               PROVE  /\ \A m \in ToSet(v_close') : Chained(m)'
                      /\ Chained(Node)'
                      /\ path' = <<>> /\ Node' = endPoint'
    BY DEF WayBack
  <2>1. path' = <<>> /\ Node' = endPoint'
    BY <1>1, <1>2 DEF StartIsMet
  <2>2. \A m \in ToSet(v_close) \cup {n} : Chained(m)
    BY <1>2, <1>8 DEF ParentsAreSettled, Chained
  <2>3. \A m : Chained(m)' <=> Chained(m)
    BY <1>2 DEF Chained
  <2>4. Chained(Node)' <=> Chained(n)
    BY <1>1, <1>2 DEF Chained
  <2> QED BY <1>2, <2>1, <2>2, <2>3, <2>4
<1>12. PathIsWalk'
  BY <1>1 DEF PathIsWalk
<1> QED BY <1>6, <1>7, <1>9, <1>10, <1>11, <1>12

\* checkPath: a node that is new, or now reached over a shorter way, gets the
\* node being expanded as its parent.  It is no settled node and not the start.
LEMMA CheckPathKeeps ==
    ASSUME SearchInv, pc = "expand", next \in Nodes, Linked(Node, next), checkPath(next),
           next' = next + 1,
           UNCHANGED <<pc, startPoint, endPoint, v_close, Node, path>>
    PROVE  SearchInv'
<1> USE DEF SearchInv
<1> DEFINE newg == g[Node] + edgeweight(matrix[Node][next])
<1>1. /\ v_open \in Seq(Nodes) /\ Distinct(v_open) /\ Node \in Nodes
      /\ g \in [Nodes -> Nat] /\ parent \in [Nodes -> Nodes \cup {None}]
  BY DEF TypeOK, NodesOnce, Distinct, StartIsMet
<1>2. Node # next /\ edgeweight(matrix[Node][next]) \in Nat /\ newg \in Nat
  BY <1>1, LinkedNodes
<1>3. next + 1 \in 0 .. NodeNum
  BY MapAssumption DEF Nodes
<1>4. CASE UNCHANGED <<v_open, g, parent>>
  <2>1. TypeOK' /\ NodesOnce' /\ ParentsAreSettled' /\ StartIsMet'
    BY <1>3, <1>4 DEF TypeOK, NodesOnce, ParentsAreSettled, StartIsMet, Settled
  <2> QED BY <2>1 DEF WayBack, PathIsWalk
<1>5. CASE ~(next \in ToSet(v_close) \/ (next \in ToSet(v_open) /\ newg >= g[next]))
  <2>1. /\ g' = [g EXCEPT ![next] = newg]
        /\ parent' = [parent EXCEPT ![next] = Node]
        /\ v_open' = IF next \in ToSet(v_open) THEN v_open ELSE Append(v_open, next)
    BY <1>5 DEF checkPath
  <2>2. /\ v_open' \in Seq(Nodes)
        /\ Distinct(v_open')
        /\ ToSet(v_open') = ToSet(v_open) \cup {next}
    BY <1>1, <2>1, Appended
  <2>3. Settled' = Settled /\ Settled = ToSet(v_close) \cup {Node} /\ next \notin Settled
    BY <1>2, <1>5 DEF Settled
  <2>4. next # startPoint
    <3> SUFFICES ASSUME next = startPoint
                 PROVE  FALSE
      OBVIOUS
    <3>1. next \in ToSet(v_open)
      BY <2>3 DEF StartIsMet
    <3>2. g[next] = 0
      BY <3>1 DEF ParentsAreSettled
    <3> QED BY <1>2, <1>5, <3>1, <3>2
  <2>5. /\ g'[next] = newg /\ parent'[next] = Node
        /\ \A n \in Nodes : n # next => g'[n] = g[n] /\ parent'[n] = parent[n]
    BY <1>1, <2>1
  <2>6. TypeOK'
    BY <1>1, <1>2, <1>3, <2>1, <2>2 DEF TypeOK
  <2>7. NodesOnce'
    BY <1>1, <1>2, <1>5, <2>2 DEF NodesOnce, Distinct
  <2>8. ParentsAreSettled'
    <3> SUFFICES ASSUME NEW n \in ToSet(v_open) \cup Settled \cup {next}
                 PROVE  IF n = startPoint THEN parent'[n] = None /\ g'[n] = 0
                        ELSE /\ parent'[n] \in Settled
                             /\ Linked(parent'[n], n)
                             /\ g'[n] = g'[parent'[n]] + edgeweight(matrix[parent'[n]][n])
      BY <2>2, <2>3 DEF ParentsAreSettled
    <3>1. CASE n = next
      BY <1>1, <1>2, <2>3, <2>4, <2>5, <3>1
    <3>2. CASE n # next
      <4>1. v_close \in Seq(Nodes)
        BY DEF TypeOK
      <4>2. ToSet(v_open) \subseteq Nodes /\ ToSet(v_close) \subseteq Nodes
        BY <1>1, <4>1, ElementOfSeq, LenProperties DEF ToSet
      <4>3. n \in Nodes /\ Settled \subseteq Nodes
        BY <1>1, <2>3, <3>2, <4>2
      <4>4. CASE n = startPoint
        BY <2>5, <3>2, <4>3, <4>4 DEF ParentsAreSettled
      <4>5. CASE n # startPoint
        <5>1. /\ parent[n] \in Settled
              /\ Linked(parent[n], n)
              /\ g[n] = g[parent[n]] + edgeweight(matrix[parent[n]][n])
          BY <3>2, <4>5 DEF ParentsAreSettled
        <5>2. parent'[n] = parent[n] /\ g'[n] = g[n] /\ g'[parent[n]] = g[parent[n]]
          BY <2>3, <2>5, <3>2, <4>3, <5>1
        <5> QED BY <4>5, <5>1, <5>2
      <4> QED BY <4>4, <4>5
    <3> QED BY <3>1, <3>2
  <2>9. StartIsMet'
    BY <2>2, <2>3 DEF StartIsMet
  <2> QED BY <2>6, <2>7, <2>8, <2>9 DEF WayBack, PathIsWalk
<1> QED BY <1>4, <1>5 DEF checkPath

\* The round of the loop for one node, linked and ahead or not.
LEMMA ExpandKeeps ==
    ASSUME SearchInv, Expand
    PROVE  SearchInv'
<1>1. pc = "expand" /\ next \in Nodes
  BY MapAssumption DEF Expand, SearchInv, TypeOK, Nodes
<1>2. CASE Linked(Node, next) /\ check(next, endPoint, Node)
  BY <1>1, <1>2, CheckPathKeeps DEF Expand
<1>3. CASE ~(Linked(Node, next) /\ check(next, endPoint, Node))
  <2>1. UNCHANGED <<v_open, g, parent>>
    BY <1>3 DEF Expand
  <2>2. next' \in 0 .. NodeNum
    BY <1>1, MapAssumption DEF Expand, Nodes
  <2>3. TypeOK' /\ NodesOnce' /\ ParentsAreSettled' /\ StartIsMet'
    BY <2>1, <2>2 DEF Expand, SearchInv, TypeOK, NodesOnce, ParentsAreSettled,
         StartIsMet, Settled
  <2> QED BY <1>1, <2>3 DEF Expand, SearchInv, WayBack, PathIsWalk
<1> QED BY <1>2, <1>3

\* The node expanded joins the closed list, which it was settled with before.
LEMMA CloseKeeps ==
    ASSUME SearchInv, Close
    PROVE  SearchInv'
<1> USE DEF SearchInv
<1>1. /\ pc = "expand" /\ pc' = "select" /\ v_close' = Append(v_close, Node)
      /\ UNCHANGED <<startPoint, endPoint, v_open, g, parent, Node, next, path>>
  BY DEF Close
<1>2. v_close \in Seq(Nodes) /\ Distinct(v_close) /\ Node \in Nodes
      /\ Node \notin ToSet(v_close)
  BY <1>1 DEF TypeOK, NodesOnce, Distinct, StartIsMet
<1>3. /\ v_close' \in Seq(Nodes)
      /\ Distinct(v_close')
      /\ ToSet(v_close') = ToSet(v_close) \cup {Node}
  BY <1>1, <1>2, Appended
<1>4. Settled' = Settled
  BY <1>1, <1>3 DEF Settled
<1>5. TypeOK'
  BY <1>1, <1>3 DEF TypeOK
<1>6. NodesOnce'
  BY <1>1, <1>2, <1>3 DEF NodesOnce, Distinct
<1>7. ParentsAreSettled' /\ StartIsMet'
  BY <1>1, <1>4 DEF ParentsAreSettled, StartIsMet
<1> QED BY <1>1, <1>5, <1>6, <1>7 DEF WayBack, PathIsWalk

\* The way back is lengthened by Node, whose parent comes next.
LEMMA PushFrontKeeps ==
    ASSUME SearchInv, PushFront
    PROVE  SearchInv'
<1> USE DEF SearchInv
<1>1. /\ pc = "path" /\ pc' = "path" /\ Node # None
      /\ path' = <<Node>> \o path /\ Node' = parent[Node]
      /\ UNCHANGED <<startPoint, endPoint, v_open, v_close, g, parent, next>>
  BY DEF PushFront
<1>2. path \in Seq(Nodes) /\ Node \in Nodes /\ Len(path) \in Nat
  BY <1>1, LenProperties DEF TypeOK
<1>3. /\ path' \in Seq(Nodes)
      /\ Len(path') = Len(path) + 1
      /\ path'[1] = Node
      /\ \A i \in 1 .. Len(path) : path'[i + 1] = path[i]
  BY <1>1, <1>2, Prepended
<1>4. /\ \A n \in ToSet(v_close) : Chained(n)
      /\ Chained(Node)
      /\ path = <<>> => Node = endPoint
      /\ path # <<>> =>
           /\ path[Len(path)] = endPoint
           /\ \A k \in 1 .. Len(path) - 1 : Linked(path[k], path[k + 1])
           /\ Linked(Node, path[1])
  BY <1>1 DEF WayBack
<1>5. TypeOK' /\ NodesOnce'
  BY <1>1, <1>2, <1>3 DEF TypeOK, NodesOnce
<1>6. path = <<>> <=> Len(path) = 0
  BY <1>2, EmptySeq
<1>7. path'[Len(path')] = endPoint
  <2>1. CASE path = <<>>
    BY <1>3, <1>4, <1>6, <2>1
  <2>2. CASE path # <<>>
    <3>1. Len(path) \in 1 .. Len(path)
      BY <1>2, <1>6, <2>2
    <3> QED BY <1>3, <1>4, <2>2, <3>1
  <2> QED BY <2>1, <2>2
<1>8. \A k \in 1 .. Len(path') - 1 : Linked(path'[k], path'[k + 1])
  <2> SUFFICES ASSUME NEW k \in 1 .. Len(path)
               PROVE  Linked(path'[k], path'[k + 1])
    BY <1>2, <1>3
  <2>1. path # <<>> /\ path'[k + 1] = path[k]
    BY <1>2, <1>3, <1>6
  <2>2. CASE k = 1
    BY <1>3, <1>4, <2>1, <2>2
  <2>3. CASE k # 1
    <3>1. k - 1 \in 1 .. Len(path) - 1 /\ k - 1 \in 1 .. Len(path) /\ (k - 1) + 1 = k
      BY <1>2, <2>3
    <3>2. path'[k] = path[k - 1]
      BY <1>3, <3>1
    <3>3. Linked(path[k - 1], path[k])
      BY <1>4, <2>1, <3>1
    <3> QED BY <2>1, <3>2, <3>3
  <2> QED BY <2>2, <2>3
<1>9. /\ Node' # None => Chained(Node') /\ Linked(Node', Node)
      /\ Node' = None => Node = startPoint
  <2>1. v_close \in Seq(Nodes)
    BY DEF TypeOK
  <2>2. ToSet(v_close) \subseteq Nodes
    BY <2>1, ElementOfSeq, LenProperties DEF ToSet
  <2>3. CASE Node = startPoint
    BY <1>1, <1>4, <2>3 DEF Chained
  <2>4. CASE Node # startPoint
    BY <1>1, <1>4, <2>2, <2>4, NodesAreNats DEF Chained
  <2> QED BY <2>3, <2>4
<1>10. WayBack'
  <2>1. \A n : Chained(n)' <=> Chained(n)
    BY <1>1 DEF Chained
  <2>2. Chained(Node)' <=> Chained(Node')
    BY <1>1 DEF Chained
  <2>3. path' # <<>>
    BY <1>2, <1>3, EmptySeq
  <2> QED BY <1>1, <1>3, <1>4, <1>7, <1>8, <1>9, <2>1, <2>2, <2>3 DEF WayBack
<1> QED BY <1>1, <1>5, <1>10 DEF ParentsAreSettled, StartIsMet, PathIsWalk

\* The way back ends at the start; a search that found nothing has no path.
LEMMA FinishKeeps ==
    ASSUME SearchInv, NotFound \/ PathDone
    PROVE  SearchInv'
<1> USE DEF SearchInv
<1>1. pc' = "finishGuide"
      /\ UNCHANGED <<startPoint, endPoint, v_open, v_close, g, parent, Node, next, path>>
  BY DEF NotFound, PathDone
<1>2. TypeOK' /\ NodesOnce'
  BY <1>1 DEF TypeOK, NodesOnce
<1>3. CASE NotFound
  <2>1. path = <<>>
    BY <1>3 DEF NotFound, StartIsMet
  <2> QED BY <1>1, <1>2, <2>1 DEF ParentsAreSettled, StartIsMet, WayBack, PathIsWalk
<1>4. CASE PathDone
  <2>1. path # <<>> => path[1] = startPoint /\ path[Len(path)] = endPoint
                       /\ \A k \in 1 .. Len(path) - 1 : Linked(path[k], path[k + 1])
    BY <1>4 DEF PathDone, WayBack
  <2>2. PathIsWalk'
    BY <1>1, <2>1 DEF PathIsWalk
  <2> QED BY <1>1, <1>2, <2>2 DEF ParentsAreSettled, StartIsMet, WayBack
<1> QED BY <1>3, <1>4

\* Every step of the search keeps the invariant.
THEOREM SearchInvariance == Spec => []SearchInv
<1>1. SearchInv /\ [Next]_vars => SearchInv'
  <2> SUFFICES ASSUME SearchInv, [Next]_vars
               PROVE  SearchInv'
    OBVIOUS
  <2>1. ASSUME NEW sour \in Places, NEW dest \in Places, searchpath(sour, dest)
        PROVE  SearchInv'
    BY <2>1, SearchpathKeeps
  <2>2. CASE findMinNode2EndInOpen
    BY <2>2, SelectKeeps
  <2>3. CASE NotFound \/ PathDone
    BY <2>3, FinishKeeps
  <2>4. CASE Expand
    BY <2>4, ExpandKeeps
  <2>5. CASE Close
    BY <2>5, CloseKeeps
  <2>6. CASE PushFront
    BY <2>6, PushFrontKeeps
  <2>7. CASE UNCHANGED vars
    BY <2>7 DEF vars, SearchInv, TypeOK, NodesOnce, ParentsAreSettled, StartIsMet,
         WayBack, PathIsWalk, Settled, Chained
  <2> QED BY <2>1, <2>2, <2>3, <2>4, <2>5, <2>6, <2>7 DEF Next, Search
<1> QED BY InitSearch, <1>1, PTL DEF Spec

\* Every variable of the search keeps its type; getIndexStart finds a node for
\* every place.
THEOREM SearchTypeCorrect == Spec => []TypeOK
<1>1. SearchInv => TypeOK
  BY DEF SearchInv
<1> QED BY SearchInvariance, <1>1, PTL

\* No node is twice in the lists, on any map without an edge from a node to
\* itself, so that isInOpenVec and isInCloseVec find the only one.
THEOREM NodesAreOnce == Spec => []NodesOnce
<1>1. SearchInv => NodesOnce
  BY DEF SearchInv
<1> QED BY SearchInvariance, <1>1, PTL

\* The g of a node is the length of the way over its settled parents.
THEOREM ParentsSettled == Spec => []ParentsAreSettled
<1>1. SearchInv => ParentsAreSettled
  BY DEF SearchInv
<1> QED BY SearchInvariance, <1>1, PTL

\* Whatever path is handed out leads from start to end over edges of the map.
THEOREM PathsAreWalks == Spec => []PathIsWalk
<1>1. SearchInv => PathIsWalk
  BY DEF SearchInv
<1> QED BY SearchInvariance, <1>1, PTL

-----------------------------------------------------------------------------
(* The limit of findMinNode2EndInOpen.                                     *)

\* The lists hold no more starnodes than the map has nodes.
LEMMA ListIsShort ==
    ASSUME NEW s \in Seq(Nodes), Distinct(s)
    PROVE  Len(s) <= NodeNum
<1>1. Len(s) \in Nat /\ NodeNum \in Nat /\ DOMAIN s = 1 .. Len(s)
  BY LenProperties, MapAssumption
<1>2. s \in [1 .. Len(s) -> Nodes]
  BY LenProperties
<1>3. s \in Injection(1 .. Len(s), Nodes)
  BY <1>1, <1>2 DEF Distinct, Injection, IsInjective
<1>4. IsFiniteSet(Nodes) /\ Cardinality(Nodes) = NodeNum
  BY <1>1, MapAssumption, FS_Interval DEF Nodes
<1>5. Cardinality(1 .. Len(s)) = Len(s)
  BY <1>1, FS_Interval
<1>6. Cardinality(1 .. Len(s)) <= Cardinality(Nodes)
  BY <1>3, <1>4, FS_Injection
<1> QED BY <1>4, <1>5, <1>6

\* No edge weighs more than the heaviest.
LEMMA EdgeIsLight ==
    ASSUME NEW w, MapIsSmall(w), NEW a \in Nodes, NEW b \in Nodes, Linked(a, b)
    PROVE  edgeweight(matrix[a][b]) <= w
<1>1. matrix[a][b] # -1
  BY DEF Linked
<1>2. matrix[a][b] + 1 \in DOMAIN EdgeLines
  BY <1>1, MatrixLine
<1> QED BY <1>2 DEF MapIsSmall, edgeweight

\* A way through k nodes and one edge more.
LEMMA OneMore ==
    \A k, w \in Nat : k * w \in Nat /\ (k + 1) * w = k * w + w /\ k * w <= (k + 1) * w
  OBVIOUS

\* More edges make a longer way.
LEMMA Monotone ==
    ASSUME NEW a \in Nat, NEW b \in Nat, NEW w \in Nat, a <= b
    PROVE  a * w \in Nat /\ b * w \in Nat /\ a * w <= b * w
<1>1. b - a \in Nat /\ (b - a) * w \in Nat
  OBVIOUS
<1>2. b * w = a * w + (b - a) * w
  OBVIOUS
<1> QED BY <1>1, <1>2

\* A way is no longer than its number of edges allows: an edge for each closed node,
\* and one more once the node being expanded is left.
WaysAreBounded(w) ==
    /\ pc = "select" => \A n \in ToSet(v_open) : g[n] <= Len(v_close) * w
    /\ pc = "expand" =>
         /\ g[Node] <= Len(v_close) * w
         /\ \A n \in ToSet(v_open) : g[n] <= (Len(v_close) + 1) * w

\* Every step of the search keeps the bound.
LEMMA WaysStayBounded ==
    ASSUME NEW w, MapIsSmall(w), SearchInv, WaysAreBounded(w), [Next]_vars
    PROVE  WaysAreBounded(w)'
<1> DEFINE c == Len(v_close)
<1>1. w \in Nat
  BY DEF MapIsSmall
<1>2. /\ v_open \in Seq(Nodes) /\ Distinct(v_open) /\ v_close \in Seq(Nodes)
      /\ g \in [Nodes -> Nat] /\ c \in Nat
  BY LenProperties DEF SearchInv, TypeOK, NodesOnce, Distinct
<1>3. ToSet(v_open) \subseteq Nodes
  BY <1>2, ElementOfSeq, LenProperties DEF ToSet
<1>4. c * w \in Nat /\ (c + 1) * w = c * w + w /\ c * w <= (c + 1) * w
  BY <1>1, <1>2, OneMore
<1>5. ASSUME NEW sour \in Places, NEW dest \in Places, searchpath(sour, dest)
      PROVE  WaysAreBounded(w)'
  <2>1. startPoint' \in Nodes
    BY <1>5, NearestNode DEF searchpath
  <2>2. /\ pc' = "select" /\ v_open' = <<startPoint'>> /\ v_close' = <<>>
        /\ g' = [n \in Nodes |-> 0]
    BY <1>5 DEF searchpath
  <2>3. ToSet(v_open') = {startPoint'} /\ Len(v_close') = 0
    BY <2>1, <2>2, SingleList
  <2> QED BY <1>1, <2>1, <2>2, <2>3 DEF WaysAreBounded
<1>6. CASE findMinNode2EndInOpen
  <2>1. PICK n \in ToSet(v_open) :
               /\ v_open' = RemoveFirst(v_open, n)
               /\ Node' = n
               /\ pc' \in {"path", "expand"}
    BY <1>6 DEF findMinNode2EndInOpen
  <2>2. ToSet(v_open') \subseteq ToSet(v_open)
    BY <1>2, <2>1, Removed
  <2>3. pc = "select" /\ v_close' = v_close /\ g' = g
    BY <1>6 DEF findMinNode2EndInOpen
  <2>4. \A m \in ToSet(v_open) : g[m] \in Nat /\ g[m] <= c * w
    BY <1>2, <1>3, <2>3 DEF WaysAreBounded
  <2>5. \A m \in ToSet(v_open) : g[m] <= (c + 1) * w
    BY <1>4, <2>4, <1>1, <1>2
  <2> QED BY <2>1, <2>2, <2>3, <2>4, <2>5 DEF WaysAreBounded
<1>7. CASE Expand
  <2>1. /\ pc = "expand" /\ next \in Nodes /\ Node \in Nodes
        /\ UNCHANGED <<pc, v_close, Node>>
    BY <1>7, MapAssumption DEF Expand, SearchInv, StartIsMet, TypeOK, Nodes
  <2>2. CASE UNCHANGED <<v_open, g, parent>>
    BY <2>1, <2>2 DEF WaysAreBounded
  <2>3. CASE /\ Linked(Node, next)
             /\ g' = [g EXCEPT ![next] = g[Node] + edgeweight(matrix[Node][next])]
             /\ v_open' = IF next \in ToSet(v_open) THEN v_open ELSE Append(v_open, next)
    <3> DEFINE e == edgeweight(matrix[Node][next])
    <3>1. Node # next /\ e \in Nat /\ e <= w
      BY <2>1, <2>3, LinkedNodes, EdgeIsLight
    <3>2. ToSet(v_open') = ToSet(v_open) \cup {next}
      BY <1>2, <2>1, <2>3, Appended
    <3>3. g[Node] \in Nat /\ g[Node] <= c * w
      BY <1>2, <2>1 DEF WaysAreBounded
    <3> HIDE DEF e, c
    <3>4. g'[Node] = g[Node] /\ g'[next] = g[Node] + e
      BY <1>2, <2>1, <2>3, <3>1 DEF e
    <3>5. g'[next] <= (c + 1) * w
      BY <1>1, <1>4, <3>1, <3>3, <3>4
    <3>6. \A n \in ToSet(v_open) : n # next => g'[n] <= (c + 1) * w
      BY <1>2, <1>3, <2>1, <2>3 DEF WaysAreBounded, c
    <3> QED BY <2>1, <3>2, <3>3, <3>4, <3>5, <3>6 DEF WaysAreBounded, c
  <2> QED BY <1>7, <2>2, <2>3 DEF Expand, checkPath
<1>8. CASE Close
  <2>1. /\ pc = "expand" /\ pc' = "select" /\ v_close' = Append(v_close, Node)
        /\ UNCHANGED <<v_open, g>>
    BY <1>8 DEF Close
  <2>2. Node \in Nodes
    BY <2>1 DEF SearchInv, StartIsMet, TypeOK
  <2>3. Len(v_close') = c + 1
    BY <1>2, <2>1, <2>2, AppendProperties
  <2> QED BY <2>1, <2>3 DEF WaysAreBounded
<1>9. CASE NotFound \/ PushFront \/ PathDone
  BY <1>9 DEF NotFound, PushFront, PathDone, WaysAreBounded
<1>10. CASE UNCHANGED vars
  BY <1>10 DEF vars, WaysAreBounded
<1> QED BY <1>5, <1>6, <1>7, <1>8, <1>9, <1>10 DEF Next, Search

\* On a map too small for an estimate of 65535, findMinNode2EndInOpen always
\* finds a node, and never reads the null it starts with.
THEOREM NullIsNeverRead ==
    ASSUME NEW w, MapIsSmall(w)
    PROVE  Spec => []NeverSelectsNull
<1>1. Init => WaysAreBounded(w)
  BY DEF Init, WaysAreBounded
<1>2. SearchInv /\ WaysAreBounded(w) /\ [Next]_vars => WaysAreBounded(w)'
  BY WaysStayBounded
<1>3. SearchInv /\ WaysAreBounded(w) => NeverSelectsNull
  <2> SUFFICES ASSUME SearchInv, WaysAreBounded(w), pc = "select", v_open # <<>>
               PROVE  f(v_open[1]) \in Int /\ f(v_open[1]) < INFI_MAX
    <3>1. ASSUME v_open # <<>>, f(v_open[1]) < INFI_MAX, f(v_open[1]) \in Int
          PROVE  ~SelectsNull
      BY <3>1 DEF SelectsNull, INFI_MAX
    <3> QED BY <3>1 DEF NeverSelectsNull, SelectsNull
  <2> DEFINE n == v_open[1]
             c == Len(v_close)
             d == distanceFromA2B[n][endPoint]
  <2>1. /\ v_open \in Seq(Nodes) /\ v_close \in Seq(Nodes) /\ Distinct(v_close)
        /\ endPoint \in Nodes /\ g \in [Nodes -> Nat] /\ c \in Nat /\ w \in Nat
    BY LenProperties DEF SearchInv, TypeOK, NodesOnce, Distinct, MapIsSmall
  <2>2. 1 \in DOMAIN v_open
    BY <2>1, EmptySeq, LenProperties
  <2>3. n \in Nodes /\ n \in ToSet(v_open)
    BY <2>1, <2>2 DEF ToSet
  <2>4. c <= NodeNum /\ NodeNum \in Nat
    BY <2>1, ListIsShort, MapAssumption
  <2>5. g[n] \in Nat /\ g[n] <= c * w
    BY <2>1, <2>3 DEF WaysAreBounded
  <2>6. /\ d \in Nat
        /\ d + (NodeNum * w) \div WeightUnit < INFI_MAX
    BY <2>1, <2>3 DEF MapIsSmall
  <2>7. f(n) = d + g[n] \div WeightUnit
    BY DEF f
  <2> HIDE DEF n, c, d
  <2>8. c * w <= NodeNum * w /\ c * w \in Nat /\ NodeNum * w \in Nat
    BY <2>1, <2>4, Monotone
  <2> DEFINE q == g[n] \div WeightUnit
             r == (NodeNum * w) \div WeightUnit
  <2>9. q \in Nat /\ r \in Nat /\ q <= r
    BY <2>5, <2>8 DEF WeightUnit
  <2> HIDE DEF q, r
  <2>10. d + q \in Int /\ d + q < INFI_MAX
    BY <2>6, <2>9 DEF INFI_MAX, r
  <2> QED BY <2>7, <2>10 DEF n, q
<1> QED BY SearchInvariance, <1>1, <1>2, <1>3, PTL DEF Spec
-----------------------------------------------------------------------------
(* Every search ends.                                                      *)

\* A closed node has no parent or one closed before it: the way back through the
\* parents cannot go round in a circle.
ParentsFirst ==
    pc \in {"select", "expand", "path"} =>
        \A i \in DOMAIN v_close :
            \/ parent[v_close[i]] = None
            \/ \E j \in 1 .. i - 1 : v_close[j] = parent[v_close[i]]

\* Every step of the search keeps the order of the closed nodes.
LEMMA ParentsStayFirst ==
    ASSUME SearchInv, ParentsFirst, [Next]_vars
    PROVE  ParentsFirst'
<1>1. /\ v_close \in Seq(Nodes) /\ Len(v_close) \in Nat /\ DOMAIN v_close = 1 .. Len(v_close)
      /\ parent \in [Nodes -> Nodes \cup {None}]
      /\ \A i \in DOMAIN v_close : v_close[i] \in Nodes /\ v_close[i] \in ToSet(v_close)
  BY ElementOfSeq, LenProperties DEF SearchInv, TypeOK, ToSet
<1>2. ASSUME NEW sour \in Places, NEW dest \in Places, searchpath(sour, dest)
      PROVE  ParentsFirst'
  <2>1. v_close' = <<>>
    BY <1>2 DEF searchpath
  <2> QED BY <2>1 DEF ParentsFirst
<1>3. CASE findMinNode2EndInOpen \/ PushFront
  BY <1>3 DEF findMinNode2EndInOpen, PushFront, ParentsFirst
<1>4. CASE NotFound \/ PathDone
  BY <1>4 DEF NotFound, PathDone, ParentsFirst
<1>5. CASE Expand
  <2>1. pc = "expand" /\ pc' = "expand" /\ v_close' = v_close /\ next \in Nodes
    BY <1>5, MapAssumption DEF Expand, SearchInv, TypeOK, Nodes
  <2>2. \A i \in DOMAIN v_close : parent'[v_close[i]] = parent[v_close[i]]
    BY <1>1, <1>5, <2>1 DEF Expand, checkPath
  <2> QED BY <2>1, <2>2 DEF ParentsFirst
<1>6. CASE Close
  <2>1. /\ pc = "expand" /\ pc' = "select" /\ parent' = parent
        /\ v_close' = Append(v_close, Node)
    BY <1>6 DEF Close
  <2>2. Node \in Nodes /\ Settled = ToSet(v_close) \cup {Node}
    BY <2>1 DEF SearchInv, TypeOK, StartIsMet, Settled
  <2>3. parent[Node] = None \/ parent[Node] \in ToSet(v_close)
    <3>1. (parent[Node] \in Settled /\ Linked(parent[Node], Node)) \/ parent[Node] = None
      BY <2>1, <2>2 DEF SearchInv, ParentsAreSettled
    <3>2. CASE parent[Node] \in Settled /\ Linked(parent[Node], Node)
      <4>1. parent[Node] \in Nodes
        BY <1>1, <2>2, <3>2 DEF ToSet
      <4> QED BY <2>2, <3>2, <4>1, LinkedNodes
    <3> QED BY <3>1, <3>2
  <2>4. /\ DOMAIN v_close' = 1 .. Len(v_close) + 1
        /\ \A i \in 1 .. Len(v_close) : v_close'[i] = v_close[i]
        /\ v_close'[Len(v_close) + 1] = Node
    BY <1>1, <2>1, <2>2, AppendProperties, LenProperties
  <2> SUFFICES ASSUME NEW i \in 1 .. Len(v_close) + 1, parent[v_close'[i]] # None
               PROVE  \E j \in 1 .. i - 1 : v_close'[j] = parent[v_close'[i]]
    BY <2>1, <2>4 DEF ParentsFirst
  <2>5. CASE i = Len(v_close) + 1
    <3>1. PICK j \in 1 .. Len(v_close) : v_close[j] = parent[Node]
      BY <1>1, <2>3, <2>4, <2>5 DEF ToSet
    <3> QED BY <1>1, <2>4, <2>5, <3>1
  <2>6. CASE i \in 1 .. Len(v_close)
    <3>1. PICK j \in 1 .. i - 1 : v_close[j] = parent[v_close[i]]
      BY <1>1, <2>1, <2>4, <2>6 DEF ParentsFirst
    <3>2. j \in 1 .. Len(v_close)
      BY <1>1, <2>6
    <3> QED BY <2>4, <2>6, <3>1, <3>2
  <2> QED BY <1>1, <2>5, <2>6
<1>7. CASE UNCHANGED vars
  BY <1>7 DEF vars, ParentsFirst
<1> QED BY <1>2, <1>3, <1>4, <1>5, <1>6, <1>7 DEF Next, Search

\* The closed list is in the order of the parents.
THEOREM ParentsAreFirst == Spec => []ParentsFirst
<1>1. Init => ParentsFirst
  BY DEF Init, ParentsFirst
<1>2. SearchInv /\ ParentsFirst /\ [Next]_vars => ParentsFirst'
  BY ParentsStayFirst
<1> QED BY SearchInvariance, <1>1, <1>2, PTL DEF Spec

\* The states in which a step of the search has something to do.
SearchGuard ==
    \/ pc = "select" /\ v_open = <<>>
    \/ pc = "select" /\ ~SelectsNull /\ \E n \in ToSet(v_open) : IsMinInOpen(n)
    \/ pc \in {"expand", "path"}

\* The step is enabled there: each action of Search assigns every variable, and
\* moves pc, next or Node.  TLAPS has no proof rules for ENABLED.
SearchEnabled == SearchGuard => ENABLED <<Search>>_vars

\* The search is never stuck before its end: while the open list holds a node,
\* one of them has the least estimate, and the first of these is taken.
THEOREM SearchIsNeverStuck ==
    ASSUME NEW w, MapIsSmall(w)
    PROVE  Spec => [](pc \in {"select", "expand", "path"} => SearchGuard)
<1>1. SearchInv /\ NeverSelectsNull =>
        (pc \in {"select", "expand", "path"} => SearchGuard)
  <2> SUFFICES ASSUME SearchInv, NeverSelectsNull, pc = "select", v_open # <<>>
               PROVE  \E n \in ToSet(v_open) : IsMinInOpen(n)
    BY DEF SearchGuard, NeverSelectsNull
  <2> DEFINE F == {f(v_open[k]) : k \in DOMAIN v_open}
  <2>1. /\ v_open \in Seq(Nodes) /\ endPoint \in Nodes /\ g \in [Nodes -> Nat]
        /\ DOMAIN v_open \subseteq Nat /\ 1 \in DOMAIN v_open
        /\ \A k \in DOMAIN v_open : v_open[k] \in Nodes
    BY EmptySeq, ElementOfSeq, LenProperties DEF SearchInv, TypeOK
  <2>2. \A n \in Nodes : f(n) \in Nat
    BY <2>1 DEF f, MapIsSmall, WeightUnit
  <2>3. F \in SUBSET Nat /\ F # {}
    BY <2>1, <2>2
  <2>4. PICK d \in F : \A e \in F : d <= e
    BY <2>3, Numbers!LeastElement
  <2> DEFINE K == {k \in DOMAIN v_open : f(v_open[k]) = d}
  <2>5. K \in SUBSET Nat /\ K # {}
    BY <2>1, <2>4
  <2>6. PICK k \in K : \A j \in K : k <= j
    BY <2>5, Numbers!LeastElement
  <2>7. f(v_open[1]) < INFI_MAX /\ d <= f(v_open[1])
    BY <2>1, <2>2, <2>4 DEF NeverSelectsNull, SelectsNull, INFI_MAX
  <2>8. f(v_open[k]) < INFI_MAX
    BY <2>1, <2>2, <2>6, <2>7 DEF INFI_MAX
  <2>9. \A j \in DOMAIN v_open : f(v_open[k]) <= f(v_open[j])
    BY <2>4, <2>6
  <2>10. ASSUME NEW j \in 1 .. k - 1
         PROVE  f(v_open[k]) < f(v_open[j])
    <3>1. j \in DOMAIN v_open /\ j < k
      BY <2>1, <2>6, LenProperties
    <3>2. f(v_open[j]) # d
      BY <2>1, <2>6, <3>1
    <3> QED BY <2>1, <2>2, <2>6, <2>9, <3>1, <3>2
  <2>11. v_open[k] \in ToSet(v_open) /\ IsMinInOpen(v_open[k])
    BY <2>6, <2>8, <2>9, <2>10 DEF IsMinInOpen, ToSet
  <2> QED BY <2>11
<1> QED BY SearchInvariance, NullIsNeverRead, <1>1, PTL

\* What is assumed of the steps of the search: Searching they can be taken.
CanSearch == ~(pc \in {"startGuide", "finishGuide"}) => ENABLED <<Search>>_vars

\* The steps left until the open list is empty, were every node met: a round of
\* findPath for each node that is not closed, each with all its nodes i.
StepsLeft ==
    (NodeNum - Len(v_close)) * (NodeNum + 2)
    + (IF pc = "expand" THEN NodeNum - next ELSE NodeNum + 1)

\* What is shown by induction of findPath, and of the way back: when at most n
\* steps are left, and when the node to follow is among the first n closed ones.
PathFound == pc \in {"path", "finishGuide"}
Finished == pc = "finishGuide"
StepsAtMost(n) == pc \in {"select", "expand"} /\ StepsLeft <= n
BackAtMost(n) ==
    /\ pc = "path"
    /\ Node = None \/ \E i \in 1 .. n : i \in DOMAIN v_close /\ v_close[i] = Node
StepsEnd(n) == Spec /\ []CanSearch => (StepsAtMost(n) ~> PathFound)
BackEnds(n) == Spec /\ []CanSearch => (BackAtMost(n) ~> Finished)

\* Each step leaves one less.
LEMMA StepsGoDown ==
    ASSUME SearchInv, pc \in {"select", "expand"}
    PROVE  /\ StepsLeft \in Nat
           /\ StepsLeft <= NodeNum * (NodeNum + 2) + NodeNum + 1
           /\ Search => \/ PathFound'
                        \/ /\ pc' \in {"select", "expand"}
                           /\ StepsLeft' = StepsLeft - 1 /\ StepsLeft' \in Nat
<1> DEFINE c == Len(v_close)
           N == NodeNum
<1>1. /\ v_close \in Seq(Nodes) /\ Distinct(v_close) /\ c \in Nat /\ next \in 0 .. N
      /\ N \in Nat
  BY MapAssumption, LenProperties DEF SearchInv, TypeOK, NodesOnce, Distinct
<1>2. c <= N
  BY <1>1, ListIsShort
<1>3. N - c \in Nat
  BY <1>1, <1>2
<1>4. (N - c) * (N + 2) \in Nat /\ (N - c) * (N + 2) <= N * (N + 2) /\ N * (N + 2) \in Nat
  BY <1>1, <1>3, Monotone
<1>5. StepsLeft \in Nat /\ StepsLeft <= N * (N + 2) + N + 1
  BY <1>1, <1>4 DEF StepsLeft
<1>6. CASE findMinNode2EndInOpen
  BY <1>1, <1>4, <1>5, <1>6 DEF findMinNode2EndInOpen, StepsLeft, PathFound
<1>7. CASE NotFound
  BY <1>5, <1>7 DEF NotFound, PathFound
<1>8. CASE Expand
  BY <1>1, <1>4, <1>5, <1>8 DEF Expand, StepsLeft
<1>9. CASE Close
  <2>1. /\ pc = "expand" /\ pc' = "select" /\ next = N /\ v_close' = Append(v_close, Node)
    BY <1>9 DEF Close
  <2>2. Node \in Nodes /\ Node \notin ToSet(v_close)
    BY <2>1 DEF SearchInv, TypeOK, StartIsMet, NodesOnce
  <2>3. Len(v_close') = c + 1 /\ v_close' \in Seq(Nodes) /\ Distinct(v_close')
    BY <1>1, <2>1, <2>2, Appended, AppendProperties
  <2>4. c + 1 <= N
    BY <2>3, ListIsShort
  <2>5. N - (c + 1) \in Nat /\ N - c = (N - (c + 1)) + 1
    BY <1>1, <2>4
  <2>6. (N - c) * (N + 2) = (N - (c + 1)) * (N + 2) + (N + 2)
    BY <1>1, <2>5, OneMore
  <2>7. (N - (c + 1)) * (N + 2) \in Nat
    BY <1>1, <2>5, OneMore
  <2>8. StepsLeft = (N - c) * (N + 2) /\ StepsLeft' = (N - (c + 1)) * (N + 2) + N + 1
    BY <1>1, <1>4, <2>1, <2>3, <2>7 DEF StepsLeft
  <2>9. StepsLeft' = StepsLeft - 1 /\ StepsLeft' \in Nat
    BY <1>1, <2>6, <2>7, <2>8
  <2> QED BY <1>5, <2>1, <2>9
<1>10. ~PushFront /\ ~PathDone
  BY DEF PushFront, PathDone
<1> QED BY <1>5, <1>6, <1>7, <1>8, <1>9, <1>10 DEF Search

\* findPath ends: by induction on the steps left.
LEMMA FindPathEnds ==
    Numbers!InductionFor(StepsEnd) =>
        (Spec /\ []CanSearch => (pc \in {"select", "expand"} ~> PathFound))
<1> DEFINE Looking == pc \in {"select", "expand"}
           K == NodeNum * (NodeNum + 2) + NodeNum + 1
<1>1. StepsEnd(0)
  <2>1. SearchInv /\ StepsAtMost(0) /\ <<Search>>_vars => PathFound'
    BY StepsGoDown DEF StepsAtMost
  <2>2. SearchInv /\ StepsAtMost(0) /\ [Next]_vars => StepsAtMost(0)' \/ PathFound'
    BY StepsGoDown DEF StepsAtMost, PathFound, Next, searchpath, vars, StepsLeft
  <2>3. StepsAtMost(0) => ~(pc \in {"startGuide", "finishGuide"})
    BY DEF StepsAtMost
  <2> QED BY <2>1, <2>2, <2>3, SearchInvariance, PTL DEF StepsEnd, Spec, CanSearch
<1>2. ASSUME NEW n \in Nat
      PROVE  StepsEnd(n) => StepsEnd(n + 1)
  <2>1. SearchInv /\ StepsAtMost(n + 1) /\ <<Search>>_vars => StepsAtMost(n)' \/ PathFound'
    BY StepsGoDown DEF StepsAtMost
  <2>2. SearchInv /\ StepsAtMost(n + 1) /\ [Next]_vars => StepsAtMost(n + 1)' \/ PathFound'
    BY StepsGoDown DEF StepsAtMost, PathFound, Next, searchpath, vars, StepsLeft
  <2>3. StepsAtMost(n + 1) => ~(pc \in {"startGuide", "finishGuide"})
    BY DEF StepsAtMost
  <2> QED BY <2>1, <2>2, <2>3, SearchInvariance, PTL DEF StepsEnd, Spec, CanSearch
<1>3. Numbers!InductionFor(StepsEnd) => \A n \in Nat : StepsEnd(n)
  BY <1>1, <1>2 DEF Numbers!InductionFor
<1>4. Numbers!InductionFor(StepsEnd) => StepsEnd(K)
  <2>1. K \in Nat
    <3>1. NodeNum \in Nat /\ NodeNum + 2 \in Nat
      BY MapAssumption
    <3>2. NodeNum * (NodeNum + 2) \in Nat
      BY <3>1, OneMore
    <3> QED BY <3>1, <3>2
  <2> QED BY <1>3, <2>1
<1>5. SearchInv /\ Looking => StepsAtMost(K)
  BY StepsGoDown DEF StepsAtMost
<1> QED BY <1>4, <1>5, SearchInvariance, PTL DEF StepsEnd

\* A step on the way back finishes or comes to a node closed earlier; the first
\* one comes to the closed list.
LEMMA BackGoesDown ==
    ASSUME SearchInv, ParentsFirst, pc = "path", Search
    PROVE  /\ Finished' \/ (pc' = "path" /\ BackAtMost(NodeNum)')
           /\ \A n \in Nat : BackAtMost(n + 1) => Finished' \/ BackAtMost(n)'
           /\ BackAtMost(0) => Finished'
<1>1. PushFront \/ PathDone
  BY DEF Search, findMinNode2EndInOpen, NotFound, Expand, Close
<1>2. CASE PathDone
  BY <1>2 DEF PathDone, Finished
<1>3. CASE PushFront
  <2>1. /\ pc' = "path" /\ Node # None /\ Node' = parent[Node]
        /\ UNCHANGED <<v_close, parent>>
    BY <1>3 DEF PushFront
  <2>2. /\ v_close \in Seq(Nodes) /\ DOMAIN v_close = 1 .. Len(v_close)
        /\ Len(v_close) \in Nat /\ NodeNum \in Nat /\ Len(v_close) <= NodeNum
    BY LenProperties, ListIsShort, MapAssumption DEF SearchInv, TypeOK, NodesOnce, Distinct
  <2>3. Node' = None \/ \E i \in DOMAIN v_close : v_close[i] = Node'
    BY <2>1 DEF SearchInv, WayBack, Chained, ToSet
  <2>4. BackAtMost(NodeNum)'
    BY <2>1, <2>2, <2>3 DEF BackAtMost
  <2>5. ASSUME NEW n \in Nat, BackAtMost(n + 1)
        PROVE  BackAtMost(n)'
    <3>1. PICK i \in 1 .. n + 1 : i \in DOMAIN v_close /\ v_close[i] = Node
      BY <2>1, <2>5 DEF BackAtMost
    <3>2. CASE Node' = None
      BY <2>1, <3>2 DEF BackAtMost
    <3>3. CASE Node' # None
      <4>1. PICK j \in 1 .. i - 1 : v_close[j] = Node'
        BY <2>1, <3>1, <3>3 DEF ParentsFirst
      <4>2. j \in 1 .. n /\ j \in DOMAIN v_close
        BY <2>2, <3>1
      <4> QED BY <2>1, <4>1, <4>2 DEF BackAtMost
    <3> QED BY <3>2, <3>3
  <2>6. ~BackAtMost(0)
    BY <2>1 DEF BackAtMost
  <2> QED BY <2>1, <2>4, <2>5, <2>6
<1> QED BY <1>1, <1>2, <1>3

\* While the way back is followed no step but one of the search is taken, and a
\* step that changes nothing leaves it where it is.
LEMMA BackStays ==
    ASSUME SearchInv, ParentsFirst, pc = "path", [Next]_vars
    PROVE  /\ pc' = "path" \/ Finished'
           /\ \A n \in Nat : BackAtMost(n) => BackAtMost(n)' \/ Finished'
<1>1. CASE Search
  <2>1. ASSUME NEW n \in Nat, BackAtMost(n)
        PROVE  BackAtMost(n)' \/ Finished'
    <3>1. CASE n = 0
      BY <1>1, <2>1, <3>1, BackGoesDown
    <3>2. CASE n # 0
      <4>1. n - 1 \in Nat /\ n = (n - 1) + 1
        BY <3>2
      <4>2. BackAtMost(n - 1)' \/ Finished'
        BY <1>1, <2>1, <4>1, BackGoesDown
      <4>3. BackAtMost(n - 1)' => BackAtMost(n)'
        BY <4>1 DEF BackAtMost
      <4> QED BY <4>2, <4>3
    <3> QED BY <3>1, <3>2
  <2> QED BY <1>1, <2>1, BackGoesDown
<1>2. CASE UNCHANGED vars
  BY <1>2 DEF vars, BackAtMost
<1> QED BY <1>1, <1>2 DEF Next, searchpath

\* The way back is followed to its end: by induction on the place of the node in
\* the closed list.
LEMMA WayBackEnds ==
    Numbers!InductionFor(BackEnds) => (Spec /\ []CanSearch => (pc = "path" ~> Finished))
<1>1. BackEnds(0)
  <2>1. SearchInv /\ ParentsFirst /\ BackAtMost(0) /\ <<Search>>_vars => Finished'
    BY BackGoesDown DEF BackAtMost
  <2>2. SearchInv /\ ParentsFirst /\ BackAtMost(0) /\ [Next]_vars => BackAtMost(0)' \/ Finished'
    BY BackStays DEF BackAtMost
  <2>3. BackAtMost(0) => ~(pc \in {"startGuide", "finishGuide"})
    BY DEF BackAtMost
  <2> QED BY <2>1, <2>2, <2>3, SearchInvariance, ParentsAreFirst, PTL
          DEF BackEnds, Spec, CanSearch
<1>2. ASSUME NEW n \in Nat
      PROVE  BackEnds(n) => BackEnds(n + 1)
  <2>1. SearchInv /\ ParentsFirst /\ BackAtMost(n + 1) /\ <<Search>>_vars
          => BackAtMost(n)' \/ Finished'
    BY BackGoesDown DEF BackAtMost
  <2>2. SearchInv /\ ParentsFirst /\ BackAtMost(n + 1) /\ [Next]_vars
          => BackAtMost(n + 1)' \/ Finished'
    <3>1. n + 1 \in Nat
      OBVIOUS
    <3>2. BackAtMost(n + 1) => pc = "path"
      BY DEF BackAtMost
    <3> QED BY <3>1, <3>2, BackStays
  <2>3. BackAtMost(n + 1) => ~(pc \in {"startGuide", "finishGuide"})
    BY DEF BackAtMost
  <2> QED BY <2>1, <2>2, <2>3, SearchInvariance, ParentsAreFirst, PTL
          DEF BackEnds, Spec, CanSearch
<1>3. Numbers!InductionFor(BackEnds) => \A n \in Nat : BackEnds(n)
  BY <1>1, <1>2 DEF Numbers!InductionFor
<1>4. Numbers!InductionFor(BackEnds) => BackEnds(NodeNum)
  BY <1>3, MapAssumption
<1>5. SearchInv /\ ParentsFirst /\ pc = "path" /\ <<Search>>_vars
        => BackAtMost(NodeNum)' \/ Finished'
  BY BackGoesDown
<1>6. SearchInv /\ ParentsFirst /\ pc = "path" /\ [Next]_vars => (pc = "path")' \/ Finished'
  BY BackStays
<1>7. pc = "path" => ~(pc \in {"startGuide", "finishGuide"})
  OBVIOUS
<1> QED BY <1>4, <1>5, <1>6, <1>7, SearchInvariance, ParentsAreFirst, PTL
        DEF BackEnds, Spec, CanSearch

\* On a map too small for an estimate of 65535 every search ends, with a path or
\* with none, as long as the Guide thread is scheduled.
THEOREM SearchesEnd ==
    ASSUME NEW w, MapIsSmall(w)
    PROVE  Numbers!InductionFor(StepsEnd) /\ Numbers!InductionFor(BackEnds) =>
               (Spec /\ []SearchEnabled => SearchEnds)
<1>1. SearchInv => (pc \in {"startGuide", "finishGuide"} \/ pc \in {"select", "expand", "path"})
  BY DEF SearchInv, TypeOK
<1>2. Spec /\ []SearchEnabled => []CanSearch
  BY <1>1, SearchInvariance, SearchIsNeverStuck, PTL DEF SearchEnabled, CanSearch
<1>3. pc = "select" => pc \in {"select", "expand"}
  OBVIOUS
<1>4. PathFound => pc = "path" \/ Finished
  BY DEF PathFound, Finished
<1>5. Finished => pc = "finishGuide"
  BY DEF Finished
<1> QED BY <1>2, <1>3, <1>4, <1>5, FindPathEnds, WayBackEnds, PTL DEF SearchEnds
=============================================================================
