--------------------------- MODULE ConnPool_proof ---------------------------
(***************************************************************************)
(* The accounts of ConnPool are right for any number of handler threads,   *)
(* any limit and any order of failures, closures and releases.             *)
(***************************************************************************)
EXTENDS ConnPool, SequenceTheorems, FiniteSetTheorems, TLAPS

Distinct(s) == \A i, j \in DOMAIN s : i # j => s[i] # s[j]

Elements(s) == {s[k] : k \in DOMAIN s}

\* A handler has a connection when it works on it, and none before it calls.
HoldsByPc ==
    \A h \in Handlers :
        /\ pc[h] = "idle" => conn[h] = NULL
        /\ pc[h] = "working" => conn[h] # NULL

OwnersDiffer == \A h, k \in Handlers : h # k /\ conn[h] # NULL => conn[h] # conn[k]

\* Whatever is somewhere was made, so the next connection is a new one.
Known ==
    /\ Pooled \subseteq 1 .. created
    /\ InUse \subseteq 1 .. created
    /\ lost \subseteq 1 .. created
    /\ ~ready => created = 0

IInv ==
    /\ TypeOK
    /\ HoldsByPc
    /\ Known
    /\ OneOwner
    /\ CurSizeIsRight
-----------------------------------------------------------------------------
\* The name of no connection is not the name of one.
LEMMA NullIsNoConn == NULL \notin Conns /\ maxSize \in Nat \ {0} /\ MaxCreated \in Nat
BY PoolAssumption DEF NULL, Conns

\* Taking the first of a sequence of different elements takes it away.
LEMMA TailDistinct ==
    ASSUME NEW S, NEW s \in Seq(S), s # <<>>, Distinct(s)
    PROVE  /\ Tail(s) \in Seq(S) /\ Len(Tail(s)) = Len(s) - 1
           /\ Distinct(Tail(s))
           /\ Head(s) \in S /\ Head(s) \in Elements(s)
           /\ Elements(Tail(s)) \subseteq Elements(s) \ {Head(s)}
<1>1. /\ Len(s) \in Nat \ {0} /\ DOMAIN s = 1 .. Len(s)
      /\ Tail(s) \in Seq(S) /\ Len(Tail(s)) = Len(s) - 1
      /\ \A i \in 1 .. Len(s) - 1 : Tail(s)[i] = s[i + 1]
  BY EmptySeq, LenProperties, HeadTailProperties
<1>2. DOMAIN Tail(s) = 1 .. Len(s) - 1
  BY <1>1, LenProperties
<1>3. Head(s) = s[1] /\ Head(s) \in S
  BY HeadTailProperties
<1>4. Distinct(Tail(s))
  <2> SUFFICES ASSUME NEW i \in 1 .. Len(s) - 1, NEW j \in 1 .. Len(s) - 1, i # j
               PROVE  s[i + 1] # s[j + 1]
    BY <1>1, <1>2 DEF Distinct
  <2>1. i + 1 \in DOMAIN s /\ j + 1 \in DOMAIN s /\ i + 1 # j + 1
    BY <1>1
  <2> QED BY <2>1 DEF Distinct
<1>5. Elements(Tail(s)) \subseteq Elements(s) \ {Head(s)}
  <2> SUFFICES ASSUME NEW i \in 1 .. Len(s) - 1
               PROVE  s[i + 1] \in Elements(s) \ {Head(s)}
    BY <1>1, <1>2 DEF Elements
  <2>1. i + 1 \in DOMAIN s /\ 1 \in DOMAIN s /\ i + 1 # 1
    BY <1>1
  <2> QED BY <2>1, <1>3 DEF Distinct, Elements
<1>6. Head(s) \in Elements(s)
  BY <1>1, <1>3 DEF Elements
<1> QED BY <1>1, <1>3, <1>4, <1>5, <1>6

\* Adding a new element to a sequence of different ones.
LEMMA AppendDistinct ==
    ASSUME NEW S, NEW s \in Seq(S), NEW e \in S, e \notin Elements(s), Distinct(s)
    PROVE  /\ Append(s, e) \in Seq(S) /\ Len(Append(s, e)) = Len(s) + 1
           /\ Distinct(Append(s, e))
           /\ Elements(Append(s, e)) = Elements(s) \cup {e}
<1> DEFINE t == Append(s, e)
<1>1. /\ Len(s) \in Nat /\ DOMAIN s = 1 .. Len(s)
      /\ t \in Seq(S) /\ Len(t) = Len(s) + 1
      /\ \A i \in 1 .. Len(s) : t[i] = s[i]
      /\ t[Len(s) + 1] = e
  BY LenProperties, AppendProperties
<1>2. DOMAIN t = 1 .. Len(s) + 1
  BY <1>1, LenProperties
<1> HIDE DEF t
<1>3. \A i \in DOMAIN s : s[i] # e
  BY DEF Elements
<1>4. Distinct(t)
  <2> SUFFICES ASSUME NEW i \in 1 .. Len(s) + 1, NEW j \in 1 .. Len(s) + 1, i # j
               PROVE  t[i] # t[j]
    BY <1>2 DEF Distinct
  <2>1. CASE i \in 1 .. Len(s) /\ j \in 1 .. Len(s)
    BY <2>1, <1>1 DEF Distinct
  <2>2. CASE i = Len(s) + 1
    BY <2>2, <1>1, <1>3
  <2>3. CASE j = Len(s) + 1
    BY <2>3, <1>1, <1>3
  <2> QED BY <2>1, <2>2, <2>3, <1>1
<1>5. Elements(t) = Elements(s) \cup {e}
  <2>1. ASSUME NEW i \in 1 .. Len(s) + 1 PROVE t[i] \in Elements(s) \cup {e}
    BY <1>1 DEF Elements
  <2>2. ASSUME NEW i \in 1 .. Len(s) PROVE s[i] \in Elements(t)
    <3>1. i \in 1 .. Len(s) + 1
      BY <1>1
    <3> QED BY <3>1, <1>1, <1>2 DEF Elements
  <2>3. e \in Elements(t)
    BY <1>1, <1>2 DEF Elements
  <2> QED BY <2>1, <2>2, <2>3, <1>1, <1>2 DEF Elements
<1> QED BY <1>1, <1>4, <1>5 DEF t

\* The sets that are counted are finite.
LEMMA Finite ==
    ASSUME TypeOK
    PROVE  /\ IsFiniteSet(InUse) /\ Cardinality(InUse) \in Nat
           /\ IsFiniteSet(lost) /\ Cardinality(lost) \in Nat
<1>1. IsFiniteSet(Conns)
  BY FS_Interval, NullIsNoConn DEF Conns
<1>2. InUse \subseteq Conns /\ lost \subseteq Conns
  BY DEF TypeOK, InUse
<1> QED BY <1>1, <1>2, FS_Subset, FS_CardinalityType

\* A handler that has none gets connection c, or none: nobody else has it.
LEMMA ReturnsProperties ==
    ASSUME TypeOK, HoldsByPc, OwnersDiffer, NEW h \in Handlers, Calls(h),
           NEW c \in Conns \cup {NULL}, c \notin InUse, Returns(h, c)
    PROVE  /\ conn' \in [Handlers -> Conns \cup {NULL}]
           /\ pc' \in [Handlers -> {"idle", "got", "working", "crashed"}]
           /\ HoldsByPc' /\ OwnersDiffer'
           /\ InUse' = InUse \cup ({c} \ {NULL})
           /\ Cardinality(InUse') = Cardinality(InUse) + (IF c = NULL THEN 0 ELSE 1)
<1> USE DEF Returns, Calls
<1>1. /\ conn' \in [Handlers -> Conns \cup {NULL}]
      /\ pc' \in [Handlers -> {"idle", "got", "working", "crashed"}]
  BY DEF TypeOK
<1>2. conn[h] = NULL /\ conn'[h] = c /\ \A k \in Handlers \ {h} : conn'[k] = conn[k]
  BY DEF HoldsByPc, TypeOK
<1>3. HoldsByPc'
  BY <1>2 DEF HoldsByPc, TypeOK
<1>4. \A k \in Handlers : conn[k] # NULL => conn[k] # c
  BY DEF InUse
<1>5. OwnersDiffer'
  BY <1>2, <1>4 DEF OwnersDiffer
<1>6. InUse' = InUse \cup ({c} \ {NULL})
  BY <1>2 DEF InUse
<1>7. Cardinality(InUse') = Cardinality(InUse) + (IF c = NULL THEN 0 ELSE 1)
  <2>1. CASE c = NULL
    <3>1. InUse' = InUse
      BY <1>6, <2>1
    <3> QED BY <2>1, <3>1, Finite
  <2>2. CASE c # NULL
    <3>1. InUse' = InUse \cup {c}
      BY <1>6, <2>2
    <3> QED BY <2>2, <3>1, Finite, FS_AddElement
  <2> QED BY <2>1, <2>2
<1> QED BY <1>1, <1>3, <1>5, <1>6, <1>7

\* A handler that is done has no connection any more, and nobody has it.
LEMMA EndsProperties ==
    ASSUME TypeOK, HoldsByPc, OwnersDiffer, NEW h \in Handlers, pc[h] = "working",
           conn' = [conn EXCEPT ![h] = NULL], pc' = [pc EXCEPT ![h] = "idle"]
    PROVE  /\ conn' \in [Handlers -> Conns \cup {NULL}]
           /\ pc' \in [Handlers -> {"idle", "got", "working", "crashed"}]
           /\ HoldsByPc' /\ OwnersDiffer'
           /\ conn[h] \in InUse /\ conn[h] \in Conns
           /\ InUse' = InUse \ {conn[h]}
           /\ Cardinality(InUse') = Cardinality(InUse) - 1
<1>1. /\ conn' \in [Handlers -> Conns \cup {NULL}]
      /\ pc' \in [Handlers -> {"idle", "got", "working", "crashed"}]
  BY DEF TypeOK
<1>2. conn'[h] = NULL /\ \A k \in Handlers \ {h} : conn'[k] = conn[k] /\ pc'[k] = pc[k]
  BY DEF TypeOK
<1>3. HoldsByPc' /\ OwnersDiffer'
  BY <1>2 DEF HoldsByPc, OwnersDiffer, TypeOK
<1>4. conn[h] \in InUse /\ conn[h] \in Conns /\ conn[h] # NULL
  BY DEF HoldsByPc, InUse, TypeOK
<1>5. InUse' = InUse \ {conn[h]}
  <2>1. ASSUME NEW k \in Handlers, conn'[k] # NULL
        PROVE  conn'[k] \in InUse \ {conn[h]}
    BY <2>1, <1>2, <1>4 DEF InUse, OwnersDiffer
  <2>2. ASSUME NEW k \in Handlers, conn[k] # NULL, conn[k] # conn[h]
        PROVE  conn[k] \in InUse'
    BY <2>2, <1>2 DEF InUse
  <2> QED BY <2>1, <2>2 DEF InUse
<1>6. Cardinality(InUse') = Cardinality(InUse) - 1
  BY <1>4, <1>5, Finite, FS_RemoveElement
<1> QED BY <1>1, <1>3, <1>4, <1>5, <1>6
-----------------------------------------------------------------------------
\* OneOwner in the terms of the lemmas above.
LEMMA OneOwnerParts ==
    OneOwner <=> /\ Distinct(connList)
                 /\ OwnersDiffer
                 /\ Pooled \cap InUse = {}
                 /\ lost \cap (Pooled \cup InUse) = {}
BY DEF OneOwner, Distinct, OwnersDiffer

\* Before the constructor there is no connection and no handler works.
LEMMA InitIInv == Init => IInv
<1> SUFFICES ASSUME Init PROVE IInv
  OBVIOUS
<1>1. DOMAIN connList = {} /\ connList \in Seq(Conns) /\ Len(connList) = 0
  BY EmptySeq DEF Init
<1>2. Pooled = {} /\ InUse = {} /\ lost = {}
  BY <1>1 DEF Init, Pooled, InUse
<1>3. TypeOK
  <2>1. ready \in BOOLEAN
    BY Zenon DEF Init
  <2>2. created \in 0 .. MaxCreated /\ curSize \in Int
    BY NullIsNoConn DEF Init
  <2> QED BY <1>1, <2>1, <2>2 DEF Init, TypeOK
<1>4. CurSizeIsRight
  BY <1>1, <1>2, FS_EmptySet, NullIsNoConn DEF Init, CurSizeIsRight
<1>5. OneOwner
  BY <1>1, <1>2 DEF Init, OneOwner
<1> QED BY <1>2, <1>3, <1>4, <1>5 DEF Init, IInv, HoldsByPc, Known

\* The constructor makes the pool and its count agree.
LEMMA ConstructIInv == IInv /\ Construct => IInv'
<1> SUFFICES ASSUME IInv, Construct PROVE IInv'
  OBVIOUS
<1> USE DEF IInv
<1>1. PICK n \in 0 .. maxSize \div 2 :
        n <= MaxCreated /\ created' = n /\ curSize' = n /\ connList' = [k \in 1 .. n |-> k]
  BY DEF Construct
<1>2. n \in Nat /\ n <= maxSize /\ maxSize \div 2 \in Nat
  BY NullIsNoConn
<1>3. created = 0 /\ ready' = TRUE /\ UNCHANGED <<conn, pc, closed, lost>>
  BY DEF Construct, Known
<1>4. InUse = {} /\ lost = {}
  BY <1>3 DEF Known
<1>5. connList' \in Seq(Conns) /\ Len(connList') = n /\ DOMAIN connList' = 1 .. n
  <2>1. connList' \in [1 .. n -> Conns]
    BY <1>1, <1>2, NullIsNoConn DEF Conns
  <2>2. connList' \in Seq(Conns)
    BY <2>1, <1>2, SeqDef
  <2>3. DOMAIN connList' = 1 .. n /\ DOMAIN connList' = 1 .. Len(connList')
    BY <2>1, <2>2, LenProperties
  <2> QED BY <2>2, <2>3, <1>2, LenProperties
<1>6. Pooled' = 1 .. n /\ InUse' = {} /\ lost' = {}
  BY <1>1, <1>3, <1>4, <1>5 DEF Pooled, InUse
<1>7. TypeOK'
  <2>1. ready' \in BOOLEAN
    BY <1>3, Zenon
  <2> QED BY <2>1, <1>1, <1>2, <1>3, <1>5 DEF TypeOK
<1>8. OneOwner'
  <2>1. Distinct(connList)'
    BY <1>1, <1>5 DEF Distinct
  <2> QED BY <2>1, <1>3, <1>6 DEF OneOwner, Distinct
<1>9. CurSizeIsRight'
  BY <1>1, <1>2, <1>5, <1>6, FS_EmptySet, NullIsNoConn DEF CurSizeIsRight
<1> QED BY <1>1, <1>3, <1>6, <1>7, <1>8, <1>9 DEF HoldsByPc, Known
\* What the actions below use of the invariant.
LEMMA IInvParts ==
    ASSUME IInv
    PROVE  /\ Len(connList) \in Nat /\ curSize \in Int /\ created \in 0 .. MaxCreated
           /\ connList \in Seq(Conns) /\ Distinct(connList)
           /\ Pooled = Elements(connList)
           /\ OwnersDiffer
           /\ Cardinality(InUse) \in Nat /\ Cardinality(lost) \in Nat
           /\ NULL \notin InUse
<1>1. TypeOK /\ OneOwner
  BY DEF IInv
<1>2. Pooled = Elements(connList)
  BY DEF Pooled, Elements
<1>3. NULL \notin InUse
  BY DEF InUse
<1> QED BY <1>1, <1>2, <1>3, OneOwnerParts, Finite, LenProperties DEF TypeOK

\* A connection CreateConnection made is in no place yet.
LEMMA NewConnection ==
    ASSUME IInv, NEW c \in Conns \cup {NULL}, CreateConnection(c)
    PROVE  /\ created' \in 0 .. MaxCreated /\ created <= created'
           /\ c \notin InUse
           /\ c # NULL => c = created' /\ c \notin Pooled \cup InUse \cup lost
<1>1. created \in 0 .. MaxCreated /\ NULL \notin InUse
  BY IInvParts
<1>2. CASE created < MaxCreated /\ c = created + 1 /\ created' = c
  BY <1>1, <1>2, NullIsNoConn DEF IInv, Known
<1>3. CASE c = NULL /\ created' = created
  BY <1>1, <1>3
<1> QED BY <1>2, <1>3 DEF CreateConnection

\* GetConnection with a connection in the pool: the handler gets it, or what
\* replaces it, and the pool counts one less if nothing does.
LEMMA TakeFromPool ==
    ASSUME IInv, NEW h \in Handlers, Calls(h), connList # <<>>,
           NEW c \in Conns \cup {NULL}, Returns(h, c), connList' = Tail(connList),
           \/ c = Head(connList) /\ created' = created
           \/ CreateConnection(c),
           curSize' = IF c = NULL THEN curSize - 1 ELSE curSize,
           UNCHANGED <<ready, closed, lost>>
    PROVE  IInv'
<1> USE DEF IInv
<1>1. /\ Tail(connList) \in Seq(Conns) /\ Len(Tail(connList)) = Len(connList) - 1
      /\ Distinct(Tail(connList))
      /\ Head(connList) \in Conns /\ Head(connList) \in Pooled
      /\ Pooled' \subseteq Pooled \ {Head(connList)}
  <2>1. /\ Tail(connList) \in Seq(Conns) /\ Len(Tail(connList)) = Len(connList) - 1
        /\ Distinct(Tail(connList))
        /\ Head(connList) \in Conns /\ Head(connList) \in Elements(connList)
        /\ Elements(Tail(connList)) \subseteq Elements(connList) \ {Head(connList)}
    BY IInvParts, TailDistinct
  <2>2. Pooled' = Elements(Tail(connList))
    BY DEF Pooled, Elements
  <2> QED BY <2>1, <2>2, IInvParts
<1>2. /\ created' \in 0 .. MaxCreated /\ created <= created'
      /\ c \notin InUse
      /\ c # NULL => c \in 1 .. created' /\ c \notin Pooled' \cup lost
  <2>1. CASE c = Head(connList) /\ created' = created
    <3>1. c \in Pooled /\ c \notin InUse /\ c \notin lost /\ c \notin Pooled'
      BY <2>1, <1>1 DEF OneOwner
    <3>2. c \in 1 .. created'
      BY <2>1, <3>1 DEF Known
    <3> QED BY <2>1, <3>1, <3>2, IInvParts
  <2>2. CASE CreateConnection(c)
    BY <2>2, <1>1, NewConnection, IInvParts, NullIsNoConn DEF Conns, NULL
  <2> QED BY <2>1, <2>2
<1>3. /\ conn' \in [Handlers -> Conns \cup {NULL}]
      /\ pc' \in [Handlers -> {"idle", "got", "working", "crashed"}]
      /\ HoldsByPc' /\ OwnersDiffer'
      /\ InUse' = InUse \cup ({c} \ {NULL})
      /\ Cardinality(InUse') = Cardinality(InUse) + (IF c = NULL THEN 0 ELSE 1)
  BY <1>2, ReturnsProperties, IInvParts
<1>4. TypeOK'
  <2>1. ready' \in BOOLEAN
    BY Zenon DEF TypeOK
  <2>2. curSize' \in Int
    BY IInvParts
  <2> QED BY <2>1, <2>2, <1>1, <1>2, <1>3 DEF TypeOK
<1>5. Known'
  <2>1. 1 .. created \subseteq 1 .. created'
    BY <1>2, IInvParts
  <2>2. ready'
    BY DEF Calls
  <2> QED BY <2>1, <2>2, <1>1, <1>2, <1>3 DEF Known
<1>6. OneOwner'
  <2>1. Distinct(connList)' /\ OwnersDiffer'
    BY <1>1, <1>3 DEF Distinct
  <2>2. Pooled' \cap InUse' = {}
    BY <1>1, <1>2, <1>3 DEF OneOwner
  <2>3. lost' \cap (Pooled' \cup InUse') = {}
    BY <1>1, <1>2, <1>3 DEF OneOwner
  <2> QED BY <2>1, <2>2, <2>3 DEF OneOwner, Distinct, OwnersDiffer
<1>7. CurSizeIsRight'
  BY <1>1, <1>3, IInvParts, NullIsNoConn DEF CurSizeIsRight
<1> QED BY <1>3, <1>4, <1>5, <1>6, <1>7

\* GetConnection with an empty pool: the handler gets a new connection or none.
LEMMA TakeNew ==
    ASSUME IInv, NEW h \in Handlers, Calls(h),
           NEW c \in Conns \cup {NULL}, Returns(h, c),
           \/ CreateConnection(c) /\ curSize < maxSize
           \/ c = NULL /\ created' = created,
           curSize' = IF c = NULL THEN curSize ELSE curSize + 1,
           UNCHANGED <<ready, connList, closed, lost>>
    PROVE  IInv'
<1> USE DEF IInv
<1>1. Pooled' = Pooled
  BY DEF Pooled
<1>2. /\ created' \in 0 .. MaxCreated /\ created <= created'
      /\ c \notin InUse
      /\ c # NULL => c \in 1 .. created' /\ c \notin Pooled \cup lost
  <2>1. CASE c = NULL /\ created' = created
    BY <2>1, IInvParts
  <2>2. CASE CreateConnection(c)
    BY <2>2, NewConnection, IInvParts, NullIsNoConn DEF Conns, NULL
  <2> QED BY <2>1, <2>2
<1>3. /\ conn' \in [Handlers -> Conns \cup {NULL}]
      /\ pc' \in [Handlers -> {"idle", "got", "working", "crashed"}]
      /\ HoldsByPc' /\ OwnersDiffer'
      /\ InUse' = InUse \cup ({c} \ {NULL})
      /\ Cardinality(InUse') = Cardinality(InUse) + (IF c = NULL THEN 0 ELSE 1)
  BY <1>2, ReturnsProperties, IInvParts
<1>4. TypeOK'
  <2>1. ready' \in BOOLEAN
    BY Zenon DEF TypeOK
  <2>2. curSize' \in Int
    BY IInvParts
  <2> QED BY <2>1, <2>2, <1>2, <1>3 DEF TypeOK
<1>5. Known'
  <2>1. 1 .. created \subseteq 1 .. created'
    BY <1>2, IInvParts
  <2>2. ready'
    BY DEF Calls
  <2> QED BY <2>1, <2>2, <1>1, <1>2, <1>3 DEF Known
<1>6. OneOwner'
  <2>1. Distinct(connList)'
    BY IInvParts DEF Distinct
  <2>2. Pooled' \cap InUse' = {} /\ lost' \cap (Pooled' \cup InUse') = {}
    BY <1>1, <1>2, <1>3 DEF OneOwner
  <2> QED BY <2>1, <2>2, <1>3 DEF OneOwner, Distinct, OwnersDiffer
<1>7. CurSizeIsRight'
  BY <1>3, IInvParts, NullIsNoConn DEF CurSizeIsRight
<1> QED BY <1>3, <1>4, <1>5, <1>6, <1>7

\* A connection goes back to the pool.
LEMMA ReleaseIInv ==
    ASSUME IInv, NEW h \in Handlers, ReleaseConnection(h)
    PROVE  IInv'
<1> USE DEF IInv, ReleaseConnection
<1> DEFINE c == conn[h]
<1>1. /\ conn' \in [Handlers -> Conns \cup {NULL}]
      /\ pc' \in [Handlers -> {"idle", "got", "working", "crashed"}]
      /\ HoldsByPc' /\ OwnersDiffer'
      /\ c \in InUse /\ c \in Conns
      /\ InUse' = InUse \ {c}
      /\ Cardinality(InUse') = Cardinality(InUse) - 1
  BY EndsProperties, IInvParts
<1>2. c \notin Pooled
  BY <1>1 DEF OneOwner
<1>3. /\ connList' \in Seq(Conns) /\ Len(connList') = Len(connList) + 1
      /\ Distinct(connList')
      /\ Pooled' = Pooled \cup {c}
  BY <1>1, <1>2, IInvParts, AppendDistinct DEF Pooled, Elements
<1>4. TypeOK'
  <2>1. ready' \in BOOLEAN
    BY Zenon DEF TypeOK
  <2> QED BY <2>1, <1>1, <1>3 DEF TypeOK
<1>5. Known'
  BY <1>1, <1>3 DEF Known
<1>6. OneOwner'
  <2>1. Pooled' \cap InUse' = {} /\ lost' \cap (Pooled' \cup InUse') = {}
    BY <1>1, <1>3 DEF OneOwner
  <2> QED BY <2>1, <1>1, <1>3 DEF OneOwner, Distinct, OwnersDiffer
<1>7. CurSizeIsRight'
  BY <1>1, <1>3, IInvParts DEF CurSizeIsRight
<1> QED BY <1>1, <1>4, <1>5, <1>6, <1>7

\* A connection is lost: it moves from those in use to those that nobody has.
LEMMA ThrowsIInv ==
    ASSUME IInv, NEW h \in Handlers, HandlerThrows(h)
    PROVE  IInv'
<1> USE DEF IInv, HandlerThrows
<1> DEFINE c == conn[h]
<1>1. /\ conn' \in [Handlers -> Conns \cup {NULL}]
      /\ pc' \in [Handlers -> {"idle", "got", "working", "crashed"}]
      /\ HoldsByPc' /\ OwnersDiffer'
      /\ c \in InUse /\ c \in Conns
      /\ InUse' = InUse \ {c}
      /\ Cardinality(InUse') = Cardinality(InUse) - 1
  BY EndsProperties, IInvParts
<1>2. c \notin Pooled /\ c \notin lost
  BY <1>1 DEF OneOwner
<1>3. Cardinality(lost') = Cardinality(lost) + 1
  BY <1>2, Finite, FS_AddElement
<1>4. Pooled' = Pooled
  BY DEF Pooled
<1>5. TypeOK'
  <2>1. ready' \in BOOLEAN
    BY Zenon DEF TypeOK
  <2> QED BY <2>1, <1>1 DEF TypeOK
<1>6. Known'
  BY <1>1, <1>4 DEF Known
<1>7. OneOwner'
  <2>1. Pooled' \cap InUse' = {} /\ lost' \cap (Pooled' \cup InUse') = {}
    BY <1>1, <1>2, <1>4 DEF OneOwner
  <2>2. Distinct(connList)'
    BY IInvParts DEF Distinct
  <2> QED BY <2>1, <2>2, <1>1 DEF OneOwner, Distinct, OwnersDiffer
<1>8. CurSizeIsRight'
  BY <1>1, <1>3, IInvParts DEF CurSizeIsRight
<1> QED BY <1>1, <1>5, <1>6, <1>7, <1>8

\* setSchema and the database server move no connection.
LEMMA OthersIInv ==
    ASSUME IInv, (\E h \in Handlers : SetSchema(h)) \/ ServerCloses \/ UNCHANGED vars
    PROVE  IInv'
<1> USE DEF IInv
<1>1. UNCHANGED <<ready, curSize, connList, conn, created, lost>>
  BY DEF SetSchema, ServerCloses, vars
<1>2. /\ pc' \in [Handlers -> {"idle", "got", "working", "crashed"}]
      /\ HoldsByPc'
  <2>1. ASSUME NEW h \in Handlers, SetSchema(h)
        PROVE  /\ pc' \in [Handlers -> {"idle", "got", "working", "crashed"}]
               /\ HoldsByPc'
    BY <2>1, <1>1 DEF SetSchema, HoldsByPc, TypeOK
  <2>2. CASE ServerCloses \/ UNCHANGED vars
    BY <2>2, <1>1 DEF ServerCloses, vars, HoldsByPc, TypeOK
  <2> QED BY <2>1, <2>2
<1>3. closed' \subseteq Conns
  <2>1. CASE ServerCloses
    <3>1. PICK c \in 1 .. created : closed' = closed \cup {c}
      BY <2>1 DEF ServerCloses
    <3>2. c \in Conns
      BY IInvParts, NullIsNoConn DEF Conns
    <3> QED BY <3>1, <3>2 DEF TypeOK
  <2>2. CASE (\E h \in Handlers : SetSchema(h)) \/ UNCHANGED vars
    BY <2>2 DEF SetSchema, vars, TypeOK
  <2> QED BY <2>1, <2>2
<1>4. InUse' = InUse /\ Pooled' = Pooled
  BY <1>1 DEF InUse, Pooled
<1>5. TypeOK'
  <2>1. ready' \in BOOLEAN
    BY <1>1, Zenon DEF TypeOK
  <2> QED BY <2>1, <1>1, <1>2, <1>3 DEF TypeOK
<1>6. Known' /\ OneOwner' /\ CurSizeIsRight'
  BY <1>1, <1>4 DEF Known, OneOwner, CurSizeIsRight
<1> QED BY <1>2, <1>5, <1>6
-----------------------------------------------------------------------------
\* The conjunction of the above is an invariant.
THEOREM PoolInvariance == Spec => []IInv
<1>1. IInv /\ [Next]_vars => IInv'
  <2> SUFFICES ASSUME IInv, [Next]_vars PROVE IInv'
    OBVIOUS
  <2>1. CASE Construct
    BY <2>1, ConstructIInv
  <2>2. ASSUME NEW h \in Handlers, GetOpen(h) PROVE IInv'
    <3>1. Head(connList) \in Conns /\ Head(connList) # NULL
      BY <2>2, IInvParts, HeadTailProperties, NullIsNoConn DEF GetOpen
    <3> QED BY <2>2, <3>1, TakeFromPool DEF GetOpen
  <2>3. ASSUME NEW h \in Handlers, ReplaceClosed(h) PROVE IInv'
    <3>1. PICK c \in Conns \cup {NULL} :
            /\ CreateConnection(c)
            /\ Returns(h, c)
            /\ curSize' = IF c = NULL THEN curSize - 1 ELSE curSize
      BY <2>3 DEF ReplaceClosed
    <3> QED BY <2>3, <3>1, TakeFromPool DEF ReplaceClosed
  <2>4. ASSUME NEW h \in Handlers, GetNew(h) PROVE IInv'
    <3>1. PICK c \in Conns \cup {NULL} :
            /\ CreateConnection(c)
            /\ Returns(h, c)
            /\ curSize' = IF c = NULL THEN curSize ELSE curSize + 1
      BY <2>4 DEF GetNew
    <3> QED BY <2>4, <3>1, TakeNew DEF GetNew
  <2>5. ASSUME NEW h \in Handlers, GetNone(h) PROVE IInv'
    BY <2>5, TakeNew DEF GetNone
  <2>6. ASSUME NEW h \in Handlers, ReleaseConnection(h) PROVE IInv'
    BY <2>6, ReleaseIInv
  <2>7. ASSUME NEW h \in Handlers, HandlerThrows(h) PROVE IInv'
    BY <2>7, ThrowsIInv
  <2>8. CASE (\E h \in Handlers : SetSchema(h)) \/ ServerCloses \/ UNCHANGED vars
    BY <2>8, OthersIInv
  <2> QED BY <2>1, <2>2, <2>3, <2>4, <2>5, <2>6, <2>7, <2>8 DEF Next, Crashed
<1> QED BY InitIInv, <1>1, PTL DEF Spec

\* The pool's variables keep their types.
THEOREM PoolTypeCorrect == Spec => []TypeOK
<1>1. IInv => TypeOK
  BY DEF IInv
<1> QED BY PoolInvariance, <1>1, PTL

\* curSize counts the connections there are, and never more than maxSize,
\* through failed connects, closed connections and lost ones.
THEOREM SizeIsRight == Spec => []CurSizeIsRight
<1>1. IInv => CurSizeIsRight
  BY DEF IInv
<1> QED BY PoolInvariance, <1>1, PTL

\* No connection is ever in two hands, or in the pool and in use.
THEOREM OwnersAreOne == Spec => []OneOwner
<1>1. IInv => OneOwner
  BY DEF IInv
<1> QED BY PoolInvariance, <1>1, PTL
=============================================================================
