------------------------ MODULE RequestService_proof ------------------------
(***************************************************************************)
(* Proofs about RequestService: what the service promises is an invariant  *)
(* of it, for any users, requests and answers.  Every implementation of    *)
(* the service inherits the invariant.                                     *)
(***************************************************************************)
EXTENDS RequestService, SequenceTheorems, FiniteSetTheorems, TLAPS

Answers == {AnswerTo(r) : r \in Requests}

TypeOK ==
    /\ asked \in Seq(Requests)
    /\ answered \in Nat
    /\ results \in [Users -> Seq(Answers)]

Inv == TypeOK /\ Conserved

\* The places of a user's requests are finitely many, and counted by a number.
LEMMA AskedByFinite ==
    ASSUME NEW u, NEW n \in Nat
    PROVE  /\ IsFiniteSet(AskedBy(u, n))
           /\ Cardinality(AskedBy(u, n)) \in Nat
<1>1. IsFiniteSet(1 .. n)
  BY FS_Interval
<1>2. AskedBy(u, n) \subseteq 1 .. n
  BY DEF AskedBy
<1> QED BY <1>1, <1>2, FS_Subset, FS_CardinalityType

\* The request at n is counted among the first n exactly if it is the user's.
LEMMA AskedByNext ==
    ASSUME NEW u, NEW n \in Nat
    PROVE  /\ AskedBy(u, n + 1) =
                IF asked[n + 1].id = u THEN AskedBy(u, n) \cup {n + 1} ELSE AskedBy(u, n)
           /\ Cardinality(AskedBy(u, n + 1)) =
                Cardinality(AskedBy(u, n)) + IF asked[n + 1].id = u THEN 1 ELSE 0
<1>1. AskedBy(u, n + 1) =
        IF asked[n + 1].id = u THEN AskedBy(u, n) \cup {n + 1} ELSE AskedBy(u, n)
  BY DEF AskedBy
<1>2. n + 1 \notin AskedBy(u, n)
  BY DEF AskedBy
<1>3. Cardinality(AskedBy(u, n) \cup {n + 1}) = Cardinality(AskedBy(u, n)) + 1
  BY <1>2, AskedByFinite, FS_AddElement
<1> QED BY <1>1, <1>3, AskedByFinite

\* A request of the user is counted at a place that exists among his results.
LEMMA RankInRange ==
    ASSUME NEW u, NEW n \in Nat, NEW k \in AskedBy(u, n)
    PROVE  Cardinality(AskedBy(u, k)) \in 1 .. Cardinality(AskedBy(u, n))
<1>1. k \in 1 .. n /\ k \in Nat /\ k \in AskedBy(u, k)
  BY DEF AskedBy
<1>2. AskedBy(u, k) \subseteq AskedBy(u, n)
  BY <1>1 DEF AskedBy
<1>3. Cardinality(AskedBy(u, k)) <= Cardinality(AskedBy(u, n))
  BY <1>2, AskedByFinite, FS_Subset
<1>4. Cardinality(AskedBy(u, k)) # 0
  BY <1>1, AskedByFinite, FS_EmptySet
<1> QED BY <1>1, <1>3, <1>4, AskedByFinite

\* The empty log conserves everything.
LEMMA InitInv == Init => Inv
<1> SUFFICES ASSUME Init
             PROVE  Inv
  OBVIOUS
<1>1. asked = <<>> /\ answered = 0 /\ results = [u \in Users |-> <<>>]
  BY DEF Init
<1>2. TypeOK
  BY <1>1, EmptySeq DEF TypeOK
<1>3. \A u : AskedBy(u, 0) = {}
  BY DEF AskedBy
<1>4. Len(<<>>) = 0 /\ Cardinality({}) = 0
  BY EmptySeq, FS_EmptySet
<1>5. \A u \in Users : /\ Len(results[u]) = 0
                       /\ AskedBy(u, answered) = {}
                       /\ Cardinality(AskedBy(u, answered)) = 0
  BY <1>1, <1>3, <1>4
<1>6. answered <= Len(asked)
  BY <1>1, <1>4
<1>7. Conserved
  BY <1>5, <1>6 DEF Conserved
<1> QED BY <1>2, <1>7 DEF Inv

\* A new request changes nothing for those already answered.
LEMMA AskKeeps ==
    ASSUME Inv, NEW r \in Requests, Ask(r)
    PROVE  Inv'
<1> USE DEF Inv, TypeOK
<1>1. /\ asked' \in Seq(Requests)
      /\ Len(asked') = Len(asked) + 1
      /\ \A k \in 1 .. Len(asked) : asked'[k] = asked[k]
      /\ Len(asked) \in Nat
  BY AppendProperties, LenProperties DEF Ask
<1>2. TypeOK'
  BY <1>1 DEF Ask
<1>3. answered <= Len(asked)
  BY DEF Conserved
<1>4. \A u : \A n \in 0 .. answered : AskedBy(u, n)' = AskedBy(u, n)
  BY <1>1, <1>3 DEF AskedBy, Ask
<1>5. answered' = answered /\ results' = results
  BY DEF Ask
<1>6. ASSUME NEW u \in Users
      PROVE  /\ Len(results'[u]) = Cardinality(AskedBy(u, answered))'
             /\ \A k \in AskedBy(u, answered)' :
                  results'[u][Cardinality(AskedBy(u, k))'] = AnswerTo(asked'[k])
  <2>1. AskedBy(u, answered)' = AskedBy(u, answered)
    BY <1>4, <1>5
  <2>2. ASSUME NEW k \in AskedBy(u, answered)
        PROVE  k \in 0 .. answered /\ k \in 1 .. Len(asked)
    BY <1>1, <1>3 DEF AskedBy
  <2> QED BY <1>1, <1>4, <1>5, <2>1, <2>2 DEF Conserved
<1>7. Conserved'
  BY <1>1, <1>3, <1>5, <1>6 DEF Conserved
<1> QED BY <1>2, <1>7

\* An answer gives the one who asked one more result, the one for his request.
LEMMA AnswerKeeps ==
    ASSUME \A r \in Requests : r.id \in Users, Inv, Answer
    PROVE  Inv'
<1> USE DEF Inv, TypeOK
<1> DEFINE n == answered + 1
           r == asked[n]
<1>1. n \in 1 .. Len(asked) /\ Len(asked) \in Nat /\ answered' = n /\ asked' = asked
  BY LenProperties DEF Answer
<1>2. r \in Requests /\ r.id \in Users /\ AnswerTo(r) \in Answers
  BY <1>1, ElementOfSeq DEF Answers
<1>3. results' = [results EXCEPT ![r.id] = Append(@, AnswerTo(r))]
  BY DEF Answer
<1>4. \A u, m : AskedBy(u, m)' = AskedBy(u, m)
  BY <1>1 DEF AskedBy
<1> HIDE DEF r
<1>5. TypeOK'
  BY <1>1, <1>2, <1>3, AppendProperties
<1>6. ASSUME NEW u \in Users
      PROVE  /\ Len(results'[u]) = Cardinality(AskedBy(u, n))
             /\ \A k \in AskedBy(u, n) :
                  results'[u][Cardinality(AskedBy(u, k))] = AnswerTo(asked[k])
  <2>1. /\ AskedBy(u, n) = IF r.id = u THEN AskedBy(u, answered) \cup {n}
                           ELSE AskedBy(u, answered)
        /\ Cardinality(AskedBy(u, n)) =
             Cardinality(AskedBy(u, answered)) + IF r.id = u THEN 1 ELSE 0
    BY AskedByNext DEF r
  <2>2. /\ Len(results[u]) = Cardinality(AskedBy(u, answered))
        /\ \A k \in AskedBy(u, answered) :
             /\ results[u][Cardinality(AskedBy(u, k))] = AnswerTo(asked[k])
             /\ Cardinality(AskedBy(u, k)) \in 1 .. Len(results[u])
    BY RankInRange DEF Conserved
  <2>3. results[u] \in Seq(Answers) /\ Len(results[u]) \in Nat
    BY LenProperties
  <2>4. CASE r.id # u
    <3>1. results'[u] = results[u]
      BY <1>3, <2>4
    <3> QED BY <2>1, <2>2, <2>4, <3>1
  <2>5. CASE r.id = u
    <3>1. results'[u] = Append(results[u], AnswerTo(r))
      BY <1>2, <1>3, <2>5
    <3>2. /\ Len(results'[u]) = Len(results[u]) + 1
          /\ \A i \in 1 .. Len(results[u]) : results'[u][i] = results[u][i]
          /\ results'[u][Len(results[u]) + 1] = AnswerTo(r)
      BY <1>2, <2>3, <3>1, AppendProperties
    <3>3. Len(results'[u]) = Cardinality(AskedBy(u, n))
      BY <2>1, <2>2, <2>5, <3>2
    <3>4. ASSUME NEW k \in AskedBy(u, n)
          PROVE  results'[u][Cardinality(AskedBy(u, k))] = AnswerTo(asked[k])
      <4>1. CASE k = n
        BY <2>1, <2>2, <2>5, <3>2, <4>1 DEF r
      <4>2. CASE k # n
        <5>1. k \in AskedBy(u, answered)
          BY <2>1, <2>5, <3>4, <4>2
        <5> QED BY <2>2, <3>2, <5>1
      <4> QED BY <4>1, <4>2
    <3> QED BY <3>3, <3>4
  <2> QED BY <2>4, <2>5
<1> HIDE DEF n
<1>7. Conserved'
  BY <1>1, <1>4, <1>6 DEF Conserved
<1> QED BY <1>5, <1>7

\* A service that stops keeps what it has.
LEMMA StopKeeps ==
    ASSUME Inv, UNCHANGED <<asked, answered, results>>
    PROVE  Inv'
<1>1. TypeOK'
  BY DEF Inv, TypeOK
<1>2. \A u, n : AskedBy(u, n)' = AskedBy(u, n)
  BY DEF AskedBy
<1>3. Conserved'
  BY <1>2 DEF Inv, Conserved
<1> QED BY <1>1, <1>3 DEF Inv

\* Every user always has exactly one result for each answered request of his,
\* in the order he asked, as long as requests carry the ids of users.
THEOREM Conservation ==
    ASSUME \A r \in Requests : r.id \in Users
    PROVE  Spec => []Conserved
<1>1. Inv /\ [Next]_vars => Inv'
  <2> SUFFICES ASSUME Inv, [Next]_vars
               PROVE  Inv'
    OBVIOUS
  <2>1. ASSUME NEW r \in Requests, Ask(r)
        PROVE  Inv'
    BY <2>1, AskKeeps
  <2>2. CASE Answer
    BY <2>2, AnswerKeeps
  <2>3. CASE Stop
    BY <2>3, StopKeeps DEF Stop
  <2>4. CASE UNCHANGED vars
    BY <2>4, StopKeeps DEF vars
  <2> QED BY <2>1, <2>2, <2>3, <2>4 DEF Next
<1>2. Inv => Conserved
  BY DEF Inv
<1> QED BY InitInv, <1>1, <1>2, PTL DEF Spec
=============================================================================
