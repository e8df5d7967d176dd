------------------------ MODULE LocationServer_proof ------------------------
(***************************************************************************)
(* Proofs about LocationServer, for every value of its constants.          *)
(***************************************************************************)
EXTENDS LocationServer, SequenceTheorems, TLAPS

Numbers == INSTANCE Naturals_proof WITH P <- LAMBDA n : TRUE

-----------------------------------------------------------------------------
(* The operators the model is built from.                                  *)

\* A queue of results that is lengthened and pushed to is one again.
LEMMA PushResultType ==
    ASSUME NEW S, NEW vec \in Seq(Seq(S)), NEW id \in Nat, NEW value \in S
    PROVE  PushResult(vec, id, value) \in Seq(Seq(S))
<1> DEFINE n == IF id < Len(vec) THEN Len(vec) ELSE id + 1
<1>1. n \in Nat /\ id + 1 \in 1 .. n
  BY LenProperties
<1>2. Grown(vec, id) \in [1 .. n -> Seq(S)]
  <2> SUFFICES ASSUME NEW k \in 1 .. n
               PROVE  (IF k <= Len(vec) THEN vec[k] ELSE <<>>) \in Seq(S)
    BY DEF Grown
  <2>1. CASE k <= Len(vec)
    BY <2>1, <1>1, ElementOfSeq, LenProperties
  <2>2. CASE ~(k <= Len(vec))
    BY <2>2, EmptySeq
  <2> QED BY <2>1, <2>2
<1>3. Append(Grown(vec, id)[id + 1], value) \in Seq(S)
  BY <1>1, <1>2, AppendProperties
<1>4. PushResult(vec, id, value) \in [1 .. n -> Seq(S)]
  BY <1>2, <1>3 DEF PushResult
<1>5. PushResult(vec, id, value) \in UNION {[1 .. m -> Seq(S)] : m \in Nat}
  <2> HIDE DEF n
  <2> QED BY <1>1, <1>4
<1> QED BY <1>5, SeqDef

\* Taking out the element at k keeps the others in their order.
LEMMA RemoveAtProperties ==
    ASSUME NEW S, NEW s \in Seq(S), NEW k \in 1 .. Len(s)
    PROVE  /\ RemoveAt(s, k) \in Seq(S)
           /\ Len(RemoveAt(s, k)) = Len(s) - 1
           /\ \A i \in 1 .. Len(s) - 1 :
                RemoveAt(s, k)[i] = IF i < k THEN s[i] ELSE s[i + 1]
<1> DEFINE a == SubSeq(s, 1, k - 1)
           b == SubSeq(s, k + 1, Len(s))
<1>0. Len(s) \in Nat
  BY LenProperties
<1>1. a \in Seq(S) /\ Len(a) = k - 1 /\ \A i \in 1 .. k - 1 : a[i] = s[i]
  BY <1>0, SubSeqProperties
<1>2. b \in Seq(S) /\ Len(b) = Len(s) - k
  BY <1>0, SubSeqProperties
<1>3. \A i \in 1 .. Len(s) - k : b[i] = s[i + k]
  BY <1>0, SubSeqProperties
<1> HIDE DEF a, b
<1>4. /\ a \o b \in Seq(S)
      /\ Len(a \o b) = Len(a) + Len(b)
      /\ \A i \in 1 .. Len(a) + Len(b) :
           (a \o b)[i] = IF i <= Len(a) THEN a[i] ELSE b[i - Len(a)]
  BY <1>1, <1>2, ConcatProperties
<1>5. \A i \in 1 .. Len(s) - 1 : (a \o b)[i] = IF i < k THEN s[i] ELSE s[i + 1]
  <2> TAKE i \in 1 .. Len(s) - 1
  <2>1. CASE i < k
    BY <2>1, <1>0, <1>1, <1>2, <1>4
  <2>2. CASE ~(i < k)
    <3>1. i - (k - 1) \in 1 .. Len(s) - k
      BY <2>2, <1>0
    <3>2. b[i - (k - 1)] = s[i + 1]
      BY <3>1, <1>3, <1>0
    <3> QED BY <2>2, <3>2, <1>0, <1>1, <1>2, <1>4
  <2> QED BY <2>1, <2>2
<1>6. RemoveAt(s, k) = a \o b
  BY DEF RemoveAt, a, b
<1>7. Len(a \o b) = Len(s) - 1
  BY <1>0, <1>1, <1>2, <1>4
<1> QED BY <1>4, <1>5, <1>6, <1>7

\* What a client sends, or what DataHandle makes of it, has these fields.
LEMMA JsonFields ==
    ASSUME NEW value \in Requests \cup Unparsable
    PROVE  /\ value.typecode \in TypeCodes
           /\ value.username \in Names \cup {""}
           /\ value.rssi \in Rssi \cup {Null}
           /\ value.sour \in Places \cup {Null}
           /\ value.dest \in Places \cup {Null}
  BY DEF Requests, Unparsable, Json, TypeCodes
-----------------------------------------------------------------------------
(* The inductive invariant.                                                *)

\* What the event loop can be doing follows from where the main thread is.
LoopFollowsMain ==
    /\ mainPc = "Init" => loop = "idle"
    /\ mainPc = "Listen" => loop # "idle"
    /\ mainPc \notin {"Init", "Listen"} => loop # "dispatch"
    /\ loop # "dispatch" => readEvts = {}
    /\ mainPc # "Listen" => offUser = Null

\* The ids in users were given out before, so the next one is new.
EntriesAreOld == \A i \in DOMAIN users : users[i] = Null \/ users[i] < onLineNum

Inv ==
    /\ TypeOK
    /\ HeldRequestIsFront
    /\ LoopFollowsMain
    /\ EntriesAreOld
    /\ CallbacksReachLiveUsers

\* The bound on users, a constant, is a number.
LEMMA MaxUsersIsNat == MaxUsers \in Nat
  BY BoundsAssumption

\* NULL is not the id of a user.
LEMMA NullIsNoUser == Null \notin UserIds
  BY BoundsAssumption DEF UserIds

\* A vector that was just constructed has no element.
LEMMA EmptyDomain == DOMAIN <<>> = {}
  OBVIOUS

\* The server starts in the invariant.
LEMMA InitInv == Init => Inv
<1> SUFFICES ASSUME Init
             PROVE  Inv
  OBVIOUS
<1>1. MsgQueueTypeOK
  BY EmptySeq DEF Init, MsgQueueInit, MsgQueueTypeOK
<1>2. LocationTypeOK
  BY EmptySeq DEF Init, LocationInit, LocationTypeOK, LocItem
<1>3. GuideTypeOK
  BY EmptySeq DEF Init, GuideInit, GuideTypeOK, GuideItem, Path
<1>4. TcpTypeOK
  <2>1. onLineNum \in 0 .. MaxUsers
    <3>1. onLineNum = 0
      BY DEF Init, TcpInit
    <3> QED BY <3>1, MaxUsersIsNat
  <2>2. /\ users \in Seq(UserIds \cup {Null})
        /\ locAsked \in Seq(LocItem)
        /\ guideAsked \in Seq(GuideItem)
    BY EmptySeq DEF Init, TcpInit
  <2>3. username \in [UserIds -> Names \cup {""}]
    BY DEF Init, TcpInit
  <2> QED BY <2>1, <2>2, <2>3 DEF Init, TcpInit, TcpTypeOK
<1>5. TypeOK
  BY <1>1, <1>2, <1>3, <1>4 DEF Init, TypeOK, MainPcs
<1>6. HeldRequestIsFront
  BY DEF Init, LocationInit, GuideInit, HeldRequestIsFront
<1>7. LoopFollowsMain
  BY DEF Init, TcpInit, LoopFollowsMain
<1>8. EntriesAreOld /\ CallbacksReachLiveUsers
  <2>1. users = <<>> /\ readEvts = {} /\ offUser = Null /\ DOMAIN users = {}
    BY EmptyDomain DEF Init, TcpInit
  <2> QED BY <2>1 DEF EntriesAreOld, CallbacksReachLiveUsers
<1> QED BY <1>5, <1>6, <1>7, <1>8 DEF Inv

-----------------------------------------------------------------------------
(* Type correctness.                                                       *)

\* The ids of TcpServer::OnAccept are numbers.
LEMMA UserIdsAreNats == UserIds \subseteq Nat
  BY MaxUsersIsNat DEF UserIds

\* A case of DataHandle leaves what it changes well typed.
LEMMA DataHandleTypes ==
    ASSUME TypeOK, NEW u \in UserIds, NEW value \in Requests \cup Unparsable,
           DataHandle(u, value)
    PROVE  /\ MsgQueueTypeOK'
           /\ loop' \in {"idle", "dispatch", "broken"}
           /\ users' \in Seq(UserIds \cup {Null})
           /\ readEvts' \subseteq UserIds
           /\ username' \in [UserIds -> Names \cup {""}]
           /\ locAsked' \in Seq(LocItem)
           /\ guideAsked' \in Seq(GuideItem)
           /\ UNCHANGED <<LocatedVec, GuidedVec>>
<1> USE DEF TypeOK, MsgQueueTypeOK, TcpTypeOK, connVars, mqVars, historyVars
<1>1. CASE HandleQuit(value)
  <2>1. /\ DOMAIN users = 1 .. Len(users)
        /\ Len(users) \in Nat
    BY LenProperties
  <2>2. [k \in DOMAIN users |-> Null] \in [1 .. Len(users) -> UserIds \cup {Null}]
    BY <2>1
  <2>3. [k \in DOMAIN users |-> Null] \in Seq(UserIds \cup {Null})
    <3>1. [k \in DOMAIN users |-> Null] \in UNION {[1 .. n -> UserIds \cup {Null}] : n \in Nat}
      BY <2>1, <2>2
    <3> QED BY <3>1, SeqDef
  <2> QED BY <1>1, <2>3 DEF HandleQuit, QuitServer
<1>2. CASE HandleNameLogin(u, value)
  <2>1. value.username \in Names \cup {""}
    BY JsonFields
  <2> QED BY <1>2, <2>1 DEF HandleNameLogin
<1>3. CASE HandleLocation(u, value)
  <2>1. [id |-> u, rssi |-> value.rssi] \in LocItem
    BY JsonFields, UserIdsAreNats DEF LocItem
  <2> QED BY <1>3, <2>1, AppendProperties DEF HandleLocation, addLocItem
<1>4. CASE HandleGuide(u, value)
  <2>1. [id |-> u, sour |-> value.sour, dest |-> value.dest] \in GuideItem
    BY JsonFields, UserIdsAreNats DEF GuideItem
  <2> QED BY <1>4, <2>1, AppendProperties DEF HandleGuide, addGuideItem
<1>5. CASE HandleOther(value)
  BY <1>5 DEF HandleOther
<1> QED BY <1>1, <1>2, <1>3, <1>4, <1>5 DEF DataHandle

\* A step of the event thread leaves the queues and its own state well typed.
LEMMA TcpStepTypes ==
    ASSUME TypeOK, TcpStep
    PROVE  MsgQueueTypeOK' /\ TcpTypeOK'
<1> USE DEF TypeOK, TcpTypeOK, connVars, mqVars, historyVars
<1>1. CASE OnAccept
  <2>1. onLineNum \in UserIds /\ onLineNum + 1 \in 0 .. MaxUsers
    <3> HIDE DEF TypeOK, TcpTypeOK
    <3>1. onLineNum \in 0 .. MaxUsers /\ onLineNum < MaxUsers
      BY <1>1 DEF OnAccept, TypeOK, TcpTypeOK
    <3> QED BY <3>1, BoundsAssumption DEF UserIds
  <2>2. users' \in Seq(UserIds \cup {Null})
    BY <1>1, <2>1, AppendProperties DEF OnAccept
  <2> QED BY <1>1, <2>1, <2>2 DEF OnAccept, MsgQueueTypeOK
<1>2. ASSUME NEW u \in UserIds, OnReadData(u)
      PROVE  MsgQueueTypeOK' /\ TcpTypeOK'
  <2>1. PICK value \in Requests \cup Unparsable : DataHandle(u, value)
    BY <1>2 DEF OnReadData
  <2> QED BY <1>2, <2>1, DataHandleTypes DEF OnReadData
<1>3. ASSUME NEW u \in UserIds, OnReadFails(u)
      PROVE  MsgQueueTypeOK' /\ TcpTypeOK'
  <2>1. CASE username[u] = ""
    BY <1>3, <2>1 DEF OnReadFails, MsgQueueTypeOK
  <2>2. CASE username[u] # ""
    <3>1. PICK value \in Requests \cup Unparsable :
                 DataHandle(u, value) /\ endCase' = value.typecode
      BY <1>3, <2>2 DEF OnReadFails
    <3>2. value.typecode \in TypeCodes
      BY JsonFields
    <3> QED BY <1>3, <3>1, <3>2, DataHandleTypes DEF OnReadFails
  <2> QED BY <2>1, <2>2
<1>4. CASE EndConnection
  <2>1. offUser \in UserIds
    BY <1>4 DEF EndConnection
  <2>2. users' \in Seq(UserIds \cup {Null})
    <3>1. CASE users' = users
      BY <3>1
    <3>2. ASSUME NEW k \in FirstEntryOf(offUser), users' = RemoveAt(users, k)
          PROVE  users' \in Seq(UserIds \cup {Null})
      <4>1. k \in 1 .. Len(users)
        BY LenProperties DEF FirstEntryOf
      <4> QED BY <3>2, <4>1, RemoveAtProperties
    <3> QED BY <1>4, <3>1, <3>2 DEF EndConnection, OffConnection
  <2> QED BY <1>4, <2>2 DEF EndConnection, OffConnection, clearRqst, MsgQueueTypeOK
<1>5. CASE EndDestroyedConnection
  BY <1>5 DEF EndDestroyedConnection, clearRqst, MsgQueueTypeOK
<1> QED BY <1>1, <1>2, <1>3, <1>4, <1>5 DEF TcpStep

\* A step of the Location thread leaves the queues and its own state well typed.
\* finishLoc erases the front of a queue that still holds the request.
LEMMA LocationStepTypes ==
    ASSUME TypeOK, HeldRequestIsFront, LocationStep
    PROVE  MsgQueueTypeOK' /\ LocationTypeOK'
<1> USE DEF TypeOK, MsgQueueTypeOK, LocationTypeOK, mqVars, locVars
<1>0. getLocateNum \in Nat
  BY LenProperties DEF getLocateNum
<1>1. CASE PollLocating
  BY <1>1 DEF PollLocating
<1>2. CASE StartLocating
  <2>1. Head(LocateVec) \in LocItem
    BY <1>2, HeadTailProperties DEF StartLocating, startLoc
  <2> QED BY <1>2, <2>1 DEF StartLocating, startLoc
<1>3. CASE FinishLocating
  <2>1. locReq.id \in Nat /\ Loc \in {Loc}
    BY DEF LocItem
  <2>2. PushResult(LocatedVec, locReq.id, Loc) \in Seq(Seq({Loc}))
    BY <2>1, PushResultType
  <2>3. Tail(LocateVec) \in Seq(LocItem)
    BY <1>3, HeadTailProperties DEF FinishLocating, HeldRequestIsFront
  <2> QED BY <1>3, <2>2, <2>3 DEF FinishLocating, finishLoc
<1>4. CASE TestLocTime
  <2>1. Append(locateDuring, getLocateNum) \in Seq(Nat)
    BY <1>0, AppendProperties
  <2> QED BY <1>4, <2>1 DEF TestLocTime
<1>5. CASE TestLocFails
  BY <1>5 DEF TestLocFails
<1>6. CASE TestLocSize
  <2>1. Append(locBufSize, getLocateNum) \in Seq(Nat)
    BY <1>0, AppendProperties
  <2> QED BY <1>6, <2>1 DEF TestLocSize
<1> QED BY <1>1, <1>2, <1>3, <1>4, <1>5, <1>6 DEF LocationStep

\* The same for the Guide thread.
LEMMA GuideStepTypes ==
    ASSUME TypeOK, HeldRequestIsFront, GuideStep
    PROVE  MsgQueueTypeOK' /\ GuideTypeOK'
<1> USE DEF TypeOK, MsgQueueTypeOK, GuideTypeOK, mqVars, guideVars
<1>0. getGuideNum \in Nat
  BY LenProperties DEF getGuideNum
<1>1. CASE PollGuiding
  BY <1>1 DEF PollGuiding
<1>2. CASE StartGuiding
  <2>1. Head(GuideVec) \in GuideItem
    BY <1>2, HeadTailProperties DEF StartGuiding, startGuide
  <2> QED BY <1>2, <2>1 DEF StartGuiding, startGuide
<1>3. CASE SearchPath
  <2>1. PathOf(guideReq) \in Path
    BY DEF PathOf, Path, GuideItem
  <2> QED BY <1>3, <2>1 DEF SearchPath
<1>4. CASE FinishGuiding
  <2>1. guideReq.id \in Nat
    BY DEF GuideItem
  <2>2. PushResult(GuidedVec, guideReq.id, guidePath) \in Seq(Seq(Path))
    BY <2>1, PushResultType
  <2>3. Tail(GuideVec) \in Seq(GuideItem)
    BY <1>4, HeadTailProperties DEF FinishGuiding, HeldRequestIsFront
  <2> QED BY <1>4, <2>2, <2>3 DEF FinishGuiding, finishGuide
<1>5. CASE TestGuideTime
  <2>1. Append(guideDuring, getGuideNum) \in Seq(Nat)
    BY <1>0, AppendProperties
  <2> QED BY <1>5, <2>1 DEF TestGuideTime
<1>6. CASE TestGuideFails
  BY <1>6 DEF TestGuideFails
<1>7. CASE TestGuideSize
  <2>1. Append(guideBufSize, getGuideNum) \in Seq(Nat)
    BY <1>0, AppendProperties
  <2> QED BY <1>7, <2>1 DEF TestGuideSize
<1> QED BY <1>1, <1>2, <1>3, <1>4, <1>5, <1>6, <1>7 DEF GuideStep

\* Every step leaves every variable well typed.
LEMMA NextTypes ==
    ASSUME TypeOK, HeldRequestIsFront, [Next]_vars
    PROVE  TypeOK'
<1>1. CASE MainStep
  <2>1. mainPc' \in MainPcs
    BY <1>1 DEF MainStep, InitServer, InitServerFails, ListenReturns, DestroyServer,
         DestroyLocation, DestroyGuide, DestroyMsgQueue, Exit, TypeOK, MainPcs
  <2>2. MsgQueueTypeOK' /\ LocationTypeOK' /\ GuideTypeOK'
    <3>1. UNCHANGED <<mqVars, locVars, guideVars>>
      BY <1>1 DEF MainStep, InitServer, InitServerFails, ListenReturns, DestroyServer,
           DestroyLocation, DestroyGuide, DestroyMsgQueue, Exit
    <3> QED BY <3>1 DEF TypeOK, mqVars, locVars, guideVars,
              MsgQueueTypeOK, LocationTypeOK, GuideTypeOK
  <2>3. TcpTypeOK'
    <3> USE DEF TypeOK, TcpTypeOK, tcpVars, connVars, historyVars
    <3>1. CASE InitServer
      BY <3>1 DEF InitServer
    <3>2. CASE DestroyServer
      BY <3>2, EmptySeq DEF DestroyServer
    <3>3. CASE DestroyLocation
      BY <3>3 DEF DestroyLocation
    <3>4. CASE DestroyGuide
      BY <3>4 DEF DestroyGuide
    <3>5. CASE UNCHANGED tcpVars
      BY <3>5
    <3> QED BY <1>1, <3>1, <3>2, <3>3, <3>4, <3>5
            DEF MainStep, InitServerFails, ListenReturns, DestroyMsgQueue, Exit
  <2> QED BY <2>1, <2>2, <2>3 DEF TypeOK
<1>2. CASE EventStep
  <2>1. MsgQueueTypeOK' /\ TcpTypeOK'
    BY <1>2, TcpStepTypes DEF EventStep
  <2> QED BY <1>2, <2>1 DEF EventStep, TypeOK, locVars, guideVars,
            LocationTypeOK, GuideTypeOK
<1>3. CASE LocationRun
  <2>1. MsgQueueTypeOK' /\ LocationTypeOK'
    BY <1>3, LocationStepTypes DEF LocationRun
  <2> QED BY <1>3, <2>1 DEF LocationRun, TypeOK, tcpVars, connVars, historyVars,
            guideVars, TcpTypeOK, GuideTypeOK
<1>4. CASE GuideRun
  <2>1. MsgQueueTypeOK' /\ GuideTypeOK'
    BY <1>4, GuideStepTypes DEF GuideRun
  <2> QED BY <1>4, <2>1 DEF GuideRun, TypeOK, tcpVars, connVars, historyVars,
            locVars, TcpTypeOK, LocationTypeOK
<1> USE DEF TypeOK, MsgQueueTypeOK, LocationTypeOK, GuideTypeOK, TcpTypeOK
<1> USE DEF vars, mqVars, locVars, guideVars, tcpVars, connVars, historyVars
<1>5. CASE LocationUsesDestroyed
  BY <1>5 DEF LocationUsesDestroyed
<1>6. CASE GuideUsesDestroyed
  BY <1>6 DEF GuideUsesDestroyed
<1>7. CASE UNCHANGED vars
  BY <1>7
<1> QED BY <1>1, <1>2, <1>3, <1>4, <1>5, <1>6, <1>7 DEF Next, Ended
-----------------------------------------------------------------------------
(* The request a worker holds stays at the front.                          *)

\* A request that is added does not change the front of a queue.
LEMMA FrontOfAppend ==
    ASSUME NEW S, NEW s \in Seq(S), NEW e \in S, s # <<>>
    PROVE  Append(s, e) # <<>> /\ Head(Append(s, e)) = Head(s)
  BY HeadTailAppend, AppendProperties

\* The event thread does nothing to the queues but add to one of them.
LEMMA TcpStepQueues ==
    ASSUME TypeOK, TcpStep
    PROVE  /\ LocateVec' = LocateVec \/ \E r \in LocItem : LocateVec' = Append(LocateVec, r)
           /\ GuideVec' = GuideVec \/ \E r \in GuideItem : GuideVec' = Append(GuideVec, r)
<1> DEFINE Goal ==
        /\ LocateVec' = LocateVec \/ \E r \in LocItem : LocateVec' = Append(LocateVec, r)
        /\ GuideVec' = GuideVec \/ \E r \in GuideItem : GuideVec' = Append(GuideVec, r)
<1>1. ASSUME NEW u \in UserIds, NEW value \in Requests \cup Unparsable,
             DataHandle(u, value)
      PROVE  Goal
  <2>1. CASE HandleLocation(u, value)
    <3>1. [id |-> u, rssi |-> value.rssi] \in LocItem
      BY JsonFields, UserIdsAreNats DEF LocItem
    <3> QED BY <2>1, <3>1 DEF HandleLocation, addLocItem
  <2>2. CASE HandleGuide(u, value)
    <3>1. [id |-> u, sour |-> value.sour, dest |-> value.dest] \in GuideItem
      BY JsonFields, UserIdsAreNats DEF GuideItem
    <3> QED BY <2>2, <3>1 DEF HandleGuide, addGuideItem
  <2>3. CASE UNCHANGED mqVars
    BY <2>3 DEF mqVars
  <2> QED BY <1>1, <2>1, <2>2, <2>3
          DEF DataHandle, HandleQuit, HandleNameLogin, HandleOther
<1>2. CASE UNCHANGED mqVars
  BY <1>2 DEF mqVars
<1>3. ASSUME NEW u \in UserIds, OnReadData(u)
      PROVE  Goal
  BY <1>3, <1>1 DEF OnReadData
<1>4. ASSUME NEW u \in UserIds, OnReadFails(u)
      PROVE  Goal
  BY <1>4, <1>1, <1>2 DEF OnReadFails
<1> QED BY <1>2, <1>3, <1>4
        DEF TcpStep, OnAccept, EndConnection, EndDestroyedConnection, clearRqst

\* Every step keeps it there.
LEMMA NextHeld ==
    ASSUME TypeOK, HeldRequestIsFront, [Next]_vars
    PROVE  HeldRequestIsFront'
<1> USE DEF HeldRequestIsFront, mqVars
<1>0. LocateVec \in Seq(LocItem) /\ GuideVec \in Seq(GuideItem)
  BY DEF TypeOK, MsgQueueTypeOK
<1>1. CASE UNCHANGED <<mqVars, locVars, guideVars>>
  BY <1>1 DEF locVars, guideVars
<1>2. CASE EventStep
  <2>1. LocateVec # <<>> => LocateVec' # <<>> /\ Head(LocateVec') = Head(LocateVec)
    BY <1>0, <1>2, TcpStepQueues, FrontOfAppend DEF EventStep
  <2>2. GuideVec # <<>> => GuideVec' # <<>> /\ Head(GuideVec') = Head(GuideVec)
    BY <1>0, <1>2, TcpStepQueues, FrontOfAppend DEF EventStep
  <2> QED BY <1>2, <2>1, <2>2 DEF EventStep, locVars, guideVars, PathOf
<1>3. CASE LocationRun
  <2>1. UNCHANGED <<GuideVec, guideVars>>
    BY <1>3 DEF LocationRun, LocationStep, PollLocating, StartLocating, FinishLocating,
         TestLocTime, TestLocFails, TestLocSize, startLoc, finishLoc
  <2>2. (locPc = "finishLoc" => LocateVec # <<>> /\ locReq = Head(LocateVec))'
    BY <1>3 DEF LocationRun, LocationStep, PollLocating, StartLocating, FinishLocating,
         TestLocTime, TestLocFails, TestLocSize, startLoc, locVars
  <2> QED BY <2>1, <2>2 DEF guideVars, PathOf
<1>4. CASE GuideRun
  <2>1. UNCHANGED <<LocateVec, locVars>>
    BY <1>4 DEF GuideRun, GuideStep, PollGuiding, StartGuiding, SearchPath, FinishGuiding,
         TestGuideTime, TestGuideFails, TestGuideSize, startGuide, finishGuide
  <2>2. (/\ guidePc \in {"searchpath", "finishGuide"} =>
              GuideVec # <<>> /\ guideReq = Head(GuideVec)
         /\ guidePc = "finishGuide" => guidePath = PathOf(guideReq))'
    BY <1>4 DEF GuideRun, GuideStep, PollGuiding, StartGuiding, SearchPath, FinishGuiding,
         TestGuideTime, TestGuideFails, TestGuideSize, startGuide, guideVars, PathOf
  <2> QED BY <2>1, <2>2 DEF locVars
<1>5. CASE LocationUsesDestroyed
  BY <1>5 DEF LocationUsesDestroyed, guideVars, PathOf
<1>6. CASE GuideUsesDestroyed
  BY <1>6 DEF GuideUsesDestroyed, locVars, PathOf
<1>7. CASE MainStep
  BY <1>1, <1>7 DEF MainStep, InitServer, InitServerFails, ListenReturns, DestroyServer,
       DestroyLocation, DestroyGuide, DestroyMsgQueue, Exit
<1> QED BY <1>1, <1>2, <1>3, <1>4, <1>5, <1>6, <1>7 DEF Next, Ended, vars

-----------------------------------------------------------------------------
(* The connections, the event loop and the main thread.                    *)

\* What a case of DataHandle does to the connections: nothing, or QuitServer.
LEMMA DataHandleConnections ==
    ASSUME NEW u, NEW value, DataHandle(u, value)
    PROVE  UNCHANGED connVars \/ QuitServer
  BY DEF DataHandle, HandleQuit, HandleNameLogin, HandleLocation, HandleGuide, HandleOther

\* Every step keeps the event loop where the main thread expects it.
LEMMA NextLoop ==
    ASSUME TypeOK, LoopFollowsMain, [Next]_vars
    PROVE  LoopFollowsMain'
<1> USE DEF LoopFollowsMain, connVars, tcpVars
<1>1. CASE UNCHANGED <<loop, readEvts, offUser, mainPc>>
  BY <1>1
<1>2. CASE EventStep
  <2>1. mainPc = "Listen" /\ mainPc' = "Listen"
    BY <1>2 DEF EventStep
  <2>2. CASE OnAccept
    BY <2>1, <2>2 DEF OnAccept, Dispatching
  <2>3. ASSUME NEW u \in UserIds, OnReadData(u)
        PROVE  LoopFollowsMain'
    BY <2>1, <2>3, DataHandleConnections DEF OnReadData, Dispatching, QuitServer
  <2>4. ASSUME NEW u \in UserIds, OnReadFails(u)
        PROVE  LoopFollowsMain'
    BY <2>1, <2>4, DataHandleConnections DEF OnReadFails, Dispatching, QuitServer
  <2>5. CASE EndConnection
    BY <2>1, <2>5 DEF EndConnection, OffConnection
  <2>6. CASE EndDestroyedConnection
    BY <2>1, <2>6 DEF EndDestroyedConnection
  <2> QED BY <1>2, <2>2, <2>3, <2>4, <2>5, <2>6 DEF EventStep, TcpStep
<1>3. CASE MainStep
  BY <1>3 DEF MainStep, InitServer, InitServerFails, ListenReturns, DestroyServer,
       DestroyLocation, DestroyGuide, DestroyMsgQueue, Exit
<1> QED BY <1>1, <1>2, <1>3
        DEF Next, LocationRun, GuideRun, LocationUsesDestroyed, GuideUsesDestroyed,
            Ended, vars

\* QuitServer leaves no user and no event.
LEMMA QuitServerConnections ==
    ASSUME TypeOK, QuitServer
    PROVE  EntriesAreOld' /\ CallbacksReachLiveUsers'
  BY DEF QuitServer, EntriesAreOld, CallbacksReachLiveUsers, TypeOK, TcpTypeOK

\* A new connection gets an entry and an id of its own.
LEMMA OnAcceptConnections ==
    ASSUME TypeOK, EntriesAreOld, CallbacksReachLiveUsers, OnAccept
    PROVE  EntriesAreOld' /\ CallbacksReachLiveUsers'
<1>0. /\ onLineNum \in Nat
      /\ users \in Seq(UserIds \cup {Null})
      /\ onLineNum \in UserIds
      /\ onLineNum' = onLineNum + 1
      /\ users' = Append(users, onLineNum)
      /\ readEvts' \subseteq readEvts \cup {onLineNum}
      /\ offUser' = offUser /\ loop' = loop /\ offUser = Null
  <2>1. onLineNum \in 0 .. MaxUsers /\ onLineNum < MaxUsers
    BY DEF OnAccept, TypeOK, TcpTypeOK
  <2>2. onLineNum \in Nat /\ onLineNum \in UserIds
    BY <2>1, MaxUsersIsNat DEF UserIds
  <2> QED BY <2>2 DEF OnAccept, Dispatching, TypeOK, TcpTypeOK
<1> DEFINE n == Len(users)
<1>1. /\ n \in Nat
      /\ DOMAIN users = 1 .. n
      /\ \A i \in 1 .. n : users[i] \in UserIds \cup {Null}
  BY <1>0, LenProperties, ElementOfSeq
<1>2. /\ DOMAIN users' = 1 .. n + 1
      /\ \A i \in 1 .. n : users'[i] = users[i]
      /\ users'[n + 1] = onLineNum
  BY <1>0, <1>1, AppendProperties, LenProperties
<1> HIDE DEF n
<1>3. EntriesAreOld'
  <2> SUFFICES ASSUME NEW i \in 1 .. n + 1, users'[i] # Null
               PROVE  users'[i] < onLineNum'
    BY <1>2 DEF EntriesAreOld
  <2>1. CASE i = n + 1
    BY <1>0, <1>2, <2>1
  <2>2. CASE i # n + 1
    <3>1. i \in 1 .. n /\ users'[i] = users[i]
      BY <1>1, <1>2, <2>2
    <3>2. users[i] \in Nat /\ users[i] < onLineNum
      BY <1>1, <3>1, UserIdsAreNats DEF EntriesAreOld
    <3> QED BY <1>0, <3>1, <3>2
  <2> QED BY <2>1, <2>2
<1>4. \A u \in readEvts' : u \in ToSet(users')
  <2> SUFFICES ASSUME NEW u \in readEvts'
               PROVE  \E i \in 1 .. n + 1 : users'[i] = u
    BY <1>2 DEF ToSet
  <2>1. CASE u = onLineNum
    BY <1>1, <1>2, <2>1
  <2>2. CASE u # onLineNum
    <3>1. PICK i \in 1 .. n : users[i] = u
      BY <1>0, <1>1, <2>2 DEF CallbacksReachLiveUsers, ToSet
    <3> QED BY <1>1, <1>2, <3>1
  <2> QED BY <2>1, <2>2
<1>5. ASSUME NEW i \in 1 .. n + 1, NEW j \in 1 .. n + 1, i # j, users'[i] # Null
      PROVE  users'[i] # users'[j]
  <2>1. \A k \in 1 .. n : users[k] # onLineNum \/ users[k] = Null
    <3> TAKE k \in 1 .. n
    <3>1. CASE users[k] # Null
      <4>1. users[k] \in Nat /\ users[k] < onLineNum
        BY <1>1, <3>1, UserIdsAreNats DEF EntriesAreOld
      <4> QED BY <1>0, <4>1
    <3> QED BY <3>1
  <2>2. onLineNum # Null
    BY <1>0, NullIsNoUser
  <2>3. CASE i = n + 1
    <3>1. j \in 1 .. n
      BY <1>1, <1>5, <2>3
    <3> QED BY <1>2, <2>1, <2>2, <2>3, <3>1
  <2>4. CASE j = n + 1
    <3>1. i \in 1 .. n
      BY <1>1, <1>5, <2>4
    <3> QED BY <1>2, <1>5, <2>1, <2>4, <3>1
  <2>5. CASE i # n + 1 /\ j # n + 1
    <3>1. i \in 1 .. n /\ j \in 1 .. n
      BY <1>1, <2>5
    <3> QED BY <1>1, <1>2, <1>5, <3>1 DEF CallbacksReachLiveUsers
  <2> QED BY <2>3, <2>4, <2>5
<1>6. CallbacksReachLiveUsers'
  BY <1>0, <1>2, <1>4, <1>5 DEF CallbacksReachLiveUsers
<1> QED BY <1>3, <1>6

\* OffConnection takes out the one entry of the user, and its event.
LEMMA EndConnectionConnections ==
    ASSUME TypeOK, EntriesAreOld, CallbacksReachLiveUsers, EndConnection
    PROVE  EntriesAreOld' /\ CallbacksReachLiveUsers'
<1>0. /\ users \in Seq(UserIds \cup {Null})
      /\ readEvts' = readEvts \ {offUser}
      /\ onLineNum' = onLineNum /\ offUser' = Null
  BY DEF EndConnection, OffConnection, TypeOK, TcpTypeOK
<1>1. CASE users' = users /\ FirstEntryOf(offUser) = {}
  <2>1. \A u \in readEvts' : u \in ToSet(users')
    BY <1>0, <1>1 DEF CallbacksReachLiveUsers
  <2> QED BY <1>0, <1>1, <2>1 DEF CallbacksReachLiveUsers, EntriesAreOld
<1>2. ASSUME NEW k \in FirstEntryOf(offUser), users' = RemoveAt(users, k)
      PROVE  EntriesAreOld' /\ CallbacksReachLiveUsers'
  <2> DEFINE n == Len(users)
             Old(i) == IF i < k THEN i ELSE i + 1
  <2>1. n \in Nat /\ DOMAIN users = 1 .. n /\ k \in 1 .. n /\ users[k] = offUser
    BY <1>0, LenProperties DEF FirstEntryOf
  <2>2. DOMAIN users' = 1 .. n - 1 /\ \A i \in 1 .. n - 1 : users'[i] = users[Old(i)]
    BY <1>0, <1>2, <2>1, RemoveAtProperties, LenProperties
  <2> HIDE DEF n
  <2>3. \A i \in 1 .. n - 1 : Old(i) \in 1 .. n
    BY <2>1
  <2>4. \A i, j \in 1 .. n - 1 : i # j => Old(i) # Old(j)
    BY <2>1
  <2>5. \A j \in 1 .. n : j # k => \E i \in 1 .. n - 1 : Old(i) = j
    <3> SUFFICES ASSUME NEW j \in 1 .. n, j # k
                 PROVE  \E i \in 1 .. n - 1 : Old(i) = j
      OBVIOUS
    <3>1. CASE j < k
      <4>1. j \in 1 .. n - 1 /\ Old(j) = j
        BY <2>1, <3>1
      <4> QED BY <4>1
    <3>2. CASE j > k
      <4>1. j - 1 \in 1 .. n - 1 /\ Old(j - 1) = j
        BY <2>1, <3>2
      <4> QED BY <4>1
    <3> QED BY <2>1, <3>1, <3>2
  <2> HIDE DEF Old
  <2>6. EntriesAreOld'
    BY <1>0, <2>1, <2>2, <2>3 DEF EntriesAreOld
  <2>7. \A u \in readEvts' : u \in ToSet(users')
    <3> SUFFICES ASSUME NEW u \in readEvts'
                 PROVE  \E i \in 1 .. n - 1 : users'[i] = u
      BY <2>2 DEF ToSet
    <3>1. PICK j \in 1 .. n : users[j] = u
      BY <1>0, <2>1 DEF CallbacksReachLiveUsers, ToSet
    <3>2. j # k
      BY <1>0, <2>1, <3>1
    <3> QED BY <2>2, <2>5, <3>1, <3>2
  <2>8. \A i, j \in DOMAIN users' : i # j => users'[i] = Null \/ users'[i] # users'[j]
    BY <2>1, <2>2, <2>3, <2>4 DEF CallbacksReachLiveUsers
  <2> QED BY <1>0, <2>6, <2>7, <2>8 DEF CallbacksReachLiveUsers
<1> QED BY <1>1, <1>2 DEF EndConnection, OffConnection

\* Every step keeps one entry for every user whose event can fire.
LEMMA NextConnections ==
    ASSUME TypeOK, EntriesAreOld, CallbacksReachLiveUsers, LoopFollowsMain, [Next]_vars
    PROVE  EntriesAreOld' /\ CallbacksReachLiveUsers'
<1> DEFINE Goal == EntriesAreOld' /\ CallbacksReachLiveUsers'
<1>1. CASE UNCHANGED <<connVars, onLineNum, offUser>>
  BY <1>1 DEF connVars, EntriesAreOld, CallbacksReachLiveUsers
<1>2. CASE EventStep
  <2>1. CASE OnAccept
    BY <2>1, OnAcceptConnections
  <2>2. ASSUME NEW u \in UserIds, OnReadData(u)
        PROVE  Goal
    <3>1. UNCHANGED connVars \/ QuitServer
      BY <2>2, DataHandleConnections DEF OnReadData
    <3> QED BY <1>1, <2>2, <3>1, QuitServerConnections DEF OnReadData
  <2>3. ASSUME NEW u \in UserIds, OnReadFails(u)
        PROVE  Goal
    <3>1. CASE QuitServer
      BY <3>1, QuitServerConnections
    <3>2. CASE UNCHANGED connVars
      BY <2>3, <3>2 DEF OnReadFails, connVars, EntriesAreOld, CallbacksReachLiveUsers
    <3> QED BY <2>3, <3>1, <3>2, DataHandleConnections DEF OnReadFails
  <2>4. CASE EndConnection
    BY <2>4, EndConnectionConnections
  <2>5. CASE EndDestroyedConnection
    BY <2>5 DEF EndDestroyedConnection, connVars, EntriesAreOld, CallbacksReachLiveUsers
  <2> QED BY <1>2, <2>1, <2>2, <2>3, <2>4, <2>5 DEF EventStep, TcpStep
<1>3. CASE DestroyServer /\ MainStep
  <2>1. users' = <<>> /\ readEvts' = {} /\ offUser' = Null
    BY <1>3 DEF DestroyServer, LoopFollowsMain
  <2> QED BY <2>1, EmptyDomain DEF EntriesAreOld, CallbacksReachLiveUsers
<1>4. CASE InitServer
  BY <1>4 DEF InitServer, EntriesAreOld, CallbacksReachLiveUsers, LoopFollowsMain
<1>5. CASE MainStep
  BY <1>1, <1>3, <1>4, <1>5 DEF MainStep, InitServerFails, ListenReturns,
       DestroyLocation, DestroyGuide, DestroyMsgQueue, Exit, tcpVars
<1> QED BY <1>1, <1>2, <1>5 DEF Next, LocationRun, GuideRun,
         LocationUsesDestroyed, GuideUsesDestroyed, Ended, vars, tcpVars

-----------------------------------------------------------------------------
(* The theorems.                                                           *)

\* The conjunction of the above is an invariant.
THEOREM Invariance == Spec => []Inv
<1>1. Inv /\ [Next]_vars => Inv'
  BY NextTypes, NextHeld, NextLoop, NextConnections DEF Inv
<1> QED BY InitInv, <1>1, PTL DEF Spec

\* Every variable keeps its type, whatever the threads and the clients do.
THEOREM TypeCorrect == Spec => []TypeOK
<1>1. Inv => TypeOK
  BY DEF Inv
<1> QED BY Invariance, <1>1, PTL

\* A worker that is between startLoc and finishLoc (startGuide and finishGuide)
\* holds the request at the front of the queue, so the one finishLoc erases is
\* the one it answers, although it compares user ids only.
THEOREM HeldIsFront == Spec => []HeldRequestIsFront
<1>1. Inv => HeldRequestIsFront
  BY DEF Inv
<1> QED BY Invariance, <1>1, PTL

\* No event calls back a destroyed TcpUser: accepts that fail, disconnections
\* and SERVERQUIT leave one entry in users for every live event.
THEOREM CallbacksSafe == Spec => []CallbacksReachLiveUsers
<1>1. Inv => CallbacksReachLiveUsers
  BY DEF Inv
<1> QED BY Invariance, <1>1, PTL

\* main destroys its objects only when the event thread is done with them.
THEOREM TeardownSafe == Spec => []TeardownAfterLoop
<1>1. Inv => TeardownAfterLoop
  BY DEF Inv, LoopFollowsMain, TeardownAfterLoop
<1> QED BY Invariance, <1>1, PTL

-----------------------------------------------------------------------------
(* The samples test() takes.                                               *)

\* The samples of one thread: during and sizes are its two vectors, pending
\* says that it pushed a time stamp whose length is still missing, queue is the
\* request queue.  Once the object is destroyed nothing is pushed any more.
Sampled(destroyed, pending, during, sizes, queue) ==
    /\ ~destroyed =>
         /\ Len(during) = Len(sizes) + (IF pending THEN 1 ELSE 0)
         /\ pending => during[Len(during)] <= Len(queue)
    /\ \A k \in DOMAIN sizes \cap DOMAIN during : sizes[k] >= during[k]

LocationSampled ==
    Sampled(LocationDestroyed, locPc = "size", locateDuring, locBufSize, LocateVec)

GuideSampled ==
    Sampled(GuideDestroyed, guidePc = "size", guideDuring, guideBufSize, GuideVec)

\* A time stamp is taken: it holds the length of the queue.
LEMMA TimeSampled ==
    ASSUME NEW during \in Seq(Nat), NEW sizes \in Seq(Nat), NEW S, NEW queue \in Seq(S),
           Sampled(FALSE, FALSE, during, sizes, queue)
    PROVE  Sampled(FALSE, TRUE, Append(during, Len(queue)), sizes, queue)
<1> DEFINE d == Append(during, Len(queue))
<1>1. Len(queue) \in Nat /\ Len(during) \in Nat /\ Len(sizes) \in Nat
      /\ DOMAIN during = 1 .. Len(during) /\ DOMAIN sizes = 1 .. Len(sizes)
  BY LenProperties
<1>2. /\ d \in Seq(Nat) /\ Len(d) = Len(during) + 1 /\ DOMAIN d = 1 .. Len(during) + 1
      /\ d[Len(during) + 1] = Len(queue)
      /\ \A k \in 1 .. Len(during) : d[k] = during[k]
  BY <1>1, AppendProperties, LenProperties
<1> HIDE DEF d
<1>3. Sampled(FALSE, TRUE, d, sizes, queue)
  BY <1>1, <1>2 DEF Sampled
<1> QED BY <1>3 DEF d

\* Its length is taken: the queue did not shrink in between.
LEMMA SizeSampled ==
    ASSUME NEW during \in Seq(Nat), NEW sizes \in Seq(Nat), NEW S, NEW queue \in Seq(S),
           Sampled(FALSE, TRUE, during, sizes, queue)
    PROVE  Sampled(FALSE, FALSE, during, Append(sizes, Len(queue)), queue)
<1> DEFINE z == Append(sizes, Len(queue))
<1>1. Len(queue) \in Nat /\ Len(during) \in Nat /\ Len(sizes) \in Nat
      /\ DOMAIN during = 1 .. Len(during) /\ DOMAIN sizes = 1 .. Len(sizes)
  BY LenProperties
<1>2. /\ Len(z) = Len(sizes) + 1 /\ DOMAIN z = 1 .. Len(sizes) + 1
      /\ z[Len(sizes) + 1] = Len(queue)
      /\ \A k \in 1 .. Len(sizes) : z[k] = sizes[k]
  BY <1>1, AppendProperties, LenProperties
<1> HIDE DEF z
<1>3. Len(during) = Len(sizes) + 1 /\ during[Len(sizes) + 1] <= Len(queue)
  BY <1>1 DEF Sampled
<1>4. Len(during) = Len(z)
  BY <1>2, <1>3
<1>5. \A k \in DOMAIN z \cap DOMAIN during : z[k] >= during[k]
  <2> SUFFICES ASSUME NEW k \in 1 .. Len(sizes) + 1
               PROVE  z[k] >= during[k]
    BY <1>1, <1>2, <1>3
  <2>1. CASE k = Len(sizes) + 1
    <3>1. during[k] \in Nat
      BY <1>1, <1>3, ElementOfSeq
    <3> QED BY <1>1, <1>2, <1>3, <2>1, <3>1
  <2>2. CASE k # Len(sizes) + 1
    <3>1. k \in 1 .. Len(sizes) /\ k \in 1 .. Len(during)
      BY <1>1, <1>3, <2>2
    <3> QED BY <1>1, <1>2, <3>1 DEF Sampled
  <2> QED BY <2>1, <2>2
<1>6. Sampled(FALSE, FALSE, during, z, queue)
  BY <1>1, <1>4, <1>5 DEF Sampled
<1> QED BY <1>6 DEF z

\* Adding a request to the queue, or destroying the object, keeps the samples.
LEMMA GrowthSampled ==
    ASSUME NEW during \in Seq(Nat), NEW sizes, NEW S, NEW queue \in Seq(S),
           NEW later \in Seq(S), Len(queue) <= Len(later),
           NEW destroyed \in BOOLEAN, NEW ended \in BOOLEAN, destroyed => ended,
           NEW pending \in BOOLEAN,
           Sampled(destroyed, pending, during, sizes, queue),
           ~destroyed /\ pending => Len(during) > 0
    PROVE  Sampled(ended, pending, during, sizes, later)
<1>1. Len(queue) \in Nat /\ Len(later) \in Nat /\ Len(during) \in Nat
  BY LenProperties
<1>2. Len(during) > 0 => during[Len(during)] \in Nat
  BY <1>1, ElementOfSeq
<1> QED BY <1>1, <1>2 DEF Sampled

\* The samples of class Location, through every step.
LEMMA NextLocationSampled ==
    ASSUME TypeOK, TypeOK', HeldRequestIsFront, [Next]_vars, LocationSampled
    PROVE  LocationSampled'
<1>0. /\ locateDuring \in Seq(Nat) /\ locBufSize \in Seq(Nat)
      /\ LocateVec \in Seq(LocItem) /\ LocateVec' \in Seq(LocItem)
      /\ LocationDestroyed \in BOOLEAN /\ LocationDestroyed' \in BOOLEAN
  BY DEF TypeOK, LocationTypeOK, MsgQueueTypeOK, LocationDestroyed
<1>1. ~LocationDestroyed /\ locPc = "size" => Len(locateDuring) > 0
  <2>1. Len(locBufSize) \in Nat
    BY <1>0, LenProperties
  <2> QED BY <2>1 DEF LocationSampled, Sampled
<1>2. CASE /\ UNCHANGED locVars
           /\ LocationDestroyed => LocationDestroyed'
           /\ \/ LocateVec' = LocateVec
              \/ \E r \in LocItem : LocateVec' = Append(LocateVec, r)
  <2>1. Len(LocateVec) <= Len(LocateVec')
    BY <1>0, <1>2, AppendProperties, LenProperties
  <2>2. Sampled(LocationDestroyed', locPc = "size", locateDuring, locBufSize, LocateVec')
    BY <1>0, <1>1, <1>2, <2>1, GrowthSampled DEF LocationSampled, Sampled
  <2> QED BY <1>2, <2>2 DEF LocationSampled, locVars
<1>3. CASE MainStep
  <2>1. UNCHANGED <<mqVars, locVars>> /\ (LocationDestroyed => LocationDestroyed')
    BY <1>3 DEF MainStep, InitServer, InitServerFails, ListenReturns, DestroyServer,
         DestroyLocation, DestroyGuide, DestroyMsgQueue, Exit, LocationDestroyed
  <2> QED BY <1>2, <2>1 DEF mqVars
<1>4. CASE EventStep
  BY <1>2, <1>4, TcpStepQueues DEF EventStep, LocationDestroyed
<1>5. CASE GuideRun
  <2>1. UNCHANGED LocateVec
    BY <1>5 DEF GuideRun, GuideStep, PollGuiding, StartGuiding, SearchPath, FinishGuiding,
         TestGuideTime, TestGuideFails, TestGuideSize, startGuide, finishGuide, mqVars
  <2> QED BY <1>2, <1>5, <2>1 DEF GuideRun, LocationDestroyed
<1>6. CASE GuideUsesDestroyed
  BY <1>2, <1>6 DEF GuideUsesDestroyed, LocationDestroyed, mqVars, locVars
<1>7. CASE LocationUsesDestroyed
  BY <1>7 DEF LocationUsesDestroyed, LocationTouchesDestroyed, MsgQueueDestroyed,
       LocationDestroyed, GuideDestroyed, LocationSampled, Sampled
<1>8. CASE LocationRun
  <2>1. LocationDestroyed' = LocationDestroyed /\ ~LocationTouchesDestroyed
    BY <1>8 DEF LocationRun, LocationDestroyed
  <2>2. CASE TestLocTime
    <3>1. ~LocationDestroyed /\ locPc = "time"
      BY <2>1, <2>2 DEF TestLocTime, LocationTouchesDestroyed
    <3>2. Sampled(FALSE, FALSE, locateDuring, locBufSize, LocateVec)
      BY <3>1 DEF LocationSampled, Sampled
    <3>3. Sampled(FALSE, TRUE, Append(locateDuring, Len(LocateVec)), locBufSize, LocateVec)
      BY <1>0, <3>2, TimeSampled
    <3> QED BY <2>1, <2>2, <3>1, <3>3 DEF TestLocTime, getLocateNum, mqVars, LocationSampled, Sampled
  <2>3. CASE TestLocSize
    <3>1. ~LocationDestroyed /\ locPc = "size"
      BY <2>1, <2>3 DEF TestLocSize, LocationTouchesDestroyed
    <3>2. Sampled(FALSE, TRUE, locateDuring, locBufSize, LocateVec)
      BY <3>1 DEF LocationSampled, Sampled
    <3>3. Sampled(FALSE, FALSE, locateDuring, Append(locBufSize, Len(LocateVec)), LocateVec)
      BY <1>0, <3>2, SizeSampled
    <3> QED BY <2>1, <2>3, <3>1, <3>3 DEF TestLocSize, getLocateNum, mqVars, LocationSampled, Sampled
  <2>4. CASE ~TestLocTime /\ ~TestLocSize
    <3>1. UNCHANGED <<locateDuring, locBufSize>> /\ locPc # "size" /\ locPc' # "size"
      BY <1>8, <2>4 DEF LocationRun, LocationStep, PollLocating, StartLocating, FinishLocating, TestLocFails, startLoc, finishLoc, locVars,
             TestLocSize, TestLocTime
    <3> QED BY <2>1, <3>1 DEF LocationSampled, Sampled
  <2> QED BY <2>2, <2>3, <2>4
<1>9. CASE UNCHANGED vars
  BY <1>2, <1>9 DEF vars, mqVars, LocationDestroyed
<1> QED BY <1>3, <1>4, <1>5, <1>6, <1>7, <1>8, <1>9 DEF Next, Ended

\* The samples of class Guide, through every step.
LEMMA NextGuideSampled ==
    ASSUME TypeOK, TypeOK', HeldRequestIsFront, [Next]_vars, GuideSampled
    PROVE  GuideSampled'
<1>0. /\ guideDuring \in Seq(Nat) /\ guideBufSize \in Seq(Nat)
      /\ GuideVec \in Seq(GuideItem) /\ GuideVec' \in Seq(GuideItem)
      /\ GuideDestroyed \in BOOLEAN /\ GuideDestroyed' \in BOOLEAN
  BY DEF TypeOK, GuideTypeOK, MsgQueueTypeOK, GuideDestroyed
<1>1. ~GuideDestroyed /\ guidePc = "size" => Len(guideDuring) > 0
  <2>1. Len(guideBufSize) \in Nat
    BY <1>0, LenProperties
  <2> QED BY <2>1 DEF GuideSampled, Sampled
<1>2. CASE /\ UNCHANGED guideVars
           /\ GuideDestroyed => GuideDestroyed'
           /\ \/ GuideVec' = GuideVec
              \/ \E r \in GuideItem : GuideVec' = Append(GuideVec, r)
  <2>1. Len(GuideVec) <= Len(GuideVec')
    BY <1>0, <1>2, AppendProperties, LenProperties
  <2>2. Sampled(GuideDestroyed', guidePc = "size", guideDuring, guideBufSize, GuideVec')
    BY <1>0, <1>1, <1>2, <2>1, GrowthSampled DEF GuideSampled, Sampled
  <2> QED BY <1>2, <2>2 DEF GuideSampled, guideVars
<1>3. CASE MainStep
  <2>1. UNCHANGED <<mqVars, guideVars>> /\ (GuideDestroyed => GuideDestroyed')
    BY <1>3 DEF MainStep, InitServer, InitServerFails, ListenReturns, DestroyServer,
         DestroyLocation, DestroyGuide, DestroyMsgQueue, Exit, GuideDestroyed
  <2> QED BY <1>2, <2>1 DEF mqVars
<1>4. CASE EventStep
  BY <1>2, <1>4, TcpStepQueues DEF EventStep, GuideDestroyed
<1>5. CASE LocationRun
  <2>1. UNCHANGED GuideVec
    BY <1>5 DEF LocationRun, LocationStep, PollLocating, StartLocating, FinishLocating,
         TestLocTime, TestLocFails, TestLocSize, startLoc, finishLoc, mqVars
  <2> QED BY <1>2, <1>5, <2>1 DEF LocationRun, GuideDestroyed
<1>6. CASE LocationUsesDestroyed
  BY <1>2, <1>6 DEF LocationUsesDestroyed, GuideDestroyed, mqVars, guideVars
<1>7. CASE GuideUsesDestroyed
  BY <1>7 DEF GuideUsesDestroyed, GuideTouchesDestroyed, MsgQueueDestroyed,
       LocationDestroyed, GuideDestroyed, GuideSampled, Sampled
<1>8. CASE GuideRun
  <2>1. GuideDestroyed' = GuideDestroyed /\ ~GuideTouchesDestroyed
    BY <1>8 DEF GuideRun, GuideDestroyed
  <2>2. CASE TestGuideTime
    <3>1. ~GuideDestroyed /\ guidePc = "time"
      BY <2>1, <2>2 DEF TestGuideTime, GuideTouchesDestroyed
    <3>2. Sampled(FALSE, FALSE, guideDuring, guideBufSize, GuideVec)
      BY <3>1 DEF GuideSampled, Sampled
    <3>3. Sampled(FALSE, TRUE, Append(guideDuring, Len(GuideVec)), guideBufSize, GuideVec)
      BY <1>0, <3>2, TimeSampled
    <3> QED BY <2>1, <2>2, <3>1, <3>3 DEF TestGuideTime, getGuideNum, mqVars, GuideSampled, Sampled
  <2>3. CASE TestGuideSize
    <3>1. ~GuideDestroyed /\ guidePc = "size"
      BY <2>1, <2>3 DEF TestGuideSize, GuideTouchesDestroyed
    <3>2. Sampled(FALSE, TRUE, guideDuring, guideBufSize, GuideVec)
      BY <3>1 DEF GuideSampled, Sampled
    <3>3. Sampled(FALSE, FALSE, guideDuring, Append(guideBufSize, Len(GuideVec)), GuideVec)
      BY <1>0, <3>2, SizeSampled
    <3> QED BY <2>1, <2>3, <3>1, <3>3 DEF TestGuideSize, getGuideNum, mqVars, GuideSampled, Sampled
  <2>4. CASE ~TestGuideTime /\ ~TestGuideSize
    <3>1. UNCHANGED <<guideDuring, guideBufSize>> /\ guidePc # "size" /\ guidePc' # "size"
      BY <1>8, <2>4 DEF GuideRun, GuideStep, PollGuiding, StartGuiding, SearchPath, FinishGuiding,
             TestGuideFails, startGuide, finishGuide, guideVars,
             TestGuideSize, TestGuideTime
    <3> QED BY <2>1, <3>1 DEF GuideSampled, Sampled
  <2> QED BY <2>2, <2>3, <2>4
<1>9. CASE UNCHANGED vars
  BY <1>2, <1>9 DEF vars, mqVars, GuideDestroyed
<1> QED BY <1>3, <1>4, <1>5, <1>6, <1>7, <1>8, <1>9 DEF Next, Ended

\* The length test() records for a request is never below the length the queue
\* had at its time stamp.
THEOREM SamplesSafe == Spec => []SamplesNeverUndercount
<1> DEFINE SInv == Inv /\ LocationSampled /\ GuideSampled
<1>1. Init => SInv
  <2> SUFFICES ASSUME Init
               PROVE  LocationSampled /\ GuideSampled
    BY InitInv
  <2> QED BY EmptySeq, EmptyDomain
          DEF Init, LocationInit, GuideInit, LocationSampled, GuideSampled, Sampled
<1>2. SInv /\ [Next]_vars => SInv'
  BY NextTypes, NextHeld, NextLoop, NextConnections,
     NextLocationSampled, NextGuideSampled DEF Inv
<1>3. SInv => SamplesNeverUndercount
  BY DEF LocationSampled, GuideSampled, Sampled, SamplesNeverUndercount
<1> QED BY <1>1, <1>2, <1>3, PTL DEF Spec

-----------------------------------------------------------------------------
(***************************************************************************)
(* The queues and worker threads implement RequestService, for both kinds  *)
(* of requests, and no request is lost, duplicated or misdirected.         *)
(***************************************************************************)
LocRequests == [id : UserIds, rssi : Rssi \cup {Null}]
GuideRequests == [id : UserIds, sour : Places \cup {Null}, dest : Places \cup {Null}]

-----------------------------------------------------------------------------
(* Queues, logs and results.                                               *)

\* A queue is the rest of a log if it agrees with it place by place.
LEMMA RestByPlace ==
    ASSUME NEW S, NEW queue \in Seq(S), NEW log \in Seq(S)
    PROVE  IsRest(queue, log) <=>
             /\ Len(queue) <= Len(log)
             /\ \A i \in 1 .. Len(queue) : queue[i] = log[Len(log) - Len(queue) + i]
<1> DEFINE m == Len(log) - Len(queue) + 1
           rest == SubSeq(log, m, Len(log))
<1>1. Len(queue) \in Nat /\ Len(log) \in Nat
  BY LenProperties
<1>2. SUFFICES ASSUME Len(queue) <= Len(log)
               PROVE  queue = rest <=> \A i \in 1 .. Len(queue) : queue[i] = log[m - 1 + i]
  <2>1. m - 1 = Len(log) - Len(queue)
    BY <1>1
  <2> QED BY <1>2, <2>1 DEF IsRest
<1>3. m \in Int /\ m >= 1
  BY <1>1, <1>2
<1>4. \A i \in m .. Len(log) : log[i] \in S
  BY <1>1, <1>3, ElementOfSeq
<1>5. /\ rest \in Seq(S)
      /\ Len(rest) = IF m <= Len(log) THEN Len(log) - m + 1 ELSE 0
      /\ \A i \in 1 .. Len(log) - m + 1 : rest[i] = log[m + i - 1]
  BY <1>1, <1>3, <1>4, SubSeqProperties
<1>6. Len(rest) = Len(queue) /\ Len(log) - m + 1 = Len(queue)
  BY <1>1, <1>2, <1>5
<1> HIDE DEF rest
<1>7. \A i \in 1 .. Len(queue) : rest[i] = log[m - 1 + i]
  <2> SUFFICES ASSUME NEW i \in 1 .. Len(queue)
               PROVE  rest[i] = log[m - 1 + i]
    OBVIOUS
  <2>1. m + i - 1 = m - 1 + i
    BY <1>3
  <2> QED BY <1>5, <1>6, <2>1
<1>8. queue = rest <=> \A i \in 1 .. Len(queue) : queue[i] = rest[i]
  BY <1>5, <1>6, SeqEqual
<1> QED BY <1>7, <1>8 DEF rest

\* A request that is asked is the last of the log and of the queue.
LEMMA AskedRest ==
    ASSUME NEW S, NEW queue \in Seq(S), NEW log \in Seq(S), NEW r \in S,
           IsRest(queue, log)
    PROVE  /\ IsRest(Append(queue, r), Append(log, r))
           /\ Len(Append(log, r)) - Len(Append(queue, r)) = Len(log) - Len(queue)
<1> DEFINE q == Append(queue, r)
           l == Append(log, r)
<1>1. Len(queue) \in Nat /\ Len(log) \in Nat
  BY LenProperties
<1>2. /\ q \in Seq(S) /\ Len(q) = Len(queue) + 1
      /\ \A i \in 1 .. Len(queue) : q[i] = queue[i]
      /\ q[Len(queue) + 1] = r
  BY AppendProperties
<1>3. /\ l \in Seq(S) /\ Len(l) = Len(log) + 1
      /\ \A i \in 1 .. Len(log) : l[i] = log[i]
      /\ l[Len(log) + 1] = r
  BY AppendProperties
<1>4. /\ Len(queue) <= Len(log)
      /\ \A i \in 1 .. Len(queue) : queue[i] = log[Len(log) - Len(queue) + i]
  BY RestByPlace
<1> HIDE DEF q, l
<1>5. Len(q) <= Len(l) /\ Len(l) - Len(q) = Len(log) - Len(queue)
  BY <1>1, <1>2, <1>3, <1>4
<1>6. \A i \in 1 .. Len(q) : q[i] = l[Len(l) - Len(q) + i]
  <2> SUFFICES ASSUME NEW i \in 1 .. Len(queue) + 1
               PROVE  q[i] = l[Len(log) - Len(queue) + i]
    BY <1>2, <1>5
  <2>1. CASE i = Len(queue) + 1
    <3>1. Len(log) - Len(queue) + i = Len(log) + 1
      BY <1>1, <2>1
    <3> QED BY <1>2, <1>3, <2>1, <3>1
  <2>2. CASE i # Len(queue) + 1
    <3>1. i \in 1 .. Len(queue) /\ Len(log) - Len(queue) + i \in 1 .. Len(log)
      BY <1>1, <1>4, <2>2
    <3> QED BY <1>2, <1>3, <1>4, <3>1
  <2> QED BY <2>1, <2>2
<1>7. IsRest(q, l)
  BY <1>2, <1>3, <1>5, <1>6, RestByPlace
<1> QED BY <1>5, <1>7 DEF q, l

\* The front of the queue is the oldest request of the log that waits.
LEMMA AnsweredRest ==
    ASSUME NEW S, NEW queue \in Seq(S), NEW log \in Seq(S), queue # <<>>,
           IsRest(queue, log)
    PROVE  /\ IsRest(Tail(queue), log)
           /\ Len(log) - Len(Tail(queue)) = Len(log) - Len(queue) + 1
           /\ Len(log) - Len(queue) < Len(log)
           /\ log[Len(log) - Len(queue) + 1] = Head(queue)
<1>1. Len(queue) \in Nat \ {0} /\ Len(log) \in Nat
  BY LenProperties, EmptySeq
<1>2. /\ Tail(queue) \in Seq(S)
      /\ Len(Tail(queue)) = Len(queue) - 1
      /\ \A i \in 1 .. Len(Tail(queue)) : Tail(queue)[i] = queue[i + 1]
  BY HeadTailProperties
<1>3. /\ Len(queue) <= Len(log)
      /\ \A i \in 1 .. Len(queue) : queue[i] = log[Len(log) - Len(queue) + i]
  BY RestByPlace
<1>4. Head(queue) = queue[1]
  OBVIOUS
<1>5. \A i \in 1 .. Len(Tail(queue)) : Tail(queue)[i] = log[Len(log) - Len(Tail(queue)) + i]
  BY <1>1, <1>2, <1>3
<1>6. Len(Tail(queue)) <= Len(log)
  BY <1>1, <1>2, <1>3
<1>7. IsRest(Tail(queue), log)
  BY <1>2, <1>5, <1>6, RestByPlace
<1> QED BY <1>1, <1>2, <1>3, <1>4, <1>7

\* A result goes to the end of its user's results and to nobody else.
LEMMA PushedResults ==
    ASSUME NEW S, NEW vec \in Seq(Seq(S)), NEW id \in Nat, NEW value \in S, NEW u \in Nat
    PROVE  ResultsOf(PushResult(vec, id, value), u) =
             IF u = id THEN Append(ResultsOf(vec, u), value) ELSE ResultsOf(vec, u)
<1> DEFINE n == IF id < Len(vec) THEN Len(vec) ELSE id + 1
           p == PushResult(vec, id, value)
<1>1. Len(vec) \in Nat /\ n \in Nat \ {0} /\ id + 1 \in 1 .. n
  BY LenProperties
<1>2. DOMAIN Grown(vec, id) = 1 .. n
      /\ \A k \in 1 .. n : Grown(vec, id)[k] = IF k <= Len(vec) THEN vec[k] ELSE <<>>
  BY DEF Grown
<1>3. /\ DOMAIN p = 1 .. n
      /\ \A k \in 1 .. n :
           p[k] = IF k = id + 1 THEN Append(Grown(vec, id)[k], value) ELSE Grown(vec, id)[k]
  BY <1>1, <1>2 DEF PushResult
<1>4. p \in Seq(Seq(S))
  BY PushResultType
<1>5. Len(p) = n
  <2>1. Len(p) \in Nat /\ DOMAIN p = 1 .. Len(p)
    BY <1>4, LenProperties
  <2>2. 1 .. Len(p) = 1 .. n /\ n \in Nat \ {0}
    BY <1>1, <1>3, <2>1
  <2>3. \A a \in Nat : \A b \in Nat \ {0} : 1 .. a = 1 .. b => a = b
    <3> SUFFICES ASSUME NEW a \in Nat, NEW b \in Nat \ {0}, 1 .. a = 1 .. b
                 PROVE  a = b
      OBVIOUS
    <3>1. b \in 1 .. a
      OBVIOUS
    <3>2. a \in 1 .. b
      BY <3>1
    <3> QED BY <3>1, <3>2
  <2> HIDE DEF p, n
  <2> QED BY <2>1, <2>2, <2>3
<1> HIDE DEF p
<1>6. CASE u = id
  <2>1. ResultsOf(p, u) = p[id + 1]
    BY <1>1, <1>5, <1>6 DEF ResultsOf
  <2>2. Grown(vec, id)[id + 1] = ResultsOf(vec, u)
    BY <1>1, <1>2, <1>6 DEF ResultsOf
  <2> QED BY <1>1, <1>3, <1>6, <2>1, <2>2 DEF p
<1>7. CASE u # id
  <2>1. CASE u < n
    <3>1. ResultsOf(p, u) = p[u + 1] /\ u + 1 \in 1 .. n
      BY <1>1, <1>5, <2>1 DEF ResultsOf
    <3>2. p[u + 1] = Grown(vec, id)[u + 1]
      BY <1>3, <1>7, <3>1
    <3>3. Grown(vec, id)[u + 1] = ResultsOf(vec, u)
      BY <1>1, <1>2, <3>1 DEF ResultsOf
    <3> QED BY <1>7, <3>1, <3>2, <3>3 DEF p
  <2>2. CASE ~(u < n)
    <3>1. ResultsOf(p, u) = <<>> /\ ResultsOf(vec, u) = <<>>
      BY <1>1, <1>5, <2>2 DEF ResultsOf
    <3> QED BY <1>7, <3>1 DEF p
  <2> QED BY <2>1, <2>2
<1> QED BY <1>6, <1>7

-----------------------------------------------------------------------------
(* What a step does to the requests of one kind.                           *)

\* The logs hold requests of users, and the queues are the ends of the logs.
QueuesAreRests ==
    /\ locAsked \in Seq(LocRequests)
    /\ guideAsked \in Seq(GuideRequests)
    /\ IsRest(LocateVec, locAsked)
    /\ IsRest(GuideVec, guideAsked)

ServiceInv == Inv /\ QueuesAreRests

\* A process that has ended does not come back.
UpFalls == Up' => Up

LocationAsked ==
    /\ Up /\ Up'
    /\ \E r \in LocRequests :
         LocateVec' = Append(LocateVec, r) /\ locAsked' = Append(locAsked, r)
    /\ UNCHANGED LocatedVec

LocationAnswered ==
    /\ Up /\ Up'
    /\ LocateVec # <<>>
    /\ LocateVec' = Tail(LocateVec)
    /\ LocatedVec' = PushResult(LocatedVec, Head(LocateVec).id, Loc)
    /\ UNCHANGED locAsked

GuideAsked ==
    /\ Up /\ Up'
    /\ \E r \in GuideRequests :
         GuideVec' = Append(GuideVec, r) /\ guideAsked' = Append(guideAsked, r)
    /\ UNCHANGED GuidedVec

GuideAnswered ==
    /\ Up /\ Up'
    /\ GuideVec # <<>>
    /\ GuideVec' = Tail(GuideVec)
    /\ GuidedVec' = PushResult(GuidedVec, Head(GuideVec).id, PathOf(Head(GuideVec)))
    /\ UNCHANGED guideAsked

LocationStays == UpFalls /\ UNCHANGED <<LocateVec, locAsked, LocatedVec>>
GuideStays == UpFalls /\ UNCHANGED <<GuideVec, guideAsked, GuidedVec>>

\* Either kind of request is asked, or neither, by the event thread.
LEMMA DataHandleService ==
    ASSUME NEW u \in UserIds, NEW value \in Requests \cup Unparsable,
           DataHandle(u, value), Up, Up'
    PROVE  /\ LocationAsked \/ LocationStays
           /\ GuideAsked \/ GuideStays
<1> USE DEF UpFalls, mqVars, historyVars
<1>1. CASE HandleLocation(u, value)
  <2>1. [id |-> u, rssi |-> value.rssi] \in LocRequests
    BY JsonFields DEF LocRequests
  <2> QED BY <1>1, <2>1 DEF HandleLocation, addLocItem, LocationAsked, GuideStays
<1>2. CASE HandleGuide(u, value)
  <2>1. [id |-> u, sour |-> value.sour, dest |-> value.dest] \in GuideRequests
    BY JsonFields DEF GuideRequests
  <2> QED BY <1>2, <2>1 DEF HandleGuide, addGuideItem, GuideAsked, LocationStays
<1> QED BY <1>1, <1>2 DEF DataHandle, HandleQuit, HandleNameLogin, HandleOther,
         LocationStays, GuideStays

\* The same for every callback of the event loop: the others ask nothing.
LEMMA EventStepService ==
    ASSUME EventStep
    PROVE  /\ LocationAsked \/ LocationStays
           /\ GuideAsked \/ GuideStays
<1>1. mainPc' = mainPc /\ Up
  BY DEF EventStep
<1>2. CASE UNCHANGED <<mqVars, historyVars>>
  <2>1. UpFalls
    BY <1>1 DEF UpFalls, Up
  <2> QED BY <1>2, <2>1 DEF LocationStays, GuideStays, mqVars, historyVars
<1>3. ASSUME NEW u \in UserIds, NEW value \in Requests \cup Unparsable,
             DataHandle(u, value), fault' = fault
      PROVE  /\ LocationAsked \/ LocationStays
             /\ GuideAsked \/ GuideStays
  BY <1>1, <1>3, DataHandleService DEF Up
<1>4. CASE \E u \in UserIds : OnReadData(u)
  BY <1>3, <1>4 DEF OnReadData
<1>5. CASE \E u \in UserIds : OnReadFails(u)
  BY <1>2, <1>3, <1>5 DEF OnReadFails
<1> QED BY <1>2, <1>4, <1>5 DEF EventStep, TcpStep, OnAccept, EndConnection,
         EndDestroyedConnection, clearRqst

\* Every step asks, answers or leaves the location requests alone.
LEMMA NextLocationService ==
    ASSUME HeldRequestIsFront, [Next]_vars
    PROVE  LocationAsked \/ LocationAnswered \/ LocationStays
<1>1. CASE EventStep
  BY <1>1, EventStepService
<1>2. CASE LocationRun
  <2>1. Up' = Up /\ Up /\ UNCHANGED locAsked
    BY <1>2 DEF LocationRun, Up, tcpVars, historyVars
  <2>2. CASE FinishLocating
    BY <2>1, <2>2 DEF FinishLocating, finishLoc, HeldRequestIsFront, LocationAnswered
  <2>3. CASE UNCHANGED mqVars
    BY <2>1, <2>3 DEF mqVars, LocationStays, UpFalls
  <2> QED BY <1>2, <2>2, <2>3 DEF LocationRun, LocationStep, PollLocating, StartLocating,
           startLoc, TestLocTime, TestLocFails, TestLocSize
<1>3. CASE GuideRun
  <2>1. Up' = Up /\ UNCHANGED <<LocateVec, LocatedVec, locAsked>>
    BY <1>3 DEF GuideRun, Up, tcpVars, historyVars, GuideStep, PollGuiding, StartGuiding,
         SearchPath, FinishGuiding, TestGuideTime, TestGuideFails, TestGuideSize,
         startGuide, finishGuide, mqVars
  <2> QED BY <2>1 DEF LocationStays, UpFalls
<1>4. CASE MainStep \/ LocationUsesDestroyed \/ GuideUsesDestroyed
  <2>1. UNCHANGED <<mqVars, historyVars>> /\ Up
    BY <1>4 DEF MainStep, InitServer, InitServerFails, ListenReturns, DestroyServer,
         DestroyLocation, DestroyGuide, DestroyMsgQueue, Exit, tcpVars,
         LocationUsesDestroyed, GuideUsesDestroyed
  <2> QED BY <2>1 DEF LocationStays, UpFalls, Up, mqVars, historyVars
<1>5. CASE UNCHANGED vars
  BY <1>5 DEF vars, mqVars, tcpVars, historyVars, LocationStays, UpFalls, Up
<1> QED BY <1>1, <1>2, <1>3, <1>4, <1>5 DEF Next, Ended

\* Every step asks, answers or leaves the guide requests alone.
LEMMA NextGuideService ==
    ASSUME HeldRequestIsFront, [Next]_vars
    PROVE  GuideAsked \/ GuideAnswered \/ GuideStays
<1>1. CASE EventStep
  BY <1>1, EventStepService
<1>2. CASE GuideRun
  <2>1. Up' = Up /\ Up /\ UNCHANGED guideAsked
    BY <1>2 DEF GuideRun, Up, tcpVars, historyVars
  <2>2. CASE FinishGuiding
    BY <2>1, <2>2 DEF FinishGuiding, finishGuide, HeldRequestIsFront, GuideAnswered
  <2>3. CASE UNCHANGED mqVars
    BY <2>1, <2>3 DEF mqVars, GuideStays, UpFalls
  <2> QED BY <1>2, <2>2, <2>3 DEF GuideRun, GuideStep, PollGuiding, StartGuiding,
           startGuide, SearchPath, TestGuideTime, TestGuideFails, TestGuideSize
<1>3. CASE LocationRun
  <2>1. Up' = Up /\ UNCHANGED <<GuideVec, GuidedVec, guideAsked>>
    BY <1>3 DEF LocationRun, Up, tcpVars, historyVars, LocationStep, PollLocating,
         StartLocating, FinishLocating, TestLocTime, TestLocFails, TestLocSize,
         startLoc, finishLoc, mqVars
  <2> QED BY <2>1 DEF GuideStays, UpFalls
<1>4. CASE MainStep \/ LocationUsesDestroyed \/ GuideUsesDestroyed
  <2>1. UNCHANGED <<mqVars, historyVars>> /\ Up
    BY <1>4 DEF MainStep, InitServer, InitServerFails, ListenReturns, DestroyServer,
         DestroyLocation, DestroyGuide, DestroyMsgQueue, Exit, tcpVars,
         LocationUsesDestroyed, GuideUsesDestroyed
  <2> QED BY <2>1 DEF GuideStays, UpFalls, Up, mqVars, historyVars
<1>5. CASE UNCHANGED vars
  BY <1>5 DEF vars, mqVars, tcpVars, historyVars, GuideStays, UpFalls, Up
<1> QED BY <1>1, <1>2, <1>3, <1>4, <1>5 DEF Next, Ended

-----------------------------------------------------------------------------
(* The queues are the ends of the logs.                                    *)

\* The requests of users are requests of the queues.
LEMMA RequestsAreItems == LocRequests \subseteq LocItem /\ GuideRequests \subseteq GuideItem
  BY UserIdsAreNats DEF LocRequests, LocItem, GuideRequests, GuideItem

\* A log that holds requests only keeps its queue so.
LEMMA RestType ==
    ASSUME NEW S, NEW T, NEW queue \in Seq(T), NEW log \in Seq(S), S \subseteq T,
           IsRest(queue, log)
    PROVE  queue \in Seq(S)
<1>1. log \in Seq(T) /\ Len(queue) \in Nat /\ Len(log) \in Nat
  BY SeqMonotonic, LenProperties
<1>2. /\ Len(queue) <= Len(log)
      /\ \A i \in 1 .. Len(queue) : queue[i] = log[Len(log) - Len(queue) + i]
  BY <1>1, RestByPlace
<1>3. ASSUME NEW i \in 1 .. Len(queue)
      PROVE  queue[i] \in S
  <2>1. Len(log) - Len(queue) + i \in 1 .. Len(log)
    BY <1>1, <1>2
  <2> QED BY <1>2, <2>1, ElementOfSeq
<1>4. queue \in [1 .. Len(queue) -> S]
  BY <1>3, LenProperties
<1>5. queue \in UNION {[1 .. n -> S] : n \in Nat}
  BY <1>1, <1>4
<1> QED BY <1>5, SeqDef

\* At the start nothing is asked and nothing waits.
LEMMA InitService == Init => QueuesAreRests
<1> SUFFICES ASSUME Init
             PROVE  QueuesAreRests
  OBVIOUS
<1>1. LocateVec = <<>> /\ locAsked = <<>> /\ GuideVec = <<>> /\ guideAsked = <<>>
  BY DEF Init, MsgQueueInit, TcpInit
<1>2. IsRest(<<>>, <<>>)
  <2>1. <<>> \in Seq({}) /\ Len(<<>>) = 0
    BY EmptySeq
  <2>2. Len(<<>>) <= Len(<<>>) /\ \A i \in 1 .. Len(<<>>) : <<>>[i] = <<>>[Len(<<>>) - Len(<<>>) + i]
    BY <2>1
  <2> QED BY <2>1, <2>2, RestByPlace
<1> QED BY <1>1, <1>2, EmptySeq DEF QueuesAreRests

\* Every step keeps the queues the ends of the logs.
LEMMA NextService ==
    ASSUME ServiceInv, [Next]_vars
    PROVE  QueuesAreRests'
<1> USE DEF ServiceInv, QueuesAreRests
<1>1. LocateVec \in Seq(LocRequests) /\ GuideVec \in Seq(GuideRequests)
  BY RequestsAreItems, RestType DEF Inv, TypeOK, MsgQueueTypeOK
<1>2. locAsked' \in Seq(LocRequests) /\ IsRest(LocateVec', locAsked')
  <2>1. CASE LocationAsked
    BY <1>1, <2>1, AskedRest, AppendProperties DEF LocationAsked
  <2>2. CASE LocationAnswered
    BY <1>1, <2>2, AnsweredRest DEF LocationAnswered
  <2>3. CASE LocationStays
    BY <2>3 DEF LocationStays, IsRest
  <2> QED BY <2>1, <2>2, <2>3, NextLocationService DEF Inv
<1>3. guideAsked' \in Seq(GuideRequests) /\ IsRest(GuideVec', guideAsked')
  <2>1. CASE GuideAsked
    BY <1>1, <2>1, AskedRest, AppendProperties DEF GuideAsked
  <2>2. CASE GuideAnswered
    BY <1>1, <2>2, AnsweredRest DEF GuideAnswered
  <2>3. CASE GuideStays
    BY <2>3 DEF GuideStays, IsRest
  <2> QED BY <2>1, <2>2, <2>3, NextGuideService DEF Inv
<1> QED BY <1>2, <1>3 DEF IsRest

\* The invariant the refinement needs: the one of LocationServer_proof, and the
\* queues at the ends of the logs.
THEOREM ServiceInvariance == Spec => []ServiceInv
<1>1. Inv /\ [Next]_vars => Inv'
  BY NextTypes, NextHeld, NextLoop, NextConnections DEF Inv
<1>2. ServiceInv /\ [Next]_vars => ServiceInv'
  BY <1>1, NextService DEF ServiceInv
<1>3. Init => ServiceInv
  BY InitInv, InitService DEF ServiceInv
<1> QED BY <1>2, <1>3, PTL DEF Spec
-----------------------------------------------------------------------------
(* The refinement.                                                         *)

LocResults == [u \in UserIds |-> ResultsOf(LocatedVec, u)]
GuideResults == [u \in UserIds |-> ResultsOf(GuidedVec, u)]

\* The server starts where the service does.
LEMMA InitServes == Init => Locations!Init /\ Guides!Init
<1> SUFFICES ASSUME Init
             PROVE  Locations!Init /\ Guides!Init
  OBVIOUS
<1>1. /\ LocateVec = <<>> /\ locAsked = <<>> /\ GuideVec = <<>> /\ guideAsked = <<>>
      /\ LocatedVec = <<>> /\ GuidedVec = <<>> /\ Up
  BY DEF Init, MsgQueueInit, TcpInit, Up
<1>2. Len(<<>>) = 0
  BY EmptySeq
<1>3. \A u \in UserIds : ResultsOf(<<>>, u) = <<>>
  BY <1>2, UserIdsAreNats DEF ResultsOf
<1>4. Len(locAsked) - Len(LocateVec) = 0 /\ Len(guideAsked) - Len(GuideVec) = 0
  BY <1>1, <1>2
<1>5. LocResults = [u \in UserIds |-> <<>>] /\ GuideResults = [u \in UserIds |-> <<>>]
  BY <1>1, <1>3 DEF LocResults, GuideResults
<1>6. Up = TRUE
  BY <1>1 DEF Up
<1> QED BY <1>1, <1>4, <1>5, <1>6 DEF Locations!Init, Guides!Init, LocResults, GuideResults

\* Every step is one of the service for location requests, or a stutter.
LEMMA NextServesLocations ==
    ASSUME ServiceInv, [Next]_vars
    PROVE  [Locations!Next]_Locations!vars
<1> USE DEF ServiceInv, QueuesAreRests
<1> DEFINE n == Len(locAsked) - Len(LocateVec)
<1>1. LocateVec \in Seq(LocRequests) /\ LocatedVec \in Seq(Seq({Loc}))
  BY RequestsAreItems, RestType DEF Inv, TypeOK, MsgQueueTypeOK
<1>2. CASE LocationAsked
  <2>1. PICK r \in LocRequests :
               LocateVec' = Append(LocateVec, r) /\ locAsked' = Append(locAsked, r)
    BY <1>2 DEF LocationAsked
  <2>2. n' = n
    BY <1>1, <2>1, AskedRest
  <2>3. Up /\ Up' = Up /\ LocResults' = LocResults
    BY <1>2 DEF LocationAsked, LocResults, Up
  <2>4. Locations!Ask(r)
    BY <2>1, <2>2, <2>3 DEF Locations!Ask, LocResults
  <2> QED BY <2>4 DEF Locations!Next, LocRequests
<1>3. CASE LocationAnswered
  <2> DEFINE r == Head(LocateVec)
  <2>1. n' = n + 1 /\ n < Len(locAsked) /\ locAsked[n + 1] = r /\ locAsked' = locAsked
    BY <1>1, <1>3, AnsweredRest DEF LocationAnswered
  <2>2. r.id \in UserIds
    <3>1. r \in LocRequests
      BY <1>1, <1>3, HeadTailProperties DEF LocationAnswered
    <3> QED BY <3>1 DEF LocRequests
  <2>3. LocResults' = [LocResults EXCEPT ![r.id] = Append(@, Loc)]
    <3>1. LocResults' = [u \in UserIds |-> ResultsOf(PushResult(LocatedVec, r.id, Loc), u)]
      BY <1>3 DEF LocationAnswered, LocResults
    <3>2. Loc \in {Loc}
      OBVIOUS
    <3> HIDE DEF r
    <3>3. \A u \in UserIds :
            ResultsOf(PushResult(LocatedVec, r.id, Loc), u) =
              IF u = r.id THEN Append(ResultsOf(LocatedVec, u), Loc) ELSE ResultsOf(LocatedVec, u)
      <4>1. \A i, u \in Nat :
              ResultsOf(PushResult(LocatedVec, i, Loc), u) =
                IF u = i THEN Append(ResultsOf(LocatedVec, u), Loc) ELSE ResultsOf(LocatedVec, u)
        BY <1>1, <3>2, PushedResults
      <4> QED BY <2>2, <4>1, UserIdsAreNats
    <3> QED BY <3>1, <3>3 DEF LocResults
  <2>4. Up /\ Up' = Up
    BY <1>3 DEF LocationAnswered, Up
  <2>5. LocResults' =
          [LocResults EXCEPT ![locAsked[n + 1].id] = Append(@, LocAnswer(locAsked[n + 1]))]
    BY <2>1, <2>3 DEF LocAnswer
  <2>6. Locations!Answer
    BY <2>1, <2>4, <2>5 DEF Locations!Answer, LocResults
  <2> QED BY <2>6 DEF Locations!Next
<1>4. CASE LocationStays
  <2>1. UNCHANGED <<locAsked, n, LocResults>>
    BY <1>4 DEF LocationStays, LocResults
  <2>2. CASE Up' = Up
    BY <2>1, <2>2 DEF Locations!vars, LocResults
  <2>3. CASE Up /\ Up' = FALSE
    BY <2>1, <2>3 DEF Locations!Next, Locations!Stop, LocResults
  <2> QED BY <1>4, <2>2, <2>3 DEF LocationStays, UpFalls, Up
<1> QED BY <1>2, <1>3, <1>4, NextLocationService DEF Inv

\* Every step is one of the service for guide requests, or a stutter.
LEMMA NextServesGuides ==
    ASSUME ServiceInv, [Next]_vars
    PROVE  [Guides!Next]_Guides!vars
<1> USE DEF ServiceInv, QueuesAreRests
<1> DEFINE n == Len(guideAsked) - Len(GuideVec)
<1>1. GuideVec \in Seq(GuideRequests) /\ GuidedVec \in Seq(Seq(Path))
  BY RequestsAreItems, RestType DEF Inv, TypeOK, MsgQueueTypeOK
<1>2. CASE GuideAsked
  <2>1. PICK r \in GuideRequests :
               GuideVec' = Append(GuideVec, r) /\ guideAsked' = Append(guideAsked, r)
    BY <1>2 DEF GuideAsked
  <2>2. n' = n
    BY <1>1, <2>1, AskedRest
  <2>3. Up /\ Up' = Up /\ GuideResults' = GuideResults
    BY <1>2 DEF GuideAsked, GuideResults, Up
  <2>4. Guides!Ask(r)
    BY <2>1, <2>2, <2>3 DEF Guides!Ask, GuideResults
  <2> QED BY <2>4 DEF Guides!Next, GuideRequests
<1>3. CASE GuideAnswered
  <2> DEFINE r == Head(GuideVec)
  <2>1. n' = n + 1 /\ n < Len(guideAsked) /\ guideAsked[n + 1] = r
        /\ guideAsked' = guideAsked
    BY <1>1, <1>3, AnsweredRest DEF GuideAnswered
  <2>2. r.id \in UserIds /\ PathOf(r) \in Path
    <3>1. r \in GuideRequests
      BY <1>1, <1>3, HeadTailProperties DEF GuideAnswered
    <3> QED BY <3>1 DEF GuideRequests, PathOf, Path
  <2>3. GuideResults' = [GuideResults EXCEPT ![r.id] = Append(@, PathOf(r))]
    <3>1. GuideResults' = [u \in UserIds |-> ResultsOf(PushResult(GuidedVec, r.id, PathOf(r)), u)]
      BY <1>3 DEF GuideAnswered, GuideResults
    <3> HIDE DEF r
    <3>2. \A u \in UserIds :
            ResultsOf(PushResult(GuidedVec, r.id, PathOf(r)), u) =
              IF u = r.id THEN Append(ResultsOf(GuidedVec, u), PathOf(r))
              ELSE ResultsOf(GuidedVec, u)
      <4>1. \A i, u \in Nat :
              ResultsOf(PushResult(GuidedVec, i, PathOf(r)), u) =
                IF u = i THEN Append(ResultsOf(GuidedVec, u), PathOf(r))
                ELSE ResultsOf(GuidedVec, u)
        BY <1>1, <2>2, PushedResults
      <4> QED BY <2>2, <4>1, UserIdsAreNats
    <3> QED BY <3>1, <3>2 DEF GuideResults
  <2>4. Up /\ Up' = Up
    BY <1>3 DEF GuideAnswered, Up
  <2>5. GuideResults' =
          [GuideResults EXCEPT ![guideAsked[n + 1].id] = Append(@, PathOf(guideAsked[n + 1]))]
    BY <2>1, <2>3
  <2>6. Guides!Answer
    BY <2>1, <2>4, <2>5 DEF Guides!Answer, GuideResults
  <2> QED BY <2>6 DEF Guides!Next
<1>4. CASE GuideStays
  <2>1. UNCHANGED <<guideAsked, n, GuideResults>>
    BY <1>4 DEF GuideStays, GuideResults
  <2>2. CASE Up' = Up
    BY <2>1, <2>2 DEF Guides!vars, GuideResults
  <2>3. CASE Up /\ Up' = FALSE
    BY <2>1, <2>3 DEF Guides!Next, Guides!Stop, GuideResults
  <2> QED BY <1>4, <2>2, <2>3 DEF GuideStays, UpFalls, Up
<1> QED BY <1>2, <1>3, <1>4, NextGuideService DEF Inv

-----------------------------------------------------------------------------
(* The theorems.                                                           *)

\* The location queue and the Location thread implement the service, with one
\* answer for every finishLoc, whatever the event thread does meanwhile.
THEOREM LocationsImplemented == Spec => ImplementsLocations
<1>1. ServiceInv /\ [Next]_vars => [Locations!Next]_Locations!vars
  BY NextServesLocations
<1>2. Init => Locations!Init
  BY InitServes
<1> QED BY ServiceInvariance, <1>1, <1>2, PTL DEF Spec, ImplementsLocations, Locations!Spec

\* The guide queue and the Guide thread implement it for guide requests.
THEOREM GuidesImplemented == Spec => ImplementsGuides
<1>1. ServiceInv /\ [Next]_vars => [Guides!Next]_Guides!vars
  BY NextServesGuides
<1>2. Init => Guides!Init
  BY InitServes
<1> QED BY ServiceInvariance, <1>1, <1>2, PTL DEF Spec, ImplementsGuides, Guides!Spec

\* What RequestService_proof proves of the service, of the two services here.
LocationsProved == INSTANCE RequestService_proof WITH
    Users <- UserIds,
    Requests <- [id : UserIds, rssi : Rssi \cup {Null}],
    AnswerTo <- LocAnswer,
    asked <- locAsked,
    answered <- Len(locAsked) - Len(LocateVec),
    results <- [u \in UserIds |-> ResultsOf(LocatedVec, u)],
    up <- Up

GuidesProved == INSTANCE RequestService_proof WITH
    Users <- UserIds,
    Requests <- [id : UserIds, sour : Places \cup {Null}, dest : Places \cup {Null}],
    AnswerTo <- PathOf,
    asked <- guideAsked,
    answered <- Len(guideAsked) - Len(GuideVec),
    results <- [u \in UserIds |-> ResultsOf(GuidedVec, u)],
    up <- Up

\* No location request is lost, duplicated or given to another user.
THEOREM LocationsAreConserved == Spec => []LocationsConserved
<1>1. LocationsProved!Spec => []LocationsProved!Conserved
  BY LocationsProved!Conservation
<1>2. LocationsProved!Init <=> Locations!Init
  BY DEF LocationsProved!Init, Locations!Init
<1>3. [LocationsProved!Next]_LocationsProved!vars <=> [Locations!Next]_Locations!vars
  BY DEF LocationsProved!Next, Locations!Next, LocationsProved!vars, Locations!vars,
       LocationsProved!Ask, Locations!Ask, LocationsProved!Answer, Locations!Answer,
       LocationsProved!Stop, Locations!Stop
<1>4. LocationsProved!Conserved <=> Locations!Conserved
  BY DEF LocationsProved!Conserved, Locations!Conserved,
       LocationsProved!AskedBy, Locations!AskedBy,
       LocationsProved!Cardinality, Locations!Cardinality
<1>5. ServiceInv /\ Locations!Conserved => LocationsConserved
  BY DEF ServiceInv, QueuesAreRests, LocationsConserved
<1> QED BY LocationsImplemented, ServiceInvariance, <1>1, <1>2, <1>3, <1>4, <1>5, PTL
        DEF ImplementsLocations, Locations!Spec, LocationsProved!Spec

\* No guide request is, and the k-th path a user finds is that of his k-th request.
THEOREM GuidesAreConserved == Spec => []GuidesConserved
<1>1. GuidesProved!Spec => []GuidesProved!Conserved
  BY GuidesProved!Conservation
<1>2. GuidesProved!Init <=> Guides!Init
  BY DEF GuidesProved!Init, Guides!Init
<1>3. [GuidesProved!Next]_GuidesProved!vars <=> [Guides!Next]_Guides!vars
  BY DEF GuidesProved!Next, Guides!Next, GuidesProved!vars, Guides!vars,
       GuidesProved!Ask, Guides!Ask, GuidesProved!Answer, Guides!Answer,
       GuidesProved!Stop, Guides!Stop
<1>4. GuidesProved!Conserved <=> Guides!Conserved
  BY DEF GuidesProved!Conserved, Guides!Conserved, GuidesProved!AskedBy, Guides!AskedBy,
       GuidesProved!Cardinality, Guides!Cardinality
<1>5. ServiceInv /\ Guides!Conserved => GuidesConserved
  BY DEF ServiceInv, QueuesAreRests, GuidesConserved
<1> QED BY GuidesImplemented, ServiceInvariance, <1>1, <1>2, <1>3, <1>4, <1>5, PTL
        DEF ImplementsGuides, Guides!Spec, GuidesProved!Spec
-----------------------------------------------------------------------------
(***************************************************************************)
(* What happens in the end.  Fairness is of use where a step is enabled.   *)
(* TLAPS has no proof rules for ENABLED: that each thread can take a step  *)
(* wherever its guard says so is assumed, in ThreadsEnabled.               *)
(***************************************************************************)
MainGuard == Up /\ (mainPc = "Listen" => loop = "broken" /\ offUser = Null)
EndGuard == Up /\ mainPc = "Listen" /\ offUser # Null
LocationGuard == Up /\ mainPc = "Listen" /\ (locPc = "startLoc" => LocateVec # <<>>)
GuideGuard == Up /\ mainPc = "Listen" /\ (guidePc = "startGuide" => GuideVec # <<>>)

ThreadsEnabled ==
    /\ MainGuard => ENABLED <<MainStep>>_vars
    /\ EndGuard => ENABLED <<EndStep>>_vars
    /\ LocationGuard => ENABLED <<LocationRun>>_vars
    /\ GuideGuard => ENABLED <<GuideRun>>_vars

\* A broken loop stays so, and OnRead, which may be ending a connection, ends one
\* at most: no callback follows it.
LEMMA BrokenStays ==
    ASSUME Inv, loop = "broken", [Next]_vars
    PROVE  /\ (loop = "broken")'
           /\ offUser = Null => (offUser = Null)'
           /\ EndStep => (offUser = Null)'
<1> USE DEF tcpVars, connVars
<1>1. CASE EventStep
  <2>1. EndConnection \/ EndDestroyedConnection
    BY <1>1 DEF EventStep, TcpStep, OnAccept, OnReadData, OnReadFails, Dispatching
  <2> QED BY <2>1 DEF EndConnection, EndDestroyedConnection, OffConnection
<1>2. CASE MainStep
  BY <1>2 DEF MainStep, InitServer, InitServerFails, ListenReturns, DestroyServer,
       DestroyLocation, DestroyGuide, DestroyMsgQueue, Exit, Inv, LoopFollowsMain,
       EndStep, EventStep, EndConnection, EndDestroyedConnection, OffConnection
<1>3. CASE LocationRun \/ GuideRun \/ LocationUsesDestroyed \/ GuideUsesDestroyed
           \/ UNCHANGED vars
  BY <1>3 DEF LocationRun, GuideRun, LocationUsesDestroyed, GuideUsesDestroyed, vars,
       EndStep, EventStep, EndConnection, EndDestroyedConnection, OffConnection
<1> QED BY <1>1, <1>2, <1>3 DEF Next, Ended

\* Where main is, once the loop is broken and OnRead is over.
At(pc) == loop = "broken" /\ offUser = Null /\ Up /\ mainPc = pc

\* Each destructor is followed by the next, or stopped by a fault.
Follows ==
    {<<"Listen", "~TcpServer">>, <<"~TcpServer", "~Location">>, <<"~Location", "~Guide">>,
     <<"~Guide", "~MsgQueue">>, <<"~MsgQueue", "return">>, <<"return", "exited">>}

\* Only main moves itself.
LEMMA MainGoesOn ==
    ASSUME Inv, NEW p, NEW q, <<p, q>> \in Follows, At(p), [Next]_vars
    PROVE  /\ ~Up' \/ At(p)' \/ At(q)'
           /\ MainStep => ~Up' \/ At(q)'
<1>1. (loop = "broken")' /\ (offUser = Null)'
  BY BrokenStays DEF At
<1>2. CASE MainStep
  BY <1>1, <1>2 DEF MainStep, InitServer, InitServerFails, ListenReturns, DestroyServer,
       DestroyLocation, DestroyGuide, DestroyMsgQueue, Exit, At, Follows, Up
<1>3. CASE UNCHANGED mainPc
  <2>1. ~MainStep \/ ~Up'
    BY <1>3 DEF MainStep, InitServer, InitServerFails, ListenReturns, DestroyServer,
         DestroyLocation, DestroyGuide, DestroyMsgQueue, Exit, Up
  <2> QED BY <1>1, <1>3, <2>1 DEF At
<1> QED BY <1>2, <1>3 DEF Next, EventStep, LocationRun, GuideRun, LocationUsesDestroyed,
         GuideUsesDestroyed, Ended, vars

\* Main can take its next step wherever it is then.
LEMMA MainIsReady == \A pc : At(pc) => MainGuard
  BY DEF At, MainGuard

\* Main gets from one to the next.
GetsFrom(p, q) == FairSpec /\ []ThreadsEnabled => (At(p) ~> ~Up \/ At(q))

\* It does between any two that follow each other.
LEMMA MainGetsOn ==
    ASSUME NEW p, NEW q, <<p, q>> \in Follows
    PROVE  GetsFrom(p, q)
<1>1. Inv /\ At(p) /\ [Next]_vars => (~Up)' \/ At(p)' \/ At(q)'
  BY MainGoesOn
<1>2. Inv /\ At(p) /\ [Next]_vars /\ <<MainStep>>_vars => (~Up)' \/ At(q)'
  BY MainGoesOn
<1>3. At(p) => MainGuard
  BY MainIsReady
<1> QED BY <1>1, <1>2, <1>3, Invariance, PTL
        DEF GetsFrom, FairSpec, Fairness, Spec, ThreadsEnabled

\* OnRead gets over.
LEMMA OnReadGetsOver ==
    FairSpec /\ []ThreadsEnabled =>
        (loop = "broken" /\ EndGuard ~> ~Up \/ At("Listen"))
<1> DEFINE Ending == loop = "broken" /\ EndGuard
<1>1. Inv /\ Ending /\ [Next]_vars => (~Up)' \/ Ending' \/ At("Listen")'
  <2> SUFFICES ASSUME Inv, Ending, [Next]_vars, Up'
               PROVE  (mainPc = "Listen")' /\ (loop = "broken")'
    BY DEF EndGuard, At
  <2>1. mainPc' = mainPc
    BY DEF EndGuard, Next, MainStep, InitServer, InitServerFails, ListenReturns, DestroyServer,
       DestroyLocation, DestroyGuide, DestroyMsgQueue, Exit, EventStep, LocationRun, GuideRun,
       LocationUsesDestroyed, GuideUsesDestroyed, Ended, vars
  <2> QED BY <2>1, BrokenStays DEF EndGuard
<1>2. Inv /\ Ending /\ [Next]_vars /\ <<EndStep>>_vars => (~Up)' \/ At("Listen")'
  <2> SUFFICES ASSUME Inv, Ending, [Next]_vars, EndStep, Up'
               PROVE  At("Listen")'
    OBVIOUS
  <2>1. mainPc' = "Listen"
    BY DEF EndStep, EventStep
  <2> QED BY <2>1, BrokenStays DEF At
<1>3. Ending => EndGuard
  OBVIOUS
<1> QED BY <1>1, <1>2, <1>3, Invariance, PTL DEF FairSpec, Fairness, Spec, ThreadsEnabled

\* SERVERQUIT ends the process, whatever the clients and the worker threads do.
THEOREM QuittingEnds == FairSpec /\ []ThreadsEnabled => QuitEnds
<1>1. /\ GetsFrom("Listen", "~TcpServer")
      /\ GetsFrom("~TcpServer", "~Location")
      /\ GetsFrom("~Location", "~Guide")
      /\ GetsFrom("~Guide", "~MsgQueue")
      /\ GetsFrom("~MsgQueue", "return")
      /\ GetsFrom("return", "exited")
  BY MainGetsOn DEF Follows
<1>2. ~At("exited")
  BY DEF At, Up
<1>3. Inv /\ loop = "broken" =>
        \/ ~Up
        \/ At("Listen") \/ At("~TcpServer") \/ At("~Location") \/ At("~Guide")
        \/ At("~MsgQueue") \/ At("return")
        \/ loop = "broken" /\ EndGuard
  BY DEF Inv, TypeOK, MainPcs, LoopFollowsMain, At, EndGuard, Up
<1> QED BY <1>1, <1>2, <1>3, OnReadGetsOver, Invariance, PTL DEF GetsFrom, FairSpec, QuitEnds
\* The location requests answered so far; the next one may wait while the thread
\* is at any of its calls.
LocAnswered == Len(locAsked) - Len(LocateVec)
LocDone(n) == LocAnswered >= n \/ mainPc # "Listen" \/ ~Up
LocWaits(n) == Len(locAsked) >= n + 1 /\ LocAnswered = n /\ mainPc = "Listen" /\ Up
LocAt(n, pc) == LocWaits(n) /\ locPc = pc
LocNext(n, pc) ==
    \/ pc = "time" /\ (LocAt(n, "size") \/ LocAt(n, "startLoc"))
    \/ pc = "size" /\ LocAt(n, "startLoc")
    \/ pc = "startLoc" /\ LocAt(n, "finishLoc")

\* No more wait than were asked.
LEMMA LocationLengths ==
    ASSUME ServiceInv
    PROVE  /\ LocateVec \in Seq(LocRequests) /\ locAsked \in Seq(LocRequests)
           /\ Len(LocateVec) \in Nat /\ Len(locAsked) \in Nat
           /\ Len(LocateVec) <= Len(locAsked)
<1>1. LocateVec \in Seq(LocRequests)
  BY RequestsAreItems, RestType DEF ServiceInv, QueuesAreRests, Inv, TypeOK, MsgQueueTypeOK
<1> QED BY <1>1, LenProperties DEF ServiceInv, QueuesAreRests, IsRest

\* A request made is made for ever, and waits once it is the next to be answered.
LEMMA LocationStillWaits ==
    ASSUME ServiceInv, NEW n \in Nat, [Next]_vars
    PROVE  /\ Len(locAsked) >= n => (Len(locAsked) >= n)'
           /\ LocWaits(n) => LocWaits(n)' \/ LocDone(n + 1)'
<1>1. /\ LocateVec \in Seq(LocRequests) /\ locAsked \in Seq(LocRequests)
      /\ Len(LocateVec) \in Nat /\ Len(locAsked) \in Nat
  BY LocationLengths
<1>2. CASE LocationAsked
  <2>1. /\ Len(locAsked') = Len(locAsked) + 1 /\ LocAnswered' = LocAnswered
        /\ Up'
    <3>1. PICK r \in LocRequests :
                 LocateVec' = Append(LocateVec, r) /\ locAsked' = Append(locAsked, r)
      BY <1>2 DEF LocationAsked
    <3>2. Len(LocateVec') = Len(LocateVec) + 1 /\ Len(locAsked') = Len(locAsked) + 1
      BY <1>1, <3>1, AppendProperties
    <3> QED BY <1>1, <1>2, <3>2 DEF LocationAsked, LocAnswered
  <2> QED BY <1>1, <2>1 DEF LocWaits, LocDone
<1>3. CASE LocationAnswered
  <2>1. /\ locAsked' = locAsked
        /\ LocAnswered' = LocAnswered + 1
    <3>1. Len(LocateVec') = Len(LocateVec) - 1
      BY <1>1, <1>3, HeadTailProperties DEF LocationAnswered
    <3> QED BY <1>1, <1>3, <3>1 DEF LocationAnswered, LocAnswered
  <2> QED BY <1>1, <2>1 DEF LocWaits, LocDone, LocAnswered
<1>4. CASE LocationStays
  <2>1. UNCHANGED <<locAsked, LocateVec>>
    BY <1>4 DEF LocationStays
  <2> QED BY <1>1, <2>1 DEF LocWaits, LocDone, LocAnswered
<1> QED BY <1>2, <1>3, <1>4, NextLocationService DEF ServiceInv, Inv

\* Only the thread moves itself, and to the next call, while a request waits.
LEMMA LocationGoesOn ==
    ASSUME ServiceInv, NEW n \in Nat, NEW pc, LocAt(n, pc), [Next]_vars
    PROVE  /\ LocDone(n + 1)' \/ LocAt(n, pc)' \/ LocNext(n, pc)'
           /\ LocationRun => LocDone(n + 1)' \/ LocNext(n, pc)'
<1>1. LocWaits(n)' \/ LocDone(n + 1)'
  BY LocationStillWaits DEF LocAt
<1>2. CASE ~LocationRun
  <2>1. locPc' = locPc
    BY <1>2 DEF LocAt, LocWaits, Next, MainStep, InitServer, InitServerFails, ListenReturns,
       DestroyServer, DestroyLocation, DestroyGuide, DestroyMsgQueue, Exit, EventStep,
       GuideRun, LocationUsesDestroyed, GuideUsesDestroyed, Ended, vars, locVars,
       LocationTouchesDestroyed, MsgQueueDestroyed, LocationDestroyed
  <2> QED BY <1>1, <1>2, <2>1 DEF LocAt
<1>3. CASE LocationRun
  <2>1. /\ LocateVec \in Seq(LocRequests) /\ Len(LocateVec) \in Nat /\ Len(locAsked) \in Nat
        /\ HeldRequestIsFront
    BY LocationLengths DEF ServiceInv, Inv
  <2>2. LocateVec # <<>>
    BY <2>1, EmptySeq DEF LocAt, LocWaits, LocAnswered
  <2>3. CASE FinishLocating
    <3>1. LocateVec' = Tail(LocateVec) /\ locAsked' = locAsked
      BY <1>3, <2>1, <2>3 DEF FinishLocating, finishLoc, HeldRequestIsFront, LocationRun,
         tcpVars, historyVars
    <3>2. Len(LocateVec') = Len(LocateVec) - 1
      BY <2>1, <2>2, <3>1, HeadTailProperties
    <3>3. Len(locAsked') = Len(locAsked) /\ Len(locAsked) - Len(LocateVec) = n
      BY <3>1 DEF LocAnswered, LocAt, LocWaits
    <3>4. Len(locAsked') - Len(LocateVec') = n + 1
      BY <2>1, <3>2, <3>3
    <3>5. LocAnswered' = n + 1
      BY <3>4 DEF LocAnswered
    <3>6. LocDone(n + 1)'
      BY <3>5 DEF LocDone
    <3> QED BY <3>6
  <2>4. CASE StartLocating \/ TestLocTime \/ TestLocFails \/ TestLocSize
    BY <1>1, <2>4 DEF LocAt, LocNext, StartLocating, TestLocTime, TestLocFails, TestLocSize
  <2> QED BY <1>3, <2>2, <2>3, <2>4 DEF LocationRun, LocationStep, PollLocating
<1> QED BY <1>2, <1>3

\* The thread gets from each call to the next.
LocGetsFrom(n, pc) ==
    FairSpec /\ []ThreadsEnabled => (LocAt(n, pc) ~> LocDone(n + 1) \/ LocNext(n, pc))

\* It does from any.
LEMMA LocationGetsOn ==
    ASSUME NEW n \in Nat, NEW pc
    PROVE  LocGetsFrom(n, pc)
<1>1. ServiceInv /\ LocAt(n, pc) /\ [Next]_vars
        => LocDone(n + 1)' \/ LocAt(n, pc)' \/ LocNext(n, pc)'
  BY LocationGoesOn
<1>2. ServiceInv /\ LocAt(n, pc) /\ [Next]_vars /\ <<LocationRun>>_vars
        => LocDone(n + 1)' \/ LocNext(n, pc)'
  BY LocationGoesOn
<1>3. ServiceInv /\ LocAt(n, pc) => LocationGuard
  <2>1. ServiceInv => Len(LocateVec) \in Nat /\ Len(locAsked) \in Nat /\ Len(<<>>) = 0
    BY LocationLengths, EmptySeq
  <2> QED BY <2>1 DEF LocAt, LocWaits, LocAnswered, LocationGuard
<1> QED BY <1>1, <1>2, <1>3, ServiceInvariance, PTL
        DEF LocGetsFrom, FairSpec, Fairness, Spec, ThreadsEnabled

\* What is shown by induction: the first n location requests get their answers.
LocReached(n) == FairSpec /\ []ThreadsEnabled => (Len(locAsked) >= n ~> LocDone(n))

\* Every location request is answered, by induction on those before it: the
\* thread goes round its loop until it holds the request.
THEOREM EveryLocationAnswered ==
    Numbers!InductionFor(LocReached) => (FairSpec /\ []ThreadsEnabled => LocationsAnswered)
<1>1. LocReached(0)
  <2>1. ServiceInv => LocDone(0)
    BY LocationLengths DEF LocDone, LocAnswered
  <2> QED BY <2>1, ServiceInvariance, PTL DEF LocReached, FairSpec
<1>2. ASSUME NEW n \in Nat
      PROVE  LocReached(n) => LocReached(n + 1)
  <2>1. /\ LocGetsFrom(n, "time") /\ LocGetsFrom(n, "size")
        /\ LocGetsFrom(n, "startLoc") /\ LocGetsFrom(n, "finishLoc")
    BY LocationGetsOn
  <2>2. /\ LocNext(n, "time") => LocAt(n, "size") \/ LocAt(n, "startLoc")
        /\ LocNext(n, "size") => LocAt(n, "startLoc")
        /\ LocNext(n, "startLoc") => LocAt(n, "finishLoc")
        /\ ~LocNext(n, "finishLoc")
    BY DEF LocNext
  <2>3. ServiceInv /\ LocWaits(n) =>
          \/ LocAt(n, "time") \/ LocAt(n, "size") \/ LocAt(n, "startLoc") \/ LocAt(n, "finishLoc")
    BY DEF ServiceInv, Inv, TypeOK, LocationTypeOK, LocAt
  <2>4. n + 1 \in Nat
    OBVIOUS
  <2>5. ServiceInv /\ [Next]_vars /\ Len(locAsked) >= n + 1 => (Len(locAsked) >= n + 1)'
    BY <2>4, LocationStillWaits
  <2>6. ServiceInv /\ Len(locAsked) >= n + 1 => Len(locAsked) >= n
    BY LenProperties DEF ServiceInv, QueuesAreRests
  <2>7. ServiceInv /\ Len(locAsked) >= n + 1 /\ LocDone(n) => LocDone(n + 1) \/ LocWaits(n)
    BY LocationLengths DEF LocDone, LocWaits, LocAnswered
  <2> QED BY <2>1, <2>2, <2>3, <2>5, <2>6, <2>7, ServiceInvariance, PTL
          DEF LocReached, LocGetsFrom, FairSpec, Spec
<1>3. Numbers!InductionFor(LocReached) => \A n \in Nat : LocReached(n)
  BY <1>1, <1>2 DEF Numbers!InductionFor
<1> QED BY <1>3, BoundsAssumption DEF LocReached, LocDone, LocAnswered, LocationsAnswered

\* The same for guide requests.
GuideCount == Len(guideAsked) - Len(GuideVec)
GuideDone(n) == GuideCount >= n \/ mainPc # "Listen" \/ ~Up
GuideWaits(n) == Len(guideAsked) >= n + 1 /\ GuideCount = n /\ mainPc = "Listen" /\ Up
GuideAt(n, pc) == GuideWaits(n) /\ guidePc = pc
GuideNext(n, pc) ==
    \/ pc = "time" /\ (GuideAt(n, "size") \/ GuideAt(n, "startGuide"))
    \/ pc = "size" /\ GuideAt(n, "startGuide")
    \/ pc = "startGuide" /\ GuideAt(n, "searchpath")
    \/ pc = "searchpath" /\ GuideAt(n, "finishGuide")

\* No more wait than were asked.
LEMMA GuideLengths ==
    ASSUME ServiceInv
    PROVE  /\ GuideVec \in Seq(GuideRequests) /\ guideAsked \in Seq(GuideRequests)
           /\ Len(GuideVec) \in Nat /\ Len(guideAsked) \in Nat
           /\ Len(GuideVec) <= Len(guideAsked)
<1>1. GuideVec \in Seq(GuideRequests)
  BY RequestsAreItems, RestType DEF ServiceInv, QueuesAreRests, Inv, TypeOK, MsgQueueTypeOK
<1> QED BY <1>1, LenProperties DEF ServiceInv, QueuesAreRests, IsRest

\* A request made is made for ever, and waits once it is the next to be answered.
LEMMA GuideStillWaits ==
    ASSUME ServiceInv, NEW n \in Nat, [Next]_vars
    PROVE  /\ Len(guideAsked) >= n => (Len(guideAsked) >= n)'
           /\ GuideWaits(n) => GuideWaits(n)' \/ GuideDone(n + 1)'
<1>1. /\ GuideVec \in Seq(GuideRequests) /\ guideAsked \in Seq(GuideRequests)
      /\ Len(GuideVec) \in Nat /\ Len(guideAsked) \in Nat
  BY GuideLengths
<1>2. CASE GuideAsked
  <2>1. /\ Len(guideAsked') = Len(guideAsked) + 1 /\ GuideCount' = GuideCount
        /\ Up'
    <3>1. PICK r \in GuideRequests :
                 GuideVec' = Append(GuideVec, r) /\ guideAsked' = Append(guideAsked, r)
      BY <1>2 DEF GuideAsked
    <3>2. Len(GuideVec') = Len(GuideVec) + 1 /\ Len(guideAsked') = Len(guideAsked) + 1
      BY <1>1, <3>1, AppendProperties
    <3> QED BY <1>1, <1>2, <3>2 DEF GuideAsked, GuideCount
  <2> QED BY <1>1, <2>1 DEF GuideWaits, GuideDone
<1>3. CASE GuideAnswered
  <2>1. /\ guideAsked' = guideAsked
        /\ GuideCount' = GuideCount + 1
    <3>1. Len(GuideVec') = Len(GuideVec) - 1
      BY <1>1, <1>3, HeadTailProperties DEF GuideAnswered
    <3> QED BY <1>1, <1>3, <3>1 DEF GuideAnswered, GuideCount
  <2> QED BY <1>1, <2>1 DEF GuideWaits, GuideDone, GuideCount
<1>4. CASE GuideStays
  <2>1. UNCHANGED <<guideAsked, GuideVec>>
    BY <1>4 DEF GuideStays
  <2> QED BY <1>1, <2>1 DEF GuideWaits, GuideDone, GuideCount
<1> QED BY <1>2, <1>3, <1>4, NextGuideService DEF ServiceInv, Inv

\* Only the thread moves itself, and to the next call, while a request waits.
LEMMA GuideGoesOn ==
    ASSUME ServiceInv, NEW n \in Nat, NEW pc, GuideAt(n, pc), [Next]_vars
    PROVE  /\ GuideDone(n + 1)' \/ GuideAt(n, pc)' \/ GuideNext(n, pc)'
           /\ GuideRun => GuideDone(n + 1)' \/ GuideNext(n, pc)'
<1>1. GuideWaits(n)' \/ GuideDone(n + 1)'
  BY GuideStillWaits DEF GuideAt
<1>2. CASE ~GuideRun
  <2>1. guidePc' = guidePc
    BY <1>2 DEF GuideAt, GuideWaits, Next, MainStep, InitServer, InitServerFails, ListenReturns,
       DestroyServer, DestroyLocation, DestroyGuide, DestroyMsgQueue, Exit, EventStep,
       LocationRun, LocationUsesDestroyed, GuideUsesDestroyed, Ended, vars, guideVars,
       GuideTouchesDestroyed, MsgQueueDestroyed, GuideDestroyed
  <2> QED BY <1>1, <1>2, <2>1 DEF GuideAt
<1>3. CASE GuideRun
  <2>1. /\ GuideVec \in Seq(GuideRequests) /\ Len(GuideVec) \in Nat /\ Len(guideAsked) \in Nat
        /\ HeldRequestIsFront
    BY GuideLengths DEF ServiceInv, Inv
  <2>2. GuideVec # <<>>
    BY <2>1, EmptySeq DEF GuideAt, GuideWaits, GuideCount
  <2>3. CASE FinishGuiding
    <3>1. GuideVec' = Tail(GuideVec) /\ guideAsked' = guideAsked
      BY <1>3, <2>1, <2>3 DEF FinishGuiding, finishGuide, HeldRequestIsFront, GuideRun,
         tcpVars, historyVars
    <3>2. Len(GuideVec') = Len(GuideVec) - 1
      BY <2>1, <2>2, <3>1, HeadTailProperties
    <3>3. Len(guideAsked') = Len(guideAsked) /\ Len(guideAsked) - Len(GuideVec) = n
      BY <3>1 DEF GuideCount, GuideAt, GuideWaits
    <3>4. Len(guideAsked') - Len(GuideVec') = n + 1
      BY <2>1, <3>2, <3>3
    <3>5. GuideCount' = n + 1
      BY <3>4 DEF GuideCount
    <3>6. GuideDone(n + 1)'
      BY <3>5 DEF GuideDone
    <3> QED BY <3>6
  <2>4. CASE StartGuiding \/ SearchPath \/ TestGuideTime \/ TestGuideFails \/ TestGuideSize
    BY <1>1, <2>4 DEF GuideAt, GuideNext, StartGuiding, SearchPath, TestGuideTime,
       TestGuideFails, TestGuideSize
  <2> QED BY <1>3, <2>2, <2>3, <2>4 DEF GuideRun, GuideStep, PollGuiding
<1> QED BY <1>2, <1>3

\* The thread gets from each call to the next.
GuideGetsFrom(n, pc) ==
    FairSpec /\ []ThreadsEnabled => (GuideAt(n, pc) ~> GuideDone(n + 1) \/ GuideNext(n, pc))

\* It does from any.
LEMMA GuideGetsOn ==
    ASSUME NEW n \in Nat, NEW pc
    PROVE  GuideGetsFrom(n, pc)
<1>1. ServiceInv /\ GuideAt(n, pc) /\ [Next]_vars
        => GuideDone(n + 1)' \/ GuideAt(n, pc)' \/ GuideNext(n, pc)'
  BY GuideGoesOn
<1>2. ServiceInv /\ GuideAt(n, pc) /\ [Next]_vars /\ <<GuideRun>>_vars
        => GuideDone(n + 1)' \/ GuideNext(n, pc)'
  BY GuideGoesOn
<1>3. ServiceInv /\ GuideAt(n, pc) => GuideGuard
  <2>1. ServiceInv => Len(GuideVec) \in Nat /\ Len(guideAsked) \in Nat /\ Len(<<>>) = 0
    BY GuideLengths, EmptySeq
  <2> QED BY <2>1 DEF GuideAt, GuideWaits, GuideCount, GuideGuard
<1> QED BY <1>1, <1>2, <1>3, ServiceInvariance, PTL
        DEF GuideGetsFrom, FairSpec, Fairness, Spec, ThreadsEnabled

\* What is shown by induction: the first n guide requests get their answers.
GuideReached(n) == FairSpec /\ []ThreadsEnabled => (Len(guideAsked) >= n ~> GuideDone(n))

\* Every guide request is answered, by the same induction; that searchpath comes
\* to an end is SearchesEnd of GuideSearch_proof.
THEOREM EveryGuideAnswered ==
    Numbers!InductionFor(GuideReached) => (FairSpec /\ []ThreadsEnabled => GuidesAnswered)
<1>1. GuideReached(0)
  <2>1. ServiceInv => GuideDone(0)
    BY GuideLengths DEF GuideDone, GuideCount
  <2> QED BY <2>1, ServiceInvariance, PTL DEF GuideReached, FairSpec
<1>2. ASSUME NEW n \in Nat
      PROVE  GuideReached(n) => GuideReached(n + 1)
  <2>1. /\ GuideGetsFrom(n, "time") /\ GuideGetsFrom(n, "size")
        /\ GuideGetsFrom(n, "startGuide") /\ GuideGetsFrom(n, "searchpath")
        /\ GuideGetsFrom(n, "finishGuide")
    BY GuideGetsOn
  <2>2. /\ GuideNext(n, "time") => GuideAt(n, "size") \/ GuideAt(n, "startGuide")
        /\ GuideNext(n, "size") => GuideAt(n, "startGuide")
        /\ GuideNext(n, "startGuide") => GuideAt(n, "searchpath")
        /\ GuideNext(n, "searchpath") => GuideAt(n, "finishGuide")
        /\ ~GuideNext(n, "finishGuide")
    BY DEF GuideNext
  <2>3. ServiceInv /\ GuideWaits(n) =>
          \/ GuideAt(n, "time") \/ GuideAt(n, "size") \/ GuideAt(n, "startGuide")
          \/ GuideAt(n, "searchpath") \/ GuideAt(n, "finishGuide")
    BY DEF ServiceInv, Inv, TypeOK, GuideTypeOK, GuideAt
  <2>4. n + 1 \in Nat
    OBVIOUS
  <2>5. ServiceInv /\ [Next]_vars /\ Len(guideAsked) >= n + 1 => (Len(guideAsked) >= n + 1)'
    BY <2>4, GuideStillWaits
  <2>6. ServiceInv /\ Len(guideAsked) >= n + 1 => Len(guideAsked) >= n
    BY LenProperties DEF ServiceInv, QueuesAreRests
  <2>7. ServiceInv /\ Len(guideAsked) >= n + 1 /\ GuideDone(n)
          => GuideDone(n + 1) \/ GuideWaits(n)
    BY GuideLengths DEF GuideDone, GuideWaits, GuideCount
  <2> QED BY <2>1, <2>2, <2>3, <2>5, <2>6, <2>7, ServiceInvariance, PTL
          DEF GuideReached, GuideGetsFrom, FairSpec, Spec
<1>3. Numbers!InductionFor(GuideReached) => \A n \in Nat : GuideReached(n)
  BY <1>1, <1>2 DEF Numbers!InductionFor
<1> QED BY <1>3, BoundsAssumption DEF GuideReached, GuideDone, GuideCount, GuidesAnswered
=============================================================================
