--------------------------- MODULE Records_proof ---------------------------
(***************************************************************************)
(* What Records promises about whose history is deleted and read, and of   *)
(* the paths UserPositionsHandle makes of the positions it stores.         *)
(***************************************************************************)
EXTENDS Records, FiniteSetTheorems, TLAPS

\* Nothing is proved by induction here: of the facts about naturals those are used
\* that do not depend on the statement.
Numbers == INSTANCE Naturals_proof WITH P <- LAMBDA n : TRUE

\* A registered user's tel is its name, and every position, stored or on its
\* way, has the tel of its name or none: this makes a search by name or tel a
\* search by name.
TelIsName ==
    /\ users \in [AnyName ->
          [tel : AnyName \cup {Null}, iflogin : 0 .. 1, loginNum : Logins]]
    /\ \A n \in AnyName : users[n].tel \in {n, Null}
    /\ \A r \in history : r.tel \in {r.name, NoName}
    /\ store.at = "path" => store.tel \in {store.name, NoName}
    /\ store.at = "insert" => store.row.tel \in {store.row.name, NoName}
    /\ event.at = "loginNum" => event.tel \in AnyName /\ event.loginNum \in Logins

\* What one with a name finds by name or tel has its name.
LEMMA OwnRows ==
    ASSUME TelIsName, NEW n, n # NoName, NEW r \in RowsOf(n)
    PROVE  r.name = n
  BY DEF TelIsName, RowsOf

\* With no rows there is no tel.
LEMMA TelIsNameInit == Init => TelIsName
  <1> SUFFICES ASSUME Init PROVE TelIsName
    OBVIOUS
  <1>1. MaxLogins \in Nat
    BY RecordsAssumption
  <1>2. users \in [AnyName ->
        [tel : AnyName \cup {Null}, iflogin : 0 .. 1, loginNum : Logins]]
    BY <1>1 DEF Init, NoUser, AnyName, Logins
  <1> QED
    BY <1>2 DEF Init, TelIsName, NoUser, Idle

\* RegisterHandle and UserPositionsHandle, the only ones to insert rows, keep tel
\* and name together.
LEMMA TelIsNameStep == TelIsName /\ [Next]_vars => TelIsName'
  <1> SUFFICES ASSUME TelIsName, [Next]_vars PROVE TelIsName'
    OBVIOUS
  <1> USE DEF TelIsName
  <1>a. MaxLogins \in Nat
    BY RecordsAssumption
  <1>1. ASSUME NEW n \in AnyName, RegisterHandle(n) PROVE TelIsName'
    <2>1. users' \in [AnyName ->
          [tel : AnyName \cup {Null}, iflogin : 0 .. 1, loginNum : Logins]]
      BY <1>1, <1>a DEF RegisterHandle, NoUser, AnyName, Logins
    <2>2. \A m \in AnyName : users'[m].tel \in {m, Null}
      BY <1>1 DEF RegisterHandle, NoUser
    <2> QED
      BY <1>1, <2>1, <2>2 DEF RegisterHandle
  <1>2. ASSUME NEW n \in AnyName, LogoutHandle(n) PROVE TelIsName'
    BY <1>2 DEF LogoutHandle
  <1>3. ASSUME NEW c \in Sessions, NEW n \in AnyName, LoginHandle(c, n) PROVE TelIsName'
    <2>1. users[n].loginNum + 1 \in Logins
      BY <1>3, <1>a DEF LoginHandle, Logins
    <2> QED
      BY <1>3, <2>1 DEF LoginHandle
  <1>4. CASE LoginNum
    BY <1>4 DEF LoginNum, Idle
  <1>5. ASSUME NEW c \in Sessions, DeleteOneHistory(c) PROVE TelIsName'
    BY <1>5 DEF DeleteOneHistory, Delete
  <1>6. ASSUME NEW c \in Sessions, DeleteAllHistory(c) PROVE TelIsName'
    BY <1>6 DEF DeleteAllHistory, Delete
  <1>7. ASSUME NEW c \in Sessions, NEW num \in 1 .. MaxPath, GetHistory(c, num)
        PROVE TelIsName'
    BY <1>7 DEF GetHistory
  <1>8. ASSUME NEW t \in Guests, TelNotLoginHandle(t) PROVE TelIsName'
    BY <1>8 DEF TelNotLoginHandle
  <1>9. CASE ReadRows
    BY <1>9 DEF ReadRows, Idle
  <1>10. ASSUME NEW n \in AnyName, SelectHistory(n) PROVE TelIsName'
    BY <1>10 DEF SelectHistory, Accounts
  <1>11. CASE SelectUser
    <2>1. PICK iflogin \in 0 .. 1, loginNum \in Logins, name \in AnyName, tel \in AnyName :
            /\ UserRow(store.name, iflogin, loginNum, name, tel)
            /\ \/ store' = Idle
               \/ store' = [at |-> "path", name |-> name, tel |-> tel,
                            path |-> store.path, loginNum |-> loginNum]
               \/ store' = [at |-> "insert",
                            row |-> [name |-> name, tel |-> tel, path |-> 1,
                                     pathNum |-> 1, loginNum |-> loginNum]]
      BY <1>11 DEF SelectUser
    <2>2. tel \in {name, NoName}
      BY <2>1 DEF UserRow, Registered
    <2>3. /\ store'.at = "path" => store'.tel \in {store'.name, NoName}
          /\ store'.at = "insert" => store'.row.tel \in {store'.row.name, NoName}
      BY <2>1, <2>2 DEF Idle
    <2> QED
      BY <1>11, <2>3 DEF SelectUser, Accounts
  <1>12. CASE SelectPath
    <2>1. \E path, pathNum : store' \in {Idle, [at |-> "insert", row |-> Row(path, pathNum)]}
      BY <1>12 DEF SelectPath, NewPath, SamePath
    <2>2. /\ store'.at = "path" => store'.tel \in {store'.name, NoName}
          /\ store'.at = "insert" => store'.row.tel \in {store'.row.name, NoName}
      BY <1>12, <2>1 DEF SelectPath, Row, Idle
    <2> QED
      BY <1>12, <2>2 DEF SelectPath, Accounts
  <1>13. CASE Insert
    BY <1>13 DEF Insert, Idle
  <1>14. CASE StoreThrows
    BY <1>14 DEF StoreThrows, Accounts, Idle
  <1>15. CASE UNCHANGED vars
    BY <1>15 DEF vars
  <1> QED
    BY <1>1, <1>2, <1>3, <1>4, <1>5, <1>6, <1>7, <1>8, <1>9, <1>10, <1>11, <1>12,
       <1>13, <1>14, <1>15 DEF Next, EventStep, StoreStep

\* A session with a name deletes whole paths of that name, and a step that deletes
\* anything is one of the two requests.
OwnWholePathsGo(c) ==
    Deletes(c) /\ session[c] # NoName =>
        \A r \in history \ history' : r.name = session[c] /\ PathRows(r.name, r.path)' = {}

\* deleteOneHistory takes every row of the path, deleteAllHistory every row of the
\* name; what either finds by name or tel has the name of the session.
LEMMA OwnWholePathsGoStep ==
    ASSUME TelIsName, NEW c \in Sessions
    PROVE  OwnWholePathsGo(c)
  <1> SUFFICES ASSUME Deletes(c), session[c] # NoName, NEW r \in history, r \notin history'
               PROVE  r.name = session[c] /\ PathRows(r.name, r.path)' = {}
    BY DEF OwnWholePathsGo
  <1>1. CASE DeleteOneHistory(c)
    <2>1. PICK name \in AnyName, path \in Paths :
            /\ name = session[c] \/ \E s \in RowsOf(session[c]) : s.name = name
            /\ Delete(PathRows(name, path)) \/ UNCHANGED <<history, torn>>
      BY <1>1 DEF DeleteOneHistory
    <2>2. name = session[c]
      BY <2>1, OwnRows
    <2>3. history' = history \ PathRows(name, path) /\ r \in PathRows(name, path)
      BY <2>1 DEF Delete
    <2> QED
      BY <2>2, <2>3 DEF PathRows
  <1>2. CASE DeleteAllHistory(c)
    <2>1. history' = history \ RowsOf(session[c]) /\ r \in RowsOf(session[c])
      BY <1>2 DEF DeleteAllHistory, Delete
    <2>2. r.name = session[c]
      BY <2>1, OwnRows
    <2> QED
      BY <2>1, <2>2 DEF PathRows, RowsOf
  <1> QED
    BY <1>1, <1>2 DEF Deletes

\* Every other handler keeps the history or adds to it.
LEMMA OthersKeep == [Next]_vars => history \subseteq history' \/ \E c \in Sessions : Deletes(c)
  BY DEF Deletes, Next, EventStep, StoreStep, vars, RegisterHandle, LogoutHandle,
     TelNotLoginHandle, LoginHandle, LoginNum, GetHistory, ReadRows, SelectHistory,
     SelectUser, SelectPath, Insert, StoreThrows, Accounts

\* In every behaviour deleteOneHistory and deleteAllHistory, asked by a session with
\* a name, remove whole paths of the name of that session and nothing else, and
\* no other handler removes a position.
THEOREM OnlyOwnDeletedThm == Spec => OnlyOwnDeleted
  <1> DEFINE Step == /\ \A c \in Sessions : Deletes(c) /\ session[c] # NoName =>
                          \A r \in history \ history' :
                              r.name = session[c] /\ PathRows(r.name, r.path)' = {}
                     /\ history \subseteq history' \/ \E c \in Sessions : Deletes(c)
  <1>1. Init => TelIsName
    BY TelIsNameInit
  <1>2. TelIsName /\ [Next]_vars => TelIsName'
    BY TelIsNameStep
  <1>3. TelIsName /\ [Next]_vars => [Step]_vars
    BY OwnWholePathsGoStep, OthersKeep DEF OwnWholePathsGo
  <1> QED
    BY <1>1, <1>2, <1>3, PTL DEF Spec, OnlyOwnDeleted
-----------------------------------------------------------------------------
(* The history and the thread that stores it.                              *)

\* The positions of a name, and those stored under its account.
Own(n) == {r \in history : r.name = n}
Told(n) == {r \in history : r.name = n /\ r.tel # NoName}

Before(r, s) == r.path < s.path \/ (r.path = s.path /\ r.pathNum < s.pathNum)

Numbered(rows, k) == {r.pathNum : r \in rows} = 1 .. k /\ Cardinality(rows) = k

\* How the history relates to the accounts: a position with a tel was stored for a
\* registered user, under a login number given out before, and after all the
\* positions of that name from before it was registered.
OrderInv ==
    /\ \A r \in history : r.path >= 1
    /\ \A r \in history :
         r.tel # NoName => Registered(r.name) /\ r.loginNum <= users[r.name].loginNum
    /\ \A n \in AnyName : \A r \in Own(n), s \in Told(n) : r.tel = NoName => Before(r, s)

\* UserPositionsHandle between its SELECTs: path is the newest of the name, and
\* the positions of older paths are of logins before the one it read or will read.
SelectInv ==
    /\ store.at \in {"user", "path"} =>
         /\ \A r \in history : r.pathNum <= MaxRows
         /\ \A r \in Own(store.name) : r.path <= store.path
    /\ store.at = "user" =>
         \A s \in Told(store.name) :
            s.path < store.path => s.loginNum < users[store.name].loginNum
    /\ store.at = "path" =>
         /\ store.path >= 1
         /\ store.tel = NoName => Told(store.name) = {}
         /\ store.tel # NoName =>
              /\ Registered(store.name) /\ store.loginNum <= users[store.name].loginNum
              /\ \A s \in Told(store.name) :
                   /\ s.loginNum <= store.loginNum
                   /\ s.path < store.path => s.loginNum < store.loginNum

\* A position that may be inserted: it comes after all of its name, in a path of its
\* own login, and is the next of that path unless the path was torn.
Ready(row) ==
    /\ row.path >= 1
    /\ \A r \in Own(row.name) : Before(r, row)
    /\ \/ Numbered(PathRows(row.name, row.path), row.pathNum - 1)
       \/ <<row.name, row.path>> \in torn /\ row.pathNum > 1
    /\ row.tel = NoName => Told(row.name) = {}
    /\ row.tel # NoName =>
         /\ Registered(row.name) /\ row.loginNum <= users[row.name].loginNum
         /\ \A s \in Told(row.name) :
              /\ s.loginNum <= row.loginNum
              /\ s.path < row.path <=> s.loginNum < row.loginNum

\* So is the one UserPositionsHandle is about to insert.
InsertInv == store.at = "insert" => Ready(store.row)

\* The number a login is about to give out is new.
LoginGrows == event.at = "loginNum" => users[event.tel].loginNum <= event.loginNum

\* What concerns the history and the thread that stores it.
StoredInv ==
    /\ IsFiniteSet(history)
    /\ OrderInv
    /\ SelectInv
    /\ InsertInv
    /\ PathsWhole
    /\ NewestPathLast

RecordsInv ==
    /\ TypeOK
    /\ TelIsName
    /\ StoredInv
    /\ LoginGrows
    /\ HistoryIsOwn
-----------------------------------------------------------------------------
(* What the parts of the state hold.                                       *)

\* Where UserPositionsHandle and the event thread are tells which locals they have.
LEMMA Locals ==
    ASSUME TypeOK
    PROVE  /\ store.at \in {"user", "path"} =>
                store.name \in AnyName /\ store.tel \in AnyName
                /\ store.path \in Paths /\ store.loginNum \in Logins
           /\ store.at = "insert" => store.row \in Rows
           /\ event.at = "loginNum" => event.tel \in AnyName /\ event.loginNum \in Logins
           /\ event.at = "rows" => event.asked \in AnyName /\ event.name \in AnyName
                                   /\ event.path \in Paths
  BY DEF TypeOK, Idle

\* A stored position.
LEMMA RowFields ==
    ASSUME NEW r \in Rows
    PROVE  /\ r.name \in AnyName /\ r.tel \in AnyName /\ r.path \in Nat /\ r.path \in Paths
           /\ r.pathNum \in Nat /\ r.pathNum \in 1 .. MaxRows + 1
           /\ r.loginNum \in Nat /\ r.loginNum \in Logins
  BY RecordsAssumption DEF Rows, Paths, Logins

\* A position stored under an account has the name of a user.
LEMMA ToldNames ==
    ASSUME TypeOK, TelIsName, NEW r \in history, r.tel # NoName
    PROVE  r.name \in Names /\ r.tel = r.name
  BY RowFields DEF TypeOK, TelIsName, AnyName

\* The newest path of a name, if it has one, is the path of one of its positions.
LEMMA NewestPath ==
    ASSUME TypeOK, NEW n, RowsOf(n) # {}
    PROVE  LET m == Max({r.path : r \in RowsOf(n)})
           IN  /\ \E r \in RowsOf(n) : r.path = m
               /\ \A r \in RowsOf(n) : r.path <= m
<1> DEFINE S == {r.path : r \in RowsOf(n)}
<1>1. S \in SUBSET (0 .. MaxPath) /\ S # {} /\ MaxPath \in Nat
  BY RowFields, RecordsAssumption DEF TypeOK, RowsOf, Paths
<1>2. Max(S) \in S /\ \A m \in S : Max(S) >= m
  BY <1>1, Numbers!GreatestElement DEF Max
<1>3. \A m \in S : m \in Nat
  BY <1>1
<1> QED BY <1>2, <1>3

\* The last position of a path that has any.
LEMMA LastPosition ==
    ASSUME TypeOK, NEW rows \in SUBSET history, rows # {}
    PROVE  /\ LastOf(rows) \in rows
           /\ \A r \in rows : r.pathNum <= LastOf(rows).pathNum
<1> DEFINE S == {r.pathNum : r \in rows}
<1>1. S \in SUBSET (0 .. MaxRows + 1) /\ S # {} /\ MaxRows + 1 \in Nat
  BY RowFields, RecordsAssumption DEF TypeOK
<1>2. Max(S) \in S /\ \A m \in S : Max(S) >= m
  BY <1>1, Numbers!GreatestElement DEF Max
<1>3. \A m \in S : m \in Nat
  BY <1>1
<1>4. \E r \in rows : \A q \in rows : q.pathNum <= r.pathNum
  BY <1>2, <1>3
<1> QED BY <1>4 DEF LastOf

\* One position more, with the next number.
LEMMA OneMorePosition ==
    ASSUME NEW rows \in SUBSET Rows, IsFiniteSet(rows), NEW k \in Nat, Numbered(rows, k),
           NEW r \in Rows, r.pathNum = k + 1
    PROVE  Numbered(rows \cup {r}, k + 1)
<1>1. r \notin rows
  BY DEF Numbered
<1>2. Cardinality(rows \cup {r}) = k + 1
  BY <1>1, FS_AddElement DEF Numbered
<1>3. {q.pathNum : q \in rows \cup {r}} = 1 .. k + 1
  BY DEF Numbered
<1> QED BY <1>2, <1>3 DEF Numbered
-----------------------------------------------------------------------------
(* The steps, grouped by what they change.                                 *)

\* Accounts are never taken back and login numbers never go down, which is all the
\* history asks of them.
LEMMA AccountsKeep ==
    ASSUME TypeOK, TelIsName, StoredInv, TypeOK',
           UNCHANGED <<history, store, torn>>,
           \A n \in AnyName : Registered(n) =>
              Registered(n)' /\ users[n].loginNum <= users'[n].loginNum
    PROVE  StoredInv'
<1>1. \A n : Own(n)' = Own(n) /\ Told(n)' = Told(n) /\ \A p : PathRows(n, p)' = PathRows(n, p)
  BY DEF Own, Told, PathRows
<1>2. ASSUME NEW r \in history, r.tel # NoName
      PROVE  /\ r.name \in Names /\ r.loginNum \in Nat
             /\ Registered(r.name) /\ Registered(r.name)'
             /\ users[r.name].loginNum \in Nat /\ users'[r.name].loginNum \in Nat
             /\ users[r.name].loginNum <= users'[r.name].loginNum
  BY <1>2, ToldNames, RowFields, RecordsAssumption DEF TypeOK, StoredInv, OrderInv, Logins,
     AnyName
<1>3. OrderInv'
  BY <1>1, <1>2 DEF StoredInv, OrderInv, Before
<1>4. SelectInv'
  <2>1. SelectInv
    BY DEF StoredInv
  <2>2. CASE store.at = "user"
    <3> SUFFICES ASSUME NEW s \in Told(store.name), s.path < store.path
                 PROVE  s.loginNum < users'[store.name].loginNum
      BY <1>1, <2>1, <2>2 DEF SelectInv
    <3>1. s.name = store.name /\ s \in history /\ s.tel # NoName
      BY DEF Told
    <3>2. s.loginNum < users[store.name].loginNum
      BY <2>1, <2>2 DEF SelectInv
    <3> QED BY <1>2, <3>1, <3>2
  <2>3. CASE store.at = "path"
    <3>1. CASE store.tel = NoName
      BY <1>1, <2>1, <2>3, <3>1 DEF SelectInv
    <3>2. CASE store.tel # NoName
      <4>1. store.name \in AnyName /\ store.loginNum \in Nat
        BY <2>3, Locals, RecordsAssumption DEF Logins
      <4>2. /\ Registered(store.name) /\ store.loginNum <= users[store.name].loginNum
            /\ users[store.name].loginNum \in Nat /\ users'[store.name].loginNum \in Nat
        BY <2>1, <2>3, <3>2, <4>1, RecordsAssumption DEF SelectInv, TypeOK, Logins
      <4>3. Registered(store.name)' /\ store.loginNum <= users'[store.name].loginNum
        BY <4>1, <4>2
      <4> QED BY <1>1, <2>1, <2>3, <3>2, <4>3 DEF SelectInv
    <3> QED BY <3>1, <3>2
  <2> QED BY <2>2, <2>3 DEF SelectInv
<1>5. InsertInv'
  <2> SUFFICES ASSUME store.at = "insert"
               PROVE  InsertInv'
    BY DEF InsertInv
  <2> DEFINE row == store.row
  <2>1. InsertInv /\ row \in Rows
    BY Locals DEF StoredInv
  <2>2. CASE row.tel = NoName
    BY <1>1, <2>1, <2>2 DEF InsertInv, Ready
  <2>3. CASE row.tel # NoName
    <3>1. row.name \in AnyName /\ row.loginNum \in Nat
      BY <2>1, RowFields
    <3>2. /\ Registered(row.name) /\ row.loginNum <= users[row.name].loginNum
          /\ users[row.name].loginNum \in Nat /\ users'[row.name].loginNum \in Nat
      BY <2>1, <2>3, <3>1, RecordsAssumption DEF InsertInv, Ready, TypeOK, Logins
    <3>3. Registered(row.name)' /\ row.loginNum <= users'[row.name].loginNum
      BY <3>1, <3>2
    <3> QED BY <1>1, <2>1, <2>3, <3>3 DEF InsertInv, Ready
  <2> QED BY <2>2, <2>3
<1>6. PathsWhole'
  BY <1>1 DEF StoredInv, PathsWhole, AllPaths
<1>7. NewestPathLast'
  BY DEF StoredInv, NewestPathLast
<1> QED BY <1>3, <1>4, <1>5, <1>6, <1>7 DEF StoredInv

\* A deletion leaves a path whole, takes it away or tears it; a position on its way
\* to a path that is hit finds it torn.
LEMMA DeleteKeeps ==
    ASSUME TypeOK, StoredInv, NEW rows \in SUBSET history, Delete(rows),
           UNCHANGED <<users, store>>
    PROVE  StoredInv'
<1> DEFINE hit == {<<r.name, r.path>> : r \in rows}
           Pending(x) == /\ store.at = "insert" /\ store.row.pathNum > 1
                         /\ x = <<store.row.name, store.row.path>>
<1>1. /\ history' = history \ rows
      /\ torn' = (torn \ hit) \cup
                 {x \in hit : Pending(x) \/ ~(PathRows(x[1], x[2]) \subseteq rows)}
  BY DEF Delete
<1> HIDE DEF Pending
<1>2. \A n : Own(n)' \subseteq Own(n) /\ Told(n)' \subseteq Told(n)
             /\ \A p : PathRows(n, p)' = PathRows(n, p) \ rows
  BY <1>1 DEF Own, Told, PathRows
<1>3. ASSUME NEW n, NEW p, <<n, p>> \notin hit
      PROVE  /\ PathRows(n, p)' = PathRows(n, p)
             /\ <<n, p>> \in torn' <=> <<n, p>> \in torn
  <2>1. PathRows(n, p) \cap rows = {}
    BY <1>3 DEF PathRows
  <2> QED BY <1>1, <1>2, <1>3, <2>1
<1>4. IsFiniteSet(history')
  BY <1>1, FS_Subset DEF StoredInv
<1>5. OrderInv'
  BY <1>1, <1>2 DEF StoredInv, OrderInv, Registered, Before
<1>6. SelectInv'
  BY <1>1, <1>2 DEF StoredInv, SelectInv, Registered
<1>7. InsertInv'
  <2> SUFFICES ASSUME store.at = "insert"
               PROVE  InsertInv'
    BY DEF InsertInv
  <2> DEFINE row == store.row
             x == <<row.name, row.path>>
             own == PathRows(row.name, row.path)
  <2>1. row \in Rows /\ row.pathNum \in Nat
    BY Locals, RowFields
  <2>2. \/ Numbered(own, row.pathNum - 1)
        \/ x \in torn /\ row.pathNum > 1
    BY DEF StoredInv, InsertInv, Ready
  <2>3. \/ Numbered(PathRows(row.name, row.path)', row.pathNum - 1)
        \/ x \in torn' /\ row.pathNum > 1
    <3>1. CASE x \in hit
      <4>1. row.pathNum > 1
        <5>1. PICK r \in rows : r.name = row.name /\ r.path = row.path
          BY <3>1
        <5>2. r \in own /\ r.pathNum \in Nat /\ r.pathNum >= 1
          BY <5>1, RowFields DEF PathRows, TypeOK
        <5>3. CASE Numbered(own, row.pathNum - 1)
          <6>1. r.pathNum \in 1 .. row.pathNum - 1
            BY <5>2, <5>3 DEF Numbered
          <6> QED BY <2>1, <6>1
        <5> QED BY <2>2, <5>3
      <4>2. Pending(x)
        BY <4>1 DEF Pending
      <4> QED BY <1>1, <3>1, <4>1, <4>2
    <3>2. CASE x \notin hit
      BY <1>3, <2>2, <3>2
    <3> QED BY <3>1, <3>2
  <2> QED BY <1>2, <2>3 DEF StoredInv, InsertInv, Ready, Registered, Before, Numbered
<1>8. PathsWhole'
  <2> SUFFICES ASSUME NEW r \in history', <<r.name, r.path>> \notin torn'
               PROVE  LET new == PathRows(r.name, r.path)'
                      IN  {q.pathNum : q \in new} = 1 .. Cardinality(new)
    BY DEF PathsWhole, AllPaths
  <2>1. CASE <<r.name, r.path>> \in hit
    <3>1. PathRows(r.name, r.path) \subseteq rows
      BY <1>1, <2>1
    <3>2. r \in history /\ r \notin rows
      BY <1>1
    <3> QED BY <3>1, <3>2 DEF PathRows
  <2>2. CASE <<r.name, r.path>> \notin hit
    <3>1. /\ PathRows(r.name, r.path)' = PathRows(r.name, r.path)
          /\ <<r.name, r.path>> \notin torn
          /\ r \in history
      BY <1>1, <1>3, <2>2
    <3> QED BY <3>1 DEF StoredInv, PathsWhole, AllPaths
  <2> QED BY <2>1, <2>2
<1>9. NewestPathLast'
  BY <1>1 DEF StoredInv, NewestPathLast
<1> QED BY <1>4, <1>5, <1>6, <1>7, <1>8, <1>9 DEF StoredInv

\* UserPositionsHandle is done, has nothing to do, or was thrown out of.
LEMMA IdleKeeps ==
    ASSUME StoredInv, store' = Idle, UNCHANGED <<users, history, torn>>
    PROVE  StoredInv'
<1>1. SelectInv' /\ InsertInv'
  BY DEF SelectInv, InsertInv, Idle
<1>2. OrderInv' /\ PathsWhole' /\ NewestPathLast'
  BY DEF StoredInv, OrderInv, PathsWhole, NewestPathLast, AllPaths, PathRows, Own, Told,
         Registered, Before
<1> QED BY <1>1, <1>2 DEF StoredInv

\* Only the place and the locals of UserPositionsHandle change.
LEMMA LocalsChange ==
    ASSUME StoredInv, UNCHANGED <<users, history, torn>>, SelectInv', InsertInv'
    PROVE  StoredInv'
<1>1. OrderInv' /\ PathsWhole' /\ NewestPathLast'
  BY DEF StoredInv, OrderInv, PathsWhole, NewestPathLast, AllPaths, PathRows, Own, Told,
         Registered, Before
<1> QED BY <1>1 DEF StoredInv

\* The newest path of a name is that of its newest login, if it has more than one.
LEMMA SelectHistoryKeeps ==
    ASSUME TypeOK, TelIsName, StoredInv, NEW n \in AnyName, SelectHistory(n)
    PROVE  StoredInv'
<1> DEFINE m == Max({r.path : r \in RowsOf(n)})
<1>1. /\ store' = [at |-> "user", name |-> n, tel |-> NoName, loginNum |-> 0,
                   path |-> IF RowsOf(n) = {} THEN 0 ELSE m]
      /\ \A r \in history : r.pathNum <= MaxRows
      /\ UNCHANGED <<users, history, torn>>
  BY DEF SelectHistory, Accounts
<1>2. Own(n) \subseteq RowsOf(n)
  BY DEF Own, RowsOf
<1>3. \A r \in Own(n) : RowsOf(n) # {} /\ r.path <= m
  BY <1>2, NewestPath
<1> HIDE DEF m
<1>4. ASSUME NEW s \in Told(n), s.path < store'.path
      PROVE  s.loginNum < users[n].loginNum
  <2>1. s \in history /\ s.name = n /\ s.tel # NoName /\ s \in Own(n)
    BY DEF Told, Own
  <2>2. n \in Names /\ n # NoName
    BY <2>1, ToldNames, RecordsAssumption
  <2>3. RowsOf(n) # {} /\ store'.path = m
    BY <1>1, <1>3, <2>1
  <2>4. PICK q \in RowsOf(n) : q.path = m
    BY <2>3, NewestPath DEF m
  <2>5. q.name = n /\ q \in history /\ q \in Own(n)
    BY <2>2, OwnRows DEF RowsOf, Own
  <2>6. /\ s.path \in Nat /\ q.path \in Nat /\ s.loginNum \in Nat /\ q.loginNum \in Nat
        /\ users[n].loginNum \in Nat
    BY <2>1, <2>2, <2>5, RowFields, RecordsAssumption DEF TypeOK, Logins
  <2>7. ~Before(q, s)
    BY <1>4, <2>3, <2>4, <2>6 DEF Before
  <2>8. q.tel # NoName /\ q.loginNum <= users[n].loginNum
    BY <2>5, <2>7 DEF StoredInv, OrderInv
  <2>9. q.path <= s.path <=> q.loginNum <= s.loginNum
    BY <2>1, <2>5, <2>8 DEF StoredInv, NewestPathLast
  <2> QED BY <1>4, <2>3, <2>4, <2>6, <2>8, <2>9
<1>5. SelectInv'
  BY <1>1, <1>3, <1>4 DEF SelectInv, Own, Told
<1>6. InsertInv'
  BY <1>1 DEF InsertInv
<1> QED BY <1>1, <1>5, <1>6, LocalsChange

\* The account found by name or tel is that of the name, and its login number is
\* the newest; with none there is no position stored under an account.
LEMMA UserFound ==
    ASSUME TypeOK, TelIsName, OrderInv, NEW n, NEW iflogin, NEW loginNum, NEW name, NEW tel,
           UserRow(n, iflogin, loginNum, name, tel)
    PROVE  /\ name = n
           /\ tel = NoName => Told(n) = {}
           /\ tel # NoName =>
                /\ n \in Names /\ Registered(n) /\ loginNum = users[n].loginNum
                /\ \A s \in Told(n) : s.loginNum <= loginNum
<1> DEFINE found == {m \in AnyName : Registered(m) /\ (m = n \/ users[m].tel = n)}
<1>1. \A m \in found : m = n /\ users[m].tel = n
  BY DEF TelIsName, Registered
<1>2. ASSUME NEW s \in Told(n)
      PROVE  n \in found /\ s.loginNum <= users[n].loginNum /\ n \in Names
  <2>1. s \in history /\ s.tel # NoName /\ s.name = n
    BY DEF Told
  <2>2. n \in Names /\ n \in AnyName
    BY <2>1, ToldNames DEF AnyName
  <2> QED BY <2>1, <2>2 DEF OrderInv
<1>3. CASE found = {}
  <2>1. name = n /\ tel = NoName
    BY <1>3 DEF UserRow
  <2> QED BY <1>2, <1>3, <2>1
<1>4. CASE found # {}
  <2>1. n \in found /\ name = n /\ tel = users[n].tel /\ loginNum = users[n].loginNum
    BY <1>1, <1>4 DEF UserRow
  <2>2. tel = n /\ n \in AnyName
    BY <1>1, <2>1
  <2>3. tel = NoName => Told(n) = {}
    BY <1>2, <2>2, RecordsAssumption
  <2> QED BY <1>1, <1>2, <2>1, <2>2, <2>3 DEF AnyName
<1> QED BY <1>3, <1>4

\* What the second SELECT finds fits to the positions of the name.
LEMMA SelectUserKeeps ==
    ASSUME TypeOK, TelIsName, StoredInv, SelectUser
    PROVE  StoredInv'
<1>1. PICK iflogin \in 0 .. 1, loginNum \in Logins, name \in AnyName, tel \in AnyName :
        /\ UserRow(store.name, iflogin, loginNum, name, tel)
        /\ \/ store' = Idle
           \/ /\ store.path > 0
              /\ store' = [at |-> "path", name |-> name, tel |-> tel,
                           path |-> store.path, loginNum |-> loginNum]
           \/ /\ ~(store.path > 0)
              /\ store' = [at |-> "insert",
                           row |-> [name |-> name, tel |-> tel, path |-> 1,
                                    pathNum |-> 1, loginNum |-> loginNum]]
  BY DEF SelectUser
<1>2. store.at = "user" /\ UNCHANGED <<users, history, torn>>
  BY DEF SelectUser, Accounts
<1> DEFINE n == store.name
<1>3. /\ name = n
      /\ tel = NoName => Told(n) = {}
      /\ tel # NoName =>
           /\ n \in Names /\ Registered(n) /\ loginNum = users[n].loginNum
           /\ \A s \in Told(n) : s.loginNum <= loginNum
  BY <1>1, UserFound DEF StoredInv
<1>4. /\ \A r \in history : r.pathNum <= MaxRows
      /\ \A r \in Own(n) : r.path <= store.path
      /\ \A s \in Told(n) : s.path < store.path => s.loginNum < users[n].loginNum
      /\ store.path \in Nat /\ loginNum \in Nat
  BY <1>2, Locals, RecordsAssumption DEF StoredInv, SelectInv, Paths, Logins
<1>5. CASE store' = Idle
  BY <1>2, <1>5, IdleKeeps
<1>6. CASE /\ store.path > 0
           /\ store' = [at |-> "path", name |-> name, tel |-> tel,
                        path |-> store.path, loginNum |-> loginNum]
  <2>1. SelectInv'
    BY <1>2, <1>3, <1>4, <1>6 DEF SelectInv, Own, Told, Registered
  <2>2. InsertInv'
    BY <1>6 DEF InsertInv
  <2> QED BY <1>2, <2>1, <2>2, LocalsChange
<1>7. CASE /\ ~(store.path > 0)
           /\ store' = [at |-> "insert",
                        row |-> [name |-> name, tel |-> tel, path |-> 1,
                                 pathNum |-> 1, loginNum |-> loginNum]]
  <2>1. Own(n) = {}
    <3> SUFFICES ASSUME NEW r \in Own(n)
                 PROVE  FALSE
      OBVIOUS
    <3>1. r.path >= 1 /\ r.path <= store.path /\ r.path \in Nat
      BY <1>4, RowFields DEF Own, StoredInv, OrderInv, TypeOK
    <3> QED BY <1>4, <1>7, <3>1
  <2>2. \A r \in history : r.name # name
    BY <1>3, <2>1 DEF Own
  <2> DEFINE row == [name |-> name, tel |-> tel, path |-> 1, pathNum |-> 1,
                     loginNum |-> loginNum]
  <2>3. Own(row.name)' = {} /\ Told(row.name)' = {} /\ PathRows(row.name, row.path)' = {}
    BY <1>2, <2>2 DEF Own, Told, PathRows
  <2>4. Numbered({}, row.pathNum - 1)
    BY FS_EmptySet DEF Numbered
  <2>5. tel # NoName => Registered(name)' /\ loginNum <= users'[name].loginNum
    BY <1>2, <1>3, <1>4 DEF Registered
  <2>6. Ready(row)'
    BY <2>3, <2>4, <2>5 DEF Ready, Numbered
  <2>7. store'.row = row
    BY <1>7
  <2>8. InsertInv'
    BY <2>6, <2>7 DEF InsertInv
  <2>9. SelectInv'
    BY <1>7 DEF SelectInv
  <2> QED BY <1>2, <2>8, <2>9, LocalsChange
<1> QED BY <1>1, <1>5, <1>6, <1>7

\* If one position of a path is stored under an account so is the last one, under
\* the same login.
LEMMA LastTold ==
    ASSUME TypeOK, OrderInv, NewestPathLast, NEW n \in AnyName, NEW s \in Told(n)
    PROVE  LET rows == PathRows(n, s.path)
           IN  rows # {} /\ LastOf(rows) \in Told(n) /\ LastOf(rows).loginNum = s.loginNum
<1> DEFINE rows == PathRows(n, s.path)
           q == LastOf(rows)
<1>1. s \in rows /\ s \in history /\ s.tel # NoName /\ s.name = n /\ rows \in SUBSET history
  BY DEF Told, PathRows
<1>2. q \in rows /\ s.pathNum <= q.pathNum
  BY <1>1, LastPosition
<1>3. q \in history /\ q.name = n /\ q.path = s.path /\ q \in Own(n)
  BY <1>2 DEF PathRows, Own
<1> HIDE DEF q, rows
<1>4. /\ s.path \in Nat /\ s.pathNum \in Nat /\ s.loginNum \in Nat
      /\ q.path \in Nat /\ q.pathNum \in Nat /\ q.loginNum \in Nat
  BY <1>1, <1>3, RowFields DEF TypeOK
<1>5. ~Before(q, s)
  BY <1>2, <1>3, <1>4 DEF Before
<1>6. q.tel # NoName
  BY <1>3, <1>5 DEF OrderInv
<1>7. /\ q.path <= s.path <=> q.loginNum <= s.loginNum
      /\ s.path <= q.path <=> s.loginNum <= q.loginNum
  BY <1>1, <1>3, <1>6 DEF NewestPathLast
<1>8. q.loginNum = s.loginNum
  BY <1>3, <1>4, <1>7
<1> QED BY <1>1, <1>3, <1>6, <1>8 DEF Told, rows, q

\* The last position of a path that is whole has as number how many there are.
LEMMA LastNumber ==
    ASSUME TypeOK, IsFiniteSet(history), PathsWhole, NEW n, NEW p, <<n, p>> \notin torn,
           PathRows(n, p) # {}
    PROVE  Numbered(PathRows(n, p), LastOf(PathRows(n, p)).pathNum)
<1> DEFINE rows == PathRows(n, p)
           q == LastOf(rows)
           k == Cardinality(rows)
<1>1. rows \in SUBSET history /\ rows # {} /\ <<n, p>> \in AllPaths
  BY DEF PathRows, AllPaths
<1>2. {r.pathNum : r \in rows} = 1 .. k
  BY <1>1 DEF PathsWhole
<1>3. k \in Nat
  BY <1>1, FS_Subset, FS_CardinalityType
<1>4. q \in rows /\ \A r \in rows : r.pathNum <= q.pathNum
  BY <1>1, LastPosition
<1> HIDE DEF rows, q, k
<1>5. q.pathNum \in 1 .. k
  BY <1>2, <1>4
<1>6. PICK r \in rows : r.pathNum = k
  BY <1>2, <1>3, <1>5
<1>7. q.pathNum = k
  BY <1>3, <1>4, <1>5, <1>6
<1> QED BY <1>2, <1>7 DEF Numbered, rows, q, k

\* Where the next position of a name goes.
LEMMA SelectPathKeeps ==
    ASSUME TypeOK, TelIsName, StoredInv, SelectPath
    PROVE  StoredInv'
<1> DEFINE n == store.name
           p == store.path
           rows == PathRows(n, p)
<1>1. PICK lb \in IF rows = {} THEN Garbage ELSE {LastOf(rows).loginNum} :
        \/ store' = Idle
        \/ store.loginNum # lb /\ store' = [at |-> "insert", row |-> NewPath(rows)]
        \/ store.loginNum = lb /\ store' = [at |-> "insert", row |-> SamePath(rows)]
  BY DEF SelectPath, NewLogin
<1>2. store.at = "path" /\ UNCHANGED <<users, history, torn>>
  BY DEF SelectPath, Accounts
<1>3. n \in AnyName /\ p \in Nat /\ store.loginNum \in Nat /\ store.tel \in AnyName
  BY <1>2, Locals, RecordsAssumption DEF Paths, Logins
<1>4. /\ p >= 1
      /\ \A r \in Own(n) : r.path <= p
      /\ store.tel = NoName => Told(n) = {}
      /\ store.tel # NoName =>
           /\ Registered(n) /\ store.loginNum <= users[n].loginNum
           /\ \A s \in Told(n) :
                /\ s.loginNum <= store.loginNum
                /\ s.path < p => s.loginNum < store.loginNum
  BY <1>2 DEF StoredInv, SelectInv
<1>5. \A r \in Own(n) : r.path \in Nat /\ r.pathNum \in Nat /\ r.loginNum \in Nat
  BY RowFields DEF Own, TypeOK
<1>6. \A s \in Told(n) : s \in Own(n)
  BY DEF Told, Own
<1>7. ASSUME NEW s \in Told(n), s.path = p
      PROVE  s.loginNum = lb
  <2>1. rows # {} /\ LastOf(rows).loginNum = s.loginNum
    BY <1>3, <1>7, LastTold DEF StoredInv
  <2> QED BY <1>1, <2>1
<1>8. /\ \A m : Own(m)' = Own(m) /\ Told(m)' = Told(m)
      /\ \A m, x : PathRows(m, x)' = PathRows(m, x)
      /\ \A m : Registered(m)' <=> Registered(m)
  BY <1>2 DEF Own, Told, PathRows, Registered
<1>9. ASSUME NEW row, store' = [at |-> "insert", row |-> row], Ready(row)'
      PROVE  StoredInv'
  <2>1. store'.row = row
    BY <1>9
  <2>2. SelectInv' /\ InsertInv'
    BY <1>9, <2>1 DEF SelectInv, InsertInv
  <2> QED BY <1>2, <2>2, LocalsChange
<1>10. CASE store' = Idle
  BY <1>2, <1>10, IdleKeeps
<1>11. CASE store.loginNum # lb /\ store' = [at |-> "insert", row |-> NewPath(rows)]
  <2>1. PICK row : row = NewPath(rows)
    OBVIOUS
  <2>2. /\ row.name = n /\ row.tel = store.tel /\ row.path = p + 1 /\ row.pathNum = 1
        /\ row.loginNum = store.loginNum
    BY <2>1 DEF NewPath, Row
  <2>3. \A r \in Own(n) : r.path < p + 1
    BY <1>3, <1>4, <1>5
  <2>4. PathRows(n, p + 1) = {}
    BY <1>3, <2>3, <1>5 DEF PathRows, Own
  <2>5. Numbered(PathRows(n, p + 1), 1 - 1)
    BY <2>4, FS_EmptySet DEF Numbered
  <2>6. ASSUME NEW s \in Told(n), store.tel # NoName
        PROVE  s.loginNum < store.loginNum
    <3>1. s.path <= p /\ s.path \in Nat /\ s.loginNum \in Nat
      BY <1>4, <1>5, <1>6
    <3>2. CASE s.path = p
      <4>1. s.loginNum # store.loginNum /\ s.loginNum <= store.loginNum
        BY <1>4, <1>7, <1>11, <2>6, <3>2
      <4> QED BY <1>3, <3>1, <4>1
    <3>3. CASE s.path < p
      BY <1>4, <2>6, <3>3
    <3> QED BY <1>3, <3>1, <3>2, <3>3
  <2>7. \A s \in Told(n) : s.path < p + 1
    BY <1>6, <2>3
  <2>8. \A r \in Own(n) : Before(r, row)
    BY <2>2, <2>3 DEF Before
  <2>9. row.path >= 1
    BY <1>3, <2>2
  <2>10. Ready(row)
    <3>1. Numbered(PathRows(row.name, row.path), row.pathNum - 1)
      BY <2>2, <2>5
    <3>2. \A r \in Own(row.name) : Before(r, row)
      BY <2>2, <2>8
    <3>3. row.tel = NoName => Told(row.name) = {}
      BY <1>4, <2>2
    <3>4. row.tel # NoName =>
            /\ Registered(row.name) /\ row.loginNum <= users[row.name].loginNum
            /\ \A s \in Told(row.name) :
                 /\ s.loginNum <= row.loginNum
                 /\ s.path < row.path <=> s.loginNum < row.loginNum
      BY <1>4, <2>2, <2>6, <2>7
    <3> QED BY <2>9, <3>1, <3>2, <3>3, <3>4 DEF Ready
  <2>11. Ready(row)'
    BY <1>2, <1>8, <2>10 DEF Ready, Before, Numbered
  <2> QED BY <1>9, <1>11, <2>1, <2>11
<1>12. CASE store.loginNum = lb /\ store' = [at |-> "insert", row |-> SamePath(rows)]
  <2>1. PICK row : row = SamePath(rows)
    OBVIOUS
  <2>2. /\ row.name = n /\ row.tel = store.tel /\ row.path = p
        /\ row.pathNum = IF rows = {} THEN 1 ELSE LastOf(rows).pathNum + 1
        /\ row.loginNum = store.loginNum
    BY <2>1 DEF SamePath, Row
  <2>3. ASSUME rows # {}
        PROVE  /\ LastOf(rows) \in rows /\ LastOf(rows).pathNum \in Nat
               /\ LastOf(rows).pathNum >= 1
               /\ \A r \in rows : r.pathNum <= LastOf(rows).pathNum
    <3>1. rows \in SUBSET history
      BY DEF PathRows
    <3>2. LastOf(rows) \in rows /\ \A r \in rows : r.pathNum <= LastOf(rows).pathNum
      BY <2>3, <3>1, LastPosition
    <3>3. LastOf(rows) \in Rows
      BY <3>1, <3>2 DEF TypeOK
    <3> QED BY <3>2, <3>3, RowFields
  <2> HIDE DEF rows
  <2>4. ASSUME NEW r \in Own(n)
        PROVE  Before(r, row)
    <3>1. r.path <= p /\ r.path \in Nat /\ r.pathNum \in Nat
      BY <1>4, <1>5
    <3>2. CASE r.path = p
      <4>1. r \in rows
        BY <2>4, <3>2 DEF Own, PathRows, rows
      <4>2. r.pathNum < row.pathNum
        BY <2>2, <2>3, <3>1, <4>1
      <4> QED BY <2>2, <3>2, <4>2 DEF Before
    <3>3. CASE r.path < p
      BY <2>2, <3>3 DEF Before
    <3> QED BY <1>3, <3>1, <3>2, <3>3
  <2>5. \/ Numbered(rows, row.pathNum - 1)
        \/ <<n, p>> \in torn /\ row.pathNum > 1
    <3>1. CASE rows = {}
      <4>1. row.pathNum - 1 = 0
        BY <2>2, <3>1
      <4>2. Numbered({}, 0)
        BY FS_EmptySet DEF Numbered
      <4> QED BY <3>1, <4>1, <4>2
    <3>2. CASE rows # {}
      <4>1. row.pathNum - 1 = LastOf(rows).pathNum /\ row.pathNum > 1
        BY <2>2, <2>3, <3>2
      <4>2. <<n, p>> \notin torn => Numbered(rows, LastOf(rows).pathNum)
        BY <3>2, LastNumber DEF StoredInv, rows
      <4> QED BY <4>1, <4>2
    <3> QED BY <3>1, <3>2
  <2>6. ASSUME NEW s \in Told(n), store.tel # NoName
        PROVE  s.path < p <=> s.loginNum < store.loginNum
    <3>1. s.path <= p /\ s.path \in Nat /\ s.loginNum \in Nat
      BY <1>4, <1>5, <1>6
    <3>2. CASE s.path = p
      <4>1. s.loginNum = store.loginNum
        BY <1>7, <1>12, <3>2
      <4> QED BY <1>3, <3>1, <3>2, <4>1
    <3>3. CASE s.path < p
      BY <1>4, <2>6, <3>3
    <3> QED BY <1>3, <3>1, <3>2, <3>3
  <2>7. Ready(row)
    <3>1. \/ Numbered(PathRows(row.name, row.path), row.pathNum - 1)
          \/ <<row.name, row.path>> \in torn /\ row.pathNum > 1
      BY <2>2, <2>5 DEF rows
    <3>2. \A r \in Own(row.name) : Before(r, row)
      BY <2>2, <2>4
    <3>3. row.tel = NoName => Told(row.name) = {}
      BY <1>4, <2>2
    <3>4. row.tel # NoName =>
            /\ Registered(row.name) /\ row.loginNum <= users[row.name].loginNum
            /\ \A s \in Told(row.name) :
                 /\ s.loginNum <= row.loginNum
                 /\ s.path < row.path <=> s.loginNum < row.loginNum
      BY <1>4, <2>2, <2>6
    <3>5. row.path >= 1
      BY <1>4, <2>2
    <3> QED BY <3>1, <3>2, <3>3, <3>4, <3>5 DEF Ready
  <2>8. Ready(row)'
    BY <1>2, <1>8, <2>7 DEF Ready, Before, Numbered
  <2> QED BY <1>9, <1>12, <2>1, <2>8
<1> QED BY <1>1, <1>10, <1>11, <1>12

\* A position that is ready goes to the end of the history of its name.
LEMMA InsertKeeps ==
    ASSUME TypeOK, StoredInv, Insert
    PROVE  StoredInv'
<1>1. PICK row : row = store.row
  OBVIOUS
<1>2. /\ history' = history \cup {row} /\ store' = Idle
      /\ UNCHANGED <<users, torn>> /\ store.at = "insert"
  BY <1>1 DEF Insert
<1>3. row \in Rows /\ Ready(row) /\ history \subseteq Rows
  BY <1>1, <1>2, Locals DEF StoredInv, InsertInv, TypeOK
<1>4. /\ row.path \in Nat /\ row.pathNum \in Nat /\ row.loginNum \in Nat /\ row.pathNum >= 1
      /\ \A r \in history : r.path \in Nat /\ r.pathNum \in Nat /\ r.loginNum \in Nat
  BY <1>3, RowFields
<1>5. IsFiniteSet(history')
  BY <1>2, FS_AddElement DEF StoredInv
<1>6. OrderInv'
  <2>1. \A r \in history' : r.path >= 1
    BY <1>2, <1>3 DEF StoredInv, OrderInv, Ready
  <2>2. \A r \in history' :
          r.tel # NoName => Registered(r.name)' /\ r.loginNum <= users'[r.name].loginNum
    BY <1>2, <1>3 DEF StoredInv, OrderInv, Ready, Registered
  <2>3. ASSUME NEW n \in AnyName, NEW r \in Own(n)', NEW s \in Told(n)', r.tel = NoName
        PROVE  Before(r, s)
    <3>1. r \in history' /\ s \in history' /\ r.name = n /\ s.name = n /\ s.tel # NoName
      BY DEF Own, Told
    <3>2. CASE r \in history /\ s \in history
      <4>1. r \in Own(n) /\ s \in Told(n)
        BY <3>1, <3>2 DEF Own, Told
      <4> QED BY <2>3, <4>1 DEF StoredInv, OrderInv
    <3>3. CASE r \in history /\ s = row
      BY <1>3, <3>1, <3>3 DEF Ready, Own
    <3>4. CASE r = row /\ s \in history
      BY <1>3, <2>3, <3>1, <3>4 DEF Ready, Told
    <3> QED BY <1>2, <2>3, <3>1, <3>2, <3>3, <3>4
  <2>4. \A n \in AnyName : \A r \in Own(n)', s \in Told(n)' :
           r.tel = NoName => Before(r, s)
    BY <2>3
  <2> QED BY <2>1, <2>2, <2>4 DEF OrderInv, Before
<1>7. PathsWhole'
  <2> SUFFICES ASSUME NEW q \in history', <<q.name, q.path>> \notin torn
               PROVE  LET rows == PathRows(q.name, q.path)'
                      IN  {r.pathNum : r \in rows} = 1 .. Cardinality(rows)
    BY <1>2 DEF PathsWhole, AllPaths
  <2> DEFINE old == PathRows(q.name, q.path)
             new == PathRows(q.name, q.path)'
  <2>1. CASE q.name = row.name /\ q.path = row.path
    <3>1. Numbered(old, row.pathNum - 1)
      BY <1>3, <2>1 DEF Ready
    <3>2. new = old \cup {row} /\ old \subseteq history
      BY <1>2, <2>1 DEF PathRows
    <3>3. old \in SUBSET Rows /\ IsFiniteSet(old)
      BY <1>3, <3>2, FS_Subset DEF StoredInv
    <3> HIDE DEF old, new
    <3>4. row.pathNum - 1 \in Nat /\ row.pathNum = (row.pathNum - 1) + 1
      BY <1>4
    <3>5. Numbered(old \cup {row}, (row.pathNum - 1) + 1)
      BY <1>3, <3>1, <3>3, <3>4, OneMorePosition
    <3>6. Numbered(new, row.pathNum)
      BY <3>2, <3>4, <3>5
    <3> QED BY <3>6 DEF Numbered, new
  <2>2. CASE ~(q.name = row.name /\ q.path = row.path)
    <3>1. new = old /\ q \in history
      BY <1>2, <2>2 DEF PathRows
    <3> QED BY <3>1 DEF StoredInv, PathsWhole, AllPaths
  <2> QED BY <2>1, <2>2
<1>8. NewestPathLast'
  <2>1. ASSUME NEW s \in history, s.name = row.name, s.tel # NoName, row.tel # NoName
        PROVE  /\ s.path <= row.path /\ s.loginNum <= row.loginNum
               /\ row.path <= s.path <=> row.loginNum <= s.loginNum
    <3>1. s \in Told(row.name) /\ s \in Own(row.name)
      BY <2>1 DEF Told, Own
    <3>2. /\ Before(s, row) /\ s.loginNum <= row.loginNum
          /\ s.path < row.path <=> s.loginNum < row.loginNum
      BY <1>3, <2>1, <3>1 DEF Ready
    <3>3. /\ s.path < row.path \/ s.path = row.path
          /\ s.path \in Nat /\ s.loginNum \in Nat /\ row.path \in Nat /\ row.loginNum \in Nat
      BY <1>4, <3>2 DEF Before
    <3> QED BY <3>2, <3>3
  <2>2. ASSUME NEW r \in history', NEW s \in history',
               r.name = s.name, r.tel # NoName, s.tel # NoName
        PROVE  r.path <= s.path <=> r.loginNum <= s.loginNum
    <3>1. CASE r \in history /\ s \in history
      BY <2>2, <3>1 DEF StoredInv, NewestPathLast
    <3>2. CASE r \in history /\ s = row
      BY <2>1, <2>2, <3>2
    <3>3. CASE r = row /\ s \in history
      BY <2>1, <2>2, <3>3
    <3>4. CASE r = row /\ s = row
      BY <1>4, <3>4
    <3> QED BY <1>2, <3>1, <3>2, <3>3, <3>4
  <2> QED BY <2>2 DEF NewestPathLast
<1>9. SelectInv' /\ InsertInv'
  BY <1>2 DEF SelectInv, InsertInv, Idle
<1> QED BY <1>5, <1>6, <1>7, <1>8, <1>9 DEF StoredInv

\* A login number given out is higher than the one before.
LEMMA LoginGrowsStep ==
    ASSUME TypeOK, LoginGrows, [Next]_vars
    PROVE  LoginGrows'
<1>1. ASSUME NEW c \in Sessions, NEW n \in AnyName, LoginHandle(c, n)
      PROVE  LoginGrows'
  <2>1. users[n].loginNum \in Nat /\ users \in [AnyName ->
        [tel : AnyName \cup {Null}, iflogin : 0 .. 1, loginNum : Logins]]
    BY RecordsAssumption DEF TypeOK, Logins
  <2>2. event = Idle
    BY <1>1 DEF LoginHandle
  <2>3. CASE /\ users' = [users EXCEPT ![n].iflogin = 1]
             /\ event' = [at |-> "loginNum", tel |-> n, loginNum |-> users[n].loginNum + 1]
    <3>1. users'[n].loginNum = users[n].loginNum
      BY <2>1, <2>3
    <3>2. event'.tel = n /\ event'.loginNum = users[n].loginNum + 1
      BY <2>3
    <3> QED BY <2>1, <3>1, <3>2 DEF LoginGrows
  <2>4. CASE event' = event
    BY <2>2, <2>4 DEF LoginGrows, Idle
  <2> QED BY <1>1, <2>3, <2>4 DEF LoginHandle
<1>2. ASSUME event' = Idle
      PROVE  LoginGrows'
  BY <1>2 DEF LoginGrows, Idle
<1>3. ASSUME UNCHANGED <<users, event>>
      PROVE  LoginGrows'
  BY <1>3 DEF LoginGrows
<1>4. ASSUME event = Idle, event' = event
      PROVE  LoginGrows'
  BY <1>4 DEF LoginGrows, Idle
<1>5. ASSUME NEW c \in Sessions, NEW num \in 1 .. MaxPath, GetHistory(c, num)
      PROVE  LoginGrows'
  BY <1>5 DEF LoginGrows, GetHistory
<1> QED
  BY <1>1, <1>2, <1>3, <1>4, <1>5 DEF Next, EventStep, StoreStep, vars, RegisterHandle,
     LogoutHandle, TelNotLoginHandle, LoginNum, DeleteOneHistory, DeleteAllHistory,
     ReadRows, SelectHistory, SelectUser, SelectPath, Insert, StoreThrows, Accounts

\* The path whose positions GetHistory goes on to read is one it found under the
\* name of the session, and until it reads them positions are only added.
LEMMA HistoryIsOwnStep ==
    ASSUME TypeOK, TelIsName, HistoryIsOwn, [Next]_vars
    PROVE  HistoryIsOwn'
<1>1. ASSUME NEW c \in Sessions, NEW num \in 1 .. MaxPath, GetHistory(c, num)
      PROVE  HistoryIsOwn'
  <2> DEFINE asked == session[c]
  <2>1. PICK r \in RowsOf(asked), q \in RowsOf(asked) :
          event' = [at |-> "rows", asked |-> asked, name |-> r.name, path |-> q.path]
    BY <1>1 DEF GetHistory, HistoryPath
  <2>2. UNCHANGED history
    BY <1>1 DEF GetHistory
  <2> SUFFICES ASSUME asked # NoName
               PROVE  r.name = asked /\ PathRows(r.name, q.path) # {}
    BY <2>1, <2>2 DEF HistoryIsOwn, PathRows
  <2>3. r.name = asked /\ q.name = asked /\ q \in history
    BY OwnRows DEF RowsOf
  <2> QED BY <2>3 DEF PathRows
<1>2. ASSUME event'.at # "rows"
      PROVE  HistoryIsOwn'
  BY <1>2 DEF HistoryIsOwn
<1>3. ASSUME UNCHANGED event, history \subseteq history'
      PROVE  HistoryIsOwn'
  BY <1>3 DEF HistoryIsOwn, PathRows
<1>4. ASSUME event = Idle, event' = event
      PROVE  event'.at # "rows"
  BY <1>4 DEF Idle
<1>5. ASSUME event' = Idle
      PROVE  event'.at # "rows"
  BY <1>5 DEF Idle
<1>6. ASSUME NEW c \in Sessions, NEW n \in AnyName, LoginHandle(c, n)
      PROVE  event'.at # "rows"
  BY <1>4, <1>6 DEF LoginHandle
<1>7. StoreStep \/ UNCHANGED vars =>
        UNCHANGED event /\ history \subseteq history'
  BY DEF StoreStep, vars, SelectHistory, SelectUser, SelectPath, Insert, StoreThrows,
     Accounts
<1> QED
  BY <1>1, <1>2, <1>3, <1>4, <1>5, <1>6, <1>7 DEF Next, EventStep, RegisterHandle,
     LogoutHandle, TelNotLoginHandle, LoginNum, DeleteOneHistory, DeleteAllHistory, ReadRows

\* What Delete leaves has the type of what was there.
LEMMA DeleteType ==
    ASSUME TypeOK, NEW rows \in SUBSET history, Delete(rows)
    PROVE  history' \subseteq Rows /\ torn' \subseteq AnyName \X Paths
<1>1. /\ history' = history \ rows
      /\ torn' \subseteq torn \cup {<<r.name, r.path>> : r \in rows}
  BY DEF Delete
<1> QED BY <1>1, RowFields DEF TypeOK

\* The names, the tables and the locals keep their types; a position number is at
\* most one more than the largest when UserPositionsHandle began.
LEMMA TypeStep ==
    ASSUME TypeOK, TelIsName, StoredInv, TelIsName', [Next]_vars
    PROVE  TypeOK'
<1>0. MaxLogins \in Nat /\ MaxPath \in Nat \ {0} /\ MaxRows \in Nat /\ NoName \in AnyName
      /\ Names \subseteq AnyName
  BY RecordsAssumption DEF AnyName
<1>1. users' \in [AnyName ->
      [tel : AnyName \cup {Null}, iflogin : 0 .. 1, loginNum : Logins]]
  BY DEF TelIsName
<1>2. ASSUME NEW n \in AnyName, RegisterHandle(n) \/ LogoutHandle(n)
      PROVE  TypeOK'
  BY <1>1, <1>2 DEF TypeOK, RegisterHandle, LogoutHandle
<1>3. ASSUME NEW t \in Guests, TelNotLoginHandle(t)
      PROVE  TypeOK'
  BY <1>3 DEF TypeOK, TelNotLoginHandle
<1>4. ASSUME NEW c \in Sessions, NEW n \in AnyName, LoginHandle(c, n)
      PROVE  TypeOK'
  <2>1. session' \in [Sessions -> AnyName]
    BY <1>0, <1>4 DEF TypeOK, LoginHandle
  <2>2. users[n].loginNum + 1 \in Logins
    BY <1>0, <1>4 DEF TypeOK, LoginHandle, Logins
  <2>3. \/ event' = event
        \/ event' \in [at : {"loginNum"}, tel : AnyName, loginNum : Logins]
    BY <1>4, <2>2 DEF LoginHandle
  <2> QED BY <1>1, <1>4, <2>1, <2>3 DEF TypeOK, LoginHandle
<1>5. CASE LoginNum
  BY <1>1, <1>5 DEF TypeOK, LoginNum
<1>6. ASSUME NEW c \in Sessions, DeleteOneHistory(c)
      PROVE  TypeOK'
  <2>1. PICK name \in AnyName, path \in Paths :
          /\ session' = [session EXCEPT ![c] = name]
          /\ Delete(PathRows(name, path)) \/ UNCHANGED <<history, torn>>
    BY <1>6 DEF DeleteOneHistory
  <2>2. PathRows(name, path) \in SUBSET history
    BY DEF PathRows
  <2>3. history' \subseteq Rows /\ torn' \subseteq AnyName \X Paths
    BY <2>1, <2>2, DeleteType DEF TypeOK
  <2>4. session' \in [Sessions -> AnyName]
    BY <2>1 DEF TypeOK
  <2> QED BY <1>6, <2>3, <2>4 DEF TypeOK, DeleteOneHistory
<1>7. ASSUME NEW c \in Sessions, DeleteAllHistory(c)
      PROVE  TypeOK'
  <2>1. RowsOf(session[c]) \in SUBSET history
    BY DEF RowsOf
  <2>2. history' \subseteq Rows /\ torn' \subseteq AnyName \X Paths
    BY <1>7, <2>1, DeleteType DEF DeleteAllHistory
  <2> QED BY <1>7, <2>2 DEF TypeOK, DeleteAllHistory
<1>8. ASSUME NEW c \in Sessions, NEW num \in 1 .. MaxPath, GetHistory(c, num)
      PROVE  TypeOK'
  <2>1. PICK r \in RowsOf(session[c]), q \in RowsOf(session[c]) :
          /\ session' = [session EXCEPT ![c] = r.name]
          /\ event' = [at |-> "rows", asked |-> session[c], name |-> r.name,
                       path |-> q.path]
    BY <1>8 DEF GetHistory, HistoryPath
  <2>2. r.name \in AnyName /\ q.path \in Paths /\ session[c] \in AnyName
    BY RowFields DEF RowsOf, TypeOK
  <2>3. /\ session' \in [Sessions -> AnyName]
        /\ event' \in [at : {"rows"}, asked : AnyName, name : AnyName, path : Paths]
    BY <2>1, <2>2 DEF TypeOK
  <2> QED BY <1>8, <2>3 DEF TypeOK, GetHistory
<1>9. CASE ReadRows
  BY <1>9 DEF TypeOK, ReadRows
<1>10. ASSUME Accounts,
              \/ store' = Idle
              \/ store' \in [at : {"user", "path"}, name : AnyName, tel : AnyName,
                             path : Paths, loginNum : Logins]
              \/ store' \in [at : {"insert"}, row : Rows]
       PROVE  TypeOK'
  BY <1>10 DEF TypeOK, Accounts
<1>11. ASSUME NEW n \in AnyName, SelectHistory(n)
       PROVE  TypeOK'
  <2> DEFINE m == Max({r.path : r \in RowsOf(n)})
             path == IF RowsOf(n) = {} THEN 0 ELSE m
  <2>1. RowsOf(n) # {} => m \in Paths
    <3> SUFFICES ASSUME RowsOf(n) # {}
                 PROVE  m \in Paths
      OBVIOUS
    <3>1. PICK r \in RowsOf(n) : r.path = m
      BY NewestPath
    <3> QED BY <3>1, RowFields DEF RowsOf, TypeOK
  <2>2. store' = [at |-> "user", name |-> n, tel |-> NoName, loginNum |-> 0, path |-> path]
        /\ Accounts
    BY <1>11 DEF SelectHistory
  <2> HIDE DEF m
  <2>3. path \in Paths /\ 0 \in Logins
    BY <1>0, <2>1 DEF Paths, Logins
  <2> QED BY <1>0, <1>10, <2>2, <2>3
<1>12. CASE SelectUser
  <2>1. PICK loginNum \in Logins, name \in AnyName, tel \in AnyName :
          \/ store' = Idle
          \/ store' = [at |-> "path", name |-> name, tel |-> tel,
                       path |-> store.path, loginNum |-> loginNum]
          \/ store' = [at |-> "insert",
                       row |-> [name |-> name, tel |-> tel, path |-> 1,
                                pathNum |-> 1, loginNum |-> loginNum]]
    BY <1>12 DEF SelectUser
  <2>2. store.path \in Paths /\ 1 \in Paths /\ 1 \in 1 .. MaxRows + 1
    BY <1>0, <1>12, Locals DEF SelectUser, Paths
  <2> QED BY <1>10, <1>12, <2>1, <2>2 DEF SelectUser, Rows
<1>13. CASE SelectPath
  <2> DEFINE rows == PathRows(store.name, store.path)
  <2>1. \/ store' = Idle
        \/ store.path < MaxPath /\ store' = [at |-> "insert", row |-> NewPath(rows)]
        \/ store' = [at |-> "insert", row |-> SamePath(rows)]
    BY <1>13 DEF SelectPath
  <2>2. /\ store.name \in AnyName /\ store.tel \in AnyName /\ store.path \in Paths
        /\ store.loginNum \in Logins
    BY <1>13, Locals DEF SelectPath
  <2>3. rows # {} => LastOf(rows).pathNum \in Nat /\ LastOf(rows).pathNum <= MaxRows
    <3> SUFFICES ASSUME rows # {}
                 PROVE  LastOf(rows).pathNum \in Nat /\ LastOf(rows).pathNum <= MaxRows
      OBVIOUS
    <3>1. LastOf(rows) \in history
      BY LastPosition DEF PathRows
    <3>2. \A r \in history : r.pathNum <= MaxRows
      BY <1>13 DEF SelectPath, StoredInv, SelectInv
    <3> QED BY <3>1, <3>2, RowFields DEF TypeOK
  <2> HIDE DEF rows
  <2> DEFINE pathNum == IF rows = {} THEN 1 ELSE LastOf(rows).pathNum + 1
  <2>4. pathNum \in 1 .. MaxRows + 1 /\ 1 \in 1 .. MaxRows + 1
    BY <1>0, <2>3
  <2>5. store.path < MaxPath => store.path + 1 \in Paths
    BY <1>0, <2>2 DEF Paths
  <2>6. store.path < MaxPath => NewPath(rows) \in Rows
    BY <2>2, <2>4, <2>5 DEF NewPath, Row, Rows
  <2>7. SamePath(rows) \in Rows
    BY <2>2, <2>4 DEF SamePath, Row, Rows
  <2> QED BY <1>10, <1>13, <2>1, <2>6, <2>7 DEF SelectPath
<1>14. CASE Insert
  <2>1. store.row \in Rows
    BY <1>14, Locals DEF Insert
  <2> QED BY <1>14, <2>1 DEF TypeOK, Insert
<1>15. CASE StoreThrows
  BY <1>10, <1>15 DEF StoreThrows
<1>16. CASE UNCHANGED vars
  BY <1>16 DEF TypeOK, vars
<1> QED
  BY <1>2, <1>3, <1>4, <1>5, <1>6, <1>7, <1>8, <1>9, <1>11, <1>12, <1>13, <1>14, <1>15,
     <1>16 DEF Next, EventStep, StoreStep

\* A path stays whole and in its place among the logins.
LEMMA StoredStep ==
    ASSUME TypeOK, TelIsName, StoredInv, LoginGrows, TypeOK', [Next]_vars
    PROVE  StoredInv'
<1>1. users \in [AnyName ->
      [tel : AnyName \cup {Null}, iflogin : 0 .. 1, loginNum : Logins]]
  BY DEF TypeOK
<1>2. \A n \in AnyName : users[n].loginNum \in Nat
  BY <1>1, RecordsAssumption DEF Logins
<1>3. ASSUME UNCHANGED <<users, history, store, torn>>
      PROVE  StoredInv'
  BY <1>2, <1>3, AccountsKeep DEF Registered
<1>4. ASSUME NEW n \in AnyName, RegisterHandle(n)
      PROVE  StoredInv'
  <2>1. \A m \in AnyName : Registered(m) => users'[m] = users[m]
    BY <1>1, <1>4 DEF RegisterHandle
  <2> QED BY <1>2, <1>4, <2>1, AccountsKeep DEF RegisterHandle, Registered
<1>5. ASSUME NEW n \in AnyName, LogoutHandle(n)
      PROVE  StoredInv'
  <2>1. \A m \in AnyName : users'[m].tel = users[m].tel /\ users'[m].loginNum = users[m].loginNum
    BY <1>1, <1>5 DEF LogoutHandle
  <2> QED BY <1>2, <1>5, <2>1, AccountsKeep DEF LogoutHandle, Registered
<1>6. ASSUME NEW c \in Sessions, NEW n \in AnyName, LoginHandle(c, n)
      PROVE  StoredInv'
  <2>1. \A m \in AnyName : users'[m].tel = users[m].tel /\ users'[m].loginNum = users[m].loginNum
    BY <1>1, <1>6 DEF LoginHandle
  <2> QED BY <1>2, <1>6, <2>1, AccountsKeep DEF LoginHandle, Registered
<1>7. CASE LoginNum
  <2>1. event.tel \in AnyName /\ users[event.tel].loginNum <= event.loginNum
    BY <1>7, Locals DEF LoginNum, LoginGrows
  <2>2. \A m \in AnyName : users'[m].tel = users[m].tel /\ users[m].loginNum <= users'[m].loginNum
    BY <1>1, <1>2, <1>7, <2>1 DEF LoginNum
  <2> QED BY <1>7, <2>2, AccountsKeep DEF LoginNum, Registered
<1>8. ASSUME NEW c \in Sessions, DeleteOneHistory(c)
      PROVE  StoredInv'
  <2>1. PICK name \in AnyName, path \in Paths :
          Delete(PathRows(name, path)) \/ UNCHANGED <<history, torn>>
    BY <1>8 DEF DeleteOneHistory
  <2>2. PathRows(name, path) \in SUBSET history
    BY DEF PathRows
  <2> QED BY <1>3, <1>8, <2>1, <2>2, DeleteKeeps DEF DeleteOneHistory
<1>9. ASSUME NEW c \in Sessions, DeleteAllHistory(c)
      PROVE  StoredInv'
  <2>1. RowsOf(session[c]) \in SUBSET history
    BY DEF RowsOf
  <2> QED BY <1>9, <2>1, DeleteKeeps DEF DeleteAllHistory
<1>10. CASE StoreThrows
  BY <1>10, IdleKeeps DEF StoreThrows, Accounts
<1> QED
  BY <1>3, <1>4, <1>5, <1>6, <1>7, <1>8, <1>9, <1>10, SelectHistoryKeeps, SelectUserKeeps,
     SelectPathKeeps, InsertKeeps DEF Next, EventStep, StoreStep, vars, TelNotLoginHandle,
     GetHistory, ReadRows

\* At the start nothing is stored.
LEMMA RecordsInit == Init => RecordsInv
<1> SUFFICES ASSUME Init
             PROVE  RecordsInv
  OBVIOUS
<1>1. TelIsName
  BY TelIsNameInit
<1>2. TypeOK
  <2>1. NoName \in AnyName
    BY DEF AnyName
  <2> QED BY <1>1, <2>1 DEF Init, TypeOK, TelIsName
<1>3. history = {} /\ store = Idle /\ event = Idle
  BY DEF Init
<1>4. StoredInv
  BY <1>3, FS_EmptySet DEF StoredInv, OrderInv, SelectInv, InsertInv, PathsWhole,
     NewestPathLast, AllPaths, Own, Told, Idle
<1>5. LoginGrows /\ HistoryIsOwn
  BY <1>3 DEF LoginGrows, HistoryIsOwn, Idle
<1> QED BY <1>1, <1>2, <1>4, <1>5 DEF RecordsInv

\* The whole invariant of the accounts and the history: how the statements of
\* UserPositionsHandle, with any handler of the event thread between them, relate
\* what they store to the accounts.
THEOREM RecordsInvariance == Spec => []RecordsInv
<1>1. RecordsInv /\ [Next]_vars => RecordsInv'
  <2> SUFFICES ASSUME RecordsInv, [Next]_vars
               PROVE  RecordsInv'
    OBVIOUS
  <2>1. TelIsName'
    BY TelIsNameStep DEF RecordsInv
  <2>2. TypeOK'
    BY <2>1, TypeStep DEF RecordsInv
  <2>3. StoredInv'
    BY <2>2, StoredStep DEF RecordsInv
  <2>4. LoginGrows' /\ HistoryIsOwn'
    BY LoginGrowsStep, HistoryIsOwnStep DEF RecordsInv
  <2> QED BY <2>1, <2>2, <2>3, <2>4 DEF RecordsInv
<1> QED BY <1>1, RecordsInit, PTL DEF Spec

\* The tables, the sessions and the locals of the handlers have their types.
THEOREM RecordsTypeCorrect == Spec => []TypeOK
<1>1. RecordsInv => TypeOK
  BY DEF RecordsInv
<1> QED BY <1>1, RecordsInvariance, PTL

\* The positions of a path are numbered without a gap, unless a deletion came
\* between the last SELECT of UserPositionsHandle and its INSERT, or took only a part.
THEOREM PathsAreWhole == Spec => []PathsWhole
<1>1. RecordsInv => PathsWhole
  BY DEF RecordsInv, StoredInv
<1> QED BY <1>1, RecordsInvariance, PTL

\* The paths of an account are one for each login, in the order of the logins.
THEOREM PathsFollowLogins == Spec => []NewestPathLast
<1>1. RecordsInv => NewestPathLast
  BY DEF RecordsInv, StoredInv
<1> QED BY <1>1, RecordsInvariance, PTL

\* The path GetHistory has chosen for a session with a name is of that name, and has
\* positions.
THEOREM HistoryIsOwnThm == Spec => []HistoryIsOwn
<1>1. RecordsInv => HistoryIsOwn
  BY DEF RecordsInv
<1> QED BY <1>1, RecordsInvariance, PTL
=============================================================================
