------------------------------ MODULE Records ------------------------------
(***************************************************************************)
(* The accounts and the position history DBAnaysisData keeps in the        *)
(* database (main/DBAnaysisData.cpp).  A user's positions are cut into     *)
(* paths, one for each login, numbered from 1, and the positions of a path *)
(* are numbered from 1 in the order they are stored.                       *)
(*                                                                         *)
(* The database is outside the repository: a statement is atomic, each is  *)
(* committed on its own, and any may throw SQLException, which ends the    *)
(* handler where it is.  Handle runs in the event thread, one request at a *)
(* time.  Nothing in src calls UserPositionsHandle yet; it is taken to run *)
(* in another thread, the Location thread, which knows the positions.  Run *)
(* in the event thread it would have some of the behaviours below.         *)
(*                                                                         *)
(* Handle's cases LOCATION and GUIDE queue a request as those of TcpUser   *)
(* do, see TcpServer, and are not repeated here.  ROADRECORD is one        *)
(* GetHistory for each item.                                               *)
(*                                                                         *)
(* Handlers that select, find nothing to do and answer change nothing and  *)
(* are not written out; statements of a handler between which no other     *)
(* thread can tell the difference are one action.                          *)
(***************************************************************************)
EXTENDS Naturals, FiniteSetsExt

CONSTANTS
    Names,      \* what users are named; Register gives the name for the tel, too
    NoName,     \* the empty string, which a request without a username names
    Null,       \* no row
    Guests,     \* the telephone numbers of those not registered
    Sessions,   \* the connected TcpUsers
    MaxLogins,  \* bound: logins of one user
    Garbage,    \* bound: what a login number that is not initialised may be
    MaxPath,    \* bound: the paths of a user
    MaxRows     \* bound: positions kept

ASSUME RecordsAssumption ==
    /\ NoName \notin Names
    /\ Null \notin Names \cup {NoName}
    /\ Garbage \subseteq 0 .. MaxLogins
    /\ MaxLogins \in Nat /\ MaxPath \in Nat \ {0} /\ MaxRows \in Nat

VARIABLES
    users,    \* table users of schema project, by name; tel Null for no row
    guests,   \* table users of schema mysql, by tel
    history,  \* table UserHistory
    session,  \* the username of each TcpUser
    event,    \* the event thread: the handler it is in the middle of
    store,    \* the other thread: where UserPositionsHandle is, and its locals
    torn      \* history: paths deleted when their next position was on its way

vars == <<users, guests, history, session, event, store, torn>>

Logins == 0 .. MaxLogins
Paths == 0 .. MaxPath
AnyName == Names \cup {NoName}

Rows == [name : AnyName, tel : AnyName, path : Paths, pathNum : 1 .. MaxRows + 1,
         loginNum : Logins]
NoUser == [tel |-> Null, iflogin |-> 0, loginNum |-> 0]
Idle == [at |-> "idle"]

TypeOK ==
    /\ users \in [AnyName ->
         [tel : AnyName \cup {Null}, iflogin : 0 .. 1, loginNum : Logins]]
    /\ guests \subseteq Guests
    /\ history \subseteq Rows
    /\ session \in [Sessions -> AnyName]
    /\ event \in {Idle}
         \cup [at : {"loginNum"}, tel : AnyName, loginNum : Logins]
         \cup [at : {"rows"}, asked : AnyName, name : AnyName, path : Paths]
    /\ store \in {Idle} \cup [at : {"user", "path"}, name : AnyName, tel : AnyName,
                              path : Paths, loginNum : Logins]
                        \cup [at : {"insert"}, row : Rows]
    /\ torn \subseteq AnyName \X Paths

Init ==
    /\ users = [n \in AnyName |-> NoUser]
    /\ guests = {}
    /\ history = {}
    /\ session = [c \in Sessions |-> NoName]
    /\ event = Idle /\ store = Idle
    /\ torn = {}
-----------------------------------------------------------------------------
(* The event thread: accounts.                                             *)

Registered(n) == users[n].tel # Null
TelOf(t) == {n \in AnyName : Registered(n) /\ users[n].tel = t}

\* A variant with one slip: the tel of the request, not the name, stored as tel.
RegisterHandleTel(n) ==
    /\ event = Idle
    /\ ~Registered(n)
    /\ \E t \in AnyName :
         /\ TelOf(t) = {}
         /\ users' = [users EXCEPT ![n] = [NoUser EXCEPT !.tel = t]]
    /\ UNCHANGED <<guests, history, session, event, store, torn>>

\* RegisterHandle: refused when the tel or the name is there.  Without a username
\* in the request the account of the empty name is registered.
RegisterHandle(n) ==
    /\ event = Idle
    /\ TelOf(n) = {} /\ ~Registered(n)
    /\ users' = [users EXCEPT ![n] = [NoUser EXCEPT !.tel = n]]
    /\ UNCHANGED <<guests, history, session, event, store, torn>>

\* NameLoginHandle and TelLoginHandle with the right password, to the first
\* UPDATE, which may throw.  Only a name becomes the name of the session.
LoginHandle(c, n) ==
    /\ event = Idle
    /\ Registered(n)
    /\ users[n].loginNum < MaxLogins
    /\ \E s \in {session[c], n} : session' = [session EXCEPT ![c] = s]
    /\ \/ /\ users' = [users EXCEPT ![n].iflogin = 1]
          /\ event' = [at |-> "loginNum", tel |-> n, loginNum |-> users[n].loginNum + 1]
       \/ UNCHANGED <<users, event>>
    /\ UNCHANGED <<guests, history, store, torn>>

\* The second UPDATE, or its exception: logged in under the old number.
LoginNum ==
    /\ event.at = "loginNum"
    /\ \/ users' = [users EXCEPT ![event.tel].loginNum = event.loginNum]
       \/ users' = users
    /\ event' = Idle
    /\ UNCHANGED <<guests, history, session, store, torn>>

\* A variant with one slip: logins counted in iflogin.
LogoutHandleCounted(n) ==
    /\ event = Idle
    /\ Registered(n)
    /\ users' = [users EXCEPT ![n].iflogin = @ - 1]
    /\ UNCHANGED <<guests, history, session, event, store, torn>>

\* NameLogoutHandle and TelLogoutHandle: whoever asks, and the session keeps its
\* name.
LogoutHandle(n) ==
    /\ event = Idle
    /\ Registered(n)
    /\ users' = [users EXCEPT ![n].iflogin = 0]
    /\ UNCHANGED <<guests, history, session, event, store, torn>>

\* TelNotLoginHandle: looks for the tel, and inserts it, in schema mysql.
TelNotLoginHandle(t) ==
    /\ event = Idle
    /\ guests' = guests \cup {t}
    /\ UNCHANGED <<users, history, session, event, store, torn>>
-----------------------------------------------------------------------------
(* The event thread: history.                                              *)

\* WHERE username=? or usertel=?
RowsOf(n) == {r \in history : r.name = n \/ r.tel = n}

\* WHERE username=? and path=?
PathRows(n, p) == {r \in history : r.name = n /\ r.path = p}

\* DELETE.  A path is torn when only some of its rows go, or when a position that
\* is to go on with it is about to be inserted.
Delete(rows) ==
    LET hit == {<<r.name, r.path>> : r \in rows}
        Pending(x) == /\ store.at = "insert" /\ store.row.pathNum > 1
                      /\ x = <<store.row.name, store.row.path>>
    IN  /\ history' = history \ rows
        /\ torn' = (torn \ hit) \cup
                   {x \in hit : Pending(x) \/ ~(PathRows(x[1], x[2]) \subseteq rows)}

\* deleteOneHistory: it selects the rows with the time of day of the request and
\* deletes the path of one of them; without a row path is not initialised.
\* username is a reference to the session's, and takes the name of the row.
DeleteOneHistory(c) ==
    /\ event = Idle
    /\ \E name \in AnyName, path \in Paths :
         /\ name = session[c] \/ \E r \in RowsOf(session[c]) : <<r.name, r.path>> = <<name, path>>
         /\ session' = [session EXCEPT ![c] = name]
         /\ Delete(PathRows(name, path)) \/ UNCHANGED <<history, torn>>
    /\ UNCHANGED <<users, guests, event, store>>

DeleteAllHistory(c) ==
    /\ event = Idle
    /\ Delete(RowsOf(session[c]))
    /\ UNCHANGED <<users, guests, session, event, store>>

\* A variant with one slip: a[num].
HistoryPathNext(a, num) == {p \in Paths : Cardinality({q \in a : q > p}) = num}

\* a[num-1], of the paths from the newest to the oldest.
HistoryPath(a, num) == {p \in a : Cardinality({q \in a : q > p}) = num - 1}

\* GetHistory for an item, counted from 1, that is not past the last one.  Here
\* too a row's name becomes the session's.
GetHistory(c, num) ==
    /\ event = Idle
    /\ LET rows == RowsOf(session[c])
           a == {r.path : r \in rows}
       IN  /\ num <= Cardinality(a)
           /\ \E r \in rows, p \in HistoryPath(a, num) :
                /\ session' = [session EXCEPT ![c] = r.name]
                /\ event' = [at |-> "rows", asked |-> session[c], name |-> r.name,
                             path |-> p]
    /\ UNCHANGED <<users, guests, history, store, torn>>

\* The rows of the path, or an exception.
ReadRows ==
    /\ event.at = "rows"
    /\ event' = Idle
    /\ UNCHANGED <<users, guests, history, session, store, torn>>

EventStep ==
    \/ \E n \in AnyName :
         RegisterHandle(n) \/ LogoutHandle(n)
    \/ \E t \in Guests : TelNotLoginHandle(t)
    \/ \E c \in Sessions :
         \/ \E n \in AnyName : LoginHandle(c, n)
         \/ DeleteOneHistory(c) \/ DeleteAllHistory(c)
         \/ \E num \in 1 .. MaxPath : GetHistory(c, num)
    \/ LoginNum \/ ReadRows
-----------------------------------------------------------------------------
(* The other thread: UserPositionsHandle.                                  *)

Accounts == UNCHANGED <<users, guests, history, session, event, torn>>

\* The newest path of the name it is given.
SelectHistory(n) ==
    /\ store = Idle
    /\ Cardinality(history) < MaxRows
    /\ \A r \in history : r.pathNum <= MaxRows
    /\ store' = [at |-> "user", name |-> n, tel |-> NoName, loginNum |-> 0,
                 path |-> IF RowsOf(n) = {} THEN 0 ELSE Max({r.path : r \in RowsOf(n)})]
    /\ Accounts

Row(path, pathNum) ==
    [name |-> store.name, tel |-> store.tel, path |-> path, pathNum |-> pathNum,
     loginNum |-> store.loginNum]

\* What the second SELECT returns; without a row iflogin and loginNum are not
\* initialised, and usertel is empty.
UserRow(n, iflogin, loginNum, name, tel) ==
    LET found == {m \in AnyName : Registered(m) /\ (m = n \/ users[m].tel = n)}
    IN  IF found = {} THEN name = n /\ tel = NoName /\ loginNum \in Garbage
        ELSE \E m \in found : /\ name = m /\ tel = users[m].tel
                              /\ iflogin = users[m].iflogin
                              /\ loginNum = users[m].loginNum

\* Not logged in, it returns; with no rows the first path begins.
SelectUser ==
    /\ store.at = "user"
    /\ \E iflogin \in 0 .. 1, loginNum \in Logins, name, tel \in AnyName :
         /\ UserRow(store.name, iflogin, loginNum, name, tel)
         /\ store' = IF iflogin # 1 THEN Idle
                     ELSE IF store.path > 0
                     THEN [at |-> "path", name |-> name, tel |-> tel,
                           path |-> store.path, loginNum |-> loginNum]
                     ELSE [at |-> "insert",
                           row |-> [name |-> name, tel |-> tel, path |-> 1,
                                    pathNum |-> 1, loginNum |-> loginNum]]
    /\ Accounts

LastOf(rows) == CHOOSE r \in rows : \A s \in rows : s.pathNum <= r.pathNum

\* A variant with one slip: the logins not compared.
NewLoginIgnored(loginBeforNum) == FALSE

NewLogin(loginBeforNum) == store.loginNum # loginBeforNum

\* A variant with one slip: pathNum goes on in the new path.
NewPathNumKept(rows) == Row(store.path + 1, Cardinality(rows) + 1)

NewPath(rows) == Row(store.path + 1, 1)

\* pathNum is maxPathNum+1, and maxPathNum 0 without a row.
SamePath(rows) == Row(store.path, IF rows = {} THEN 1 ELSE LastOf(rows).pathNum + 1)

\* After a new login a new path begins; else the newest goes on, unless the
\* position is near the last one.  Without a row loginBeforNum and the last
\* position are not initialised.
SelectPath ==
    /\ store.at = "path"
    /\ LET rows == PathRows(store.name, store.path)
       IN  \E loginBeforNum \in IF rows = {} THEN Garbage ELSE {LastOf(rows).loginNum} :
             IF NewLogin(loginBeforNum)
             THEN store.path < MaxPath /\ store' = [at |-> "insert", row |-> NewPath(rows)]
             ELSE store' \in {Idle, [at |-> "insert", row |-> SamePath(rows)]}
    /\ Accounts

Insert ==
    /\ store.at = "insert"
    /\ history' = history \cup {store.row}
    /\ store' = Idle
    /\ UNCHANGED <<users, guests, session, event, torn>>

\* A statement of it throws.
StoreThrows == store # Idle /\ store' = Idle /\ Accounts

StoreStep ==
    \/ \E n \in AnyName : SelectHistory(n)
    \/ SelectUser \/ SelectPath \/ Insert \/ StoreThrows

Next == EventStep \/ StoreStep

Spec == Init /\ [][Next]_vars
-----------------------------------------------------------------------------
AllPaths == {<<r.name, r.path>> : r \in history}

\* The positions of a path are numbered from 1 without a gap, whatever requests
\* and exceptions come between the statements that store them.  A path is torn
\* only by a deletion between the last SELECT and the INSERT, or by a session
\* without a name, which deletes of every path the positions without a tel.
PathsWhole ==
    \A x \in AllPaths \ torn :
        LET rows == PathRows(x[1], x[2])
        IN  {r.pathNum : r \in rows} = 1 .. Cardinality(rows)

\* Of the positions stored under an account with a name, those of one path are of
\* one login, and those of a later path of a later login.
NewestPathLast ==
    \A r, s \in history :
        r.name = s.name /\ r.tel # NoName /\ s.tel # NoName =>
            (r.path <= s.path <=> r.loginNum <= s.loginNum)

\* A session with a name deletes only positions of that name, and whole paths,
\* though deleting and reading a history set the session's name to that of a row
\* found by name or tel; and no one deletes but by these requests.
Deletes(c) == DeleteOneHistory(c) \/ DeleteAllHistory(c)

OnlyOwnDeleted ==
    [][/\ \A c \in Sessions : Deletes(c) /\ session[c] # NoName =>
            \A r \in history \ history' :
                r.name = session[c] /\ PathRows(r.name, r.path)' = {}
       /\ history \subseteq history' \/ \E c \in Sessions : Deletes(c)]_vars

\* A session with a name reads a path of its own, and one that is there, however
\* accounts, names and holes in the path numbers came about.  That the path has a
\* first position, which GetHistory takes for granted, follows from PathsWhole
\* unless the path was torn; of a torn one it reads elements that are not there.
HistoryIsOwn ==
    event.at = "rows" /\ event.asked # NoName =>
        event.name = event.asked /\ PathRows(event.name, event.path) # {}
=============================================================================
