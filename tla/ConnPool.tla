------------------------------ MODULE ConnPool ------------------------------
(***************************************************************************)
(* class ConnPool (main/DBConnpool.cpp) and the handlers that use it       *)
(* (main/DBAnaysisData.cpp).  The mutex is held from end to end of         *)
(* InitConnection, GetConnection and ReleaseConnection, so each of their   *)
(* paths is one action.  A handler runs in a thread: it takes a            *)
(* connection, runs statements on it, any of which may throw SQLException, *)
(* and gives it back at the end of the try block.                          *)
(*                                                                         *)
(* The database driver is outside the repository: connect succeeds or      *)
(* throws, and the server may close any connection.                        *)
(***************************************************************************)
EXTENDS Integers, Sequences, FiniteSets

CONSTANTS
    Handlers,   \* the threads that run handlers
    maxSize,    \* most connections the pool may count
    MaxCreated  \* bound: connections made in one behaviour

ASSUME PoolAssumption ==
    /\ maxSize \in Nat \ {0}
    /\ MaxCreated \in Nat
    /\ IsFiniteSet(Handlers)

VARIABLES
    ready,     \* the constructor has run
    curSize,   \* what the pool thinks exists
    connList,  \* the connections in the pool
    conn,      \* conn[h]: the local of handler h
    pc,        \* pc[h]: "idle", "got", "working" or "crashed"
    created,   \* connections made so far; they are named 1 .. created
    closed,    \* those the server closed
    lost       \* history: connections a handler returned without giving back

vars == <<ready, curSize, connList, conn, pc, created, closed, lost>>

NULL == 0
Conns == 1 .. MaxCreated

TypeOK ==
    /\ ready \in BOOLEAN
    /\ curSize \in Int
    /\ connList \in Seq(Conns)
    /\ conn \in [Handlers -> Conns \cup {NULL}]
    /\ pc \in [Handlers -> {"idle", "got", "working", "crashed"}]
    /\ created \in 0 .. MaxCreated
    /\ closed \subseteq Conns
    /\ lost \subseteq Conns

Init ==
    /\ ready = FALSE
    /\ curSize = 0
    /\ connList = <<>>
    /\ conn = [h \in Handlers |-> NULL]
    /\ pc = [h \in Handlers |-> "idle"]
    /\ created = 0
    /\ closed = {}
    /\ lost = {}
-----------------------------------------------------------------------------
\* CreateConnection: a new connection, or NULL when connect throws.
CreateConnection(c) ==
    \/ created < MaxCreated /\ c = created + 1 /\ created' = c
    \/ c = NULL /\ created' = created

\* The constructor: InitConnection makes maxSize / 2 connections, fewer where
\* connect fails.
Construct ==
    /\ ~ready
    /\ ready' = TRUE
    /\ \E n \in 0 .. maxSize \div 2 :
         /\ n <= MaxCreated
         /\ created' = n
         /\ curSize' = n
         /\ connList' = [k \in 1 .. n |-> k]
    /\ UNCHANGED <<conn, pc, closed, lost>>

Calls(h) == ready /\ pc[h] = "idle"

Returns(h, c) ==
    /\ conn' = [conn EXCEPT ![h] = c]
    /\ pc' = [pc EXCEPT ![h] = "got"]

\* A variant with one slip: the connection stays in the pool.
GetOpenKeeps(h) ==
    /\ Calls(h)
    /\ connList # <<>>
    /\ Head(connList) \notin closed
    /\ Returns(h, Head(connList))
    /\ UNCHANGED <<ready, curSize, connList, created, closed, lost>>

\* GetConnection: a connection of the pool that is open.
GetOpen(h) ==
    /\ Calls(h)
    /\ connList # <<>>
    /\ Head(connList) \notin closed
    /\ connList' = Tail(connList)
    /\ Returns(h, Head(connList))
    /\ UNCHANGED <<ready, curSize, created, closed, lost>>

\* A variant with one slip: the failure to connect again is not counted.
ReplaceClosedUncounted(h) ==
    /\ Calls(h)
    /\ connList # <<>>
    /\ Head(connList) \in closed
    /\ connList' = Tail(connList)
    /\ \E c \in Conns \cup {NULL} : CreateConnection(c) /\ Returns(h, c)
    /\ UNCHANGED <<ready, curSize, closed, lost>>

\* GetConnection: a closed connection of the pool is deleted and replaced; when
\* that fails the pool counts one less.
ReplaceClosed(h) ==
    /\ Calls(h)
    /\ connList # <<>>
    /\ Head(connList) \in closed
    /\ connList' = Tail(connList)
    /\ \E c \in Conns \cup {NULL} :
         /\ CreateConnection(c)
         /\ Returns(h, c)
         /\ curSize' = IF c = NULL THEN curSize - 1 ELSE curSize
    /\ UNCHANGED <<ready, closed, lost>>

\* GetConnection: the pool is empty and may grow.
GetNew(h) ==
    /\ Calls(h)
    /\ connList = <<>>
    /\ curSize < maxSize
    /\ \E c \in Conns \cup {NULL} :
         /\ CreateConnection(c)
         /\ Returns(h, c)
         /\ curSize' = IF c = NULL THEN curSize ELSE curSize + 1
    /\ UNCHANGED <<ready, connList, closed, lost>>

\* GetConnection: the pool is empty and may not grow.
GetNone(h) ==
    /\ Calls(h)
    /\ connList = <<>>
    /\ curSize >= maxSize
    /\ Returns(h, NULL)
    /\ UNCHANGED <<ready, curSize, connList, created, closed, lost>>

\* A variant with one slip: a null connection is not noticed.
SetSchemaOfNull(h) ==
    /\ pc[h] = "got"
    /\ pc' = [pc EXCEPT ![h] = "working"]
    /\ UNCHANGED <<ready, curSize, connList, conn, created, closed, lost>>

\* The handler calls conn->setSchema whatever GetConnection returned.
SetSchema(h) ==
    /\ pc[h] = "got"
    /\ pc' = [pc EXCEPT ![h] = IF conn[h] = NULL THEN "crashed" ELSE "working"]
    /\ UNCHANGED <<ready, curSize, connList, conn, created, closed, lost>>

\* The statements went well: the handler ends with ReleaseConnection.
ReleaseConnection(h) ==
    /\ pc[h] = "working"
    /\ connList' = Append(connList, conn[h])
    /\ conn' = [conn EXCEPT ![h] = NULL]
    /\ pc' = [pc EXCEPT ![h] = "idle"]
    /\ UNCHANGED <<ready, curSize, created, closed, lost>>

\* A statement throws: the catch block prints the error and the handler ends.
HandlerThrows(h) ==
    /\ pc[h] = "working"
    /\ lost' = lost \cup {conn[h]}
    /\ conn' = [conn EXCEPT ![h] = NULL]
    /\ pc' = [pc EXCEPT ![h] = "idle"]
    /\ UNCHANGED <<ready, curSize, connList, created, closed>>

\* The database server closes a connection.
ServerCloses ==
    /\ \E c \in 1 .. created : c \notin closed /\ closed' = closed \cup {c}
    /\ UNCHANGED <<ready, curSize, connList, conn, pc, created, lost>>

Running == \A h \in Handlers : pc[h] # "crashed"

\* The null dereference ended the process.
Crashed == ~Running /\ UNCHANGED vars

Next ==
    \/ Running /\ Construct
    \/ \E h \in Handlers : Running /\ GetOpen(h)
    \/ \E h \in Handlers : Running /\ ReplaceClosed(h)
    \/ \E h \in Handlers : Running /\ GetNew(h)
    \/ \E h \in Handlers : Running /\ GetNone(h)
    \/ \E h \in Handlers : Running /\ SetSchema(h)
    \/ \E h \in Handlers : Running /\ ReleaseConnection(h)
    \/ \E h \in Handlers : Running /\ HandlerThrows(h)
    \/ Running /\ ServerCloses
    \/ Crashed

Spec == Init /\ [][Next]_vars
-----------------------------------------------------------------------------
Pooled == {connList[k] : k \in DOMAIN connList}
InUse == {conn[h] : h \in Handlers} \ {NULL}

\* curSize is the number of connections that are in the pool, in use or lost:
\* failed connects, replacements and releases by several threads keep it right,
\* and it never passes maxSize.
CurSizeIsRight ==
    /\ curSize = Len(connList) + Cardinality(InUse) + Cardinality(lost)
    /\ curSize <= maxSize

\* A connection is in one place: twice in the pool, in the hands of two threads,
\* or in use while in the pool would let two threads share it.
OneOwner ==
    /\ \A i, j \in DOMAIN connList : i # j => connList[i] # connList[j]
    /\ \A h, k \in Handlers : h # k /\ conn[h] # NULL => conn[h] # conn[k]
    /\ Pooled \cap InUse = {}
    /\ lost \cap (Pooled \cup InUse) = {}
=============================================================================
