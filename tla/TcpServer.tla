----------------------------- MODULE TcpServer ------------------------------
(***************************************************************************)
(* classes TcpServer and TcpUser (main/TcpServer.cpp, main/TcpUser.cpp):   *)
(* the event thread.  libevent runs one callback at a time: OnAccept for a *)
(* connection, OnRead for a readable client.  OnRead either handles a      *)
(* message or, when MyRead fails, ends the connection.  Ending it takes    *)
(* several calls between which the worker threads may run: DataHandle on   *)
(* the user's name, then clearRqst and OffConnection.  offUser is the user *)
(* OnRead is ending, Null when no callback is between two calls.           *)
(*                                                                         *)
(* A TcpUser object is named by its id.  Ids are never used twice, objects *)
(* are owned by users alone and destroyed when their entry goes.           *)
(*                                                                         *)
(* writeEvt is created by Init and never added to the base, so OnWrite is  *)
(* never called and no action stands for it.                               *)
(***************************************************************************)
EXTENDS MsgQueue, SequencesExt

CONSTANTS
    Names,        \* the user names clients log in with
    MaxUsers,     \* bound: connections accepted in one behaviour
    MaxLocations, \* bound: location requests queued in one behaviour
    MaxGuides     \* bound: guide requests queued in one behaviour

ASSUME BoundsAssumption ==
    /\ MaxUsers \in Nat
    /\ MaxLocations \in Nat
    /\ MaxGuides \in Nat
    /\ Null \notin 0 .. MaxUsers - 1

VARIABLES
    loop,       \* the event base: "idle", "dispatch" or "broken"
    users,      \* the vector of shared_ptr: user ids, Null for a reset entry
    onLineNum,  \* TcpUser::onLineNum, the id of the next user
    readEvts,   \* the users whose readEvt is in the base and can fire
    username,   \* the user names, "" before NAMELOGIN
    offUser,    \* the user whose connection OnRead is ending, or Null
    fault,      \* what undefined behaviour stopped the process, or "none"
    locAsked,   \* history: the location requests queued so far
    guideAsked, \* history: the guide requests queued so far
    endCase     \* history: the case DataHandle ran for offUser's name, or "none"

connVars == <<loop, users, readEvts>>
historyVars == <<locAsked, guideAsked>>
tcpVars ==
    <<connVars, onLineNum, username, offUser, fault, historyVars, endCase>>

UserIds == 0 .. MaxUsers - 1

TypeCodes ==
    {"SERVERQUIT", "NAMELOGIN", "NAMELOGOUT", "LOCATION", "GUIDE", "OTHER"}

\* The members of a Json object that DataHandle reads; an absent one is null.
Json(typecodes, names, rssis, places) ==
    [typecode : typecodes, username : names, rssi : rssis, sour : places, dest : places]

\* The requests a client sends.  The database calls of all cases are commented
\* out: NAMELOGOUT has no effect, and OTHER stands for the remaining typecodes
\* (registration, the other logins and logouts, history) that have none.
Requests ==
    Json({"SERVERQUIT", "OTHER"}, {""}, {Null}, {Null})
    \cup Json({"NAMELOGIN", "NAMELOGOUT"}, Names, {Null}, {Null})
    \cup Json({"LOCATION"}, {""}, Rssi, {Null})
    \cup Json({"GUIDE"}, {""}, {Null}, Places)

\* What DataHandle sees when the data does not parse: typecode keeps whatever
\* its stack slot held, every field is null.
Unparsable == Json(TypeCodes, {""}, {Null}, {Null})

TcpTypeOK ==
    /\ loop \in {"idle", "dispatch", "broken"}
    /\ users \in Seq(UserIds \cup {Null})
    /\ onLineNum \in 0 .. MaxUsers
    /\ readEvts \subseteq UserIds
    /\ username \in [UserIds -> Names \cup {""}]
    /\ offUser \in UserIds \cup {Null}
    /\ fault \in {"none", "useAfterDestroy", "recordOverrun"}
    /\ locAsked \in Seq(LocItem)
    /\ guideAsked \in Seq(GuideItem)
    /\ endCase \in TypeCodes \cup {"none"}

TcpInit ==
    /\ loop = "idle"
    /\ users = <<>>
    /\ onLineNum = 0
    /\ readEvts = {}
    /\ username = [u \in UserIds |-> ""]
    /\ offUser = Null
    /\ fault = "none"
    /\ locAsked = <<>>
    /\ guideAsked = <<>>
    /\ endCase = "none"
-----------------------------------------------------------------------------
\* The base runs no callback, and calls the next one.
Dispatching == loop = "dispatch" /\ offUser = Null

\* A variant with one slip: the id taken after the increment.
OnAcceptIncrementsFirst ==
    /\ Dispatching
    /\ onLineNum < MaxUsers
    /\ onLineNum' = onLineNum + 1
    /\ users' = Append(users, onLineNum + 1)
    /\ readEvts' = readEvts
    /\ UNCHANGED <<loop, username, offUser, fault, historyVars, endCase, mqVars>>

\* OnAccept: accept() may fail; its result, the descriptor or -1, goes into a
\* new TcpUser unchecked.  Init adds the readEvt; on descriptor -1 it never fires.
OnAccept ==
    /\ Dispatching
    /\ onLineNum < MaxUsers
    /\ onLineNum' = onLineNum + 1
    /\ users' = Append(users, onLineNum)
    /\ \/ readEvts' = readEvts \cup {onLineNum}
       \/ readEvts' = readEvts
    /\ UNCHANGED <<loop, username, offUser, fault, historyVars, endCase, mqVars>>

\* A variant with one slip: users kept.
QuitServerKeepsUsers ==
    /\ loop' = "broken"
    /\ UNCHANGED <<users, readEvts>>

\* OffConnection erases the first entry that holds the user, if there is one;
\* ~TcpUser frees its readEvt and closes the socket.
FirstEntryOf(u) ==
    {k \in DOMAIN users : users[k] = u /\ \A j \in 1 .. k - 1 : users[j] # u}

\* A variant with one slip: the event stays in the base.
OffConnectionKeepsEvent(u) ==
    /\ \/ FirstEntryOf(u) = {} /\ users' = users
       \/ \E k \in FirstEntryOf(u) : users' = RemoveAt(users, k)
    /\ UNCHANGED <<loop, readEvts>>

OffConnection(u) ==
    /\ \/ FirstEntryOf(u) = {} /\ users' = users
       \/ \E k \in FirstEntryOf(u) : users' = RemoveAt(users, k)
    /\ readEvts' = readEvts \ {u}
    /\ UNCHANGED loop

\* QuitServer resets every entry, which destroys every user, and breaks the loop.
QuitServer ==
    /\ users' = [k \in DOMAIN users |-> Null]
    /\ readEvts' = {}
    /\ loop' = "broken"

\* The cases of DataHandle.
HandleQuit(value) ==
    /\ value.typecode = "SERVERQUIT"
    /\ QuitServer
    /\ UNCHANGED <<username, historyVars, mqVars>>

HandleNameLogin(u, value) ==
    /\ value.typecode = "NAMELOGIN"
    /\ username' = [username EXCEPT ![u] = value.username]
    /\ UNCHANGED <<connVars, historyVars, mqVars>>

HandleLocation(u, value) ==
    /\ value.typecode = "LOCATION"
    /\ Len(locAsked) < MaxLocations
    /\ addLocItem(u, value.rssi)
    /\ locAsked' = Append(locAsked, [id |-> u, rssi |-> value.rssi])
    /\ UNCHANGED <<connVars, username, guideAsked>>

HandleGuide(u, value) ==
    /\ value.typecode = "GUIDE"
    /\ Len(guideAsked) < MaxGuides
    /\ addGuideItem(u, value.sour, value.dest)
    /\ guideAsked' = Append(guideAsked,
            [id |-> u, sour |-> value.sour, dest |-> value.dest])
    /\ UNCHANGED <<connVars, username, locAsked>>

HandleOther(value) ==
    /\ value.typecode \in {"NAMELOGOUT", "OTHER"}
    /\ UNCHANGED <<connVars, username, historyVars, mqVars>>

DataHandle(u, value) ==
    \/ HandleQuit(value)
    \/ HandleNameLogin(u, value)
    \/ HandleLocation(u, value)
    \/ HandleGuide(u, value)
    \/ HandleOther(value)
-----------------------------------------------------------------------------
\* OnRead when MyRead succeeds: the data is a request or does not parse.
OnReadData(u) ==
    /\ Dispatching
    /\ u \in readEvts
    /\ \E value \in Requests \cup Unparsable : DataHandle(u, value)
    /\ UNCHANGED <<onLineNum, offUser, fault, endCase>>

\* OnRead when MyRead fails: a user with a name has it passed to DataHandle as
\* if it were a message.  Like any string a client chose it may not parse, or be
\* the text of a request.
OnReadFails(u) ==
    /\ Dispatching
    /\ u \in readEvts
    /\ offUser' = u
    /\ IF username[u] = ""
       THEN UNCHANGED <<connVars, username, historyVars, endCase, mqVars>>
       ELSE \E value \in Requests \cup Unparsable :
                DataHandle(u, value) /\ endCase' = value.typecode
    /\ UNCHANGED <<onLineNum, fault>>

\* The rest of OnRead: clearRqst, then OffConnection.
EndConnection ==
    /\ offUser # Null
    /\ offUser \in readEvts
    /\ clearRqst(offUser)
    /\ OffConnection(offUser)
    /\ offUser' = Null
    /\ endCase' = "none"
    /\ UNCHANGED <<onLineNum, username, fault, historyVars>>

\* The same when DataHandle ran QuitServer: the object was destroyed, and the
\* reads of id, msgQueue and tcpServer are of freed memory.  They may yield the
\* old values, and OffConnection finds no entry; or the process stops.
EndDestroyedConnection ==
    /\ offUser # Null
    /\ offUser \notin readEvts
    /\ clearRqst(offUser)
    /\ offUser' = Null
    /\ endCase' = "none"
    /\ \/ fault' = fault
       \/ fault' = "useAfterDestroy"
    /\ UNCHANGED <<connVars, onLineNum, username, historyVars>>

TcpStep ==
    \/ OnAccept
    \/ \E u \in UserIds : OnReadData(u)
    \/ \E u \in UserIds : OnReadFails(u)
    \/ EndConnection
    \/ EndDestroyedConnection
=============================================================================
