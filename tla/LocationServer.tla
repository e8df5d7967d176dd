--------------------------- MODULE LocationServer ---------------------------
(***************************************************************************)
(* The process (main/main.cpp): main constructs a MsgQueue, a Guide and a  *)
(* Location (whose constructors each start a thread), and a TcpServer,     *)
(* whose event loop it runs.  When the loop ends, or Init fails, main      *)
(* returns and the four objects are destroyed in the opposite order, while *)
(* the two threads, which nobody joins, go on running until the process    *)
(* exits.  mainPc names the next thing main does.                          *)
(***************************************************************************)
EXTENDS Location, Guide, TcpServer

VARIABLE mainPc

vars == <<mqVars, locVars, guideVars, tcpVars, mainPc>>

MainPcs == {"Init", "Listen", "~TcpServer", "~Location", "~Guide",
            "~MsgQueue", "return", "exited"}

LocationDestroyed == mainPc \in {"~Guide", "~MsgQueue", "return", "exited"}
GuideDestroyed == mainPc \in {"~MsgQueue", "return", "exited"}
MsgQueueDestroyed == mainPc \in {"return", "exited"}

\* The process runs: neither exited nor stopped by a fault.
Up == mainPc # "exited" /\ fault = "none"

TypeOK ==
    /\ MsgQueueTypeOK
    /\ LocationTypeOK
    /\ GuideTypeOK
    /\ TcpTypeOK
    /\ mainPc \in MainPcs

Init ==
    /\ MsgQueueInit
    /\ LocationInit
    /\ GuideInit
    /\ TcpInit
    /\ mainPc = "Init"
-----------------------------------------------------------------------------
(* The main thread.                                                        *)

\* server.Init succeeds and Listen enters the event loop.
InitServer ==
    /\ mainPc = "Init"
    /\ mainPc' = "Listen"
    /\ loop' = "dispatch"
    /\ UNCHANGED <<users, onLineNum, readEvts, username, offUser, fault,
                   historyVars, endCase, mqVars, locVars, guideVars>>

\* server.Init fails (the port is taken, say): main returns.
InitServerFails ==
    /\ mainPc = "Init"
    /\ mainPc' = "~TcpServer"
    /\ UNCHANGED <<tcpVars, mqVars, locVars, guideVars>>

\* event_base_dispatch returns once the loop is broken and OnRead is over.
ListenReturns ==
    /\ mainPc = "Listen"
    /\ loop = "broken"
    /\ offUser = Null
    /\ mainPc' = "~TcpServer"
    /\ UNCHANGED <<tcpVars, mqVars, locVars, guideVars>>

\* ~TcpServer: the vector of users goes, and with it the users still in it.
DestroyServer ==
    /\ mainPc = "~TcpServer"
    /\ mainPc' = "~Location"
    /\ users' = <<>>
    /\ readEvts' = {}
    /\ UNCHANGED <<loop, onLineNum, username, offUser, fault, historyVars, endCase,
                   mqVars, locVars, guideVars>>

\* A variant with one slip: ~Location joins a thread that never returns.
DestroyLocationJoins ==
    /\ mainPc = "~Location"
    /\ locPc = "returned"
    /\ mainPc' = "~Guide"
    /\ UNCHANGED <<tcpVars, mqVars, locVars, guideVars>>

\* ~Location and ~Guide: record() writes the samples to a file first.
DestroyLocation ==
    /\ mainPc = "~Location"
    /\ IF RecordOverruns(locateDuring, locBufSize)
       THEN fault' = "recordOverrun" /\ mainPc' = mainPc
       ELSE fault' = fault /\ mainPc' = "~Guide"
    /\ UNCHANGED <<connVars, onLineNum, username, offUser, historyVars, endCase,
                   mqVars, locVars, guideVars>>

DestroyGuide ==
    /\ mainPc = "~Guide"
    /\ IF RecordOverruns(guideDuring, guideBufSize)
       THEN fault' = "recordOverrun" /\ mainPc' = mainPc
       ELSE fault' = fault /\ mainPc' = "~MsgQueue"
    /\ UNCHANGED <<connVars, onLineNum, username, offUser, historyVars, endCase,
                   mqVars, locVars, guideVars>>

\* ~MsgQueue; the variables keep the last contents of the queues.
DestroyMsgQueue ==
    /\ mainPc = "~MsgQueue"
    /\ mainPc' = "return"
    /\ UNCHANGED <<tcpVars, mqVars, locVars, guideVars>>

Exit ==
    /\ mainPc = "return"
    /\ mainPc' = "exited"
    /\ UNCHANGED <<tcpVars, mqVars, locVars, guideVars>>

MainStep ==
    /\ Up
    /\ \/ InitServer
       \/ InitServerFails
       \/ ListenReturns
       \/ DestroyServer
       \/ DestroyLocation
       \/ DestroyGuide
       \/ DestroyMsgQueue
       \/ Exit

EventStep ==
    /\ Up
    /\ mainPc = "Listen"
    /\ TcpStep
    /\ UNCHANGED <<mainPc, locVars, guideVars>>

\* OnRead, once it began to end a connection.
EndStep == EventStep /\ (EndConnection \/ EndDestroyedConnection)
-----------------------------------------------------------------------------
(* The worker threads.  A thread whose object is destroyed goes on: its    *)
(* msgQueue pointer still has its value, its vectors and maps do not.      *)

LocationTouchesDestroyed ==
    \/ MsgQueueDestroyed
    \/ LocationDestroyed /\ locPc \in {"time", "size"}

GuideTouchesDestroyed ==
    \/ MsgQueueDestroyed
    \/ GuideDestroyed /\ guidePc \in {"searchpath", "time", "size"}

LocationRun ==
    /\ Up
    /\ ~LocationTouchesDestroyed
    /\ LocationStep
    /\ UNCHANGED <<mainPc, tcpVars, guideVars>>

GuideRun ==
    /\ Up
    /\ ~GuideTouchesDestroyed
    /\ GuideStep
    /\ UNCHANGED <<mainPc, tcpVars, locVars>>

\* The access to a destroyed object stops the process, or harms that object
\* only; what the thread computes from it reaches nobody, the event loop being
\* over, and the thread is taken to start its loop again.
LocationUsesDestroyed ==
    /\ Up
    /\ LocationTouchesDestroyed
    /\ \/ fault' = "useAfterDestroy" /\ locPc' = locPc
       \/ fault' = fault /\ locPc' = "startLoc"
    /\ UNCHANGED <<mainPc, connVars, onLineNum, username, offUser, historyVars, endCase,
                   mqVars, locReq, locateDuring, locBufSize, guideVars>>

GuideUsesDestroyed ==
    /\ Up
    /\ GuideTouchesDestroyed
    /\ \/ fault' = "useAfterDestroy" /\ guidePc' = guidePc
       \/ fault' = fault /\ guidePc' = "startGuide"
    /\ UNCHANGED <<mainPc, connVars, onLineNum, username, offUser, historyVars, endCase,
                   mqVars, guideReq, guidePath, guideDuring, guideBufSize, locVars>>

\* The process has ended.
Ended == ~Up /\ UNCHANGED vars

Next ==
    \/ MainStep
    \/ EventStep
    \/ LocationRun
    \/ GuideRun
    \/ LocationUsesDestroyed
    \/ GuideUsesDestroyed
    \/ Ended

\* Each thread is scheduled: the kernel runs the three of them, the worker
\* loops never block, and main blocks only in the event loop, which finishes
\* the callback it runs.  Nothing forces a client to do anything.
Fairness ==
    /\ WF_vars(MainStep)
    /\ WF_vars(EndStep)
    /\ WF_vars(LocationRun)
    /\ WF_vars(GuideRun)

Spec == Init /\ [][Next]_vars

FairSpec == Spec /\ Fairness
-----------------------------------------------------------------------------
(* Safety.                                                                 *)

\* The requests of user u in a queue or a log, oldest first.
Of(u, reqs) == SelectSeq(reqs, LAMBDA r : r.id = u)

\* A queue of pending requests is the end of the log of the requests made.
IsRest(queue, log) ==
    /\ Len(queue) <= Len(log)
    /\ queue = SubSeq(log, Len(log) - Len(queue) + 1, Len(log))

\* Between startLoc and finishLoc (startGuide and finishGuide) the thread holds
\* the request at the front of the queue, whatever the event thread adds or
\* ends meanwhile.  finishLoc and finishGuide compare ids only: were the front
\* another request of the same user, that one would be erased unanswered.
HeldRequestIsFront ==
    /\ locPc = "finishLoc" => LocateVec # <<>> /\ locReq = Head(LocateVec)
    /\ guidePc \in {"searchpath", "finishGuide"} =>
         GuideVec # <<>> /\ guideReq = Head(GuideVec)
    /\ guidePc = "finishGuide" => guidePath = PathOf(guideReq)

\* An event in the base never calls back a destroyed TcpUser, also not after
\* failed accepts, several disconnections and SERVERQUIT: every user with a
\* live readEvt has exactly one entry in users.
CallbacksReachLiveUsers ==
    /\ \A u \in readEvts : u \in ToSet(users)
    /\ \A i, j \in DOMAIN users :
         i # j => users[i] = Null \/ users[i] # users[j]
    /\ offUser # Null /\ loop # "broken" => offUser \in readEvts

\* main destroys its objects only when the event thread has no callback left to
\* run: no user, no event, no OnRead half done.
TeardownAfterLoop ==
    mainPc \notin {"Init", "Listen"} => readEvts = {} /\ offUser = Null

\* The length test() records for a request is never below the length the queue
\* had when its time stamp was taken: in between the event thread may add
\* requests, and the one thread that removes them is in test() itself.
SamplesNeverUndercount ==
    /\ \A k \in DOMAIN locBufSize \cap DOMAIN locateDuring :
         locBufSize[k] >= locateDuring[k]
    /\ \A k \in DOMAIN guideBufSize \cap DOMAIN guideDuring :
         guideBufSize[k] >= guideDuring[k]
-----------------------------------------------------------------------------
(* The service the two kinds of requests get, as the abstract              *)
(* specification: asked is the log, the results are those of each user.    *)

LocAnswer(r) == Loc

Locations == INSTANCE RequestService WITH
    Users <- UserIds,
    Requests <- [id : UserIds, rssi : Rssi \cup {Null}],
    AnswerTo <- LocAnswer,
    asked <- locAsked,
    answered <- Len(locAsked) - Len(LocateVec),
    results <- [u \in UserIds |-> ResultsOf(LocatedVec, u)],
    up <- Up

Guides == INSTANCE RequestService WITH
    Users <- UserIds,
    Requests <- [id : UserIds, sour : Places \cup {Null}, dest : Places \cup {Null}],
    AnswerTo <- PathOf,
    asked <- guideAsked,
    answered <- Len(guideAsked) - Len(GuideVec),
    results <- [u \in UserIds |-> ResultsOf(GuidedVec, u)],
    up <- Up

\* No location request is lost, duplicated or given to another user: those not
\* answered are in the queue in the order they came, and each user has exactly
\* one result for each of those that have left it.
LocationsConserved == IsRest(LocateVec, locAsked) /\ Locations!Conserved

\* The same for guide requests, whose results differ: the k-th path in a user's
\* result queue is the path of the k-th guide request of that user.
GuidesConserved == IsRest(GuideVec, guideAsked) /\ Guides!Conserved

\* The location queue and thread implement the service for location requests:
\* an answer is one step, for the oldest request, and to the one who asked.
ImplementsLocations == Locations!Spec

\* The guide queue and thread implement it for guide requests.
ImplementsGuides == Guides!Spec

\* Every location request is answered, whatever becomes of its user, unless the
\* process ends or its objects are being destroyed first.
LocationsAnswered ==
    \A n \in 1 .. MaxLocations :
        Len(locAsked) >= n ~>
            Len(locAsked) - Len(LocateVec) >= n \/ mainPc # "Listen" \/ ~Up

\* Every guide request is answered, under the same condition.
GuidesAnswered ==
    \A n \in 1 .. MaxGuides :
        Len(guideAsked) >= n ~>
            Len(guideAsked) - Len(GuideVec) >= n \/ mainPc # "Listen" \/ ~Up

\* SERVERQUIT ends the process: main gets through every destructor, or a fault
\* stops it.
QuitEnds == loop = "broken" ~> ~Up
-----------------------------------------------------------------------------
(* What the comments and the change log say of the program, and it does    *)
(* not do.                                                                 *)

\* MsgQueue.h, clearRqst: the requests and results of the user are cleared, so
\* none of a user who left is kept.
DisconnectedForgotten ==
    \A u \in UserIds :
        u < onLineNum /\ u \notin ToSet(users) /\ loop = "dispatch" =>
            /\ Of(u, LocateVec) = <<>> /\ Of(u, GuideVec) = <<>>
            /\ ResultsOf(LocatedVec, u) = <<>> /\ ResultsOf(GuidedVec, u) = <<>>

\* changelog.txt, 2015/7/24: OnRead logs a user off whose connection breaks.
NamedUserLoggedOut == endCase \in {"none", "NAMELOGOUT"}

\* Location.h, record: it records the data test() gathered.
RecordStaysInBounds == fault # "recordOverrun"
=============================================================================
