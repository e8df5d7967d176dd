------------------------------ MODULE LoadTest ------------------------------
(***************************************************************************)
(* The load test (testClient/): a parent process forks CLIENTNUM clients,  *)
(* each with a pipe.  A client connects, starts a thread that sends        *)
(* location requests for a while, receives in its main thread until the    *)
(* other has ended, and writes its results to the pipe in one write; the   *)
(* parent reads the pipes round and round until it has counted CLIENTNUM   *)
(* results.  Framing is the connection to the server and its event thread, *)
(* which never answers a request: a client's socket is readable only when  *)
(* the server has closed it.                                               *)
(*                                                                         *)
(* statue is read and written in single steps: the mutex around it is only *)
(* tried for, and orders nothing.                                          *)
(***************************************************************************)
EXTENDS Framing, FiniteSets

CONSTANTS
    CLIENTNUM,
    Rounds,      \* bound: the messages each client may send
    PipeFails,   \* bound: the clients whose pipe may fail
    BufferLines  \* the coordinates that fit into sendbuff

ASSUME LoadTestAssumption ==
    /\ CLIENTNUM \in Nat \ {0}
    /\ Rounds \in [Clients -> 0 .. MaxMsgs]
    /\ PipeFails \subseteq Clients
    /\ BufferLines \in Nat
    /\ Clients = 1 .. CLIENTNUM

VARIABLES
    childPc,    \* the main thread of each client
    sendPc,     \* its sending thread, PerTransFun
    rounds,     \* messages the thread has begun to send
    statue,     \* true while the thread sends
    coordinate, \* coordinates collected, at most one more than fit
    pipe,       \* "empty" or "full"
    parentPc,   \* "fork", "read" or "done"
    clientnum,  \* the parent's loop variable
    clientrecv, \* results the parent has counted
    totalpipe   \* whose pipe the parent reads for each client, 0 for nobody's

testVars == <<childPc, sendPc, rounds, statue, coordinate, pipe>>
parentVars == <<parentPc, clientnum, clientrecv, totalpipe>>
vars == <<framingVars, testVars, parentVars>>

Gone == {"exited", "crashed", "failed", "killed"}

TypeOK ==
    /\ FramingTypeOK
    /\ childPc \in [Clients ->
         Gone \cup {"unborn", "connect", "select", "join"}]
    /\ sendPc \in [Clients -> {"none", "begin", "wait", "data", "done"}]
    /\ rounds \in [Clients -> 0 .. MaxMsgs]
    /\ statue \in [Clients -> BOOLEAN]
    /\ coordinate \in [Clients -> 0 .. BufferLines + 1]
    /\ pipe \in [Clients -> {"empty", "full"}]
    /\ parentPc \in {"fork", "read", "done"}
    /\ clientnum \in Clients
    /\ clientrecv \in 0 .. CLIENTNUM
    /\ totalpipe \in [Clients -> 0 .. CLIENTNUM]

Init ==
    /\ FramingInit
    /\ childPc = [c \in Clients |-> "unborn"]
    /\ sendPc = [c \in Clients |-> "none"]
    /\ rounds = [c \in Clients |-> 0]
    /\ statue = [c \in Clients |-> FALSE]
    /\ coordinate = [c \in Clients |-> 0]
    /\ pipe = [c \in Clients |-> "empty"]
    /\ parentPc = "fork" /\ clientnum = 1 /\ clientrecv = 0
    /\ totalpipe = [c \in Clients |-> 0]

ChildAt(c, pc) == childPc[c] = pc
ChildGoto(c, from, to) == ChildAt(c, from) /\ childPc' = [childPc EXCEPT ![c] = to]

\* A process that is gone runs none of its threads.
SenderAt(c, pc) == sendPc[c] = pc /\ childPc[c] \notin Gone
SenderGoto(c, from, to) ==
    SenderAt(c, from) /\ sendPc' = [sendPc EXCEPT ![c] = to]
-----------------------------------------------------------------------------
(* The main thread of a client: clientInit, then writeBypipe.              *)

\* clientConnect succeeds and the sending thread is created.
ClientConnect(c) ==
    /\ ChildGoto(c, "connect", "select")
    /\ Connect(c)
    /\ sendPc' = [sendPc EXCEPT ![c] = "begin"]
    /\ UNCHANGED <<rounds, statue, coordinate, pipe, parentVars>>

\* It is refused, or the alarm ends it: exit(-1).
ClientConnectFails(c) ==
    /\ ChildGoto(c, "connect", "failed")
    /\ UNCHANGED <<framingVars, rounds, sendPc, statue, coordinate, pipe, parentVars>>

\* A variant with one slip: recvdata called without asking whether the socket is
\* readable, and its result kept.
RecvCoordinateUnasked(c) ==
    /\ ChildAt(c, "select")
    /\ statue[c]
    /\ coordinate[c] <= BufferLines
    /\ coordinate' = [coordinate EXCEPT ![c] = @ + 1]
    /\ UNCHANGED <<framingVars, childPc, rounds, sendPc, statue, pipe, parentVars>>

\* select reports a socket the server closed, and recvdata returns at once with
\* a coordinate nobody sent, round after round.
RecvCoordinate(c) ==
    /\ ChildAt(c, "select")
    /\ statue[c]
    /\ conn[c] = "closed"
    /\ coordinate[c] <= BufferLines
    /\ coordinate' = [coordinate EXCEPT ![c] = @ + 1]
    /\ UNCHANGED <<framingVars, childPc, rounds, sendPc, statue, pipe, parentVars>>

\* statue is false, because the sending thread has ended or because it has not
\* begun: the loop ends.
LeaveLoop(c) ==
    /\ ChildGoto(c, "select", "join")
    /\ ~statue[c]
    /\ UNCHANGED <<framingVars, rounds, sendPc, statue, coordinate, pipe, parentVars>>

\* write: the parent gets one block, if the client has a pipe.
Write(c) ==
    pipe' = IF totalpipe[c] = c THEN [pipe EXCEPT ![c] = "full"] ELSE pipe

\* pthread_join returns.  writeBypipe and exit.
WriteByPipe(c) ==
    /\ ChildGoto(c, "join", "exited")
    /\ sendPc[c] = "done"
    /\ Write(c)
    /\ Close(c)
    /\ UNCHANGED <<rounds, sendPc, statue, coordinate, parentVars>>

\* With more coordinates than fit, sprintf writes past sendbuff: the process may
\* go on as above, be stopped there, or be stopped when writeBypipe returns.
WriteOverruns(c) ==
    /\ \/ ChildGoto(c, "join", "killed") /\ UNCHANGED pipe
       \/ ChildGoto(c, "join", "crashed") /\ Write(c)
    /\ sendPc[c] = "done"
    /\ coordinate[c] > BufferLines
    /\ Close(c)
    /\ UNCHANGED <<rounds, sendPc, statue, coordinate, parentVars>>

ChildStep(c) ==
    \/ ClientConnect(c) \/ ClientConnectFails(c)
    \/ RecvCoordinate(c) \/ LeaveLoop(c)
    \/ WriteByPipe(c) \/ WriteOverruns(c)
-----------------------------------------------------------------------------
(* The sending thread of a client: PerTransFun.                            *)

SetStatusTrue(c) ==
    /\ SenderGoto(c, "begin", "wait")
    /\ statue' = [statue EXCEPT ![c] = TRUE]
    /\ UNCHANGED <<framingVars, childPc, rounds, coordinate, pipe, parentVars>>

\* TESTDURATION is not over and the period is: senddata sends the length ...
SendLength(c) ==
    /\ SenderGoto(c, "wait", "data")
    /\ rounds[c] < Rounds[c]
    /\ rounds' = [rounds EXCEPT ![c] = @ + 1]
    /\ Send(c, Header)
    /\ UNCHANGED <<childPc, statue, coordinate, pipe, parentVars>>

\* ... and the data.
SendMsg(c) ==
    /\ SenderGoto(c, "data", "wait")
    /\ Send(c, Pieces)
    /\ UNCHANGED <<childPc, rounds, statue, coordinate, pipe, parentVars>>

\* send on a connection that was reset: SIGPIPE, which nothing handles.
SigPipe(c) ==
    /\ SenderAt(c, "data") \/ (SenderAt(c, "wait") /\ rounds[c] < Rounds[c])
    /\ reset[c]
    /\ childPc' = [childPc EXCEPT ![c] = "killed"]
    /\ Close(c)
    /\ UNCHANGED <<rounds, sendPc, statue, coordinate, pipe, parentVars>>

\* A variant with one slip: statue left true.
TimeOverStatusForgotten(c) ==
    /\ SenderGoto(c, "wait", "done")
    /\ UNCHANGED <<framingVars, childPc, rounds, statue, coordinate, pipe, parentVars>>

\* TESTDURATION is over.
TimeOver(c) ==
    /\ SenderGoto(c, "wait", "done")
    /\ statue' = [statue EXCEPT ![c] = FALSE]
    /\ UNCHANGED <<framingVars, childPc, rounds, coordinate, pipe, parentVars>>

SenderStep(c) ==
    \/ SetStatusTrue(c) \/ SendLength(c) \/ SendMsg(c) \/ SigPipe(c) \/ TimeOver(c)
-----------------------------------------------------------------------------
(* The parent.                                                             *)

\* What pipeId holds before pipe is called: the pipe of the client before, or, for
\* the first, no initialised value, taken to be no open descriptor.
LastPipe == IF clientnum = 1 THEN 0 ELSE totalpipe[clientnum - 1]

\* pipe and fork, each of which may fail: the failure of pipe is printed, and the
\* client writes to a descriptor that is closed; that of fork is not seen.
Fork ==
    /\ parentPc = "fork"
    /\ \E p \in {clientnum, LastPipe} :
         /\ p # clientnum => clientnum \in PipeFails
         /\ totalpipe' = [totalpipe EXCEPT ![clientnum] = p]
    /\ \E pc \in {"connect", "failed"} : childPc' = [childPc EXCEPT ![clientnum] = pc]
    /\ IF clientnum < CLIENTNUM
       THEN clientnum' = clientnum + 1 /\ parentPc' = parentPc
       ELSE clientnum' = 1 /\ parentPc' = "read"
    /\ UNCHANGED <<framingVars, rounds, sendPc, statue, coordinate, pipe, clientrecv>>

FullPipes == {c \in Clients : pipe[c] = "full"}
HaveWriter == {c \in Clients : childPc[c] \notin Gone}

\* A variant with one slip: one pipe too many.
NextPipePastLast ==
    IF clientnum <= CLIENTNUM
    THEN clientnum' = clientnum + 1 /\ parentPc' = parentPc
    ELSE /\ clientnum' = 1
         /\ parentPc' = IF clientrecv' = CLIENTNUM THEN "done" ELSE "read"

\* The next pipe; after the last one the count is compared.
NextPipe ==
    IF clientnum < CLIENTNUM
    THEN clientnum' = clientnum + 1 /\ parentPc' = parentPc
    ELSE /\ clientnum' = 1
         /\ parentPc' = IF clientrecv' = CLIENTNUM THEN "done" ELSE "read"

\* A variant with one slip: a read that returns 0 counted too.
ReadEndCounted(p) ==
    /\ p \notin FullPipes \cup HaveWriter
    /\ clientrecv < CLIENTNUM
    /\ clientrecv' = clientrecv + 1
    /\ UNCHANGED testVars

\* A variant with one slip: the count begun anew with every round.
ReadBlockOfRound(p) ==
    /\ p \in FullPipes
    /\ pipe' = [pipe EXCEPT ![p] = "empty"]
    /\ clientrecv' = IF clientnum = 1 THEN 1 ELSE clientrecv + 1
    /\ UNCHANGED <<childPc, sendPc, rounds, statue, coordinate>>

\* read returns the block of a client.
ReadBlock(p) ==
    /\ p \in FullPipes
    /\ pipe' = [pipe EXCEPT ![p] = "empty"]
    /\ clientrecv' = clientrecv + 1
    /\ UNCHANGED <<childPc, sendPc, rounds, statue, coordinate>>

\* read returns 0, as the client is gone and left nothing, or an error, as there is
\* no pipe.
ReadEnd(p) ==
    /\ p \notin FullPipes \cup HaveWriter
    /\ UNCHANGED <<clientrecv, testVars>>

\* read blocks, and SIGCHLD for another client interrupts it.
ReadInterrupted(p) ==
    /\ p \in HaveWriter
    /\ \E c \in Clients : childPc[c] \in Gone
    /\ UNCHANGED <<clientrecv, testVars>>

\* One read, of the next pipe.
Read ==
    /\ parentPc = "read"
    /\ LET p == totalpipe[clientnum] IN ReadBlock(p) \/ ReadEnd(p) \/ ReadInterrupted(p)
    /\ NextPipe
    /\ UNCHANGED <<framingVars, totalpipe>>

ParentStep == Fork \/ Read

ServerStep == EventStep /\ UNCHANGED <<testVars, parentVars>>

Ended == parentPc = "done" /\ UNCHANGED vars

Next ==
    \/ \E c \in Clients : ChildStep(c)
    \/ \E c \in Clients : SenderStep(c)
    \/ ParentStep
    \/ ServerStep
    \/ Ended

\* Every process and thread is scheduled, and what is sent arrives.
ClientScheduled(c) == WF_vars(ChildStep(c)) /\ WF_vars(SenderStep(c))

ClientsScheduled == \A c \in Clients : ClientScheduled(c)

Spec ==
    /\ Init
    /\ [][Next]_vars
    /\ ClientsScheduled
    /\ WF_vars(ParentStep)
    /\ WF_vars(ServerStep)
-----------------------------------------------------------------------------
\* A client comes to its end without SIGPIPE, with results written in bounds and
\* no coordinate made up, unless the server cut its connection because a request
\* arrived in pieces: then it collects coordinates nobody sent, or dies.
OnlyCutClientsDie ==
    \A c \in Clients : ~inPieces[c] =>
        childPc[c] \notin {"killed", "crashed"} /\ coordinate[c] = 0

\* The client's block went into its pipe.
Written(c) == totalpipe[c] = c /\ childPc[c] \in {"exited", "crashed"}

\* The count is that of the clients whose results were read, each once, and the
\* parent ends only with the results of all of them.
ResultsCountedOnce ==
    /\ clientrecv = Cardinality({c \in Clients : Written(c) /\ pipe[c] = "empty"})
    /\ parentPc = "done" => \A c \in Clients : Written(c) /\ pipe[c] = "empty"

\* Every client ends, though its receiving thread may look at statue before the
\* sending thread has set it and after.
ClientsEnd == <>(\A c \in Clients : childPc[c] \in Gone)

\* The parent ends when every client has written its results.
ParentEnds == (\A c \in Clients : Written(c)) ~> parentPc = "done"
=============================================================================
