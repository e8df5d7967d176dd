--------------------------- MODULE LoadTest_proof ---------------------------
(***************************************************************************)
(* The parent of the load test counts right, for any number of clients;    *)
(* and its clients, the connections and the event thread that reads from   *)
(* them do what is expected as long as no recv took less than it asked     *)
(* for, for messages of any length.  Every client, every connection and    *)
(* the parent come to their end.                                           *)
(***************************************************************************)
EXTENDS LoadTest, Integers, FiniteSetTheorems, TLAPS

Numbers == INSTANCE Naturals_proof WITH P <- LAMBDA n : TRUE

ChildPcs == Gone \cup {"unborn", "connect", "select", "join"}

\* A client that is not born has no sending thread.
BornInv ==
    /\ childPc \in [Clients -> ChildPcs]
    /\ sendPc \in [Clients -> {"none", "begin", "wait", "data", "done"}]
    /\ clientnum \in Clients
    /\ totalpipe \in [Clients -> 0 .. CLIENTNUM]
    /\ \A c \in Clients : childPc[c] = "unborn" => sendPc[c] = "none"

\* The clients whose results were read.
Counted == {c \in Clients : Written(c) /\ pipe[c] = "empty"}

\* A pipe is full only after its client wrote to it, a client is born once, and the
\* parent ends with a full count.
CountInv ==
    /\ BornInv
    /\ pipe \in [Clients -> {"empty", "full"}]
    /\ clientrecv = Cardinality(Counted)
    /\ \A c \in Clients : pipe[c] = "full" => Written(c)
    /\ parentPc = "fork" =>
         \A c \in Clients : c >= clientnum => childPc[c] = "unborn"
    /\ parentPc = "done" => clientrecv = CLIENTNUM

\* There are CLIENTNUM clients.
LEMMA ClientsFinite == IsFiniteSet(Clients) /\ Cardinality(Clients) = CLIENTNUM
  BY LoadTestAssumption, FS_Interval

\* The clients counted can be counted.
LEMMA CountedFinite == IsFiniteSet(Counted)
  BY ClientsFinite, FS_Subset DEF Counted

\* Where a client's main thread writes from.
WritingPcs == {"exited", "crashed"}

\* A step that reads no pipe and moves only a client that has not written counts
\* nothing, and leaves its block in its pipe if it writes.
LEMMA NothingCounted ==
    ASSUME CountInv,
           BornInv', NEW c \in Clients, NEW pc \in ChildPcs,
           childPc[c] \notin WritingPcs, childPc' = [childPc EXCEPT ![c] = pc],
           \/ pc \notin WritingPcs /\ pipe' = pipe
           \/ pc \in WritingPcs /\ Write(c),
           UNCHANGED <<clientnum, clientrecv, parentPc, totalpipe>>,
           parentPc = "fork" => childPc[c] # "unborn"
    PROVE  CountInv'
  <1> USE DEF WritingPcs
  <1>1. pipe' \in [Clients -> {"empty", "full"}]
    BY DEF CountInv, Write
  <1>2. \A d \in Clients \ {c} : pipe'[d] = pipe[d] /\ (Written(d)' <=> Written(d))
    BY DEF CountInv, BornInv, Write, Written
  <1>3. ~Written(c) /\ pipe[c] = "empty"
    BY DEF CountInv, BornInv, Written
  <1>4. Written(c)' <=> pipe'[c] = "full"
    BY <1>3 DEF CountInv, BornInv, Written, Write
  <1>5. Counted' = Counted
    BY <1>1, <1>2, <1>3, <1>4 DEF Counted
  <1>6. \A d \in Clients : pipe'[d] = "full" => Written(d)'
    BY <1>2, <1>4 DEF CountInv
  <1>7. parentPc = "fork" => \A d \in Clients : d >= clientnum => childPc'[d] = "unborn"
    BY DEF CountInv, BornInv
  <1> QED
    BY <1>1, <1>5, <1>6, <1>7 DEF CountInv

\* What a read leaves alone.
LEMMA ReadOf ==
    ASSUME Read
    PROVE  /\ parentPc = "read" /\ NextPipe
           /\ UNCHANGED <<framingVars, totalpipe, childPc, sendPc, rounds, statue, coordinate>>
  BY DEF Read, ReadBlock, ReadEnd, ReadInterrupted, testVars

\* fork comes before connect, which creates the sending thread.
LEMMA BornStep == ASSUME BornInv, [Next]_vars PROVE BornInv'
  <1> USE DEF BornInv, ChildPcs, Gone
  <1>1. ASSUME NEW c \in Clients, ChildStep(c) PROVE BornInv'
    BY <1>1 DEF ChildStep, ClientConnect, ClientConnectFails, RecvCoordinate, LeaveLoop,
       WriteByPipe, WriteOverruns, ChildGoto, ChildAt, parentVars
  <1>2. ASSUME NEW c \in Clients, SenderStep(c) PROVE BornInv'
    BY <1>2 DEF SenderStep, SetStatusTrue, SendLength, SendMsg, SigPipe, TimeOver,
       SenderGoto, SenderAt, parentVars
  <1>3. CASE Fork
    <2>1. clientnum' \in Clients
      BY <1>3, LoadTestAssumption DEF Fork
    <2>2. LastPipe \in 0 .. CLIENTNUM /\ clientnum \in 0 .. CLIENTNUM
      BY LoadTestAssumption DEF LastPipe
    <2>3. totalpipe' \in [Clients -> 0 .. CLIENTNUM]
      BY <1>3, <2>2 DEF Fork
    <2> QED
      BY <1>3, <2>1, <2>3 DEF Fork
  <1>4. CASE Read
    <2>1. NextPipe /\ UNCHANGED <<childPc, sendPc, totalpipe>>
      BY <1>4, ReadOf
    <2>2. clientnum' \in Clients
      BY <2>1, LoadTestAssumption DEF NextPipe
    <2> QED
      BY <2>1, <2>2
  <1>5. CASE UNCHANGED <<testVars, parentVars>>
    BY <1>5 DEF testVars, parentVars
  <1> QED
    BY <1>1, <1>2, <1>3, <1>4, <1>5 DEF Next, ParentStep, ServerStep, Ended, vars

\* Nothing is counted before the first fork.
LEMMA CountInit == Init => CountInv
  <1> SUFFICES ASSUME Init PROVE CountInv
    OBVIOUS
  <1>1. Counted = {}
    BY DEF Init, Counted, Written
  <1>2. 1 \in Clients
    BY LoadTestAssumption
  <1>3. BornInv
    BY <1>2, LoadTestAssumption DEF Init, BornInv, ChildPcs
  <1> QED
    BY <1>1, <1>3, FS_EmptySet DEF Init, CountInv

\* A client's main thread fills its pipe when it writes, and no other way.
LEMMA ChildCounts ==
    ASSUME CountInv, BornInv', NEW c \in Clients, ChildStep(c) PROVE CountInv'
  <1> USE DEF Gone, ChildPcs, WritingPcs
  <1>1. CASE ClientConnect(c)
    BY <1>1, NothingCounted DEF ClientConnect, ChildGoto, ChildAt, parentVars
  <1>2. CASE ClientConnectFails(c)
    BY <1>2, NothingCounted DEF ClientConnectFails, ChildGoto, ChildAt, parentVars
  <1>3. CASE RecvCoordinate(c)
    BY <1>3 DEF RecvCoordinate, CountInv, Counted, Written, parentVars
  <1>4. CASE LeaveLoop(c)
    BY <1>4, NothingCounted DEF LeaveLoop, ChildGoto, ChildAt, parentVars
  <1>5. CASE WriteByPipe(c)
    BY <1>5, NothingCounted DEF WriteByPipe, ChildGoto, ChildAt, parentVars
  <1>6. CASE WriteOverruns(c)
    BY <1>6, NothingCounted DEF WriteOverruns, ChildGoto, ChildAt, parentVars
  <1> QED
    BY <1>1, <1>2, <1>3, <1>4, <1>5, <1>6 DEF ChildStep

\* A sending thread ends its process only by SIGPIPE.
LEMMA SenderCounts ==
    ASSUME CountInv, BornInv', NEW c \in Clients, SenderStep(c) PROVE CountInv'
  <1>1. CASE SigPipe(c)
    <2>1. childPc[c] \notin Gone \cup {"unborn"}
      BY <1>1 DEF SigPipe, SenderAt, CountInv, BornInv
    <2> QED
      BY <1>1, <2>1, NothingCounted DEF SigPipe, parentVars, Gone, ChildPcs, WritingPcs
  <1>2. CASE UNCHANGED <<childPc, pipe, parentVars>>
    BY <1>2 DEF CountInv, Counted, Written, parentVars
  <1> QED
    BY <1>1, <1>2 DEF SenderStep, SetStatusTrue, SendLength, SendMsg, TimeOver, SenderGoto

\* The parent counts a client when it empties its pipe.
LEMMA ParentCounts == ASSUME CountInv, BornInv', ParentStep PROVE CountInv'
  <1>n. clientnum \in Clients /\ clientnum \in Nat /\ CLIENTNUM \in Nat
    BY LoadTestAssumption DEF CountInv, BornInv
  <1>1. CASE Fork
    <2>1. childPc[clientnum] = "unborn" /\ pipe' = pipe
      BY <1>1, <1>n DEF Fork, CountInv
    <2>2. PICK pc \in {"connect", "failed"} : childPc' = [childPc EXCEPT ![clientnum] = pc]
      BY <1>1 DEF Fork
    <2>w. \A c \in Clients : Written(c)' <=> Written(c)
      <3>1. \A c \in Clients \ {clientnum} : totalpipe'[c] = totalpipe[c]
        BY <1>1 DEF Fork, CountInv, BornInv
      <3> QED
        BY <2>1, <2>2, <3>1 DEF CountInv, BornInv, Written
    <2>3. Counted' = Counted
      BY <2>1, <2>w DEF Counted
    <2>4. \A c \in Clients : pipe'[c] = "full" => Written(c)'
      BY <2>1, <2>w DEF CountInv
    <2>5. parentPc' = "fork" =>
            \A c \in Clients : c >= clientnum' => childPc'[c] = "unborn"
      <3>1. SUFFICES ASSUME parentPc' = "fork", NEW c \in Clients, c >= clientnum'
                     PROVE  childPc'[c] = "unborn"
        OBVIOUS
      <3>2. c \in Nat /\ clientnum' = clientnum + 1
        BY <1>1, <3>1, LoadTestAssumption DEF Fork
      <3>3. c >= clientnum /\ c # clientnum
        BY <3>1, <3>2, <1>n
      <3> QED
        BY <1>1, <2>2, <3>3 DEF Fork, CountInv, BornInv
    <2> QED
      BY <1>1, <2>1, <2>3, <2>4, <2>5 DEF Fork, CountInv
  <1>2. CASE Read
    <2>1. /\ parentPc' # "fork" /\ (parentPc' = "done" => clientrecv' = CLIENTNUM)
          /\ UNCHANGED <<childPc, totalpipe>>
      BY <1>2, ReadOf DEF NextPipe
    <2>2. PICK p : p = totalpipe[clientnum] /\ (ReadBlock(p) \/ ReadEnd(p) \/ ReadInterrupted(p))
      BY <1>2 DEF Read
    <2>3. CASE ReadBlock(p)
      <3>1. /\ p \in Clients /\ pipe[p] = "full"
            /\ pipe' = [pipe EXCEPT ![p] = "empty"] /\ clientrecv' = clientrecv + 1
        BY <2>3 DEF ReadBlock, FullPipes
      <3>2. Written(p) /\ p \notin Counted
        BY <3>1 DEF CountInv, Counted
      <3>3. \A c \in Clients : Written(c)' <=> Written(c)
        BY <2>1 DEF Written
      <3>4. Counted' = Counted \cup {p}
        BY <3>1, <3>2, <3>3 DEF Counted, CountInv
      <3>5. clientrecv' = Cardinality(Counted')
        BY <3>1, <3>2, <3>4, CountedFinite, FS_AddElement DEF CountInv
      <3>6. /\ pipe' \in [Clients -> {"empty", "full"}]
            /\ \A c \in Clients : pipe'[c] = "full" => Written(c)'
        BY <3>1, <3>3 DEF CountInv
      <3> QED
        BY <2>1, <3>5, <3>6 DEF CountInv
    <2>4. CASE ReadEnd(p) \/ ReadInterrupted(p)
      <3>1. UNCHANGED <<pipe, clientrecv>>
        BY <2>4 DEF ReadEnd, ReadInterrupted, testVars
      <3> QED
        BY <2>1, <3>1 DEF CountInv, Counted, Written
    <2> QED
      BY <2>2, <2>3, <2>4
  <1> QED
    BY <1>1, <1>2 DEF ParentStep

\* Every step of the load test keeps the count.
LEMMA CountStep == ASSUME CountInv, [Next]_vars PROVE CountInv'
  <1>1. BornInv'
    BY BornStep DEF CountInv
  <1>2. CASE UNCHANGED <<testVars, parentVars>>
    BY <1>1, <1>2 DEF CountInv, Counted, Written, testVars, parentVars
  <1> QED
    BY <1>1, <1>2, ChildCounts, SenderCounts, ParentCounts
       DEF Next, ServerStep, Ended, vars

\* The count is full only when every client is counted.
LEMMA CountRight == CountInv => ResultsCountedOnce
  <1> SUFFICES ASSUME CountInv PROVE ResultsCountedOnce
    OBVIOUS
  <1>1. parentPc = "done" => Counted = Clients
    BY ClientsFinite, FS_Subset DEF CountInv, Counted
  <1> QED
    BY <1>1 DEF ResultsCountedOnce, CountInv, Counted

\* For any number of clients, whatever fails, the parent counts each result once
\* and ends only with the results of all.
THEOREM ResultsCounted == Spec => []ResultsCountedOnce
  <1>1. Init => CountInv
    BY CountInit
  <1>2. CountInv /\ [Next]_vars => CountInv'
    BY CountStep
  <1>3. CountInv => ResultsCountedOnce
    BY CountRight
  <1> QED
    BY <1>1, <1>2, <1>3, PTL DEF Spec
-----------------------------------------------------------------------------
(* The connections, and what is sent on them.                              *)

RunTypes ==
    /\ conn \in [Clients -> {"none", "open", "closed"}]
    /\ reset \in [Clients -> BOOLEAN] /\ ended \in [Clients -> BOOLEAN]
    /\ inPieces \in [Clients -> BOOLEAN]
    /\ sent \in [Clients -> Nat] /\ received \in [Clients -> Nat]
    /\ reading \in {NoRead} \cup (Clients \X (Lengths \ {0}))
    /\ handled \in [Clients -> Seq(0 .. MaxMsgs)]
    /\ rounds \in [Clients -> 0 .. MaxMsgs]
    /\ statue \in [Clients -> BOOLEAN]
    /\ coordinate \in [Clients -> 0 .. BufferLines + 1]
    /\ parentPc \in {"fork", "read", "done"}

\* A client sends only on a connection it has made, closes it only by ending, and is
\* answered with a reset only after the server closed it.
ConnInv ==
    \A c \in Clients :
        /\ received[c] <= sent[c]
        /\ childPc[c] \in {"unborn", "connect"} => conn[c] = "none"
        /\ sendPc[c] # "none" => conn[c] # "none"
        /\ ended[c] => childPc[c] \in Gone
        /\ reset[c] => conn[c] = "closed"

\* No more is sent than the frames of the rounds begun, less the data still to come.
SentInv ==
    \A c \in Clients :
        /\ rounds[c] <= Rounds[c]
        /\ sent[c] + (IF sendPc[c] = "data" THEN Pieces ELSE 0) <= rounds[c] * FrameLen

Reading(c) == \E len \in Lengths : reading = <<c, len>>

\* As long as no recv took less than it asked for, what was received is the frames
\* handled, with the header of the next one if its data is waited for, or was when
\* the client ended.
FrameOf(c) ==
    /\ Reading(c) => conn[c] = "open"
    /\ ~inPieces[c] =>
         LET h == Len(handled[c])
         IN  /\ handled[c] = [k \in 1 .. h |-> k]
             /\ Reading(c) => reading = <<c, Pieces>> /\ received[c] = h * FrameLen + Header
             /\ ~Reading(c) /\ conn[c] # "closed" => received[c] = h * FrameLen
             /\ conn[c] = "closed" =>
                  ended[c] /\ received[c] \in {h * FrameLen, h * FrameLen + Header}

FrameInv == \A c \in Clients : FrameOf(c)

LoadInv ==
    /\ CountInv
    /\ RunTypes
    /\ ConnInv
    /\ SentInv
    /\ FrameInv
    /\ OnlyCutClientsDie

\* The length of a frame.
LEMMA Frames ==
    /\ Pieces \in Nat /\ Pieces > 0 /\ MaxMsgs \in Nat /\ BufferLines \in Nat
    /\ FrameLen \in Nat /\ FrameLen = Header + Pieces /\ Header = 2
    /\ Lengths \subseteq Nat /\ 0 \in Lengths /\ Pieces \in Lengths
    /\ Rounds \in [Clients -> 0 .. MaxMsgs]
  BY FramingAssumption, LoadTestAssumption DEF FrameLen, Header

\* The event thread waits for one client.
LEMMA OneReading ==
    ASSUME RunTypes
    PROVE  /\ reading = NoRead => \A c \in Clients : ~Reading(c)
           /\ \A c \in Clients, len \in Lengths, d \in Clients :
                reading = <<c, len>> /\ Reading(d) => d = c
<1>1. \A c, len : NoRead # <<c, len>>
  BY DEF NoRead
<1>2. \A c, len, d, m : <<c, len>> = <<d, m>> => c = d
  OBVIOUS
<1> QED BY <1>1, <1>2 DEF Reading

EventOf(c) == RecvLength(c) \/ (\E len \in Lengths : RecvData(c, len)) \/ RecvEnd(c)

\* What the event thread does to a connection: it takes some of what has arrived, and
\* may close it.
LEMMA EventEffect ==
    ASSUME RunTypes, ConnInv, FrameInv, NEW c \in Clients, EventOf(c)
    PROVE  /\ conn[c] = "open" /\ UNCHANGED <<sent, ended>>
           /\ \E k \in Nat : /\ k <= sent[c] - received[c]
                             /\ received' = [received EXCEPT ![c] = @ + k]
           /\ \/ UNCHANGED <<conn, reset>>
              \/ /\ conn' = [conn EXCEPT ![c] = "closed"]
                 /\ \E b \in BOOLEAN : reset' = [reset EXCEPT ![c] = b]
<1>c. ASSUME OffConnection(c)
      PROVE  /\ conn' = [conn EXCEPT ![c] = "closed"]
             /\ \E b \in BOOLEAN : reset' = [reset EXCEPT ![c] = b]
  <2>1. PICK b \in BOOLEAN : b = (reset[c] \/ sent[c] > received'[c])
    OBVIOUS
  <2>2. reset' = [reset EXCEPT ![c] = b]
    BY <1>c, <2>1 DEF OffConnection
  <2> QED BY <1>c, <2>2 DEF OffConnection
<1>t. ASSUME NEW n \in Nat, NEW k \in Taken(c, n), Take(c, k, n)
      PROVE  \E i \in Nat : /\ i <= sent[c] - received[c]
                            /\ received' = [received EXCEPT ![c] = @ + i]
  <2>1. k \in Nat /\ k <= sent[c] - received[c]
    BY <1>t DEF Taken, Waiting
  <2>2. received' = [received EXCEPT ![c] = @ + k]
    BY <1>t DEF Take
  <2> QED BY <2>1, <2>2
<1>1. CASE RecvLength(c)
  <2>1. PICK k \in Taken(c, Header) :
          /\ Take(c, k, Header)
          /\ OffConnection(c) \/ UNCHANGED <<conn, reset>>
    BY <1>1 DEF RecvLength
  <2>2. Header \in Nat
    BY Frames
  <2> QED BY <1>1, <1>c, <1>t, <2>1, <2>2 DEF RecvLength
<1>2. ASSUME NEW len \in Lengths, RecvData(c, len)
      PROVE  /\ conn[c] = "open" /\ UNCHANGED <<sent, ended>>
             /\ \E k \in Nat : /\ k <= sent[c] - received[c]
                               /\ received' = [received EXCEPT ![c] = @ + k]
             /\ \/ UNCHANGED <<conn, reset>>
                \/ /\ conn' = [conn EXCEPT ![c] = "closed"]
                   /\ \E b \in BOOLEAN : reset' = [reset EXCEPT ![c] = b]
  <2>1. PICK k \in Taken(c, len) :
          /\ Take(c, k, len)
          /\ OffConnection(c) \/ UNCHANGED <<conn, reset>>
    BY <1>2 DEF RecvData
  <2>2. len \in Nat
    BY Frames
  <2>3. conn[c] = "open"
    BY <1>2 DEF RecvData, FrameInv, FrameOf, Reading
  <2> QED BY <1>2, <1>c, <1>t, <2>1, <2>2, <2>3 DEF RecvData
<1>3. CASE RecvEnd(c)
  <2>1. received' = [received EXCEPT ![c] = @ + 0] /\ received[c] <= sent[c]
    BY <1>3 DEF RecvEnd, RunTypes, ConnInv
  <2>2. 0 <= sent[c] - received[c]
    BY <2>1 DEF RunTypes
  <2>3. conn[c] = "open" /\ OffConnection(c) /\ UNCHANGED <<sent, ended>>
    BY <1>3 DEF RecvEnd
  <2> QED BY <1>c, <2>1, <2>2, <2>3
<1> QED BY <1>1, <1>2, <1>3 DEF EventOf

\* The event thread is one step of one connection.
LEMMA EventStepOf ==
    ASSUME EventStep
    PROVE  \E c \in Clients : EventOf(c)
  BY DEF EventStep, EventOf

\* Connections are made once, by the client, and closed by the server.
LEMMA ConnStep ==
    ASSUME CountInv, RunTypes, ConnInv, FrameInv, [Next]_vars
    PROVE  ConnInv'
<1> USE DEF ConnInv, RunTypes, Gone
<1>b. BornInv
  BY DEF CountInv
<1>1. ASSUME NEW c \in Clients, ClientConnect(c)
      PROVE  ConnInv'
  <2>1. /\ childPc[c] = "connect" /\ childPc' = [childPc EXCEPT ![c] = "select"]
        /\ sendPc' = [sendPc EXCEPT ![c] = "begin"]
        /\ conn' = [conn EXCEPT ![c] = "open"]
        /\ UNCHANGED <<reset, ended, sent, received>>
    BY <1>1 DEF ClientConnect, ChildGoto, ChildAt, Connect
  <2>2. conn[c] = "none" /\ ~reset[c] /\ ~ended[c]
    BY <2>1
  <2> QED BY <1>b, <2>1, <2>2 DEF BornInv
<1>t. /\ conn \in [Clients -> {"none", "open", "closed"}] /\ ended \in [Clients -> BOOLEAN]
      /\ childPc \in [Clients -> ChildPcs]
  BY <1>b DEF BornInv
<1>g. ASSUME NEW c \in Clients, NEW pc, pc \notin {"unborn", "connect"},
             childPc' = [childPc EXCEPT ![c] = pc],
             UNCHANGED <<conn, reset, sent, received, sendPc>>,
             \/ ended' = ended /\ childPc[c] \notin Gone
             \/ ended' = [ended EXCEPT ![c] = TRUE] /\ pc \in Gone
      PROVE  ConnInv'
  <2>1. \A d \in Clients : childPc'[d] \in {"unborn", "connect"} => conn[d] = "none"
    BY <1>t, <1>g
  <2>2. \A d \in Clients : ended'[d] => childPc'[d] \in Gone
    BY <1>t, <1>g
  <2> QED BY <1>g, <2>1, <2>2
<1>10. ASSUME NEW c \in Clients, ClientConnectFails(c)
       PROVE  ConnInv'
  <2>1. /\ childPc[c] = "connect" /\ childPc' = [childPc EXCEPT ![c] = "failed"]
        /\ UNCHANGED <<conn, reset, sent, received, ended, sendPc>>
    BY <1>10 DEF ClientConnectFails, ChildGoto, ChildAt, framingVars
  <2> QED BY <1>g, <2>1
<1>2. ASSUME NEW c \in Clients, LeaveLoop(c)
      PROVE  ConnInv'
  <2>1. /\ childPc[c] = "select" /\ childPc' = [childPc EXCEPT ![c] = "join"]
        /\ UNCHANGED <<conn, reset, sent, received, ended, sendPc>>
    BY <1>2 DEF LeaveLoop, ChildGoto, ChildAt, framingVars
  <2> QED BY <1>g, <2>1
<1>3. ASSUME NEW c \in Clients, WriteByPipe(c) \/ WriteOverruns(c)
      PROVE  ConnInv'
  <2>1. PICK pc \in {"exited", "crashed", "killed"} : childPc' = [childPc EXCEPT ![c] = pc]
    BY <1>3 DEF WriteByPipe, WriteOverruns, ChildGoto
  <2>2. /\ ended' = [ended EXCEPT ![c] = TRUE]
        /\ UNCHANGED <<conn, reset, sent, received, sendPc>>
    BY <1>3 DEF WriteByPipe, WriteOverruns, Close
  <2> QED BY <1>g, <2>1, <2>2
<1>4. ASSUME NEW c \in Clients, SetStatusTrue(c) \/ TimeOver(c)
      PROVE  ConnInv'
  <2>1. PICK pc \in {"wait", "done"} : sendPc' = [sendPc EXCEPT ![c] = pc]
    BY <1>4 DEF SetStatusTrue, TimeOver, SenderGoto
  <2>2. sendPc[c] # "none" /\ UNCHANGED <<childPc, conn, reset, sent, received, ended>>
    BY <1>4 DEF SetStatusTrue, TimeOver, SenderGoto, SenderAt, framingVars
  <2> QED BY <1>b, <2>1, <2>2 DEF BornInv
<1>5. ASSUME NEW c \in Clients, SendLength(c) \/ SendMsg(c)
      PROVE  ConnInv'
  <2>1. PICK units \in Nat : Send(c, units)
    BY <1>5, Frames DEF SendLength, SendMsg
  <2>2. /\ sendPc[c] # "none" /\ UNCHANGED <<childPc, conn, received, ended>>
        /\ \E pc : pc # "none" /\ sendPc' = [sendPc EXCEPT ![c] = pc]
    BY <1>5, <2>1 DEF SendLength, SendMsg, SenderGoto, SenderAt, Send
  <2>3. CASE conn[c] = "open"
    <3>1. sent' = [sent EXCEPT ![c] = @ + units] /\ reset' = reset
      BY <2>1, <2>3 DEF Send
    <3>2. \A d \in Clients : received[d] <= sent'[d]
      BY <3>1
    <3> QED BY <1>b, <2>2, <3>1, <3>2 DEF BornInv
  <2>4. CASE conn[c] # "open"
    <3>1. sent' = sent /\ reset' = [reset EXCEPT ![c] = TRUE] /\ conn[c] = "closed"
      BY <2>1, <2>2, <2>4 DEF Send
    <3> QED BY <1>b, <2>2, <3>1 DEF BornInv
  <2> QED BY <2>3, <2>4
<1>6. ASSUME NEW c \in Clients, SigPipe(c)
      PROVE  ConnInv'
  <2>1. /\ childPc' = [childPc EXCEPT ![c] = "killed"] /\ ended' = [ended EXCEPT ![c] = TRUE]
        /\ UNCHANGED <<conn, reset, sent, received, sendPc>>
    BY <1>6 DEF SigPipe, Close
  <2> QED BY <1>g, <2>1
<1>7. CASE Fork
  <2>1. childPc[clientnum] = "unborn" /\ clientnum \in Clients /\ UNCHANGED <<framingVars, sendPc>>
    BY <1>7, LoadTestAssumption DEF Fork, CountInv, BornInv
  <2>2. PICK pc \in {"connect", "failed"} : childPc' = [childPc EXCEPT ![clientnum] = pc]
    BY <1>7 DEF Fork
  <2> QED BY <1>b, <2>1, <2>2 DEF framingVars, BornInv
<1>8. ASSUME UNCHANGED <<framingVars, childPc, sendPc>>
      PROVE  ConnInv'
  BY <1>8 DEF framingVars
<1>9. ASSUME NEW c \in Clients, EventOf(c), UNCHANGED <<childPc, sendPc>>
      PROVE  ConnInv'
  <2>1. /\ conn[c] = "open" /\ UNCHANGED <<sent, ended>>
        /\ \/ UNCHANGED <<conn, reset>>
           \/ /\ conn' = [conn EXCEPT ![c] = "closed"]
              /\ \E b \in BOOLEAN : reset' = [reset EXCEPT ![c] = b]
    BY <1>9, EventEffect
  <2>2. PICK k \in Nat : k <= sent[c] - received[c] /\ received' = [received EXCEPT ![c] = @ + k]
    BY <1>9, EventEffect
  <2>3. \A d \in Clients : received'[d] <= sent[d]
    BY <2>2
  <2> QED BY <1>9, <2>1, <2>3
<1> QED
  BY <1>1, <1>2, <1>3, <1>4, <1>5, <1>6, <1>7, <1>8, <1>9, <1>10, EventStepOf
     DEF Next, ChildStep, RecvCoordinate, SenderStep, ParentStep, Read, ReadBlock, ReadEnd, ReadInterrupted, ServerStep, Ended,
     testVars, vars

\* A client sends a frame for a round, the header first.
LEMMA SentStep ==
    ASSUME CountInv, RunTypes, ConnInv, SentInv, FrameInv, [Next]_vars
    PROVE  SentInv'
<1> USE DEF SentInv
<1>b. BornInv
  BY DEF CountInv
<1>1. ASSUME NEW c \in Clients, NEW pc \in {"begin", "wait", "done"},
             sendPc' = [sendPc EXCEPT ![c] = pc], UNCHANGED <<sent, rounds>>
      PROVE  SentInv'
  <2>1. \A d \in Clients :
           sendPc'[d] = sendPc[d] \/ (sendPc'[d] # "data" /\ sent[d] <= sent[d] + Pieces)
    BY <1>b, <1>1, Frames DEF BornInv, RunTypes
  <2>2. \A d \in Clients : rounds[d] * FrameLen \in Nat /\ sent[d] \in Nat
    BY Frames, Numbers!OneFrameMore DEF RunTypes
  <2> QED BY <1>1, <2>1, <2>2, Frames
<1>2. ASSUME NEW c \in Clients, SendLength(c)
      PROVE  SentInv'
  <2>1. /\ sendPc[c] = "wait" /\ sendPc' = [sendPc EXCEPT ![c] = "data"]
        /\ rounds[c] < Rounds[c] /\ rounds' = [rounds EXCEPT ![c] = @ + 1]
        /\ Send(c, Header)
    BY <1>2 DEF SendLength, SenderGoto, SenderAt
  <2>2. rounds[c] \in Nat /\ sent[c] \in Nat /\ Rounds[c] \in Nat
    BY Frames DEF RunTypes
  <2>3. /\ (rounds[c] + 1) * FrameLen = rounds[c] * FrameLen + FrameLen
        /\ rounds[c] * FrameLen \in Nat
    BY <2>2, Frames, Numbers!OneFrameMore
  <2>4. sent[c] <= rounds[c] * FrameLen
    BY <2>1, <2>2
  <2>5. sent' = [sent EXCEPT ![c] = @ + Header] \/ sent' = sent
    BY <2>1 DEF Send
  <2>6. sent'[c] <= sent[c] + Header /\ sent'[c] \in Nat
    BY <2>2, <2>5, Frames DEF RunTypes
  <2>7. sent'[c] + Pieces <= (rounds[c] + 1) * FrameLen
    BY <2>2, <2>3, <2>4, <2>6, Frames
  <2>8. /\ sendPc'[c] = "data" /\ rounds'[c] = rounds[c] + 1
        /\ \A d \in Clients \ {c} : /\ sendPc'[d] = sendPc[d] /\ rounds'[d] = rounds[d]
                                    /\ sent'[d] = sent[d]
    BY <1>b, <2>1, <2>5 DEF BornInv, RunTypes
  <2>9. rounds'[c] <= Rounds[c]
    BY <2>1, <2>2, <2>8
  <2> QED BY <2>7, <2>8, <2>9
<1>3. ASSUME NEW c \in Clients, SendMsg(c)
      PROVE  SentInv'
  <2>1. /\ sendPc[c] = "data" /\ sendPc' = [sendPc EXCEPT ![c] = "wait"]
        /\ rounds' = rounds /\ Send(c, Pieces)
    BY <1>3 DEF SendMsg, SenderGoto, SenderAt
  <2>2. sent' = [sent EXCEPT ![c] = @ + Pieces] \/ sent' = sent
    BY <2>1 DEF Send
  <2>3. sent[c] + Pieces <= rounds[c] * FrameLen /\ rounds[c] * FrameLen \in Nat
        /\ sent[c] \in Nat
    BY <2>1, Frames, Numbers!OneFrameMore DEF RunTypes
  <2>4. sent'[c] <= rounds[c] * FrameLen /\ sent'[c] \in Nat
    BY <2>2, <2>3, Frames DEF RunTypes
  <2>5. /\ sendPc'[c] = "wait"
        /\ \A d \in Clients \ {c} : sendPc'[d] = sendPc[d] /\ sent'[d] = sent[d]
    BY <1>b, <2>1, <2>2 DEF BornInv, RunTypes
  <2> QED BY <2>1, <2>4, <2>5
<1>4. CASE UNCHANGED <<sendPc, sent, rounds>>
  BY <1>4
<1>5. ASSUME EventStep
      PROVE  sent' = sent
  BY <1>5 DEF EventStep, RecvLength, RecvData, RecvEnd
<1> QED
  BY <1>1, <1>2, <1>3, <1>4, <1>5 DEF Next, ChildStep, ClientConnect, ClientConnectFails,
     Connect, RecvCoordinate, LeaveLoop, WriteByPipe, WriteOverruns, SenderStep,
     SetStatusTrue, SigPipe, TimeOver, SenderGoto, Close, ParentStep, Fork, Read, ReadBlock,
     ReadEnd, ReadInterrupted, ServerStep, Ended, testVars, framingVars, vars

\* A list of the first numbers, and the next one.
LEMMA NextInOrder ==
    ASSUME NEW s \in Seq(0 .. MaxMsgs), s = [k \in 1 .. Len(s) |-> k],
           NEW m \in 0 .. MaxMsgs, m = Len(s) + 1
    PROVE  /\ Len(Append(s, m)) = Len(s) + 1
           /\ Append(s, m) = [k \in 1 .. Len(s) + 1 |-> k]
<1> DEFINE t == Append(s, m)
<1>1. t \in Seq(0 .. MaxMsgs) /\ Len(t) = Len(s) + 1 /\ Len(s) \in Nat
  OBVIOUS
<1>2. \A k \in 1 .. Len(s) + 1 : t[k] = IF k <= Len(s) THEN s[k] ELSE m
  OBVIOUS
<1>3. \A k \in 1 .. Len(s) : s[k] = k
  OBVIOUS
<1>4. \A k \in 1 .. Len(s) + 1 : t[k] = k
  BY <1>1, <1>2, <1>3
<1>5. t = [k \in 1 .. Len(t) |-> t[k]]
  BY <1>1
<1> QED BY <1>1, <1>4, <1>5

\* Frame by frame.
LEMMA TextIsNext ==
    ASSUME RunTypes, SentInv, NEW c \in Clients, NEW len \in Lengths
    PROVE  /\ len <= Waiting(c) => TextAt(c, len) \in 0 .. MaxMsgs
           /\ \A h \in Nat : received[c] = h * FrameLen + Header /\ len = Pieces =>
                TextAt(c, len) = h + 1
<1>1. /\ FrameLen > 0 /\ FrameLen \in Nat /\ Header \in 0 .. FrameLen - 1
      /\ received[c] \in Nat /\ sent[c] \in Nat /\ Pieces \in Nat /\ MaxMsgs \in Nat
      /\ rounds[c] \in Nat /\ rounds[c] <= MaxMsgs
  BY Frames DEF RunTypes
<1>2. ASSUME NEW h \in Nat, received[c] = h * FrameLen + Header, len = Pieces
      PROVE  TextAt(c, len) = h + 1
  BY <1>1, <1>2, Numbers!DivisionUnique DEF TextAt
<1>3. ASSUME len <= Waiting(c)
      PROVE  TextAt(c, len) \in 0 .. MaxMsgs
  <2>1. CASE received[c] % FrameLen = Header /\ len = Pieces
    <3>1. PICK h \in Nat : h = received[c] \div FrameLen
      BY <1>1, Numbers!Division
    <3>2. received[c] = h * FrameLen + Header
      BY <1>1, <2>1, <3>1, Numbers!Division
    <3>3. h * FrameLen + Header + Pieces <= sent[c]
      BY <1>1, <1>3, <2>1, <3>2 DEF Waiting
    <3>4. sent[c] <= rounds[c] * FrameLen
      BY <1>1, Numbers!OneFrameMore DEF SentInv
    <3>5. (h + 1) * FrameLen <= rounds[c] * FrameLen
      <4>1. /\ (h + 1) * FrameLen = h * FrameLen + FrameLen /\ h * FrameLen \in Nat
            /\ rounds[c] * FrameLen \in Nat
        BY <1>1, Numbers!OneFrameMore
      <4> QED BY <1>1, <3>3, <3>4, <4>1, Frames
    <3>6. h + 1 <= rounds[c]
      <4> SUFFICES ASSUME rounds[c] <= h
                   PROVE  FALSE
        BY <1>1
      <4>1. rounds[c] * FrameLen <= h * FrameLen
        BY <1>1, Numbers!ProductGrows
      <4>2. (h + 1) * FrameLen = h * FrameLen + FrameLen /\ h * FrameLen \in Nat
            /\ rounds[c] * FrameLen \in Nat
        BY <1>1, Numbers!OneFrameMore
      <4> QED BY <1>1, <3>5, <4>1, <4>2
    <3>7. TextAt(c, len) = h + 1
      BY <1>2, <2>1, <3>2
    <3> QED BY <1>1, <3>6, <3>7
  <2>2. CASE ~(received[c] % FrameLen = Header /\ len = Pieces)
    <3>1. TextAt(c, len) = 0
      BY <2>2 DEF TextAt
    <3> QED BY <1>1, <3>1
  <2> QED BY <2>1, <2>2
<1> QED BY <1>2, <1>3

\* What another connection does leaves the frames of this one.
LEMMA FrameOther ==
    ASSUME NEW d \in Clients, FrameOf(d), ended[d] => ended'[d],
           received'[d] = received[d], handled'[d] = handled[d],
           inPieces'[d] = inPieces[d], conn'[d] = conn[d],
           Reading(d)' <=> Reading(d), Reading(d) => reading' = reading
    PROVE  FrameOf(d)'
  BY DEF FrameOf

\* The first recv.
LEMMA RecvLengthKeeps ==
    ASSUME RunTypes, FrameInv, NEW c \in Clients, RecvLength(c)
    PROVE  FrameInv'
<1>0. PICK k \in Taken(c, Header) :
        /\ Take(c, k, Header)
        /\ \E len \in LengthsSeen(c, k) :
              \/ len = 0 /\ OffConnection(c)
              \/ len # 0 /\ reading' = <<c, len>> /\ UNCHANGED <<conn, reset>>
  BY DEF RecvLength
<1>1. PICK len \in LengthsSeen(c, k) :
        /\ Take(c, k, Header)
        /\ \/ len = 0 /\ OffConnection(c)
           \/ len # 0 /\ reading' = <<c, len>> /\ UNCHANGED <<conn, reset>>
  BY <1>0
<1>2. reading = NoRead /\ conn[c] = "open" /\ UNCHANGED <<ended, handled>>
  BY DEF RecvLength
<1>3. \A d \in Clients : ~Reading(d)
  BY <1>2, OneReading
<1>4. len \in Lengths
  BY <1>1, Frames DEF LengthsSeen
<1>5. \/ /\ reading' = NoRead /\ conn' = [conn EXCEPT ![c] = "closed"]
      \/ /\ reading' = <<c, len>> /\ conn' = conn
  BY <1>1 DEF OffConnection
<1>6. \A d \in Clients \ {c} : ~Reading(d)'
  <2>1. \A d, m : NoRead # <<d, m>> /\ (<<c, len>> = <<d, m>> => c = d)
    BY DEF NoRead
  <2> QED BY <1>5, <2>1 DEF Reading
<1>7. /\ received' = [received EXCEPT ![c] = @ + k]
      /\ inPieces' = [inPieces EXCEPT ![c] = @ \/ k < Header]
  BY <1>1 DEF Take
<1>8. \A d \in Clients \ {c} : FrameOf(d)'
  <2> TAKE d \in Clients \ {c}
  <2>1. /\ received'[d] = received[d] /\ inPieces'[d] = inPieces[d] /\ conn'[d] = conn[d]
        /\ handled'[d] = handled[d] /\ ended'[d] = ended[d]
    BY <1>2, <1>5, <1>7 DEF RunTypes
  <2> QED BY <1>3, <1>6, <2>1, FrameOther DEF FrameInv
<1>9. FrameOf(c)'
  <2>1. Reading(c)' => reading' = <<c, len>> /\ conn' = conn
    <3>1. \A m : NoRead # <<c, m>>
      BY DEF NoRead
    <3> QED BY <1>5, <3>1 DEF Reading
  <2>2. CASE inPieces'[c]
    BY <1>2, <2>1, <2>2 DEF FrameOf
  <2>3. CASE ~inPieces'[c]
    <3> DEFINE h == Len(handled[c])
    <3>1. ~inPieces[c] /\ ~(k < Header)
      BY <1>7, <2>3 DEF RunTypes
    <3>2. k = Header
      BY <3>1, Frames DEF Taken
    <3>3. received[c] = h * FrameLen /\ handled[c] = [i \in 1 .. h |-> i] /\ h \in Nat
      BY <1>2, <1>3, <3>1 DEF FrameInv, FrameOf, RunTypes
    <3>4. received[c] % FrameLen = 0
      <4>1. FrameLen \in Nat /\ FrameLen > 0 /\ 0 \in 0 .. FrameLen - 1
        BY Frames
      <4>2. (h * FrameLen + 0) % FrameLen = 0
        BY <3>3, <4>1, Numbers!DivisionUnique
      <4>3. h * FrameLen + 0 = h * FrameLen
        BY <3>3, <4>1
      <4> QED BY <3>3, <4>2, <4>3
    <3>5. len = Pieces /\ len # 0
      BY <3>2, <3>4, Frames DEF LengthsSeen
    <3>6. reading' = <<c, Pieces>> /\ conn' = conn
      BY <1>1, <3>5
    <3>7. received'[c] = h * FrameLen + Header
      BY <1>7, <3>2, <3>3 DEF RunTypes
    <3>8. Reading(c)' /\ handled'[c] = handled[c]
      BY <1>2, <3>6, Frames DEF Reading
    <3> QED BY <1>2, <2>3, <3>3, <3>6, <3>7, <3>8 DEF FrameOf
  <2> QED BY <2>2, <2>3
<1> QED BY <1>8, <1>9 DEF FrameInv

\* The second recv.
LEMMA RecvDataKeeps ==
    ASSUME RunTypes, SentInv, FrameInv, NEW c \in Clients, NEW len \in Lengths,
           RecvData(c, len)
    PROVE  FrameInv'
<1>1. PICK k \in Taken(c, len) :
        /\ Take(c, k, len)
        /\ \/ /\ k = len /\ UNCHANGED <<conn, reset>> /\ reading' = NoRead
              /\ handled' = [handled EXCEPT ![c] = Append(@, TextAt(c, len))]
           \/ k # len /\ OffConnection(c) /\ UNCHANGED handled
  BY DEF RecvData
<1>2. reading = <<c, len>> /\ ended' = ended /\ reading' = NoRead
  BY <1>1 DEF RecvData, OffConnection
<1>3. Reading(c) /\ \A d \in Clients \ {c} : ~Reading(d)
  BY <1>2, OneReading DEF Reading
<1>4. \A d \in Clients : ~Reading(d)'
  <2>1. \A d, m : NoRead # <<d, m>>
    BY DEF NoRead
  <2> QED BY <1>2, <2>1 DEF Reading
<1>5. /\ received' = [received EXCEPT ![c] = @ + k]
      /\ inPieces' = [inPieces EXCEPT ![c] = @ \/ k < len]
  BY <1>1 DEF Take
<1>6. \A d \in Clients \ {c} : FrameOf(d)'
  <2> TAKE d \in Clients \ {c}
  <2>1. /\ received'[d] = received[d] /\ inPieces'[d] = inPieces[d] /\ conn'[d] = conn[d]
        /\ handled'[d] = handled[d] /\ ended'[d] = ended[d]
    BY <1>1, <1>2, <1>5 DEF RunTypes, OffConnection
  <2> QED BY <1>3, <1>4, <2>1, FrameOther DEF FrameInv
<1>7. FrameOf(c)'
  <2>1. CASE inPieces'[c]
    BY <1>4, <2>1 DEF FrameOf
  <2>2. CASE ~inPieces'[c]
    <3>1. ~inPieces[c] /\ ~(k < len)
      BY <1>5, <2>2 DEF RunTypes
    <3>2. k = len /\ len <= Waiting(c)
      BY <3>1, Frames DEF Taken
    <3>3. PICK h \in Nat : h = Len(handled[c])
      BY DEF RunTypes
    <3>4. /\ handled[c] = [i \in 1 .. h |-> i] /\ reading = <<c, Pieces>>
          /\ received[c] = h * FrameLen + Header /\ conn[c] = "open"
      BY <1>3, <3>1, <3>3 DEF FrameInv, FrameOf
    <3>5. len = Pieces
      BY <1>2, <3>4
    <3>6. TextAt(c, len) = h + 1 /\ h + 1 \in 0 .. MaxMsgs
      BY <3>2, <3>4, <3>5, TextIsNext
    <3>7. handled'[c] = Append(handled[c], h + 1) /\ conn'[c] = "open"
      BY <1>1, <3>2, <3>4, <3>6 DEF RunTypes
    <3>8. Len(handled'[c]) = h + 1 /\ handled'[c] = [i \in 1 .. h + 1 |-> i]
      <4>1. handled[c] \in Seq(0 .. MaxMsgs)
        BY DEF RunTypes
      <4> QED BY <3>3, <3>4, <3>6, <3>7, <4>1, NextInOrder
    <3>9. received'[c] = (h + 1) * FrameLen
      <4>1. received'[c] = h * FrameLen + Header + Pieces
        BY <1>5, <3>2, <3>4, <3>5 DEF RunTypes
      <4>2. (h + 1) * FrameLen = h * FrameLen + FrameLen /\ h * FrameLen \in Nat
        BY Frames, Numbers!OneFrameMore
      <4> QED BY <4>1, <4>2, Frames
    <3> QED BY <1>4, <3>7, <3>8, <3>9 DEF FrameOf
  <2> QED BY <2>1, <2>2
<1> QED BY <1>6, <1>7 DEF FrameInv

\* recv returns 0.
LEMMA RecvEndKeeps ==
    ASSUME RunTypes, FrameInv, NEW c \in Clients, RecvEnd(c)
    PROVE  FrameInv'
<1>1. /\ conn[c] = "open" /\ conn' = [conn EXCEPT ![c] = "closed"] /\ reading' = NoRead
      /\ UNCHANGED <<ended, received, handled, inPieces>> /\ ended[c]
      /\ reading = NoRead \/ (reading # NoRead /\ reading[1] = c)
  BY DEF RecvEnd, OffConnection
<1>2. \A d \in Clients : ~Reading(d)'
  <2>1. \A d, m : NoRead # <<d, m>>
    BY DEF NoRead
  <2> QED BY <1>1, <2>1 DEF Reading
<1>3. \A d \in Clients \ {c} : ~Reading(d)
  <2>1. \A d, m : NoRead # <<d, m>> /\ <<d, m>>[1] = d
    BY DEF NoRead
  <2> QED BY <1>1, <2>1 DEF Reading
<1>4. \A d \in Clients \ {c} : FrameOf(d)'
  BY <1>1, <1>2, <1>3, FrameOther DEF FrameInv, RunTypes
<1>5. FrameOf(c)'
  BY <1>1, <1>2 DEF FrameInv, FrameOf, RunTypes
<1> QED BY <1>4, <1>5 DEF FrameInv

\* The frames of a connection are handled in order.
LEMMA FrameStep ==
    ASSUME CountInv, RunTypes, ConnInv, SentInv, FrameInv, [Next]_vars
    PROVE  FrameInv'
<1>1. ASSUME NEW c \in Clients, ClientConnect(c)
      PROVE  FrameInv'
  <2>1. /\ conn[c] = "none" /\ conn' = [conn EXCEPT ![c] = "open"]
        /\ UNCHANGED <<ended, received, reading, handled, inPieces>>
    BY <1>1 DEF ClientConnect, ChildGoto, ChildAt, Connect, ConnInv
  <2>2. \A d \in Clients : Reading(d)' <=> Reading(d)
    BY <2>1 DEF Reading
  <2>3. \A d \in Clients \ {c} : FrameOf(d)'
    BY <2>1, <2>2, FrameOther DEF FrameInv, RunTypes
  <2>4. FrameOf(c)'
    BY <2>1, <2>2 DEF FrameInv, FrameOf, RunTypes
  <2> QED BY <2>3, <2>4 DEF FrameInv
<1>2. ASSUME UNCHANGED <<conn, received, reading, handled, inPieces>>,
             \A d \in Clients : ended[d] => ended'[d]
      PROVE  FrameInv'
  BY <1>2, FrameOther DEF FrameInv, Reading
<1>3. ASSUME NEW c \in Clients, Close(c)
      PROVE  \A d \in Clients : ended[d] => ended'[d]
  BY <1>3 DEF Close, RunTypes
<1>4. ASSUME NEW c \in Clients, EventOf(c)
      PROVE  FrameInv'
  BY <1>4, RecvLengthKeeps, RecvDataKeeps, RecvEndKeeps DEF EventOf
<1>5. ASSUME NEW c \in Clients, SenderStep(c)
      PROVE  FrameInv'
  BY <1>2, <1>3, <1>5 DEF SenderStep, SetStatusTrue, SendLength, SendMsg, Send, SigPipe,
     TimeOver, Close, framingVars
<1>6. ASSUME NEW c \in Clients, ChildStep(c)
      PROVE  FrameInv'
  BY <1>1, <1>2, <1>3, <1>6 DEF ChildStep, ClientConnectFails, RecvCoordinate, LeaveLoop,
     WriteByPipe, WriteOverruns, Close, framingVars
<1>7. CASE UNCHANGED framingVars
  BY <1>2, <1>7 DEF framingVars
<1> QED
  BY <1>4, <1>5, <1>6, <1>7, EventStepOf DEF Next, ParentStep, Fork, Read, ReadBlock, ReadEnd,
     ReadInterrupted, ServerStep, Ended, vars

\* A client that was not cut cannot be killed and is sent nothing.
LEMMA CutStep ==
    ASSUME CountInv, RunTypes, ConnInv, FrameInv, OnlyCutClientsDie, [Next]_vars
    PROVE  OnlyCutClientsDie'
<1>b. BornInv
  BY DEF CountInv
<1>1. \A c \in Clients : conn[c] = "closed" /\ ~inPieces[c] => childPc[c] \in Gone
  BY DEF FrameInv, FrameOf, ConnInv
<1>2. ASSUME UNCHANGED <<coordinate, inPieces>>, NEW c \in Clients, NEW pc,
             childPc' = [childPc EXCEPT ![c] = pc], pc \notin {"killed", "crashed"}
      PROVE  OnlyCutClientsDie'
  BY <1>b, <1>2 DEF OnlyCutClientsDie, BornInv
<1>3. ASSUME NEW c \in Clients, RecvCoordinate(c)
      PROVE  OnlyCutClientsDie'
  <2>1. /\ childPc[c] = "select" /\ conn[c] = "closed" /\ UNCHANGED <<childPc, inPieces>>
        /\ coordinate' = [coordinate EXCEPT ![c] = @ + 1]
    BY <1>3 DEF RecvCoordinate, ChildAt, framingVars
  <2>2. inPieces[c]
    BY <1>1, <2>1 DEF Gone
  <2> QED BY <2>1, <2>2 DEF OnlyCutClientsDie, RunTypes
<1>4. ASSUME NEW c \in Clients, WriteOverruns(c)
      PROVE  OnlyCutClientsDie'
  <2>1. /\ \E pc \in {"killed", "crashed"} : childPc' = [childPc EXCEPT ![c] = pc]
        /\ coordinate[c] > BufferLines /\ UNCHANGED <<coordinate, inPieces>>
    BY <1>4 DEF WriteOverruns, ChildGoto, Close
  <2>2. coordinate[c] # 0
    BY <2>1, Frames DEF RunTypes
  <2> QED BY <1>b, <2>1, <2>2 DEF OnlyCutClientsDie, BornInv
<1>5. ASSUME NEW c \in Clients, SigPipe(c)
      PROVE  OnlyCutClientsDie'
  <2>1. /\ childPc' = [childPc EXCEPT ![c] = "killed"] /\ childPc[c] \notin Gone /\ reset[c]
        /\ UNCHANGED <<coordinate, inPieces>>
    BY <1>5 DEF SigPipe, SenderAt, Close
  <2>2. inPieces[c]
    BY <1>1, <2>1 DEF ConnInv
  <2> QED BY <1>b, <2>1, <2>2 DEF OnlyCutClientsDie, BornInv
<1>6. ASSUME UNCHANGED <<childPc, coordinate>>,
             \A c \in Clients : inPieces[c] => inPieces'[c]
      PROVE  OnlyCutClientsDie'
  BY <1>6 DEF OnlyCutClientsDie
<1>7. ASSUME EventStep
      PROVE  \A c \in Clients : inPieces[c] => inPieces'[c]
  BY <1>7 DEF EventStep, RecvLength, RecvData, RecvEnd, Take, RunTypes
<1>8. ASSUME NEW c \in Clients,
             \/ ClientConnect(c) \/ ClientConnectFails(c) \/ LeaveLoop(c) \/ WriteByPipe(c)
      PROVE  OnlyCutClientsDie'
  BY <1>2, <1>8 DEF ClientConnect, ClientConnectFails, LeaveLoop, WriteByPipe, ChildGoto,
     Connect, Close, framingVars
<1>9. ASSUME NEW c \in Clients,
             SetStatusTrue(c) \/ SendLength(c) \/ SendMsg(c) \/ TimeOver(c)
      PROVE  OnlyCutClientsDie'
  BY <1>6, <1>9 DEF SetStatusTrue, SendLength, SendMsg, TimeOver, Send, framingVars
<1>10. CASE Fork
  <2>1. clientnum \in Clients /\ UNCHANGED <<coordinate, inPieces>>
    BY <1>b, <1>10 DEF Fork, BornInv, framingVars
  <2>2. PICK pc \in {"connect", "failed"} : childPc' = [childPc EXCEPT ![clientnum] = pc]
    BY <1>10 DEF Fork
  <2> QED BY <1>2, <2>1, <2>2
<1>11. CASE UNCHANGED <<framingVars, childPc, coordinate>>
  BY <1>6, <1>11 DEF framingVars
<1> QED
  BY <1>3, <1>4, <1>5, <1>6, <1>7, <1>8, <1>9, <1>10, <1>11 DEF Next, ChildStep, SenderStep,
     ParentStep, Read, ReadBlock, ReadEnd, ReadInterrupted, ServerStep, Ended, testVars, vars

\* The connections, the counters and the locals keep their types.
LEMMA RunTypesStep ==
    ASSUME CountInv, RunTypes, ConnInv, SentInv, FrameInv, [Next]_vars
    PROVE  RunTypes'
<1> USE DEF RunTypes
<1>1. ASSUME NEW c \in Clients, ChildStep(c)
      PROVE  RunTypes'
  <2>1. ASSUME RecvCoordinate(c)
        PROVE  coordinate' \in [Clients -> 0 .. BufferLines + 1]
    BY <2>1, Frames DEF RecvCoordinate
  <2> QED BY <1>1, <2>1 DEF ChildStep, ClientConnect, ClientConnectFails, Connect,
      RecvCoordinate, LeaveLoop, WriteByPipe, WriteOverruns, Close, framingVars, parentVars
<1>2. ASSUME NEW c \in Clients, SenderStep(c)
      PROVE  RunTypes'
  <2>1. ASSUME NEW units \in Nat, Send(c, units)
        PROVE  /\ sent' \in [Clients -> Nat] /\ reset' \in [Clients -> BOOLEAN]
               /\ UNCHANGED <<conn, ended, received, reading, handled, inPieces>>
    <3>1. \/ sent' = [sent EXCEPT ![c] = @ + units] /\ reset' = reset
          \/ reset' = [reset EXCEPT ![c] = TRUE] /\ sent' = sent
      BY <2>1 DEF Send
    <3>2. UNCHANGED <<conn, ended, received, reading, handled, inPieces>>
      BY <2>1 DEF Send
    <3>3. sent' \in [Clients -> Nat]
      <4>1. [sent EXCEPT ![c] = @ + units] \in [Clients -> Nat]
        OBVIOUS
      <4> QED BY <3>1, <4>1
    <3>4. reset' \in [Clients -> BOOLEAN]
      <4>1. [reset EXCEPT ![c] = TRUE] \in [Clients -> BOOLEAN]
        OBVIOUS
      <4> QED BY <3>1, <4>1
    <3> QED BY <3>2, <3>3, <3>4
  <2>2. CASE SendLength(c)
    <3>1. rounds' \in [Clients -> 0 .. MaxMsgs]
      <4>1. rounds[c] < Rounds[c] /\ rounds' = [rounds EXCEPT ![c] = @ + 1]
        BY <2>2 DEF SendLength
      <4>2. Rounds[c] \in 0 .. MaxMsgs /\ MaxMsgs \in Nat /\ rounds[c] \in 0 .. MaxMsgs
        BY Frames
      <4>3. rounds[c] + 1 \in 0 .. MaxMsgs
        BY <4>1, <4>2
      <4> QED BY <4>1, <4>3
    <3> QED BY <2>1, <2>2, <3>1, Frames DEF SendLength, parentVars
  <2>3. CASE SendMsg(c)
    BY <2>1, <2>3, Frames DEF SendMsg, parentVars
  <2> QED BY <1>2, <2>2, <2>3 DEF SenderStep, SetStatusTrue, SigPipe, TimeOver, Close,
      framingVars, parentVars
<1>3. CASE ParentStep
  BY <1>3 DEF ParentStep, Fork, Read, ReadBlock, ReadEnd, ReadInterrupted, NextPipe, framingVars,
     testVars
<1>4. ASSUME NEW c \in Clients, EventOf(c), UNCHANGED <<testVars, parentVars>>
      PROVE  RunTypes'
  <2>1. /\ conn' \in [Clients -> {"none", "open", "closed"}]
        /\ reset' \in [Clients -> BOOLEAN] /\ sent' = sent /\ ended' = ended
    BY <1>4, EventEffect
  <2>2. received' \in [Clients -> Nat]
    <3>1. PICK k \in Nat : received' = [received EXCEPT ![c] = @ + k]
      BY <1>4, EventEffect
    <3> QED BY <3>1
  <2>3. inPieces' \in [Clients -> BOOLEAN]
    BY <1>4 DEF EventOf, RecvLength, RecvData, RecvEnd, Take
  <2>4. reading' \in {NoRead} \cup (Clients \X (Lengths \ {0}))
    <3>1. CASE RecvLength(c)
      <4>1. PICK k \in Taken(c, Header) :
              \E len \in LengthsSeen(c, k) :
                 \/ OffConnection(c)
                 \/ len # 0 /\ reading' = <<c, len>>
        BY <3>1 DEF RecvLength
      <4>2. LengthsSeen(c, k) \subseteq Lengths
        BY Frames DEF LengthsSeen
      <4> QED BY <4>1, <4>2 DEF OffConnection
    <3> QED BY <1>4, <3>1 DEF EventOf, RecvData, RecvEnd, OffConnection
  <2>5. handled' \in [Clients -> Seq(0 .. MaxMsgs)]
    <3>1. ASSUME NEW len \in Lengths, RecvData(c, len)
          PROVE  handled' \in [Clients -> Seq(0 .. MaxMsgs)]
      <4>1. PICK k \in Taken(c, len) :
              \/ k = len /\ handled' = [handled EXCEPT ![c] = Append(@, TextAt(c, len))]
              \/ handled' = handled
        BY <3>1 DEF RecvData
      <4>2. CASE k = len /\ handled' = [handled EXCEPT ![c] = Append(@, TextAt(c, len))]
        <5>1. TextAt(c, len) \in 0 .. MaxMsgs
          BY <4>2, TextIsNext DEF Taken
        <5>2. Append(handled[c], TextAt(c, len)) \in Seq(0 .. MaxMsgs)
          BY <5>1
        <5> QED BY <4>2, <5>2
      <4> QED BY <4>1, <4>2
    <3> QED BY <1>4, <3>1 DEF EventOf, RecvLength, RecvEnd
  <2> QED BY <1>4, <2>1, <2>2, <2>3, <2>4, <2>5 DEF testVars, parentVars
<1>5. CASE UNCHANGED vars
  BY <1>5 DEF vars, framingVars, testVars, parentVars
<1> QED BY <1>1, <1>2, <1>3, <1>4, <1>5, EventStepOf DEF Next, ServerStep, Ended

\* Nothing is connected, sent or handled at the start.
LEMMA LoadInit == Init => LoadInv
<1> SUFFICES ASSUME Init
             PROVE  LoadInv
  OBVIOUS
<1>1. CountInv
  BY CountInit
<1>2. RunTypes
  BY Frames DEF Init, FramingInit, RunTypes
<1>3. ConnInv /\ OnlyCutClientsDie
  BY DEF Init, FramingInit, ConnInv, OnlyCutClientsDie
<1>4. SentInv
  <2>1. 0 * FrameLen = 0 /\ \A c \in Clients : 0 <= Rounds[c]
    BY Frames
  <2>2. \A c \in Clients : rounds[c] = 0 /\ sent[c] = 0 /\ sendPc[c] = "none"
    BY DEF Init, FramingInit
  <2>3. 0 + 0 <= 0 * FrameLen
    BY <2>1
  <2> QED BY <2>1, <2>2, <2>3 DEF SentInv
<1>5. FrameInv
  <2>1. <<>> = [k \in 1 .. 0 |-> k] /\ Len(<<>>) = 0 /\ 0 * FrameLen = 0
    BY Frames
  <2>2. \A c \in Clients : /\ ~Reading(c) /\ conn[c] = "none" /\ received[c] = 0
                           /\ handled[c] = <<>>
    BY <1>2, OneReading DEF Init, FramingInit
  <2> QED BY <2>1, <2>2 DEF FrameInv, FrameOf
<1> QED BY <1>1, <1>2, <1>3, <1>4, <1>5 DEF LoadInv

\* The whole invariant of the load test: its processes, the connections and the frames
\* on them, whatever fails and however the bytes are cut.
THEOREM LoadInvariance == Spec => []LoadInv
<1>1. LoadInv /\ [Next]_vars => LoadInv'
  BY CountStep, RunTypesStep, ConnStep, SentStep, FrameStep, CutStep DEF LoadInv
<1> QED BY <1>1, LoadInit, PTL DEF Spec

\* While no recv took less than it asked for, the messages of a client are handled in
\* order, each once, and only the client ends its connection: for messages of any
\* length, and any number of them.
THEOREM WholeMessages == Spec => []WholeMessagesAreHandled
<1>1. LoadInv => WholeMessagesAreHandled
  <2> SUFFICES ASSUME LoadInv, NEW c \in Clients, ~inPieces[c]
               PROVE  /\ handled[c] = [k \in 1 .. Len(handled[c]) |-> k]
                      /\ received[c] \div FrameLen = Len(handled[c])
                      /\ conn[c] = "closed" => ended[c]
    BY DEF WholeMessagesAreHandled
  <2>1. PICK h \in Nat : h = Len(handled[c])
    BY DEF LoadInv, RunTypes
  <2>2. /\ handled[c] = [k \in 1 .. h |-> k]
        /\ received[c] = h * FrameLen + 0 \/ received[c] = h * FrameLen + Header
        /\ conn[c] = "closed" => ended[c]
    <3>1. h * FrameLen \in Nat /\ Header \in Nat
      BY Frames, Numbers!OneFrameMore
    <3>2. /\ handled[c] = [k \in 1 .. h |-> k]
          /\ received[c] = h * FrameLen \/ received[c] = h * FrameLen + Header
          /\ conn[c] = "closed" => ended[c]
      BY <2>1 DEF LoadInv, FrameInv, FrameOf
    <3>3. h * FrameLen = h * FrameLen + 0
      BY <3>1
    <3> QED BY <3>2, <3>3
  <2>3. 0 \in 0 .. FrameLen - 1 /\ Header \in 0 .. FrameLen - 1 /\ FrameLen > 0
        /\ FrameLen \in Nat
    BY Frames
  <2>4. received[c] \div FrameLen = h
    BY <2>2, <2>3, Numbers!DivisionUnique
  <2> QED BY <2>1, <2>2, <2>4
<1> QED BY <1>1, LoadInvariance, PTL

\* Only a client the server cut off, because a request arrived in pieces, is killed or
\* counts a coordinate.
THEOREM CutClientsDie == Spec => []OnlyCutClientsDie
<1>1. LoadInv => OnlyCutClientsDie
  BY DEF LoadInv
<1> QED BY <1>1, LoadInvariance, PTL

\* All the variables of the load test have their types and stay in their bounds: no
\* more is sent or handled than the frames of the rounds.
THEOREM LoadTypeCorrect == Spec => []TypeOK
<1>1. LoadInv => TypeOK
  <2> SUFFICES ASSUME LoadInv
               PROVE  TypeOK
    OBVIOUS
  <2>1. \A c \in Clients : sent[c] <= MaxMsgs * FrameLen /\ received[c] <= MaxMsgs * FrameLen
    <3> TAKE c \in Clients
    <3>1. /\ sent[c] \in Nat /\ received[c] \in Nat /\ rounds[c] \in Nat
          /\ rounds[c] <= MaxMsgs /\ MaxMsgs \in Nat /\ FrameLen \in Nat
          /\ received[c] <= sent[c]
      BY Frames DEF LoadInv, RunTypes, ConnInv
    <3>2. rounds[c] * FrameLen <= MaxMsgs * FrameLen
      BY <3>1, Numbers!ProductGrows
    <3>3. rounds[c] * FrameLen \in Nat /\ MaxMsgs * FrameLen \in Nat
      BY <3>1, Numbers!OneFrameMore
    <3>4. sent[c] <= rounds[c] * FrameLen
      BY <3>1, <3>3, Frames DEF LoadInv, SentInv
    <3> QED BY <3>1, <3>2, <3>3, <3>4
  <2>2. /\ sent \in [Clients -> 0 .. MaxMsgs * FrameLen]
        /\ received \in [Clients -> 0 .. MaxMsgs * FrameLen]
    <3>1. MaxMsgs * FrameLen \in Nat
      BY Frames, Numbers!OneFrameMore
    <3> QED BY <2>1, <3>1 DEF LoadInv, RunTypes
  <2>3. FramingTypeOK
    BY <2>2 DEF FramingTypeOK, LoadInv, RunTypes
  <2>4. clientrecv \in 0 .. CLIENTNUM
    <3>1. Counted \subseteq Clients
      BY DEF Counted
    <3>2. Cardinality(Counted) \in Nat /\ Cardinality(Counted) <= CLIENTNUM
      BY <3>1, ClientsFinite, FS_Subset, FS_CardinalityType
    <3> QED BY <3>2, LoadTestAssumption DEF LoadInv, CountInv
  <2> QED BY <2>3, <2>4 DEF TypeOK, LoadInv, CountInv, BornInv, RunTypes, ChildPcs
<1> QED BY <1>1, LoadInvariance, PTL
-----------------------------------------------------------------------------
(***************************************************************************)
(* What happens in the end.  TLAPS has no proof rules for ENABLED: that    *)
(* each process and thread can take a step wherever its guard says so is   *)
(* assumed, in StepsEnabled.                                               *)
(***************************************************************************)

\* A client that has gone has closed its socket, which the server closes when it has
\* received everything; one that was not connected has sent nothing; and a client is
\* not born only while the parent still has to fork it.
EndOf(c) ==
    /\ childPc[c] \in Gone /\ conn[c] # "none" => ended[c]
    /\ conn[c] = "none" => sent[c] = 0
    /\ conn[c] = "closed" /\ ~inPieces[c] => received[c] = sent[c]
    /\ sendPc[c] = "done" => ~statue[c]
    /\ childPc[c] \in {"select", "join"} => sendPc[c] # "none"
    /\ childPc[c] = "unborn" => parentPc = "fork" /\ c >= clientnum

EndInv == \A c \in Clients : EndOf(c)

LiveInv == LoadInv /\ EndInv

\* A step that changes nothing of a client.
LEMMA EndOther ==
    ASSUME NEW d \in Clients, EndOf(d),
           childPc'[d] = childPc[d], sendPc'[d] = sendPc[d], statue'[d] = statue[d],
           conn'[d] = conn[d], ended'[d] = ended[d], sent'[d] = sent[d],
           received'[d] = received[d], inPieces'[d] = inPieces[d],
           childPc[d] = "unborn" => parentPc' = "fork" /\ d >= clientnum'
    PROVE  EndOf(d)'
  BY DEF EndOf

\* The main thread of a client.
LEMMA ChildEnd ==
    ASSUME LiveInv, NEW c \in Clients, ChildStep(c)
    PROVE  EndInv'
<1> USE DEF LiveInv, LoadInv, CountInv, BornInv, RunTypes
<1>1. UNCHANGED <<statue, sent, received, inPieces, parentPc, clientnum>>
  BY DEF ChildStep, ClientConnect, ClientConnectFails, RecvCoordinate, LeaveLoop, WriteByPipe,
     WriteOverruns, Connect, Close, framingVars, parentVars
<1>2. \A d \in Clients \ {c} :
         /\ childPc'[d] = childPc[d] /\ sendPc'[d] = sendPc[d]
         /\ conn'[d] = conn[d] /\ ended'[d] = ended[d]
  BY DEF ChildStep, ClientConnect, ClientConnectFails, RecvCoordinate, LeaveLoop, WriteByPipe,
     WriteOverruns, ChildGoto, Connect, Close, framingVars
<1>3. \A d \in Clients \ {c} : EndOf(d)'
  BY <1>1, <1>2, EndOther DEF EndInv, EndOf
<1>4. EndOf(c)'
  <2>1. EndOf(c) /\ (childPc[c] = "connect" => conn[c] = "none")
    BY DEF EndInv, ConnInv
  <2>2. CASE ClientConnect(c)
    BY <1>1, <2>1, <2>2 DEF ClientConnect, ChildGoto, ChildAt, Connect, EndOf, Gone
  <2>3. CASE ClientConnectFails(c)
    BY <1>1, <2>1, <2>3 DEF ClientConnectFails, ChildGoto, ChildAt, framingVars, EndOf, Gone
  <2>4. CASE RecvCoordinate(c)
    BY <1>1, <2>1, <2>4 DEF RecvCoordinate, framingVars, EndOf
  <2>5. CASE LeaveLoop(c)
    BY <1>1, <2>1, <2>5 DEF LeaveLoop, ChildGoto, ChildAt, framingVars, EndOf, Gone
  <2>6. CASE WriteByPipe(c) \/ WriteOverruns(c)
    BY <1>1, <2>1, <2>6 DEF WriteByPipe, WriteOverruns, ChildGoto, ChildAt, Close, EndOf, Gone
  <2> QED BY <2>2, <2>3, <2>4, <2>5, <2>6 DEF ChildStep
<1> QED BY <1>3, <1>4 DEF EndInv

\* Its sending thread.
LEMMA SenderEnd ==
    ASSUME LiveInv, NEW c \in Clients, SenderStep(c)
    PROVE  EndInv'
<1> USE DEF LiveInv, LoadInv, CountInv, BornInv, RunTypes
<1>s. ASSUME NEW units, Send(c, units)
      PROVE  /\ UNCHANGED <<conn, ended, received, inPieces>>
             /\ conn[c] # "open" => sent' = sent
             /\ \A d \in Clients \ {c} : sent'[d] = sent[d]
  BY <1>s DEF Send
<1>1. UNCHANGED <<conn, received, inPieces, parentPc, clientnum>>
  BY <1>s DEF SenderStep, SetStatusTrue, SendLength, SendMsg, SigPipe, TimeOver, Close,
     framingVars, parentVars
<1>2. \A d \in Clients \ {c} :
         /\ childPc'[d] = childPc[d] /\ sendPc'[d] = sendPc[d] /\ statue'[d] = statue[d]
         /\ sent'[d] = sent[d] /\ ended'[d] = ended[d]
  BY <1>s DEF SenderStep, SetStatusTrue, SendLength, SendMsg, SigPipe, TimeOver, SenderGoto,
     Close, framingVars
<1>3. \A d \in Clients \ {c} : EndOf(d)'
  BY <1>1, <1>2, EndOther DEF EndInv, EndOf
<1>4. EndOf(c)'
  <2>1. EndOf(c) /\ (sendPc[c] # "none" => conn[c] # "none")
    BY DEF EndInv, ConnInv
  <2>2. CASE SetStatusTrue(c)
    BY <1>1, <2>1, <2>2 DEF SetStatusTrue, SenderGoto, SenderAt, framingVars, EndOf
  <2>3. CASE SendLength(c)
    BY <1>1, <1>s, <2>1, <2>3 DEF SendLength, SenderGoto, SenderAt, EndOf
  <2>4. CASE SendMsg(c)
    BY <1>1, <1>s, <2>1, <2>4 DEF SendMsg, SenderGoto, SenderAt, EndOf
  <2>5. CASE SigPipe(c)
    BY <1>1, <2>1, <2>5 DEF SigPipe, Close, EndOf, Gone
  <2>6. CASE TimeOver(c)
    BY <1>1, <2>1, <2>6 DEF TimeOver, SenderGoto, SenderAt, framingVars, EndOf
  <2> QED BY <2>2, <2>3, <2>4, <2>5, <2>6 DEF SenderStep
<1> QED BY <1>3, <1>4 DEF EndInv

\* The parent: the client it forks is the next one.
LEMMA ParentEnd ==
    ASSUME LiveInv, ParentStep
    PROVE  EndInv'
<1> USE DEF LiveInv, LoadInv, CountInv, BornInv, RunTypes
<1>1. UNCHANGED <<framingVars, sendPc, statue>>
  BY DEF ParentStep, Fork, Read, ReadBlock, ReadEnd, ReadInterrupted, testVars
<1>2. ASSUME NEW d \in Clients, childPc'[d] = childPc[d],
             childPc[d] = "unborn" => parentPc' = "fork" /\ d >= clientnum'
      PROVE  EndOf(d)'
  BY <1>1, <1>2, EndOther DEF EndInv, framingVars
<1>3. CASE Fork
  <2>1. PICK n \in Clients : n = clientnum /\ childPc[n] = "unborn"
    BY <1>3, LoadTestAssumption DEF Fork
  <2>2. PICK pc \in {"connect", "failed"} : childPc' = [childPc EXCEPT ![n] = pc]
    BY <1>3, <2>1 DEF Fork
  <2>3. EndOf(n)'
    <3>1. /\ EndOf(n) /\ conn[n] = "none" /\ sendPc[n] = "none"
          /\ childPc'[n] \in {"connect", "failed"}
      BY <2>1, <2>2 DEF EndInv, ConnInv
    <3>2. conn'[n] = "none" /\ sendPc'[n] = "none" /\ sent'[n] = sent[n]
      BY <1>1, <3>1 DEF framingVars
    <3> QED BY <3>1, <3>2 DEF EndOf
  <2>4. ASSUME NEW d \in Clients, d # n, childPc[d] = "unborn"
        PROVE  parentPc' = "fork" /\ d >= clientnum'
    <3>1. d >= n /\ d \in 1 .. CLIENTNUM /\ n \in 1 .. CLIENTNUM /\ CLIENTNUM \in Nat
      BY <2>1, <2>4, LoadTestAssumption DEF EndInv, EndOf
    <3>2. n < CLIENTNUM /\ d >= n + 1
      BY <2>4, <3>1
    <3> QED BY <1>3, <2>1, <3>2 DEF Fork
  <2>5. \A d \in Clients \ {n} : EndOf(d)'
    BY <1>2, <2>2, <2>4
  <2> QED BY <2>3, <2>5 DEF EndInv
<1>4. CASE Read
  <2>1. childPc' = childPc /\ parentPc = "read"
    BY <1>4 DEF Read, ReadBlock, ReadEnd, ReadInterrupted, testVars
  <2> QED BY <1>2, <2>1 DEF EndInv, EndOf
<1> QED BY <1>3, <1>4 DEF ParentStep

\* Whole frames leave no rest.
LEMMA WholeFrames ==
    ASSUME NEW h \in Nat
    PROVE  (h * FrameLen) % FrameLen = 0
<1>1. 0 \in 0 .. FrameLen - 1 /\ FrameLen > 0 /\ FrameLen \in Nat
  BY Frames
<1>2. (h * FrameLen + 0) % FrameLen = 0
  BY <1>1, Numbers!DivisionUnique
<1>3. h * FrameLen + 0 = h * FrameLen
  BY <1>1, Numbers!OneFrameMore
<1> QED BY <1>2, <1>3

\* The event thread: unless recv took less than it asked for, it closes a connection
\* when everything was received.
LEMMA ServerEnd ==
    ASSUME LiveInv, ServerStep
    PROVE  EndInv'
<1> USE DEF LiveInv, LoadInv, CountInv, BornInv, RunTypes
<1>1. UNCHANGED <<childPc, sendPc, statue, parentPc, clientnum>>
  BY DEF ServerStep, testVars, parentVars
<1>2. PICK c \in Clients : EventOf(c)
  BY EventStepOf DEF ServerStep
<1>3. /\ conn[c] = "open" /\ UNCHANGED <<sent, ended>>
      /\ \/ conn' = conn
         \/ conn' = [conn EXCEPT ![c] = "closed"]
  BY <1>2, EventEffect
<1>4. \A d \in Clients \ {c} : received'[d] = received[d] /\ inPieces'[d] = inPieces[d]
  BY <1>2 DEF EventOf, RecvLength, RecvData, RecvEnd, Take
<1>5. \A d \in Clients \ {c} : EndOf(d)'
  BY <1>1, <1>3, <1>4, EndOther DEF EndInv, EndOf
<1>6. conn'[c] = "closed" /\ ~inPieces'[c] => received'[c] = sent[c]
  <2> SUFFICES ASSUME conn'[c] = "closed", ~inPieces'[c]
               PROVE  received'[c] = sent[c]
    OBVIOUS
  <2>1. CASE RecvLength(c)
    <3>1. PICK k \in Taken(c, Header) :
            /\ Take(c, k, Header)
            /\ \E len \in LengthsSeen(c, k) :
                 IF len = 0 THEN OffConnection(c)
                 ELSE reading' = <<c, len>> /\ UNCHANGED <<conn, reset>>
      BY <2>1 DEF RecvLength
    <3>2. k = Header /\ ~inPieces[c]
      <4>1. inPieces'[c] = (inPieces[c] \/ k < Header)
        BY <3>1 DEF Take
      <4>2. k \in 1 .. Header /\ Header = 2
        BY <3>1, Frames DEF Taken
      <4>3. ~(k < Header) /\ ~inPieces[c]
        BY <4>1, Zenon
      <4> QED BY <4>2, <4>3
    <3>3. received[c] = Len(handled[c]) * FrameLen
      <4>1. reading = NoRead
        BY <2>1 DEF RecvLength
      <4>2. ~Reading(c)
        BY <4>1, OneReading
      <4> QED BY <1>3, <3>2, <4>2 DEF FrameInv, FrameOf
    <3>4. received[c] % FrameLen = 0
      <4>1. Len(handled[c]) \in Nat
        OBVIOUS
      <4> QED BY <3>3, <4>1, WholeFrames
    <3>5. 0 \notin LengthsSeen(c, k)
      BY <3>2, <3>4, Frames DEF LengthsSeen
    <3> QED BY <1>3, <3>1, <3>5
  <2>2. ASSUME NEW len \in Lengths, RecvData(c, len)
        PROVE  FALSE
    <3>1. PICK k \in Taken(c, len) :
            /\ Take(c, k, len)
            /\ IF k = len THEN UNCHANGED <<conn, reset>> ELSE OffConnection(c)
      BY <2>2 DEF RecvData
    <3>2. k = len
      <4>1. inPieces'[c] = (inPieces[c] \/ k < len)
        BY <3>1 DEF Take
      <4>2. k \in 1 .. len /\ len \in Nat
        BY <3>1, Frames DEF Taken
      <4>3. ~(k < len)
        BY <4>1, Zenon
      <4> QED BY <4>2, <4>3
    <3> QED BY <1>3, <3>1, <3>2
  <2>3. CASE RecvEnd(c)
    BY <2>3 DEF RecvEnd, Waiting
  <2> QED BY <1>2, <2>1, <2>2, <2>3 DEF EventOf
<1>7. EndOf(c)'
  BY <1>1, <1>3, <1>6 DEF EndInv, EndOf
<1> QED BY <1>5, <1>7 DEF EndInv

\* Clients and connections end in this order, for any number of clients.
THEOREM LiveInvariance == Spec => []LiveInv
<1>1. Init => EndInv
  BY LoadTestAssumption DEF Init, FramingInit, EndInv, EndOf, Gone
<1>2. LiveInv /\ [Next]_vars => EndInv'
  <2> SUFFICES ASSUME LiveInv, [Next]_vars
               PROVE  EndInv'
    OBVIOUS
  <2>1. CASE UNCHANGED vars
    BY <2>1 DEF vars, framingVars, testVars, parentVars, LiveInv, EndInv, EndOf
  <2> QED BY <2>1, ChildEnd, SenderEnd, ParentEnd, ServerEnd DEF Next, Ended
<1>3. LiveInv <=> LoadInv /\ EndInv
  BY DEF LiveInv
<1> QED BY <1>1, <1>2, <1>3, LoadInvariance, PTL DEF Spec

\* Where each of them can take a step.
ChildGuard(c) ==
    \/ childPc[c] = "connect"
    \/ childPc[c] = "select" /\ ~statue[c]
    \/ childPc[c] = "join" /\ sendPc[c] = "done"
SenderGuard(c) == childPc[c] \notin Gone /\ sendPc[c] \in {"begin", "wait", "data"}
AllWritten == \A c \in Clients : Written(c)
AllGone == \A c \in Clients : childPc[c] \in Gone
ParentGuard == parentPc = "fork" \/ (parentPc = "read" /\ AllWritten)
ServerGuard == AllGone /\ \E c \in Clients : conn[c] = "open"

ChildEnabled(c) == ChildGuard(c) => ENABLED <<ChildStep(c)>>_vars
SenderEnabled(c) == SenderGuard(c) => ENABLED <<SenderStep(c)>>_vars

StepsEnabled ==
    /\ \A c \in Clients : ChildEnabled(c) /\ SenderEnabled(c)
    /\ ParentGuard => ENABLED <<ParentStep>>_vars
    /\ ServerGuard => ENABLED <<ServerStep>>_vars

Live == Spec /\ []StepsEnabled

\* What is left to fork.
ForksLeft(n) == parentPc = "fork" /\ CLIENTNUM - clientnum < n

\* Only fork moves the loop of the forks, and it ends for good.
LEMMA ForkGoesOn ==
    ASSUME LiveInv, NEW n \in Nat, [Next]_vars
    PROVE  /\ parentPc # "fork" => (parentPc # "fork")'
           /\ ForksLeft(n + 1) => (parentPc # "fork")' \/ ForksLeft(n + 1)'
           /\ ForksLeft(n + 1) /\ ParentStep => (parentPc # "fork")' \/ ForksLeft(n)'
<1>1. clientnum \in Nat /\ CLIENTNUM \in Nat
  BY LoadTestAssumption DEF LiveInv, LoadInv, CountInv, BornInv
<1>2. CASE ParentStep
  BY <1>1, <1>2 DEF ParentStep, Fork, Read, ReadBlock, ReadEnd, ReadInterrupted, NextPipe, ForksLeft
<1>3. CASE UNCHANGED parentVars
  BY <1>1, <1>3 DEF parentVars, ParentStep, Fork, Read, ReadBlock, ReadEnd, ReadInterrupted, NextPipe,
     ForksLeft
<1>4. ASSUME NEW c \in Clients, ChildStep(c)
      PROVE  UNCHANGED parentVars
  BY <1>4 DEF ChildStep, ClientConnect, ClientConnectFails, RecvCoordinate, LeaveLoop,
     WriteByPipe, WriteOverruns
<1>5. ASSUME NEW c \in Clients, SenderStep(c)
      PROVE  UNCHANGED parentVars
  BY <1>5 DEF SenderStep, SetStatusTrue, SendLength, SendMsg, SigPipe, TimeOver
<1> QED BY <1>2, <1>3, <1>4, <1>5 DEF Next, ServerStep, Ended, vars

\* What is shown by induction: with n forks left, they will be over.
ForksOver(n) == Live => (ForksLeft(n) ~> parentPc # "fork")

\* The parent has forked every client some time.
LEMMA ForksEnd == Numbers!InductionFor(ForksOver) => (Live => <>[](parentPc # "fork"))
<1>1. ForksOver(0)
  <2>1. LiveInv => ~ForksLeft(0)
    BY LoadTestAssumption DEF LiveInv, LoadInv, CountInv, BornInv, ForksLeft
  <2> QED BY <2>1, LiveInvariance, PTL DEF ForksOver, Live
<1>2. ASSUME NEW n \in Nat
      PROVE  ForksOver(n) => ForksOver(n + 1)
  <2>1. LiveInv /\ ForksLeft(n + 1) /\ [Next]_vars => (parentPc # "fork")' \/ ForksLeft(n + 1)'
    BY ForkGoesOn
  <2>2. LiveInv /\ ForksLeft(n + 1) /\ [Next]_vars /\ <<ParentStep>>_vars
          => (parentPc # "fork")' \/ ForksLeft(n)'
    BY ForkGoesOn
  <2>3. ForksLeft(n + 1) => ParentGuard
    BY DEF ForksLeft, ParentGuard
  <2> QED BY <2>1, <2>2, <2>3, LiveInvariance, PTL DEF ForksOver, Live, Spec, StepsEnabled
<1>3. Numbers!InductionFor(ForksOver) => \A n \in Nat : ForksOver(n)
  BY <1>1, <1>2 DEF Numbers!InductionFor
<1>4. Numbers!InductionFor(ForksOver) => ForksOver(CLIENTNUM)
  BY <1>3, LoadTestAssumption
<1>5. LiveInv => ForksLeft(CLIENTNUM) \/ parentPc # "fork"
  BY LoadTestAssumption DEF LiveInv, LoadInv, CountInv, BornInv, ForksLeft
<1>6. LiveInv /\ [Next]_vars /\ parentPc # "fork" => (parentPc # "fork")'
  <2>1. 0 \in Nat
    OBVIOUS
  <2> QED BY <2>1, ForkGoesOn
<1> QED BY <1>4, <1>5, <1>6, LiveInvariance, PTL DEF ForksOver, Live, Spec

\* The two threads of a client run.
Running(c) == childPc[c] \in {"select", "join"}

\* The ways a client can go.
LEMMA ChildMoves ==
    ASSUME LiveInv, NEW c \in Clients, [Next]_vars
    PROVE  \/ childPc'[c] = childPc[c]
           \/ childPc[c] = "unborn" /\ childPc'[c] \in {"connect", "failed"}
           \/ childPc[c] = "connect" /\ childPc'[c] \in {"select", "failed"}
           \/ childPc[c] = "select" /\ childPc'[c] \in {"join", "killed"}
           \/ childPc[c] = "join" /\ childPc'[c] \in {"exited", "crashed", "killed"}
<1>t. childPc \in [Clients -> ChildPcs]
  BY DEF LiveInv, LoadInv, CountInv, BornInv
<1>1. ASSUME NEW d \in Clients, ChildStep(d), childPc'[c] # childPc[c]
      PROVE  \/ childPc[c] = "connect" /\ childPc'[c] \in {"select", "failed"}
             \/ childPc[c] = "select" /\ childPc'[c] = "join"
             \/ childPc[c] = "join" /\ childPc'[c] \in {"exited", "crashed", "killed"}
  BY <1>t, <1>1 DEF ChildStep, ClientConnect, ClientConnectFails, RecvCoordinate, LeaveLoop,
     WriteByPipe, WriteOverruns, ChildGoto, ChildAt
<1>2. ASSUME NEW d \in Clients, SenderStep(d), childPc'[c] # childPc[c]
      PROVE  childPc[c] \in {"select", "join"} /\ childPc'[c] = "killed"
  <2>1. SigPipe(d)
    BY <1>2 DEF SenderStep, SetStatusTrue, SendLength, SendMsg, TimeOver
  <2>2. d = c /\ childPc'[c] = "killed"
    BY <1>t, <1>2, <2>1 DEF SigPipe
  <2>3. childPc[c] \notin Gone \cup {"unborn", "connect"}
    BY <2>1, <2>2 DEF SigPipe, SenderAt, LiveInv, LoadInv, ConnInv
  <2> QED BY <1>t, <2>2, <2>3 DEF ChildPcs
<1>3. ASSUME ParentStep, childPc'[c] # childPc[c]
      PROVE  childPc[c] = "unborn" /\ childPc'[c] \in {"connect", "failed"}
  <2>1. Fork
    BY <1>3 DEF ParentStep, Read, ReadBlock, ReadEnd, ReadInterrupted, testVars
  <2>2. clientnum \in Clients /\ childPc[clientnum] = "unborn"
    BY <2>1, LoadTestAssumption DEF Fork, LiveInv, LoadInv, CountInv, BornInv
  <2> QED BY <1>t, <1>3, <2>1, <2>2 DEF Fork
<1>4. CASE UNCHANGED childPc
  BY <1>4
<1> QED BY <1>1, <1>2, <1>3, <1>4 DEF Next, ServerStep, Ended, testVars, vars

\* A connecting client gets on, one way or the other.
LEMMA ConnectEnds ==
    ASSUME NEW c \in Clients
    PROVE  Live => (childPc[c] = "connect" ~> Running(c) \/ childPc[c] \in Gone)
<1>1. LiveInv /\ childPc[c] = "connect" /\ [Next]_vars =>
        (childPc[c] = "connect")' \/ Running(c)' \/ (childPc[c] \in Gone)'
  BY ChildMoves DEF Running, Gone
<1>2. LiveInv /\ childPc[c] = "connect" /\ [Next]_vars /\ <<ChildStep(c)>>_vars =>
        Running(c)' \/ (childPc[c] \in Gone)'
  BY DEF LiveInv, LoadInv, CountInv, BornInv, Running, Gone, ChildStep, ClientConnect,
     ClientConnectFails, RecvCoordinate, LeaveLoop, WriteByPipe, WriteOverruns, ChildGoto, ChildAt
<1>3. childPc[c] = "connect" => ChildGuard(c)
  BY DEF ChildGuard
<1>4. StepsEnabled => ChildEnabled(c)
  BY DEF StepsEnabled
<1>5. ClientsScheduled => ClientScheduled(c)
  BY DEF ClientsScheduled
<1> QED BY <1>1, <1>2, <1>3, <1>4, <1>5, LiveInvariance, PTL
        DEF Live, Spec, ChildEnabled, ClientScheduled

\* What a client does not do itself does not touch its sending thread.
LEMMA SenderMoves ==
    ASSUME LiveInv, NEW c \in Clients, Running(c), [Next]_vars, ~SenderStep(c)
    PROVE  sendPc'[c] = sendPc[c] /\ rounds'[c] = rounds[c] /\ statue'[c] = statue[c]
<1>t. /\ sendPc \in [Clients -> {"none", "begin", "wait", "data", "done"}]
      /\ rounds \in [Clients -> 0 .. MaxMsgs] /\ statue \in [Clients -> BOOLEAN]
  BY DEF LiveInv, LoadInv, CountInv, BornInv, RunTypes
<1>1. ASSUME NEW d \in Clients, ChildStep(d)
      PROVE  sendPc'[c] = sendPc[c] /\ UNCHANGED <<rounds, statue>>
  BY <1>t, <1>1 DEF Running, ChildStep, ClientConnect, ClientConnectFails, RecvCoordinate,
     LeaveLoop, WriteByPipe, WriteOverruns, ChildGoto, ChildAt
<1>2. ASSUME NEW d \in Clients, d # c, SenderStep(d)
      PROVE  sendPc'[c] = sendPc[c] /\ rounds'[c] = rounds[c] /\ statue'[c] = statue[c]
  BY <1>t, <1>2 DEF SenderStep, SetStatusTrue, SendLength, SendMsg, SigPipe, TimeOver, SenderGoto
<1>3. CASE UNCHANGED <<sendPc, rounds, statue>>
  BY <1>3
<1> QED BY <1>1, <1>2, <1>3 DEF Next, ParentStep, Fork, Read, ReadBlock, ReadEnd, ReadInterrupted,
        ServerStep, Ended, testVars, vars

\* The steps a sending thread can still take.
SendsLeft(c, n) ==
    /\ Running(c) /\ sendPc[c] # "done"
    /\ 2 * (Rounds[c] - rounds[c]) + (IF sendPc[c] = "wait" THEN 1 ELSE 2) < n
SendingOver(c) == childPc[c] \in Gone \/ (Running(c) /\ sendPc[c] = "done")

\* Each of them leaves one less.
LEMMA SenderGoesOn ==
    ASSUME LiveInv, NEW c \in Clients, NEW n \in Nat, SendsLeft(c, n + 1), [Next]_vars
    PROVE  /\ SendingOver(c)' \/ SendsLeft(c, n + 1)'
           /\ SenderStep(c) => SendingOver(c)' \/ SendsLeft(c, n)'
<1>1. Running(c)' \/ childPc'[c] \in Gone
  BY ChildMoves DEF SendsLeft, Running, Gone
<1>2. CASE ~SenderStep(c)
  <2>1. sendPc'[c] = sendPc[c] /\ rounds'[c] = rounds[c]
    BY <1>2, SenderMoves DEF SendsLeft
  <2> QED BY <1>1, <1>2, <2>1 DEF SendsLeft, SendingOver
<1>3. CASE SenderStep(c)
  <2>t. /\ sendPc \in [Clients -> {"none", "begin", "wait", "data", "done"}]
        /\ rounds \in [Clients -> 0 .. MaxMsgs] /\ rounds[c] \in Nat /\ Rounds[c] \in Nat
    BY Frames DEF LiveInv, LoadInv, CountInv, BornInv, RunTypes
  <2>1. CASE SetStatusTrue(c)
    <3>1. sendPc[c] = "begin" /\ sendPc'[c] = "wait" /\ rounds'[c] = rounds[c]
      BY <2>t, <2>1 DEF SetStatusTrue, SenderGoto, SenderAt
    <3> QED BY <1>1, <2>t, <3>1 DEF SendsLeft, SendingOver
  <2>2. CASE SendLength(c)
    <3>1. sendPc[c] = "wait" /\ sendPc'[c] = "data" /\ rounds'[c] = rounds[c] + 1
      BY <2>t, <2>2 DEF SendLength, SenderGoto, SenderAt
    <3> QED BY <1>1, <2>t, <3>1 DEF SendsLeft, SendingOver
  <2>3. CASE SendMsg(c)
    <3>1. sendPc[c] = "data" /\ sendPc'[c] = "wait" /\ rounds'[c] = rounds[c]
      BY <2>t, <2>3 DEF SendMsg, SenderGoto, SenderAt
    <3> QED BY <1>1, <2>t, <3>1 DEF SendsLeft, SendingOver
  <2>4. CASE SigPipe(c)
    <3>1. childPc'[c] = "killed"
      BY <2>4 DEF SigPipe, LiveInv, LoadInv, CountInv, BornInv
    <3> QED BY <3>1 DEF SendingOver, Gone
  <2>5. CASE TimeOver(c)
    <3>1. sendPc'[c] = "done"
      BY <2>t, <2>5 DEF TimeOver, SenderGoto
    <3> QED BY <1>1, <3>1 DEF SendingOver
  <2>6. SendingOver(c)' \/ SendsLeft(c, n)'
    BY <1>3, <2>1, <2>2, <2>3, <2>4, <2>5 DEF SenderStep
  <2>7. SendsLeft(c, n)' => SendsLeft(c, n + 1)'
    <3>1. rounds'[c] \in 0 .. MaxMsgs
      BY RunTypesStep DEF LiveInv, LoadInv, RunTypes
    <3>2. rounds'[c] \in Nat
      BY <3>1, Frames
    <3> QED BY <2>t, <3>2 DEF SendsLeft
  <2> QED BY <2>6, <2>7
<1> QED BY <1>2, <1>3

\* What is shown by induction: a thread with n steps left ends.
SenderEnds(c, n) == Live => (SendsLeft(c, n) ~> SendingOver(c))
SendersEnd(n) == \A c \in Clients : SenderEnds(c, n)

\* Every sending thread ends, or its client does before.
LEMMA SendingEnds ==
    ASSUME NEW c \in Clients
    PROVE  Numbers!InductionFor(SendersEnd) => (Live => (Running(c) ~> SendingOver(c)))
<1>1. SendersEnd(0)
  <2> SUFFICES ASSUME NEW d \in Clients
               PROVE  SenderEnds(d, 0)
    BY DEF SendersEnd
  <2>1. LiveInv => ~SendsLeft(d, 0)
    <3> SUFFICES ASSUME LiveInv
                 PROVE  ~SendsLeft(d, 0)
      OBVIOUS
    <3>1. rounds[d] \in Nat /\ Rounds[d] \in Nat /\ rounds[d] <= Rounds[d]
      BY Frames DEF LiveInv, LoadInv, RunTypes, SentInv
    <3> QED BY <3>1 DEF SendsLeft
  <2> QED BY <2>1, LiveInvariance, PTL DEF SenderEnds, Live
<1>2. ASSUME NEW n \in Nat
      PROVE  SendersEnd(n) => SendersEnd(n + 1)
  <2>1. ASSUME NEW d \in Clients
        PROVE  SenderEnds(d, n) => SenderEnds(d, n + 1)
    <3>1. LiveInv /\ SendsLeft(d, n + 1) /\ [Next]_vars => SendingOver(d)' \/ SendsLeft(d, n + 1)'
      BY SenderGoesOn
    <3>2. LiveInv /\ SendsLeft(d, n + 1) /\ [Next]_vars /\ <<SenderStep(d)>>_vars
            => SendingOver(d)' \/ SendsLeft(d, n)'
      BY SenderGoesOn
    <3>3. LiveInv /\ SendsLeft(d, n + 1) => SenderGuard(d)
      BY DEF LiveInv, LoadInv, CountInv, BornInv, EndInv, EndOf, SendsLeft, Running, Gone,
         SenderGuard
    <3>4. StepsEnabled => SenderEnabled(d)
      BY DEF StepsEnabled
    <3>5. ClientsScheduled => ClientScheduled(d)
      BY DEF ClientsScheduled
    <3> QED BY <3>1, <3>2, <3>3, <3>4, <3>5, LiveInvariance, PTL
            DEF SenderEnds, Live, Spec, SenderEnabled, ClientScheduled
  <2> QED BY <2>1 DEF SendersEnd
<1>3. Numbers!InductionFor(SendersEnd) => \A n \in Nat : SendersEnd(n)
  BY <1>1, <1>2 DEF Numbers!InductionFor
<1>4. PICK most \in Nat : most = 2 * MaxMsgs + 3
  BY Frames
<1>5. Numbers!InductionFor(SendersEnd) => SenderEnds(c, most)
  BY <1>3 DEF SendersEnd
<1>6. LiveInv /\ Running(c) => SendsLeft(c, most) \/ SendingOver(c)
  <2> SUFFICES ASSUME LiveInv, Running(c), sendPc[c] # "done"
               PROVE  SendsLeft(c, most)
    BY DEF SendingOver
  <2>1. rounds[c] \in Nat /\ Rounds[c] \in Nat /\ Rounds[c] <= MaxMsgs /\ MaxMsgs \in Nat
    BY Frames DEF LiveInv, LoadInv, RunTypes
  <2> QED BY <1>4, <2>1 DEF SendsLeft
<1> QED BY <1>5, <1>6, LiveInvariance, PTL DEF SenderEnds, Live

\* A client whose sending thread has ended.
DoneAt(c, pc) == childPc[c] = pc /\ sendPc[c] = "done"

\* It leaves the loop, which looks at statue, and ends.
LEMMA DoneGoesOn ==
    ASSUME LiveInv, NEW c \in Clients, [Next]_vars
    PROVE  /\ DoneAt(c, "select") =>
                DoneAt(c, "select")' \/ DoneAt(c, "join")' \/ (childPc[c] \in Gone)'
           /\ DoneAt(c, "select") /\ ChildStep(c) =>
                DoneAt(c, "join")' \/ (childPc[c] \in Gone)'
           /\ DoneAt(c, "join") => DoneAt(c, "join")' \/ (childPc[c] \in Gone)'
           /\ DoneAt(c, "join") /\ ChildStep(c) => (childPc[c] \in Gone)'
<1>1. ASSUME DoneAt(c, "select") \/ DoneAt(c, "join")
      PROVE  sendPc'[c] = "done" /\ ~statue[c]
  <2>1. ~SenderStep(c)
    BY <1>1 DEF DoneAt, SenderStep, SetStatusTrue, SendLength, SendMsg, SigPipe, TimeOver,
       SenderGoto, SenderAt
  <2>2. Running(c)
    BY <1>1 DEF DoneAt, Running
  <2> QED BY <1>1, <2>1, <2>2, SenderMoves DEF DoneAt, LiveInv, EndInv, EndOf
<1>2. ASSUME DoneAt(c, "select"), ChildStep(c)
      PROVE  childPc'[c] # "select"
  BY <1>1, <1>2 DEF DoneAt, ChildStep, ClientConnect, ClientConnectFails, RecvCoordinate,
     LeaveLoop, WriteByPipe, WriteOverruns, ChildGoto, ChildAt, LiveInv, LoadInv, CountInv,
     BornInv
<1>3. ASSUME DoneAt(c, "join"), ChildStep(c)
      PROVE  childPc'[c] # "join"
  BY <1>3 DEF DoneAt, ChildStep, ClientConnect, ClientConnectFails, RecvCoordinate,
     LeaveLoop, WriteByPipe, WriteOverruns, ChildGoto, ChildAt, LiveInv, LoadInv, CountInv,
     BornInv
<1> QED BY <1>1, <1>2, <1>3, ChildMoves DEF DoneAt, Gone

\* Every client ends.
ClientEnds(c) == Live => <>[](childPc[c] \in Gone)
ClientInduction == Numbers!InductionFor(ForksOver) /\ Numbers!InductionFor(SendersEnd)

LEMMA EveryClientEnds ==
    ASSUME NEW c \in Clients
    PROVE  ClientInduction => ClientEnds(c)
<1>1. LiveInv /\ [Next]_vars =>
        /\ DoneAt(c, "select") =>
             DoneAt(c, "select")' \/ DoneAt(c, "join")' \/ (childPc[c] \in Gone)'
        /\ DoneAt(c, "select") /\ <<ChildStep(c)>>_vars =>
             DoneAt(c, "join")' \/ (childPc[c] \in Gone)'
        /\ DoneAt(c, "join") => DoneAt(c, "join")' \/ (childPc[c] \in Gone)'
        /\ DoneAt(c, "join") /\ <<ChildStep(c)>>_vars => (childPc[c] \in Gone)'
  BY DoneGoesOn
<1>2. LiveInv => (DoneAt(c, "select") \/ DoneAt(c, "join") => ChildGuard(c))
  BY DEF LiveInv, EndInv, EndOf, DoneAt, ChildGuard
<1>3. SendingOver(c) => childPc[c] \in Gone \/ DoneAt(c, "select") \/ DoneAt(c, "join")
  BY DEF SendingOver, Running, DoneAt
<1>4. LiveInv /\ parentPc # "fork" => childPc[c] = "connect" \/ Running(c) \/ childPc[c] \in Gone
  BY DEF LiveInv, LoadInv, CountInv, BornInv, ChildPcs, EndInv, EndOf, Running
<1>5. LiveInv /\ [Next]_vars /\ childPc[c] \in Gone => (childPc[c] \in Gone)'
  BY ChildMoves DEF Gone
<1>6. StepsEnabled => ChildEnabled(c)
  BY DEF StepsEnabled
<1>7. ClientsScheduled => ClientScheduled(c)
  BY DEF ClientsScheduled
<1>8. Live => (DoneAt(c, "join") ~> childPc[c] \in Gone)
  BY <1>1, <1>2, <1>6, <1>7, LiveInvariance, PTL DEF Live, Spec, ChildEnabled, ClientScheduled
<1>9. Live => (DoneAt(c, "select") ~> DoneAt(c, "join") \/ childPc[c] \in Gone)
  BY <1>1, <1>2, <1>6, <1>7, LiveInvariance, PTL DEF Live, Spec, ChildEnabled, ClientScheduled
<1>10. ClientInduction => (Live => (Running(c) ~> SendingOver(c)))
  BY SendingEnds DEF ClientInduction
<1>11. Live => (childPc[c] = "connect" ~> Running(c) \/ childPc[c] \in Gone)
  BY ConnectEnds
<1>12. Live => [](childPc[c] \in Gone => [](childPc[c] \in Gone))
  BY <1>5, LiveInvariance, PTL DEF Live, Spec
<1>13. ClientInduction => (Live => <>[](parentPc # "fork"))
  BY ForksEnd DEF ClientInduction
<1> QED BY <1>3, <1>4, <1>8, <1>9, <1>10, <1>11, <1>12, <1>13, LiveInvariance, PTL
        DEF ClientEnds, Live

\* What is shown by induction: the first n clients end.
FirstGone(n) == \A c \in Clients : c <= n => childPc[c] \in Gone
FirstEnd(n) == Live => <>[]FirstGone(n)
EndInduction == ClientInduction /\ Numbers!InductionFor(FirstEnd)

\* All clients have gone some time, and for good.
LEMMA AllEnd == EndInduction => (Live => <>[]AllGone)
<1>1. FirstEnd(0)
  <2>1. FirstGone(0)
    BY LoadTestAssumption DEF FirstGone
  <2> QED BY <2>1, PTL DEF FirstEnd
<1>2. ASSUME NEW n \in Nat
      PROVE  EndInduction => (FirstEnd(n) => FirstEnd(n + 1))
  <2>1. CASE n + 1 \in Clients
    <3>1. EndInduction => ClientEnds(n + 1)
      BY <2>1, EveryClientEnds DEF EndInduction
    <3>2. FirstGone(n) /\ childPc[n + 1] \in Gone => FirstGone(n + 1)
      BY LoadTestAssumption DEF FirstGone
    <3> QED BY <3>1, <3>2, PTL DEF FirstEnd, ClientEnds
  <2>2. CASE n + 1 \notin Clients
    <3>1. FirstGone(n) => FirstGone(n + 1)
      BY <2>2, LoadTestAssumption DEF FirstGone
    <3> QED BY <3>1, PTL DEF FirstEnd
  <2> QED BY <2>1, <2>2
<1>3. EndInduction => \A n \in Nat : FirstEnd(n)
  BY <1>1, <1>2 DEF EndInduction, Numbers!InductionFor
<1>4. EndInduction => FirstEnd(CLIENTNUM)
  BY <1>3, LoadTestAssumption
<1>5. FirstGone(CLIENTNUM) => AllGone
  BY LoadTestAssumption DEF FirstGone, AllGone
<1> QED BY <1>4, <1>5, PTL DEF FirstEnd

\* Every client ends, for any number of clients and of messages, whenever its main
\* thread looks at statue and wherever the server cuts its connection.
THEOREM EveryClientComesToItsEnd == EndInduction => (Live => ClientsEnd)
<1>1. AllGone => \A c \in Clients : childPc[c] \in Gone
  BY DEF AllGone
<1> QED BY <1>1, AllEnd, PTL DEF ClientsEnd
-----------------------------------------------------------------------------
\* What is left of the parent's round through the pipes, after which it stops if it
\* has seen all of them empty, and of the next round if it has not.
RoundLeft ==
    (IF \A c \in Clients : c < clientnum => pipe[c] = "empty" THEN 0 ELSE CLIENTNUM)
        + CLIENTNUM - clientnum
Counting(n) == AllWritten /\ parentPc = "read" /\ RoundLeft < n

\* When all clients have written no one else moves, and each read leaves less: the
\* pipe read is empty then, and at the end of a round of empty pipes all are counted.
LEMMA CountingGoesOn ==
    ASSUME LiveInv, NEW n \in Nat, [Next]_vars, AllWritten
    PROVE  /\ AllWritten'
           /\ Counting(n + 1) => (parentPc = "done")' \/ Counting(n + 1)'
           /\ Counting(n + 1) /\ ParentStep => (parentPc = "done")' \/ Counting(n)'
<1>t. /\ clientnum \in Nat /\ CLIENTNUM \in Nat /\ clientnum \in 1 .. CLIENTNUM
      /\ Clients = 1 .. CLIENTNUM /\ pipe \in [Clients -> {"empty", "full"}]
      /\ totalpipe[clientnum] = clientnum
      /\ \A c \in Clients : childPc[c] \in Gone \ {"unborn"}
  BY LoadTestAssumption DEF LiveInv, LoadInv, CountInv, BornInv, AllWritten, Written, Gone
<1>2. ASSUME NEW c \in Clients
      PROVE  ~ChildStep(c) /\ ~SenderStep(c)
  BY <1>t, <1>2 DEF Gone, ChildStep, ClientConnect, ClientConnectFails, RecvCoordinate,
     LeaveLoop, WriteByPipe, WriteOverruns, ChildGoto, ChildAt, SenderStep, SetStatusTrue,
     SendLength, SendMsg, SigPipe, TimeOver, SenderGoto, SenderAt
<1>f. ~Fork
  BY <1>t, LoadTestAssumption DEF Fork, LiveInv, LoadInv, CountInv, Gone
<1>1. AllWritten'
  <2>1. UNCHANGED <<childPc, totalpipe>>
    BY <1>2, <1>f, ReadOf DEF Next, ParentStep, ServerStep, Ended, testVars, parentVars, vars
  <2> QED BY <2>1 DEF AllWritten, Written
<1>3. ASSUME Counting(n + 1), ParentStep
      PROVE  (parentPc = "done")' \/ Counting(n)'
  <2>1. Read
    BY <1>3, <1>f DEF ParentStep
  <2>p. ReadBlock(clientnum) \/ ReadEnd(clientnum)
    BY <1>t, <2>1 DEF Read, ReadInterrupted, HaveWriter
  <2>2. /\ NextPipe /\ pipe'[clientnum] = "empty"
        /\ \A c \in Clients \ {clientnum} : pipe'[c] = pipe[c]
    BY <1>t, <2>1, <2>p, ReadOf DEF ReadBlock, ReadEnd, FullPipes, testVars
  <2>3. CASE clientnum < CLIENTNUM
    <3>1. clientnum' = clientnum + 1 /\ parentPc' = "read"
      BY <1>3, <2>2, <2>3 DEF NextPipe, Counting
    <3>2. (\A c \in Clients : c < clientnum => pipe[c] = "empty") =>
            \A c \in Clients : c < clientnum' => pipe'[c] = "empty"
      BY <1>t, <2>2, <3>1
    <3>3. RoundLeft' < n
      BY <1>t, <1>3, <3>1, <3>2 DEF RoundLeft, Counting
    <3> QED BY <1>1, <3>1, <3>3 DEF Counting
  <2>4. CASE ~(clientnum < CLIENTNUM)
    <3>1. /\ clientnum = CLIENTNUM /\ clientnum' = 1
          /\ parentPc' = IF clientrecv' = CLIENTNUM THEN "done" ELSE "read"
      BY <1>t, <2>2, <2>4 DEF NextPipe
    <3>2. CASE \A c \in Clients : c < clientnum => pipe[c] = "empty"
      <4>1. \A c \in Clients : pipe'[c] = "empty"
        BY <1>t, <2>2, <3>1, <3>2
      <4>2. Counted' = Clients
        BY <1>1, <4>1 DEF Counted, AllWritten, Written
      <4>3. clientrecv' = CLIENTNUM
        BY <4>2, CountStep, ClientsFinite DEF LiveInv, LoadInv, CountInv
      <4> QED BY <3>1, <4>3
    <3>3. CASE ~(\A c \in Clients : c < clientnum => pipe[c] = "empty")
      <4>1. CLIENTNUM < n + 1
        BY <1>t, <1>3, <3>1, <3>3 DEF Counting, RoundLeft
      <4>2. \A c \in Clients : c < clientnum' => pipe'[c] = "empty"
        BY <1>t, <3>1
      <4>3. RoundLeft' < n
        BY <1>t, <3>1, <4>1, <4>2 DEF RoundLeft
      <4> QED BY <1>1, <3>1, <4>3 DEF Counting
    <3> QED BY <3>2, <3>3
  <2> QED BY <2>3, <2>4
<1>4. CASE UNCHANGED <<pipe, parentVars>>
  <2>1. RoundLeft' = RoundLeft
    BY <1>4 DEF RoundLeft, parentVars
  <2>2. Counting(n + 1) => Counting(n + 1)'
    BY <1>1, <1>4, <2>1 DEF Counting, parentVars
  <2> QED BY <1>1, <1>3, <2>2
<1>5. Counting(n)' => Counting(n + 1)'
  <2>1. clientnum' \in Nat
    BY CountStep, LoadTestAssumption DEF LiveInv, LoadInv, CountInv, BornInv
  <2>2. RoundLeft' \in Int
    BY <1>t, <2>1 DEF RoundLeft
  <2> QED BY <2>2 DEF Counting
<1> QED BY <1>1, <1>2, <1>3, <1>4, <1>5 DEF Next, ServerStep, Ended, testVars, vars

\* What is shown by induction: the parent ends with n pipes left.
CountingOver(n) == Live => (Counting(n) ~> parentPc = "done")

\* The parent ends when every client has written its results, though a read may have been
\* interrupted and a pipe passed over: it comes round again.
THEOREM ParentComesToItsEnd == Numbers!InductionFor(CountingOver) => (Live => ParentEnds)
<1>1. CountingOver(0)
  <2>1. LiveInv => ~Counting(0)
    <3>1. LiveInv => clientnum \in 1 .. CLIENTNUM /\ CLIENTNUM \in Nat
      BY LoadTestAssumption DEF LiveInv, LoadInv, CountInv, BornInv
    <3> QED BY <3>1 DEF Counting, RoundLeft
  <2> QED BY <2>1, LiveInvariance, PTL DEF CountingOver, Live
<1>2. ASSUME NEW n \in Nat
      PROVE  CountingOver(n) => CountingOver(n + 1)
  <2>1. LiveInv /\ Counting(n + 1) /\ [Next]_vars => (parentPc = "done")' \/ Counting(n + 1)'
    BY CountingGoesOn DEF Counting
  <2>2. LiveInv /\ Counting(n + 1) /\ [Next]_vars /\ <<ParentStep>>_vars
          => (parentPc = "done")' \/ Counting(n)'
    BY CountingGoesOn DEF Counting
  <2>3. Counting(n + 1) => ParentGuard
    BY DEF Counting, ParentGuard
  <2> QED BY <2>1, <2>2, <2>3, LiveInvariance, PTL DEF CountingOver, Live, Spec, StepsEnabled
<1>3. Numbers!InductionFor(CountingOver) => \A n \in Nat : CountingOver(n)
  BY <1>1, <1>2 DEF Numbers!InductionFor
<1>4. PICK most \in Nat : most = 2 * CLIENTNUM
  BY LoadTestAssumption
<1>5. Numbers!InductionFor(CountingOver) => CountingOver(most)
  BY <1>3
<1>6. LiveInv /\ (\A c \in Clients : Written(c)) =>
        parentPc = "done" \/ Counting(most)
  <2> SUFFICES ASSUME LiveInv, \A c \in Clients : Written(c), parentPc # "done"
               PROVE  Counting(most)
    OBVIOUS
  <2>1. clientnum \in 1 .. CLIENTNUM /\ CLIENTNUM \in Nat /\ clientnum \in Clients
    BY LoadTestAssumption DEF LiveInv, LoadInv, CountInv, BornInv
  <2>2. parentPc = "read"
    <3>1. childPc[clientnum] # "unborn" /\ clientnum >= clientnum
      BY <2>1 DEF Written
    <3> QED BY <2>1, <3>1 DEF LiveInv, LoadInv, CountInv, RunTypes
  <2>3. RoundLeft < most
    BY <1>4, <2>1 DEF RoundLeft
  <2> QED BY <2>2, <2>3 DEF Counting, AllWritten
<1> QED BY <1>5, <1>6, LiveInvariance, PTL DEF CountingOver, Live, ParentEnds
-----------------------------------------------------------------------------
\* What the event thread still has to read: the units that are there and, for each
\* open connection, its end.
MaxSent == MaxMsgs * FrameLen
Unread ==
    {u \in Clients \X (0 .. MaxSent) :
        conn[u[1]] = "open" /\ received[u[1]] <= u[2] /\ u[2] <= sent[u[1]]}
Serving(n) == AllGone /\ Cardinality(Unread) < n
AllClosed == AllGone /\ \A c \in Clients : conn[c] # "open"

\* It can be counted.
LEMMA UnitsFinite ==
    /\ IsFiniteSet(Clients \X (0 .. MaxSent))
    /\ Cardinality(Clients \X (0 .. MaxSent)) \in Nat
<1>1. MaxSent \in Nat
  BY Frames, Numbers!OneFrameMore DEF MaxSent
<1>2. IsFiniteSet(0 .. MaxSent)
  BY <1>1, FS_Interval
<1>3. IsFiniteSet(Clients \X (0 .. MaxSent))
  BY <1>2, ClientsFinite, FS_Product
<1> QED BY <1>3, FS_CardinalityType

LEMMA UnreadFinite ==
    /\ IsFiniteSet(Unread) /\ Cardinality(Unread) \in Nat
    /\ Cardinality(Unread) <= Cardinality(Clients \X (0 .. MaxSent))
<1>1. Unread \in SUBSET (Clients \X (0 .. MaxSent))
  BY DEF Unread
<1> QED BY <1>1, UnitsFinite, FS_Subset, FS_CardinalityType

\* Every step of the event thread takes something, or closes a connection.
LEMMA EventTakes ==
    ASSUME LiveInv, NEW c \in Clients, EventOf(c)
    PROVE  conn'[c] = "closed" \/ received'[c] > received[c]
<1>t. received \in [Clients -> Nat] /\ conn \in [Clients -> {"none", "open", "closed"}]
  BY DEF LiveInv, LoadInv, RunTypes
<1>1. ASSUME NEW m \in Nat, NEW k \in Taken(c, m), Take(c, k, m)
      PROVE  received'[c] > received[c]
  <2>1. k \in Nat /\ k > 0 /\ received'[c] = received[c] + k
    BY <1>t, <1>1 DEF Taken, Take
  <2> QED BY <1>t, <2>1
<1>2. CASE RecvLength(c)
  BY <1>1, <1>2, Frames DEF RecvLength
<1>3. ASSUME NEW len \in Lengths, RecvData(c, len)
      PROVE  received'[c] > received[c]
  <2>1. len \in Nat
    BY Frames
  <2> QED BY <1>1, <1>3, <2>1 DEF RecvData
<1>4. CASE RecvEnd(c)
  BY <1>t, <1>4 DEF RecvEnd, OffConnection
<1> QED BY <1>2, <1>3, <1>4 DEF EventOf

\* So less is left.
LEMMA LessUnread ==
    ASSUME LiveInv, FramingTypeOK, ServerStep
    PROVE  Cardinality(Unread') < Cardinality(Unread) /\ Cardinality(Unread') \in Nat
<1>1. PICK c \in Clients : EventOf(c)
  BY EventStepOf DEF ServerStep
<1>t. /\ conn \in [Clients -> {"none", "open", "closed"}]
      /\ received \in [Clients -> Nat] /\ sent \in [Clients -> Nat]
      /\ received[c] <= sent[c] /\ sent[c] \in 0 .. MaxSent
  BY DEF LiveInv, LoadInv, RunTypes, ConnInv, FramingTypeOK, MaxSent
<1>2. /\ conn[c] = "open" /\ sent' = sent
      /\ conn'[c] = "closed" \/ received'[c] > received[c]
      /\ \A d \in Clients : conn'[d] = "open" => conn[d] = "open"
  BY <1>1, <1>t, EventEffect, EventTakes DEF LiveInv, LoadInv
<1>3. PICK k \in Nat : received' = [received EXCEPT ![c] = @ + k]
  BY <1>1, EventEffect DEF LiveInv, LoadInv
<1>4. PICK x \in Unread : x = <<c, received[c]>>
  <2>1. received[c] \in 0 .. MaxSent
    <3>1. MaxSent \in Nat
      BY Frames, Numbers!OneFrameMore DEF MaxSent
    <3> QED BY <1>t, <3>1
  <2>2. PICK u \in Clients \X (0 .. MaxSent) : u = <<c, received[c]>>
    BY <2>1
  <2>3. u[1] = c /\ u[2] = received[c] /\ received[c] <= received[c]
    BY <1>t, <2>2
  <2>4. u \in Unread
    BY <1>t, <1>2, <2>3 DEF Unread
  <2> QED BY <2>2, <2>4
<1>5. ASSUME NEW u \in Unread'
      PROVE  u \in Unread \ {x}
  <2>1. /\ u \in Clients \X (0 .. MaxSent) /\ u[1] \in Clients /\ u[2] \in Nat
        /\ conn'[u[1]] = "open" /\ received'[u[1]] <= u[2] /\ u[2] <= sent'[u[1]]
    BY <1>5 DEF Unread
  <2>2. received[u[1]] \in Nat /\ received'[u[1]] \in Nat /\ received[u[1]] <= received'[u[1]]
    BY <1>t, <1>3, <2>1
  <2>3. u \in Unread
    BY <1>2, <2>1, <2>2 DEF Unread
  <2>4. u # x
    <3> SUFFICES ASSUME u = x
                 PROVE  FALSE
      OBVIOUS
    <3>1. u[1] = c /\ u[2] = received[c]
      BY <1>4
    <3> QED BY <1>2, <2>1, <2>2, <3>1
  <2> QED BY <2>3, <2>4
<1>6. IsFiniteSet(Unread \ {x}) /\ Cardinality(Unread \ {x}) = Cardinality(Unread) - 1
  BY UnreadFinite, FS_RemoveElement
<1>7. Cardinality(Unread') <= Cardinality(Unread \ {x}) /\ Cardinality(Unread') \in Nat
  BY <1>5, <1>6, FS_Subset, FS_CardinalityType
<1> QED BY <1>6, <1>7, UnreadFinite

\* When all clients have gone no one else touches the connections.
LEMMA ServingGoesOn ==
    ASSUME LiveInv, FramingTypeOK, NEW n \in Nat, [Next]_vars, AllGone
    PROVE  /\ AllGone'
           /\ AllClosed => AllClosed'
           /\ Serving(n + 1) => Serving(n + 1)'
           /\ Serving(n + 1) /\ ServerStep => Serving(n)'
<1>1. AllGone'
  BY ChildMoves DEF AllGone, Gone
<1>2. ASSUME NEW c \in Clients
      PROVE  ~ChildStep(c) /\ ~SenderStep(c)
  BY <1>2 DEF AllGone, Gone, ChildStep, ClientConnect, ClientConnectFails, RecvCoordinate,
     LeaveLoop, WriteByPipe, WriteOverruns, ChildGoto, ChildAt, SenderStep, SetStatusTrue,
     SendLength, SendMsg, SigPipe, TimeOver, SenderGoto, SenderAt
<1>3. CASE ServerStep
  <2>1. PICK m \in Nat : m = Cardinality(Unread)
    BY UnreadFinite
  <2>2. Cardinality(Unread') < m /\ Cardinality(Unread') \in Nat
    BY <1>3, <2>1, LessUnread
  <2>3. Serving(n + 1) => m < n + 1
    BY <2>1 DEF Serving
  <2>4. Serving(n + 1) => Serving(n)' /\ Serving(n + 1)'
    BY <1>1, <2>2, <2>3 DEF Serving
  <2>5. ~AllClosed
    <3>1. PICK c \in Clients : EventOf(c)
      BY <1>3, EventStepOf DEF ServerStep
    <3>2. conn[c] = "open"
      BY <3>1, EventEffect DEF LiveInv, LoadInv
    <3> QED BY <3>2 DEF AllClosed
  <2> QED BY <1>1, <2>4, <2>5
<1>4. CASE UNCHANGED framingVars
  <2>1. Unread' = Unread /\ conn' = conn
    BY <1>4 DEF Unread, framingVars
  <2>2. (Serving(n + 1) => Serving(n + 1)') /\ (AllClosed => AllClosed')
    BY <1>1, <2>1 DEF Serving, AllClosed
  <2> QED BY <1>1, <1>3, <2>2
<1> QED BY <1>2, <1>3, <1>4 DEF Next, ParentStep, Fork, Read, ReadBlock, ReadEnd, ReadInterrupted,
        Ended, vars

\* What is shown by induction: the event thread ends with n units left.
ServingOver(n) == Live => (Serving(n) ~> AllClosed)

\* In the end every connection is over, and every message sent whole was handled
\* unless some recv took less than it asked for: the event thread, which waits in recv
\* for one client, waits for none for ever.
THEOREM EveryMessageIsHandled ==
    EndInduction /\ Numbers!InductionFor(ServingOver) => (Live => MessagesHandled)
<1>t. TypeOK => FramingTypeOK
  BY DEF TypeOK
<1>1. ServingOver(0)
  <2>1. ~Serving(0)
    BY UnreadFinite DEF Serving
  <2> QED BY <2>1, PTL DEF ServingOver
<1>2. ASSUME NEW n \in Nat
      PROVE  ServingOver(n) => ServingOver(n + 1)
  <2>1. LiveInv /\ FramingTypeOK /\ Serving(n + 1) /\ [Next]_vars => Serving(n + 1)'
    BY ServingGoesOn DEF Serving
  <2>2. LiveInv /\ FramingTypeOK /\ Serving(n + 1) /\ [Next]_vars /\ <<ServerStep>>_vars
          => Serving(n)'
    BY ServingGoesOn DEF Serving
  <2>3. Serving(n + 1) => ServerGuard \/ AllClosed
    BY DEF Serving, ServerGuard, AllClosed
  <2> QED BY <1>t, <2>1, <2>2, <2>3, LiveInvariance, LoadTypeCorrect, PTL
          DEF ServingOver, Live, Spec, StepsEnabled
<1>3. Numbers!InductionFor(ServingOver) => \A n \in Nat : ServingOver(n)
  BY <1>1, <1>2 DEF Numbers!InductionFor
<1>4. PICK most \in Nat : most = Cardinality(Clients \X (0 .. MaxSent)) + 1
  BY UnitsFinite
<1>5. Numbers!InductionFor(ServingOver) => ServingOver(most)
  BY <1>3
<1>6. AllGone => Serving(most)
  BY <1>4, UnitsFinite, UnreadFinite DEF Serving
<1>7. LiveInv /\ FramingTypeOK /\ AllClosed /\ [Next]_vars => AllClosed'
  <2>1. 0 \in Nat
    OBVIOUS
  <2> QED BY <2>1, ServingGoesOn DEF AllClosed
<1>8. LiveInv /\ WholeMessagesAreHandled /\ AllClosed =>
        \A c \in Clients :
            /\ conn[c] # "open"
            /\ ~inPieces[c] => Len(handled[c]) = sent[c] \div FrameLen
  <2> SUFFICES ASSUME LiveInv, WholeMessagesAreHandled, AllClosed, NEW c \in Clients
               PROVE  /\ conn[c] # "open"
                      /\ ~inPieces[c] => received[c] = sent[c]
    BY DEF WholeMessagesAreHandled
  <2>1. received[c] <= sent[c] /\ received[c] \in Nat /\ sent[c] \in Nat
    BY DEF LiveInv, LoadInv, RunTypes, ConnInv
  <2>2. conn[c] \in {"none", "closed"}
    BY DEF AllClosed, LiveInv, LoadInv, RunTypes
  <2> QED BY <2>1, <2>2 DEF LiveInv, EndInv, EndOf
<1> QED BY <1>t, <1>5, <1>6, <1>7, <1>8, AllEnd, LiveInvariance, LoadTypeCorrect, WholeMessages,
        PTL DEF ServingOver, Live, Spec, MessagesHandled
=============================================================================
