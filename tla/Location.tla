------------------------------ MODULE Location ------------------------------
(***************************************************************************)
(* class Location (main/Location.cpp): the thread started by the           *)
(* constructor.  run() polls startLoc, answers the request with finishLoc  *)
(* and samples the queue with test(), for ever.  locPc is the call the     *)
(* thread makes next; locReq holds its locals id and rssi.                 *)
(*                                                                         *)
(* test() pushes a time stamp and then, in a second call, the length of    *)
(* the request queue.  A time stamp is abstracted to what the properties   *)
(* need of it: the length of the request queue at the instant it was taken.*)
(***************************************************************************)
EXTENDS MsgQueue

VARIABLES
    locPc,         \* "startLoc", "finishLoc", "time" or "size"
    locReq,        \* the locals id and rssi of run()
    locateDuring,  \* one element per time stamp pushed by test()
    locBufSize     \* receiveBufSize: one element per length pushed by test()

locVars == <<locPc, locReq, locateDuring, locBufSize>>

\* Width of size_t.  The build has 2^32; record() behaves alike for any width
\* above the number of samples.
SizeT == 65536

LocationTypeOK ==
    /\ locPc \in {"startLoc", "finishLoc", "time", "size"}
    /\ locReq \in LocItem
    /\ locateDuring \in Seq(Nat)
    /\ locBufSize \in Seq(Nat)

LocationInit ==
    /\ locPc = "startLoc"
    /\ locReq = [id |-> 0, rssi |-> Null]
    /\ locateDuring = <<>>
    /\ locBufSize = <<>>
-----------------------------------------------------------------------------
\* startLoc returns -1 on an empty queue and run() calls it again at once.
PollLocating ==
    /\ locPc = "startLoc"
    /\ LocateVec = <<>>
    /\ UNCHANGED <<locVars, mqVars>>

StartLocating ==
    /\ locPc = "startLoc"
    /\ locPc' = "finishLoc"
    /\ startLoc(locReq')
    /\ UNCHANGED <<locateDuring, locBufSize>>

FinishLocating ==
    /\ locPc = "finishLoc"
    /\ locPc' = "time"
    /\ finishLoc(locReq.id, Loc)
    /\ UNCHANGED <<locReq, locateDuring, locBufSize>>

\* test(): locateDuring.push_back(tv).
TestLocTime ==
    /\ locPc = "time"
    /\ locPc' = "size"
    /\ locateDuring' = Append(locateDuring, getLocateNum)
    /\ UNCHANGED <<locReq, locBufSize, mqVars>>

\* test(): gettimeofday failed, return -1; run() prints a line and goes on.
TestLocFails ==
    /\ locPc = "time"
    /\ locPc' = "startLoc"
    /\ UNCHANGED <<locReq, locateDuring, locBufSize, mqVars>>

\* A variant with one slip: the length of the other queue.
TestLocSizeOfGuides ==
    /\ locPc = "size"
    /\ locPc' = "startLoc"
    /\ locBufSize' = Append(locBufSize, getGuideNum)
    /\ UNCHANGED <<locReq, locateDuring, mqVars>>

\* test(): receiveBufSize.push_back(msgQueue->getLocateNum()).
TestLocSize ==
    /\ locPc = "size"
    /\ locPc' = "startLoc"
    /\ locBufSize' = Append(locBufSize, getLocateNum)
    /\ UNCHANGED <<locReq, locateDuring, mqVars>>

LocationStep ==
    \/ PollLocating
    \/ StartLocating
    \/ FinishLocating
    \/ TestLocTime
    \/ TestLocFails
    \/ TestLocSize
-----------------------------------------------------------------------------
\* record() returns early when a time stamp has no length beside it yet.
\* Otherwise its loop runs a from 0 while a < locateDuring.size() - 1, computed
\* in size_t, and reads elements a and a + 1.
RecordReturnsEarly(during, sizes) == Len(during) # Len(sizes)

LoopBound(during) == (Len(during) + SizeT - 1) % SizeT

RecordOverruns(during, sizes) ==
    /\ ~RecordReturnsEarly(during, sizes)
    /\ LoopBound(during) >= Len(during)
=============================================================================
