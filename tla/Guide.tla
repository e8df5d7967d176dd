------------------------------- MODULE Guide --------------------------------
(***************************************************************************)
(* class Guide (main/Guide.cpp): the thread started by the constructor.    *)
(* guide() polls startGuide, searches a path, hands it to finishGuide and  *)
(* samples the queue with test(), for ever.  guidePc is the call the       *)
(* thread makes next; guideReq and guidePath hold its locals.  A path is   *)
(* named here by the request it answers; GuideSearch models the search.    *)
(***************************************************************************)
EXTENDS MsgQueue

VARIABLES
    guidePc,       \* "startGuide", "searchpath", "finishGuide", "time" or "size"
    guideReq,      \* the locals id, sour and dest of guide()
    guidePath,     \* the local path of guide()
    guideDuring,   \* one element per time stamp pushed by test()
    guideBufSize   \* receiveBufSize: one element per length pushed by test()

guideVars == <<guidePc, guideReq, guidePath, guideDuring, guideBufSize>>

GuideTypeOK ==
    /\ guidePc \in {"startGuide", "searchpath", "finishGuide", "time", "size"}
    /\ guideReq \in GuideItem
    /\ guidePath \in Path
    /\ guideDuring \in Seq(Nat)
    /\ guideBufSize \in Seq(Nat)

\* The locals are unset until the first request; Null stands for that.
GuideInit ==
    /\ guidePc = "startGuide"
    /\ guideReq = [id |-> 0, sour |-> Null, dest |-> Null]
    /\ guidePath = [from |-> Null, to |-> Null]
    /\ guideDuring = <<>>
    /\ guideBufSize = <<>>

\* The path of a request: what getIndexStart and searchpath compute from it.
PathOf(req) == [from |-> req.sour, to |-> req.dest]
-----------------------------------------------------------------------------
\* startGuide returns -1 on an empty queue and guide() calls it again at once.
PollGuiding ==
    /\ guidePc = "startGuide"
    /\ GuideVec = <<>>
    /\ UNCHANGED <<guideVars, mqVars>>

StartGuiding ==
    /\ guidePc = "startGuide"
    /\ guidePc' = "searchpath"
    /\ startGuide(guideReq')
    /\ UNCHANGED <<guidePath, guideDuring, guideBufSize>>

\* A variant with one slip: the two ends of the search swapped.
SearchPathSwapped ==
    /\ guidePc = "searchpath"
    /\ guidePc' = "finishGuide"
    /\ guidePath' = [from |-> guideReq.dest, to |-> guideReq.sour]
    /\ UNCHANGED <<guideReq, guideDuring, guideBufSize, mqVars>>

SearchPath ==
    /\ guidePc = "searchpath"
    /\ guidePc' = "finishGuide"
    /\ guidePath' = PathOf(guideReq)
    /\ UNCHANGED <<guideReq, guideDuring, guideBufSize, mqVars>>

FinishGuiding ==
    /\ guidePc = "finishGuide"
    /\ guidePc' = "time"
    /\ finishGuide(guideReq.id, guidePath)
    /\ UNCHANGED <<guideReq, guidePath, guideDuring, guideBufSize>>

\* test(), as in Location: a time stamp, then the length of the queue.
TestGuideTime ==
    /\ guidePc = "time"
    /\ guidePc' = "size"
    /\ guideDuring' = Append(guideDuring, getGuideNum)
    /\ UNCHANGED <<guideReq, guidePath, guideBufSize, mqVars>>

TestGuideFails ==
    /\ guidePc = "time"
    /\ guidePc' = "startGuide"
    /\ UNCHANGED <<guideReq, guidePath, guideDuring, guideBufSize, mqVars>>

TestGuideSize ==
    /\ guidePc = "size"
    /\ guidePc' = "startGuide"
    /\ guideBufSize' = Append(guideBufSize, getGuideNum)
    /\ UNCHANGED <<guideReq, guidePath, guideDuring, mqVars>>

GuideStep ==
    \/ PollGuiding
    \/ StartGuiding
    \/ SearchPath
    \/ FinishGuiding
    \/ TestGuideTime
    \/ TestGuideFails
    \/ TestGuideSize
=============================================================================
