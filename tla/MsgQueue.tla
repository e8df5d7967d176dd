------------------------------ MODULE MsgQueue ------------------------------
(***************************************************************************)
(* class MsgQueue (include/MsgQueue.h, main/MsgQueue.cpp): the object      *)
(* through which the event thread, the Location thread and the Guide       *)
(* thread exchange requests and results.  This module has one operator per *)
(* method; a method call is one atomic step here.  The class takes no lock *)
(* and the atomicity is therefore an abstraction: RequestVector models the *)
(* memory accesses of two overlapping calls.                               *)
(*                                                                         *)
(* C++ vectors are indexed from 0, sequences from 1: the result queue of   *)
(* user id is element id + 1.  Json values are abstracted to the fields    *)
(* the methods read.                                                       *)
(***************************************************************************)
EXTENDS Naturals, Sequences

CONSTANTS
    Rssi,    \* what the "rssi" field of a location request can hold
    Places,  \* what the "sour" and "dest" fields of a guide request can hold
    Null     \* a Json null: the field is absent

ASSUME NullAssumption == Null \notin Rssi /\ Null \notin Places

VARIABLES
    LocateVec,   \* location requests not yet answered, oldest first
    GuideVec,    \* guide requests not yet answered, oldest first
    LocatedVec,  \* LocatedVec[id + 1]: the location results of user id
    GuidedVec    \* GuidedVec[id + 1]: the guide results of user id

mqVars == <<LocateVec, GuideVec, LocatedVec, GuidedVec>>

LocItem == [id : Nat, rssi : Rssi \cup {Null}]
GuideItem == [id : Nat, sour : Places \cup {Null}, dest : Places \cup {Null}]

\* The coordinates run() passes to finishLoc for every request: (2, 2, 2).
Loc == [x |-> 2, y |-> 2, z |-> 2]

\* A path is named by its two ends; GuideSearch models how it is found.
Path == [from : Places \cup {Null}, to : Places \cup {Null}]

MsgQueueTypeOK ==
    /\ LocateVec \in Seq(LocItem)
    /\ GuideVec \in Seq(GuideItem)
    /\ LocatedVec \in Seq(Seq({Loc}))
    /\ GuidedVec \in Seq(Seq(Path))

MsgQueueInit ==
    /\ LocateVec = <<>>
    /\ GuideVec = <<>>
    /\ LocatedVec = <<>>
    /\ GuidedVec = <<>>
-----------------------------------------------------------------------------
addLocItem(id, rssi) ==
    /\ LocateVec' = Append(LocateVec, [id |-> id, rssi |-> rssi])
    /\ UNCHANGED <<GuideVec, LocatedVec, GuidedVec>>

addGuideItem(id, sour, dest) ==
    /\ GuideVec' = Append(GuideVec, [id |-> id, sour |-> sour, dest |-> dest])
    /\ UNCHANGED <<LocateVec, LocatedVec, GuidedVec>>

\* Variants of the operators below, each with one slip; none is part of the model.
startLocBack(req) ==
    /\ LocateVec # <<>>
    /\ req = LocateVec[Len(LocateVec)]
    /\ UNCHANGED mqVars

startLocLeavesOne(req) ==
    Len(LocateVec) > 1 /\ req = Head(LocateVec) /\ UNCHANGED mqVars

startGuideLeavesOne(req) ==
    Len(GuideVec) > 1 /\ req = Head(GuideVec) /\ UNCHANGED mqVars

GrownOneShort(vec, id) ==
    [k \in 1 .. (IF id <= Len(vec) THEN Len(vec) ELSE id) |->
        IF k <= Len(vec) THEN vec[k] ELSE <<>>]

\* startLoc and startGuide return -1 on an empty queue.  Otherwise they copy
\* the first request to the caller's locals (req) and leave it in the queue.
startLoc(req) == LocateVec # <<>> /\ req = Head(LocateVec) /\ UNCHANGED mqVars

startGuide(req) == GuideVec # <<>> /\ req = Head(GuideVec) /\ UNCHANGED mqVars

\* The vector of result queues, lengthened with empty queues up to user id.
Grown(vec, id) ==
    [k \in 1 .. (IF id < Len(vec) THEN Len(vec) ELSE id + 1) |->
        IF k <= Len(vec) THEN vec[k] ELSE <<>>]

PushResult(vec, id, value) ==
    [Grown(vec, id) EXCEPT ![id + 1] = Append(@, value)]

\* Variants with one slip: pop_back for the erase of the front; no erase at all.
finishLocErasesBack(id, loc) ==
    IF id # Head(LocateVec).id
    THEN UNCHANGED mqVars
    ELSE /\ LocatedVec' = PushResult(LocatedVec, id, loc)
         /\ LocateVec' = SubSeq(LocateVec, 1, Len(LocateVec) - 1)
         /\ UNCHANGED <<GuideVec, GuidedVec>>

finishGuideKeeps(id, path) ==
    IF id # Head(GuideVec).id
    THEN UNCHANGED mqVars
    ELSE /\ GuidedVec' = PushResult(GuidedVec, id, path)
         /\ UNCHANGED <<GuideVec, LocateVec, LocatedVec>>

\* finishLoc and finishGuide return at once when the first request is not one
\* of user id; otherwise the result is stored and the first request erased.
finishLoc(id, loc) ==
    IF id # Head(LocateVec).id
    THEN UNCHANGED mqVars
    ELSE /\ LocatedVec' = PushResult(LocatedVec, id, loc)
         /\ LocateVec' = Tail(LocateVec)
         /\ UNCHANGED <<GuideVec, GuidedVec>>

finishGuide(id, path) ==
    IF id # Head(GuideVec).id
    THEN UNCHANGED mqVars
    ELSE /\ GuidedVec' = PushResult(GuidedVec, id, path)
         /\ GuideVec' = Tail(GuideVec)
         /\ UNCHANGED <<LocateVec, LocatedVec>>

\* Every line of the body of clearRqst is commented out.
clearRqst(id) == UNCHANGED mqVars

\* getLocateNum and getGuideNum.
getLocateNum == Len(LocateVec)
getGuideNum == Len(GuideVec)

\* The results of user id; none when the vector is shorter.
ResultsOf(vec, id) == IF id < Len(vec) THEN vec[id + 1] ELSE <<>>
=============================================================================
