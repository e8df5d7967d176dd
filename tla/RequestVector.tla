--------------------------- MODULE RequestVector ----------------------------
(***************************************************************************)
(* LocateVec (or GuideVec) at the level of memory accesses.  The event     *)
(* thread calls push_back in addLocItem while the worker thread calls      *)
(* size, front and erase in startLoc and finishLoc, and nothing orders     *)
(* their accesses: the program has a data race.  Each step below is one    *)
(* load or store of a word of the vector as the unoptimised build orders   *)
(* them (libstdc++ 4.8: push_back, _M_emplace_back_aux, _M_erase); a       *)
(* request is read, written, copied or destroyed in one step.              *)
(*                                                                         *)
(* Addresses count requests.  0 is the null pointer of the empty vector,   *)
(* and the allocator never reuses an address.                              *)
(***************************************************************************)
EXTENDS Integers, Sequences

CONSTANTS
    Ids,          \* user ids
    Starts,       \* how a behaviour may start, see startedAs
    MaxRequests,  \* bound: calls of push_back
    MaxAddr       \* bound: addresses

ASSUME VectorAssumption ==
    /\ MaxRequests \in Nat
    /\ MaxAddr \in Nat
    /\ Starts \subseteq [capacity : 0 .. MaxAddr - 1, overlap : BOOLEAN, requests : Nat]

VARIABLES
    startedAs, \* how this behaviour started; never changes
    mem,       \* a request, or Raw where none is constructed
    brk,       \* the first address never allocated
    start,     \* _M_start
    finish,    \* _M_finish
    eos,       \* _M_end_of_storage
    evPc,      \* the next step of the event thread
    evReq,     \* the argument of push_back
    evPtr,     \* the pointer it loaded
    newStart,  \* of the buffer it grows into
    newLen,    \* requests it put into that buffer
    newCap,    \* capacity of that buffer
    wkPc,      \* the next step of the worker
    wkPtr,     \* the pointer it loaded
    held,      \* the request startLoc copied
    asked,     \* history: the arguments of push_back
    answered,  \* history: the requests whose result finishLoc stored
    results,   \* LocatedVec: the results of each user, named by their requests
    fault      \* a read, write or destruction where that is undefined

evVars == <<evPc, evReq, evPtr, newStart, newLen, newCap, asked>>
wkVars == <<wkPc, wkPtr, held, answered, results>>
vecVars == <<mem, brk, start, finish, eos>>
vars == <<vecVars, evVars, wkVars, fault, startedAs>>

\* The capacity of the vector at the start, 0 for one never used, and whether a
\* call may start while the other thread is in one.
Capacity == startedAs.capacity
Overlap == startedAs.overlap

Raw == [id |-> "raw", n |-> 0]
Request == [id : Ids, n : 1 .. MaxRequests]
Addr == 0 .. MaxAddr
Base == IF Capacity = 0 THEN 0 ELSE 1

TypeOK ==
    /\ startedAs \in Starts
    /\ mem \in [Addr -> Request \cup {Raw}]
    /\ brk \in Nat
    /\ start \in Addr /\ finish \in Int /\ eos \in Int
    /\ evPc \in {"idle", "cmp", "cmpEnd", "construct", "write", "bump", "store",
                 "alloc", "new", "copy", "free", "setStart", "setFinish", "setEnd"}
    /\ evReq \in Request \cup {Raw}
    /\ evPtr \in Int
    /\ newStart \in Addr /\ newLen \in Nat /\ newCap \in Nat
    /\ wkPc \in {"size", "sizeEnd", "front", "frontRead", "between", "frontAgain",
                 "compare", "begin", "move", "dec", "decStore", "destroy"}
    /\ wkPtr \in Int
    /\ held \in Request \cup {Raw}
    /\ asked \in Seq(Request)
    /\ answered \in Seq(Request)
    /\ results \in [Ids -> Seq(Request)]
    /\ fault \in BOOLEAN

Init ==
    /\ startedAs \in Starts
    /\ mem = [a \in Addr |-> Raw]
    /\ brk = Base + Capacity + 1
    /\ start = Base
    /\ finish = Base
    /\ eos = Base + Capacity
    /\ evPc = "idle" /\ evReq = Raw /\ evPtr = 0
    /\ newStart = 0 /\ newLen = 0 /\ newCap = 0
    /\ wkPc = "size" /\ wkPtr = 0 /\ held = Raw
    /\ asked = <<>> /\ answered = <<>> /\ results = [u \in Ids |-> <<>>]
    /\ fault = FALSE

\* An address that holds a request, and one in the buffer as the event thread,
\* the only one to change start and eos, knows it.
Constructed(a) == a \in Addr /\ mem[a] # Raw
Writable(a) == a \in start .. eos - 1

Fault == fault' = TRUE /\ UNCHANGED <<vecVars, evVars, wkVars>>
-----------------------------------------------------------------------------
(* The event thread: addLocItem calls push_back.                           *)

\* After a fault the program may do anything; the model stops there.
EvAt(pc) == ~fault /\ evPc = pc
EvGoto(from, to) == EvAt(from) /\ evPc' = to

PushBack(id) ==
    /\ EvGoto("idle", "cmp")
    /\ Overlap \/ wkPc \in {"size", "between"}
    /\ Len(asked) < MaxRequests
    /\ Len(asked) < startedAs.requests
    /\ evReq' = [id |-> id, n |-> Len(asked) + 1]
    /\ asked' = Append(asked, evReq')
    /\ UNCHANGED <<vecVars, wkVars, evPtr, newStart, newLen, newCap, fault>>

\* if (finish != eos)
LoadFinish ==
    /\ EvGoto("cmp", "cmpEnd")
    /\ evPtr' = finish
    /\ UNCHANGED <<vecVars, wkVars, evReq, newStart, newLen, newCap, asked, fault>>

CompareEnd ==
    /\ EvAt("cmpEnd")
    /\ evPc' = IF evPtr # eos THEN "construct" ELSE "alloc"
    /\ UNCHANGED <<vecVars, wkVars, evReq, evPtr, newStart, newLen, newCap, asked, fault>>

\* construct the request at finish, loaded again
LoadSlot ==
    /\ EvGoto("construct", "write")
    /\ evPtr' = finish
    /\ UNCHANGED <<vecVars, wkVars, evReq, newStart, newLen, newCap, asked, fault>>

Construct ==
    /\ EvGoto("write", "bump")
    /\ Writable(evPtr)
    /\ mem' = [mem EXCEPT ![evPtr] = evReq]
    /\ UNCHANGED <<brk, start, finish, eos, wkVars, evReq, evPtr, newStart,
                   newLen, newCap, asked, fault>>

\* ++finish
LoadBump ==
    /\ EvGoto("bump", "store")
    /\ evPtr' = finish
    /\ UNCHANGED <<vecVars, wkVars, evReq, newStart, newLen, newCap, asked, fault>>

\* A variant with one slip: the increment left out.
StoreBumpForgotten ==
    /\ EvGoto("store", "idle")
    /\ UNCHANGED <<vecVars, wkVars, evReq, evPtr, newStart, newLen, newCap, asked, fault>>

StoreBump ==
    /\ EvGoto("store", "idle")
    /\ finish' = evPtr + 1
    /\ UNCHANGED <<mem, brk, start, eos, wkVars, evReq, evPtr, newStart,
                   newLen, newCap, asked, fault>>

\* _M_emplace_back_aux: a full vector moves to a buffer of twice the size.
Size == finish - start

Allocate ==
    /\ EvGoto("alloc", "new")
    /\ Size >= 0
    /\ newCap' = IF Size = 0 THEN 1 ELSE 2 * Size
    /\ brk + newCap' <= MaxAddr
    /\ newStart' = brk
    /\ brk' = brk + newCap' + 1
    /\ UNCHANGED <<mem, start, finish, eos, wkVars, evReq, evPtr, newLen, asked, fault>>

ConstructNew ==
    /\ EvGoto("new", "copy")
    /\ Size \in 0 .. newCap - 1
    /\ mem' = [mem EXCEPT ![newStart + Size] = evReq]
    /\ UNCHANGED <<brk, start, finish, eos, wkVars, evReq, evPtr, newStart,
                   newLen, newCap, asked, fault>>

\* A variant with one slip: the two ends of the length swapped.
CopyOldBackwards ==
    /\ EvGoto("copy", "free")
    /\ newLen' = start - finish + 1
    /\ UNCHANGED <<vecVars, wkVars, evReq, evPtr, newStart, newCap, asked, fault>>

CopyOld ==
    /\ EvGoto("copy", "free")
    /\ Size \in 0 .. newCap - 1
    /\ \A a \in start .. finish - 1 : Constructed(a)
    /\ mem' = [a \in Addr |->
                IF a \in newStart .. newStart + Size - 1
                THEN mem[start + (a - newStart)] ELSE mem[a]]
    /\ newLen' = Size + 1
    /\ UNCHANGED <<brk, start, finish, eos, wkVars, evReq, evPtr, newStart,
                   newCap, asked, fault>>

\* The requests are destroyed and the old buffer freed.
FreeOld ==
    /\ EvGoto("free", "setStart")
    /\ mem' = [a \in Addr |-> IF a \in start .. eos - 1 THEN Raw ELSE mem[a]]
    /\ UNCHANGED <<brk, start, finish, eos, wkVars, evReq, evPtr, newStart,
                   newLen, newCap, asked, fault>>

SetStart ==
    /\ EvGoto("setStart", "setFinish")
    /\ start' = newStart
    /\ UNCHANGED <<mem, brk, finish, eos, wkVars, evReq, evPtr, newStart,
                   newLen, newCap, asked, fault>>

SetFinish ==
    /\ EvGoto("setFinish", "setEnd")
    /\ finish' = newStart + newLen
    /\ UNCHANGED <<mem, brk, start, eos, wkVars, evReq, evPtr, newStart,
                   newLen, newCap, asked, fault>>

SetEnd ==
    /\ EvGoto("setEnd", "idle")
    /\ eos' = newStart + newCap
    /\ UNCHANGED <<mem, brk, start, finish, wkVars, evReq, evPtr, newStart,
                   newLen, newCap, asked, fault>>

\* The steps above where they are undefined: a write outside the buffer, a
\* negative size, a request that is not there.
EvFault ==
    /\ \/ EvAt("write") /\ ~Writable(evPtr)
       \/ EvAt("alloc") /\ Size < 0
       \/ EvAt("new") /\ Size \notin 0 .. newCap - 1
       \/ EvAt("copy") /\ Size \notin 0 .. newCap - 1
       \/ EvAt("copy") /\ \E a \in start .. finish - 1 : ~Constructed(a)
    /\ Fault

EventThread ==
    \/ \E id \in Ids : PushBack(id)
    \/ LoadFinish \/ CompareEnd \/ LoadSlot \/ Construct \/ LoadBump \/ StoreBump
    \/ Allocate \/ ConstructNew \/ CopyOld \/ FreeOld
    \/ SetStart \/ SetFinish \/ SetEnd
    \/ EvFault
-----------------------------------------------------------------------------
(* The worker: startLoc, then finishLoc.                                   *)

WkAt(pc) == ~fault /\ wkPc = pc
WkGoto(from, to) == WkAt(from) /\ wkPc' = to

\* startLoc: size()
LoadSize ==
    /\ WkGoto("size", "sizeEnd")
    /\ Overlap \/ evPc = "idle"
    /\ wkPtr' = finish
    /\ UNCHANGED <<vecVars, evVars, held, answered, results, fault>>

\* A variant with one slip: the test for an empty queue left out.
CompareSizeAlways ==
    /\ WkGoto("sizeEnd", "front")
    /\ UNCHANGED <<vecVars, evVars, wkPtr, held, answered, results, fault>>

CompareSize ==
    /\ WkAt("sizeEnd")
    /\ wkPc' = IF wkPtr = start THEN "size" ELSE "front"
    /\ UNCHANGED <<vecVars, evVars, wkPtr, held, answered, results, fault>>

\* startLoc: front()
LoadFront ==
    /\ WkGoto("front", "frontRead")
    /\ wkPtr' = start
    /\ UNCHANGED <<vecVars, evVars, held, answered, results, fault>>

ReadFront ==
    /\ WkGoto("frontRead", "between")
    /\ Constructed(wkPtr)
    /\ held' = mem[wkPtr]
    /\ UNCHANGED <<vecVars, evVars, wkPtr, answered, results, fault>>

\* finishLoc is called
FinishLoc ==
    /\ WkGoto("between", "frontAgain")
    /\ Overlap \/ evPc = "idle"
    /\ UNCHANGED <<vecVars, evVars, wkPtr, held, answered, results, fault>>

LoadFrontAgain ==
    /\ WkGoto("frontAgain", "compare")
    /\ wkPtr' = start
    /\ UNCHANGED <<vecVars, evVars, held, answered, results, fault>>

\* return if the ids differ, otherwise store the result
CompareIds ==
    /\ WkAt("compare")
    /\ Constructed(wkPtr)
    /\ IF held.id # mem[wkPtr].id
       THEN wkPc' = "size" /\ UNCHANGED <<answered, results>>
       ELSE /\ wkPc' = "begin"
            /\ answered' = Append(answered, held)
            /\ results' = [results EXCEPT ![held.id] = Append(@, held)]
    /\ UNCHANGED <<vecVars, evVars, wkPtr, held, fault>>

\* erase(begin()): the later requests move down by one
LoadBegin ==
    /\ WkGoto("begin", "move")
    /\ wkPtr' = start
    /\ UNCHANGED <<vecVars, evVars, held, answered, results, fault>>

\* A variant with one slip: the requests do not move.
MoveDownForgotten ==
    /\ WkGoto("move", "dec")
    /\ UNCHANGED <<vecVars, evVars, wkPtr, held, answered, results, fault>>

\* With one request or fewer there is nothing to move.
Movable == finish > wkPtr + 1 => \A a \in wkPtr .. finish - 1 : Constructed(a)

MoveDown ==
    /\ WkGoto("move", "dec")
    /\ Movable
    /\ mem' = [a \in Addr |->
                IF a \in wkPtr .. finish - 2 THEN mem[a + 1] ELSE mem[a]]
    /\ UNCHANGED <<brk, start, finish, eos, evVars, wkPtr, held, answered, results, fault>>

\* --finish
LoadDec ==
    /\ WkGoto("dec", "decStore")
    /\ wkPtr' = finish
    /\ UNCHANGED <<vecVars, evVars, held, answered, results, fault>>

StoreDec ==
    /\ WkGoto("decStore", "destroy")
    /\ finish' = wkPtr - 1
    /\ UNCHANGED <<mem, brk, start, eos, evVars, wkPtr, held, answered, results, fault>>

\* the request at finish is destroyed
Destroy ==
    /\ WkGoto("destroy", "size")
    /\ Constructed(finish)
    /\ mem' = [mem EXCEPT ![finish] = Raw]
    /\ UNCHANGED <<brk, start, finish, eos, evVars, wkPtr, held, answered, results, fault>>

WkFault ==
    /\ \/ WkAt("frontRead") /\ ~Constructed(wkPtr)
       \/ WkAt("compare") /\ ~Constructed(wkPtr)
       \/ WkAt("move") /\ ~Movable
       \/ WkAt("destroy") /\ ~Constructed(finish)
    /\ Fault

Worker ==
    \/ LoadSize \/ CompareSize \/ LoadFront \/ ReadFront \/ FinishLoc
    \/ LoadFrontAgain \/ CompareIds \/ LoadBegin \/ MoveDown
    \/ LoadDec \/ StoreDec \/ Destroy
    \/ WkFault
-----------------------------------------------------------------------------
Stopped == fault /\ UNCHANGED vars

Next ==
    /\ EventThread \/ Worker \/ Stopped
    /\ UNCHANGED startedAs

Spec == Init /\ [][Next]_vars
-----------------------------------------------------------------------------
\* The requests in the vector.
Contents == [k \in 1 .. finish - start |-> mem[start + k - 1]]

\* MsgQueue.h, addLocItem and finishLoc: push_back adds the request, and only
\* the first one is deleted, when it is answered.  Whenever neither thread is in
\* a call, what was asked is what was answered and then what the vector holds.
NothingLost ==
    evPc = "idle" /\ wkPc = "size" /\ ~fault => asked = answered \o Contents

\* Until the first growth, finish stays between start and the end of storage
\* however the calls overlap: a lost update makes it stale, never out of range.
FinishInBuffer == start = Base /\ newCap = 0 => finish \in Base .. Base + Capacity

\* No undefined read, write or destruction.
NoFault == ~fault

\* In behaviours whose calls never overlap, whatever the capacity and through
\* every growth.
NothingLostInTurn == ~Overlap => NothingLost
NoFaultInTurn == ~Overlap => NoFault

Self(r) == r

Queue == INSTANCE RequestService WITH
    Users <- Ids,
    Requests <- Request,
    AnswerTo <- Self,
    asked <- IF Overlap THEN <<>> ELSE asked,
    answered <- IF Overlap THEN 0 ELSE Len(answered),
    results <- IF Overlap THEN [u \in Ids |-> <<>>] ELSE results,
    up <- ~fault

\* The vector and the two threads, when their calls do not overlap, implement the
\* first-in first-out service, as the other modules take for granted.  Behaviours
\* with overlap map to a service nobody asks.
ImplementsQueue == Queue!Spec
=============================================================================
