------------------------ MODULE RequestVector_proof -------------------------
(***************************************************************************)
(* What stays true of the vector of RequestVector however the calls of the *)
(* two threads overlap, for any capacity and any number of requests: the   *)
(* types of its words, and, until it first grows, the range of its end     *)
(* pointer, which is what keeps a lost update from becoming a write or a   *)
(* destruction outside the buffer.  When the calls do not overlap: that    *)
(* it loses nothing and is the first-in first-out service of               *)
(* RequestService.                                                         *)
(***************************************************************************)
EXTENDS RequestVector, TLAPS

\* The request the worker holds once it has copied one.
HeldIsRequest == wkPc \in {"between", "frontAgain", "compare"} => held \in Request

TInv == TypeOK /\ HeldIsRequest

\* Where the other thread is when it has checked that the vector is not full
\* (not empty) and has not stored the end pointer yet.
EvAdding == evPc \in {"construct", "write", "bump"}
WkErasing == wkPc \in {"front", "frontRead", "between", "frontAgain", "compare",
                       "begin", "move", "dec"}

Limit == Base + Capacity

\* Before the first growth.  The event thread keeps the vector from being full
\* until it has added its request, the worker keeps it from being empty until it
\* has erased one; each stores an end pointer that is right by the other's needs,
\* however old the value it was computed from.
BeforeGrowth ==
    /\ start = Base
    /\ eos = Limit
    /\ finish \in Base .. Limit
    /\ evPc \in {"idle", "cmp", "cmpEnd", "construct", "write", "bump", "store", "alloc"}
    /\ evPc = "cmpEnd" /\ evPtr # Limit => finish < Limit
    /\ EvAdding => finish < Limit
    /\ evPc = "store" => evPtr \in Base .. Limit - 1
    /\ wkPc = "sizeEnd" /\ wkPtr # Base => finish > Base
    /\ WkErasing => finish > Base
    /\ wkPc = "decStore" => wkPtr \in Base + 1 .. Limit

IInv == TInv /\ (newCap = 0 => BeforeGrowth)
-----------------------------------------------------------------------------
\* The addresses of the first buffer are numbers.
LEMMA BaseIsNat ==
    ASSUME startedAs \in Starts
    PROVE  /\ Base \in Nat /\ Capacity \in Nat /\ Limit \in Nat
           /\ Base <= Limit /\ Capacity < MaxAddr
BY VectorAssumption DEF Base, Limit, Capacity

\* A request is not the mark of an address where none is constructed: its n is
\* at least 1.
LEMMA RawIsNoRequest == Raw \notin Request
<1>1. SUFFICES ASSUME Raw \in Request PROVE FALSE
  OBVIOUS
<1>2. Raw.n \in 1 .. MaxRequests
  BY <1>1 DEF Request
<1>3. Raw.n = 0
  BY DEF Raw
<1> QED
  BY <1>2, <1>3, VectorAssumption

\* The event thread and the worker start idle, the vector empty.
LEMMA InitIInv == Init => IInv
<1> SUFFICES ASSUME Init PROVE IInv
  OBVIOUS
<1> USE DEF Init
<1>1. TypeOK
  <2>1. Base \in Addr
    BY BaseIsNat, VectorAssumption DEF Base, Addr
  <2>2. 0 \in Addr
    BY VectorAssumption DEF Addr
  <2>3. mem \in [Addr -> Request \cup {Raw}]
    OBVIOUS
  <2>4. Base \in Nat /\ Capacity \in Nat
    BY BaseIsNat
  <2>5. /\ asked \in Seq(Request) /\ answered \in Seq(Request)
        /\ results \in [Ids -> Seq(Request)]
    OBVIOUS
  <2> QED
    BY <2>1, <2>2, <2>3, <2>4, <2>5 DEF TypeOK
<1>2. HeldIsRequest
  BY DEF HeldIsRequest
<1>3. BeforeGrowth
  BY BaseIsNat DEF BeforeGrowth, EvAdding, WkErasing, Limit
<1> QED
  BY <1>1, <1>2, <1>3 DEF IInv, TInv

\* A step of the event thread leaves every variable well typed.
LEMMA EventThreadTypes == TInv /\ EventThread /\ UNCHANGED startedAs => TInv'
<1> SUFFICES ASSUME TInv, EventThread, UNCHANGED startedAs
             PROVE  TypeOK' /\ HeldIsRequest'
  BY DEF TInv
<1> USE VectorAssumption DEF TInv, TypeOK, HeldIsRequest, vecVars, evVars, wkVars,
                             EvAt, EvGoto
<1>1. ASSUME NEW id \in Ids, PushBack(id) PROVE TypeOK' /\ HeldIsRequest'
  <2>1. [id |-> id, n |-> Len(asked) + 1] \in Request
    BY <1>1 DEF PushBack, Request
  <2> QED BY <1>1, <2>1 DEF PushBack
<1>2. CASE LoadFinish
  BY <1>2 DEF LoadFinish
<1>3. CASE CompareEnd
  BY <1>3 DEF CompareEnd
<1>4. CASE LoadSlot
  BY <1>4 DEF LoadSlot
<1>5. CASE Construct
  BY <1>5 DEF Construct
<1>6. CASE LoadBump
  BY <1>6 DEF LoadBump
<1>7. CASE StoreBump
  BY <1>7 DEF StoreBump
<1>8. CASE Allocate
  <2>1. newCap' \in Nat /\ newCap' >= 1
    BY <1>8 DEF Allocate, Size, Addr
  <2>2. newStart' \in Addr /\ brk' \in Nat
    BY <1>8, <2>1 DEF Allocate, Addr
  <2> QED BY <1>8, <2>1, <2>2 DEF Allocate
<1>9. CASE ConstructNew
  BY <1>9 DEF ConstructNew
<1>10. CASE CopyOld
  <2>1. mem' \in [Addr -> Request \cup {Raw}]
    <3> SUFFICES ASSUME NEW a \in Addr, a \in newStart .. newStart + Size - 1
                 PROVE  mem[start + (a - newStart)] \in Request \cup {Raw}
      BY <1>10 DEF CopyOld
    <3>1. start \in Nat /\ newStart \in Nat /\ a \in Nat
      BY DEF Addr
    <3>2. start + (a - newStart) \in start .. finish - 1
      BY <3>1 DEF Size
    <3>3. Constructed(start + (a - newStart))
      BY <1>10, <3>2 DEF CopyOld
    <3> QED BY <3>3 DEF Constructed
  <2>2. newLen' \in Nat
    BY <1>10 DEF CopyOld
  <2> QED BY <1>10, <2>1, <2>2 DEF CopyOld
<1>11. CASE FreeOld
  BY <1>11 DEF FreeOld
<1>12. CASE SetStart
  BY <1>12 DEF SetStart
<1>13. CASE SetFinish
  BY <1>13 DEF SetFinish, Addr
<1>14. CASE SetEnd
  BY <1>14 DEF SetEnd, Addr
<1>15. CASE EvFault
  BY <1>15 DEF EvFault, Fault
<1> QED BY <1>1, <1>2, <1>3, <1>4, <1>5, <1>6, <1>7, <1>8, <1>9, <1>10, <1>11,
           <1>12, <1>13, <1>14, <1>15 DEF EventThread

\* A step of the worker does, too: a request that it holds was one in memory.
LEMMA WorkerTypes == TInv /\ Worker /\ UNCHANGED startedAs => TInv'
<1> SUFFICES ASSUME TInv, Worker, UNCHANGED startedAs
             PROVE  TypeOK' /\ HeldIsRequest'
  BY DEF TInv
<1> USE VectorAssumption DEF TInv, TypeOK, HeldIsRequest, vecVars, evVars, wkVars,
                             WkAt, WkGoto
<1>1. CASE LoadSize
  BY <1>1 DEF LoadSize
<1>2. CASE CompareSize
  BY <1>2 DEF CompareSize
<1>3. CASE LoadFront
  BY <1>3 DEF LoadFront, Addr
<1>4. CASE ReadFront
  <2>1. mem[wkPtr] \in Request
    BY <1>4 DEF ReadFront, Constructed
  <2> QED BY <1>4, <2>1 DEF ReadFront
<1>5. CASE FinishLoc
  BY <1>5 DEF FinishLoc
<1>6. CASE LoadFrontAgain
  BY <1>6 DEF LoadFrontAgain, Addr
<1>7. CASE CompareIds
  <2>1. answered' \in Seq(Request)
    <3>1. held \in Request /\ answered \in Seq(Request)
      BY <1>7 DEF CompareIds
    <3>2. answered' = answered \/ answered' = Append(answered, held)
      BY <1>7 DEF CompareIds
    <3> HIDE DEF TypeOK, HeldIsRequest
    <3> QED BY <3>1, <3>2
  <2>4. results' \in [Ids -> Seq(Request)]
    <3>1. held \in Request /\ held.id \in Ids /\ results \in [Ids -> Seq(Request)]
      BY <1>7 DEF CompareIds, Request
    <3>2. results' = results \/ results' = [results EXCEPT ![held.id] = Append(@, held)]
      BY <1>7 DEF CompareIds
    <3> HIDE DEF TypeOK, HeldIsRequest
    <3>3. Append(results[held.id], held) \in Seq(Request)
      BY <3>1
    <3> QED BY <3>1, <3>2, <3>3
  <2>2. wkPc' \in {"size", "begin"}
    BY <1>7 DEF CompareIds
  <2>3. /\ held' = held /\ wkPtr' = wkPtr /\ fault' = fault
        /\ UNCHANGED <<vecVars, evVars, startedAs>>
    BY <1>7 DEF CompareIds
  <2> QED BY <2>1, <2>2, <2>3, <2>4
<1>8. CASE LoadBegin
  BY <1>8 DEF LoadBegin, Addr
<1>9. CASE MoveDown
  <2>1. mem' \in [Addr -> Request \cup {Raw}]
    <3> SUFFICES ASSUME NEW a \in Addr, a \in wkPtr .. finish - 2
                 PROVE  mem[a + 1] \in Request \cup {Raw}
      BY <1>9 DEF MoveDown
    <3>1. a \in Nat
      BY DEF Addr
    <3>2. finish > wkPtr + 1 /\ a + 1 \in wkPtr .. finish - 1
      BY <3>1
    <3>3. Constructed(a + 1)
      BY <1>9, <3>2 DEF MoveDown, Movable
    <3> QED BY <3>3 DEF Constructed
  <2> QED BY <1>9, <2>1 DEF MoveDown
<1>10. CASE LoadDec
  BY <1>10 DEF LoadDec
<1>11. CASE StoreDec
  BY <1>11 DEF StoreDec
<1>12. CASE Destroy
  BY <1>12 DEF Destroy
<1>13. CASE WkFault
  BY <1>13 DEF WkFault, Fault
<1> QED BY <1>1, <1>2, <1>3, <1>4, <1>5, <1>6, <1>7, <1>8, <1>9, <1>10, <1>11,
           <1>12, <1>13 DEF Worker

\* Every step leaves every variable well typed.
LEMMA NextTypes == TInv /\ [Next]_vars => TInv'
<1> SUFFICES ASSUME TInv, [Next]_vars
             PROVE  TInv'
  OBVIOUS
<1>1. CASE EventThread /\ UNCHANGED startedAs
  BY <1>1, EventThreadTypes
<1>2. CASE Worker /\ UNCHANGED startedAs
  BY <1>2, WorkerTypes
<1>3. CASE UNCHANGED vars
  BY <1>3 DEF TInv, TypeOK, HeldIsRequest, vars, vecVars, evVars, wkVars
<1> QED BY <1>1, <1>2, <1>3 DEF Next, Stopped
-----------------------------------------------------------------------------
\* Once a buffer was allocated, newCap is never 0 again.
LEMMA CapacityStays == TInv /\ [Next]_vars /\ newCap' = 0 => newCap = 0 /\ ~Allocate
<1> SUFFICES ASSUME TInv, [Next]_vars, newCap' = 0
             PROVE  newCap = 0 /\ ~Allocate
  OBVIOUS
<1>1. ~Allocate
  BY DEF Allocate, Size, TInv, TypeOK, Addr
<1>2. newCap = newCap'
  <2>1. CASE EventThread
    BY <1>1, <2>1 DEF EventThread, PushBack, LoadFinish, CompareEnd, LoadSlot, Construct,
       LoadBump, StoreBump, ConstructNew, CopyOld, FreeOld, SetStart, SetFinish, SetEnd,
       EvFault, Fault, evVars
  <2>2. CASE Worker
    BY <2>2 DEF Worker, LoadSize, CompareSize, LoadFront, ReadFront, FinishLoc,
       LoadFrontAgain, CompareIds, LoadBegin, MoveDown, LoadDec, StoreDec, Destroy,
       WkFault, Fault, evVars
  <2>3. CASE UNCHANGED vars
    BY <2>3 DEF vars, evVars
  <2> QED BY <2>1, <2>2, <2>3 DEF Next, Stopped
<1> QED BY <1>1, <1>2

\* Before the first growth, a step of the event thread keeps the end pointer in
\* the buffer and what the worker counts on.
LEMMA EventThreadBeforeGrowth ==
    TInv /\ BeforeGrowth /\ EventThread /\ UNCHANGED startedAs /\ ~Allocate => BeforeGrowth'
<1> SUFFICES ASSUME TInv, BeforeGrowth, EventThread, UNCHANGED startedAs, ~Allocate
             PROVE  BeforeGrowth'
  OBVIOUS
<1>t. /\ finish \in Int /\ evPtr \in Int /\ wkPtr \in Int
      /\ Base \in Nat /\ Limit \in Nat
  BY BaseIsNat DEF TInv, TypeOK
<1>c. Base' = Base /\ Limit' = Limit
  BY DEF Base, Limit, Capacity
<1> USE <1>t, <1>c DEF BeforeGrowth, EvAdding, WkErasing, vecVars, wkVars, EvAt, EvGoto
<1>1. ASSUME NEW id \in Ids, PushBack(id) PROVE BeforeGrowth'
  BY <1>1 DEF PushBack
<1>2. CASE LoadFinish
  BY <1>2 DEF LoadFinish
<1>3. CASE CompareEnd
  BY <1>3 DEF CompareEnd
<1>4. CASE LoadSlot
  BY <1>4 DEF LoadSlot
<1>5. CASE Construct
  BY <1>5 DEF Construct
<1>6. CASE LoadBump
  BY <1>6 DEF LoadBump
<1>7. CASE StoreBump
  BY <1>7 DEF StoreBump
<1>8. CASE EvFault
  BY <1>8 DEF EvFault, Fault, evVars
<1>9. ~(ConstructNew \/ CopyOld \/ FreeOld \/ SetStart \/ SetFinish \/ SetEnd)
  BY DEF ConstructNew, CopyOld, FreeOld, SetStart, SetFinish, SetEnd
<1> QED BY <1>1, <1>2, <1>3, <1>4, <1>5, <1>6, <1>7, <1>8, <1>9 DEF EventThread

\* The same for a step of the worker and what the event thread counts on.
LEMMA WorkerBeforeGrowth ==
    TInv /\ BeforeGrowth /\ Worker /\ UNCHANGED startedAs => BeforeGrowth'
<1> SUFFICES ASSUME TInv, BeforeGrowth, Worker, UNCHANGED startedAs
             PROVE  BeforeGrowth'
  OBVIOUS
<1>t. /\ finish \in Int /\ evPtr \in Int /\ wkPtr \in Int
      /\ Base \in Nat /\ Limit \in Nat
  BY BaseIsNat DEF TInv, TypeOK
<1>c. Base' = Base /\ Limit' = Limit
  BY DEF Base, Limit, Capacity
<1> USE <1>t, <1>c DEF BeforeGrowth, EvAdding, WkErasing, vecVars, evVars, WkAt, WkGoto
<1>1. CASE LoadSize
  BY <1>1 DEF LoadSize
<1>2. CASE CompareSize
  BY <1>2 DEF CompareSize
<1>3. CASE LoadFront
  BY <1>3 DEF LoadFront
<1>4. CASE ReadFront
  BY <1>4 DEF ReadFront
<1>5. CASE FinishLoc
  BY <1>5 DEF FinishLoc
<1>6. CASE LoadFrontAgain
  BY <1>6 DEF LoadFrontAgain
<1>7. CASE CompareIds
  BY <1>7 DEF CompareIds
<1>8. CASE LoadBegin
  BY <1>8 DEF LoadBegin
<1>9. CASE MoveDown
  BY <1>9 DEF MoveDown
<1>10. CASE LoadDec
  BY <1>10 DEF LoadDec
<1>11. CASE StoreDec
  BY <1>11 DEF StoreDec
<1>12. CASE Destroy
  BY <1>12 DEF Destroy
<1>13. CASE WkFault
  BY <1>13 DEF WkFault, Fault, wkVars
<1> QED BY <1>1, <1>2, <1>3, <1>4, <1>5, <1>6, <1>7, <1>8, <1>9, <1>10, <1>11, <1>12,
           <1>13 DEF Worker

\* The conjunction of the above is an invariant.
THEOREM VectorInvariance == Spec => []IInv
<1>1. IInv /\ [Next]_vars => IInv'
  <2> SUFFICES ASSUME IInv, [Next]_vars, newCap' = 0
               PROVE  BeforeGrowth'
    BY NextTypes DEF IInv
  <2>1. BeforeGrowth /\ ~Allocate
    BY CapacityStays DEF IInv
  <2>2. CASE EventThread /\ UNCHANGED startedAs
    BY <2>1, <2>2, EventThreadBeforeGrowth DEF IInv
  <2>3. CASE Worker /\ UNCHANGED startedAs
    BY <2>1, <2>3, WorkerBeforeGrowth DEF IInv
  <2>4. CASE UNCHANGED vars
    BY <2>1, <2>4 DEF BeforeGrowth, EvAdding, WkErasing, Limit, Base, Capacity,
                      vars, vecVars, evVars, wkVars
  <2> QED BY <2>2, <2>3, <2>4 DEF Next, Stopped
<1> QED BY InitIInv, <1>1, PTL DEF Spec

\* The words of the vector keep their types, whatever the overlap.
THEOREM VectorTypeCorrect == Spec => []TypeOK
<1>1. IInv => TypeOK
  BY DEF IInv, TInv
<1> QED BY VectorInvariance, <1>1, PTL

\* Until the vector grows for the first time, overlapping push_back and erase
\* leave its end pointer in the buffer.
THEOREM FinishStaysInBuffer == Spec => []FinishInBuffer
<1>1. IInv => FinishInBuffer
  BY DEF IInv, BeforeGrowth, FinishInBuffer, Limit
<1> QED BY VectorInvariance, <1>1, PTL
-----------------------------------------------------------------------------
(* Calls in turn.                                                          *)

\* The numbers of the last request answered and of those left.
Done == Len(answered)
Left == Len(asked) - Len(answered)

\* The n places from an address on hold n requests, in the order they were asked,
\* the first of them request number k.
Holds(address, n, k) ==
    \A i \in 0 .. n - 1 : address + i \in Addr /\ mem[address + i] = asked[k + i]

VectorIs(n, k) ==
    /\ n >= 0
    /\ finish = start + n /\ finish <= eos
    /\ Holds(start, n, k)

\* A thread is in a call only while the other is in none, no fault came, and what
\* was answered are the requests asked first.
TakeTurns ==
    /\ ~fault
    /\ evPc = "idle" \/ wkPc \in {"size", "between"}
    /\ Left >= 0
    /\ \A i \in 1 .. Done : answered[i] = asked[i]

\* The buffer ends before the memory not allocated yet, and a call of push_back
\* works on the request asked last.
BufferIsOld ==
    /\ eos < brk /\ eos <= MaxAddr
    /\ evPc # "idle" => Left >= 1 /\ evReq = asked[Len(asked)]

\* The worker, while the event thread is in no call: the vector holds what is
\* left, and for a while the request answered last as well.
WorkerInTurn ==
    /\ wkPc \in {"front", "frontRead", "between", "frontAgain", "compare"} => Left >= 1
    /\ wkPc \in {"between", "frontAgain", "compare"} => held = asked[Done + 1]
    /\ wkPc \in {"frontRead", "compare", "move"} => wkPtr = start
    /\ wkPc \in {"sizeEnd", "decStore"} => wkPtr = finish
    /\ wkPc \in {"size", "sizeEnd", "front", "frontRead", "between", "frontAgain",
                 "compare", "destroy"} /\ evPc = "idle" => VectorIs(Left, Done + 1)
    /\ wkPc \in {"begin", "move"} => Done >= 1 /\ VectorIs(Left + 1, Done)
    /\ wkPc \in {"dec", "decStore"} =>
         /\ finish = start + Left + 1 /\ finish <= eos
         /\ Holds(start, Left, Done + 1)
         /\ Constructed(finish - 1)
    /\ wkPc = "destroy" => Constructed(finish)

\* The event thread, while the worker is in no call: the vector holds what is left
\* but the new request until that is complete, in its place or in the new buffer.
EventInTurn ==
    /\ evPc \in {"cmp", "cmpEnd", "construct", "write", "bump", "store", "alloc",
                 "new", "copy"} => VectorIs(Left - 1, Done + 1)
    /\ evPc \in {"construct", "write", "bump", "store"} => finish < eos
    /\ evPc \in {"cmpEnd", "write", "store"} => evPtr = finish
    /\ evPc \in {"bump", "store"} => mem[finish] = evReq
    /\ evPc \in {"new", "copy", "free", "setStart", "setFinish", "setEnd"} =>
         newStart + newCap < brk /\ newStart + newCap <= MaxAddr /\ Left <= newCap
    /\ evPc \in {"new", "copy", "free"} => eos < newStart
    /\ evPc = "copy" => mem[newStart + Left - 1] = evReq
    /\ evPc \in {"free", "setStart", "setFinish", "setEnd"} =>
         newLen = Left /\ Holds(newStart, Left, Done + 1)
    /\ evPc \in {"setFinish", "setEnd"} => start = newStart
    /\ evPc = "setEnd" => finish = newStart + Left

InTurn == TakeTurns /\ BufferIsOld /\ WorkerInTurn /\ EventInTurn

InTurnInv == Overlap \/ InTurn

\* What was asked and answered are sequences of requests, and a request is not Raw.
LEMMA Logs ==
    ASSUME TInv
    PROVE  /\ asked \in Seq(Request) /\ answered \in Seq(Request)
           /\ Len(asked) \in Nat /\ Done \in Nat /\ Left \in Int
           /\ \A i \in 1 .. Len(asked) : asked[i] \in Request /\ asked[i] # Raw
<1>1. asked \in Seq(Request) /\ answered \in Seq(Request)
  BY DEF TInv, TypeOK
<1> HIDE DEF TInv
<1>2. Len(asked) \in Nat /\ Len(answered) \in Nat
  BY <1>1
<1>3. \A i \in 1 .. Len(asked) : asked[i] \in Request
  BY <1>1
<1> QED BY <1>1, <1>2, <1>3, RawIsNoRequest DEF Done, Left

\* The threads take turns from the start.
LEMMA InitInTurn == Init => InTurn
<1> SUFFICES ASSUME Init
             PROVE  InTurn
  OBVIOUS
<1>1. Left = 0 /\ Done = 0
  BY DEF Init, Left, Done
<1>2. TakeTurns /\ EventInTurn
  BY <1>1 DEF Init, TakeTurns, EventInTurn
<1>3. BufferIsOld
  <2>1. Base + Capacity \in Nat /\ Base + Capacity <= MaxAddr
    BY BaseIsNat, VectorAssumption DEF Init, Base
  <2> QED BY <2>1 DEF Init, BufferIsOld
<1>4. WorkerInTurn
  BY <1>1, BaseIsNat DEF Init, WorkerInTurn, VectorIs, Holds
<1> QED BY <1>2, <1>3, <1>4 DEF InTurn

\* In turn nothing undefined happens.
LEMMA NoFaultStep == TInv /\ InTurn => ~EvFault /\ ~WkFault
<1> SUFFICES ASSUME TInv, InTurn
             PROVE  ~EvFault /\ ~WkFault
  OBVIOUS
<1>1. /\ start \in Nat /\ finish \in Int /\ eos \in Int
  BY DEF TInv, TypeOK, Addr
<1> USE <1>1, Logs DEF InTurn, TakeTurns
<1>2. ~EvFault
  <2>1. ~(EvAt("write") /\ ~Writable(evPtr))
    BY DEF EvAt, EventInTurn, VectorIs, Writable
  <2>2. ~(EvAt("alloc") /\ Size < 0)
    BY DEF EvAt, EventInTurn, VectorIs, Size
  <2>3. ~((EvAt("new") \/ EvAt("copy")) /\ Size \notin 0 .. newCap - 1)
    BY DEF EvAt, EventInTurn, VectorIs, Size, TInv, TypeOK
  <2>4. ~(EvAt("copy") /\ \E a \in start .. finish - 1 : ~Constructed(a))
    <3> SUFFICES ASSUME EvAt("copy"), NEW a \in start .. finish - 1
                 PROVE  Constructed(a)
      OBVIOUS
    <3>1. VectorIs(Left - 1, Done + 1)
      BY DEF EvAt, EventInTurn
    <3>2. a - start \in 0 .. Left - 1 - 1
      BY <3>1 DEF VectorIs
    <3>3. start + (a - start) \in Addr /\ mem[start + (a - start)] = asked[Done + 1 + (a - start)]
      BY <3>1, <3>2 DEF VectorIs, Holds
    <3>4. Done + 1 + (a - start) \in 1 .. Len(asked) /\ start + (a - start) = a
      BY <3>2 DEF Done, Left
    <3> QED BY <3>3, <3>4 DEF Constructed
  <2> QED BY <2>1, <2>2, <2>3, <2>4 DEF EvFault
<1>3. ~WkFault
  <2>1. ~((WkAt("frontRead") \/ WkAt("compare")) /\ ~Constructed(wkPtr))
    <3> SUFFICES ASSUME WkAt("frontRead") \/ WkAt("compare")
                 PROVE  Constructed(wkPtr)
      OBVIOUS
    <3>1. wkPtr = start /\ Left >= 1 /\ VectorIs(Left, Done + 1)
      BY DEF WkAt, WorkerInTurn
    <3>2. start + 0 \in Addr /\ mem[start + 0] = asked[Done + 1 + 0]
      BY <3>1 DEF VectorIs, Holds
    <3>3. Done + 1 \in 1 .. Len(asked)
      BY <3>1 DEF Done, Left
    <3> QED BY <3>1, <3>2, <3>3 DEF Constructed
  <2>2. ~(WkAt("move") /\ ~Movable)
    <3> SUFFICES ASSUME WkAt("move"), NEW a \in wkPtr .. finish - 1
                 PROVE  Constructed(a)
      BY DEF Movable
    <3>1. wkPtr = start /\ Done >= 1 /\ VectorIs(Left + 1, Done)
      BY DEF WkAt, WorkerInTurn
    <3>2. a - start \in 0 .. Left + 1 - 1
      BY <3>1 DEF VectorIs
    <3> DEFINE i == a - start
    <3>3. start + i \in Addr /\ mem[start + i] = asked[Done + i]
      <4>1. Holds(start, Left + 1, Done)
        BY <3>1 DEF VectorIs
      <4> HIDE DEF i
      <4> QED BY <3>2, <4>1 DEF Holds, i
    <3>4. Done + (a - start) \in 1 .. Len(asked) /\ start + (a - start) = a
      BY <3>1, <3>2 DEF Done, Left
    <3> QED BY <3>3, <3>4 DEF Constructed
  <2>3. ~(WkAt("destroy") /\ ~Constructed(finish))
    BY DEF WkAt, WorkerInTurn
  <2> QED BY <2>1, <2>2, <2>3 DEF WkFault
<1> QED BY <1>2, <1>3

\* One more request at the end.
LEMMA HoldsOneMore ==
    ASSUME NEW x \in Int, NEW n \in Nat, NEW k \in Int, Holds(x, n, k),
           x + n \in Addr, mem[x + n] = asked[k + n]
    PROVE  Holds(x, n + 1, k)
<1> SUFFICES ASSUME NEW i \in 0 .. n
             PROVE  x + i \in Addr /\ mem[x + i] = asked[k + i]
  BY DEF Holds
<1>1. CASE i = n
  BY <1>1
<1>2. CASE i # n
  <2>1. i \in 0 .. n - 1
    BY <1>2
  <2> QED BY <2>1 DEF Holds
<1> QED BY <1>1, <1>2

\* A step of the event thread that leaves the logs, the worker and the old buffer
\* leaves the worker what it counts on, when it is in the middle of a call of
\* push_back and goes on with it.
LEMMA WorkerWaits ==
    ASSUME TInv, InTurn, evPc # "idle", evPc' # "idle",
           UNCHANGED <<wkPc, held, asked, answered>>
    PROVE  WorkerInTurn'
<1>1. wkPc \in {"size", "between"} /\ Done' = Done /\ Left' = Left
  BY DEF InTurn, TakeTurns, Done, Left
<1> QED BY <1>1 DEF InTurn, WorkerInTurn

\* The call begins: the new request is left, the vector holds the others.
LEMMA PushBackInTurn ==
    ASSUME TInv, InTurn, ~Overlap, NEW id \in Ids, PushBack(id)
    PROVE  InTurn'
<1>1. /\ evPc = "idle" /\ evPc' = "cmp" /\ wkPc \in {"size", "between"} /\ ~fault /\ ~fault'
      /\ evReq' = [id |-> id, n |-> Len(asked) + 1]
      /\ asked' = Append(asked, evReq')
      /\ UNCHANGED <<vecVars, wkVars>>
  BY DEF PushBack, EvGoto, EvAt
<1>2. evReq' \in Request
  BY <1>1, Logs, VectorAssumption DEF PushBack, Request
<1>3. /\ Len(asked') = Len(asked) + 1
      /\ \A i \in 1 .. Len(asked) : asked'[i] = asked[i]
      /\ asked'[Len(asked')] = evReq'
  BY <1>1, <1>2, Logs
<1>4. Done' = Done /\ Left' = Left + 1 /\ Left >= 0 /\ Done \in Nat /\ Left \in Int
  BY <1>1, <1>3, Logs DEF wkVars, Done, Left, InTurn, TakeTurns
<1>5. TakeTurns'
  <2>1. \A i \in 1 .. Done : answered[i] = asked[i] /\ i \in 1 .. Len(asked)
    BY <1>4, Logs DEF Done, Left, InTurn, TakeTurns
  <2> QED BY <1>1, <1>3, <1>4, <2>1 DEF TakeTurns, wkVars
<1>6. BufferIsOld'
  BY <1>1, <1>3, <1>4 DEF BufferIsOld, InTurn, vecVars
<1>7. WorkerInTurn'
  <2>1. wkPc = "between" => Left >= 1 /\ held = asked[Done + 1]
    BY DEF InTurn, WorkerInTurn
  <2>2. wkPc = "between" => Done + 1 \in 1 .. Len(asked)
    BY <1>4, <2>1, Logs DEF Done, Left
  <2> QED BY <1>1, <1>3, <1>4, <2>1, <2>2 DEF WorkerInTurn, wkVars
<1>8. VectorIs(Left - 1, Done + 1)'
  <2>1. VectorIs(Left, Done + 1)
    BY <1>1 DEF InTurn, WorkerInTurn
  <2>2. \A i \in 0 .. Left - 1 : Done + 1 + i \in 1 .. Len(asked)
    BY <1>4, Logs DEF Done, Left
  <2>3. /\ Left' - 1 = Left /\ Done' + 1 = Done + 1
        /\ UNCHANGED <<mem, start, finish, eos>>
    BY <1>1, <1>4 DEF vecVars
  <2>4. Holds(start, Left - 1, Done + 1)'
    <3> SUFFICES ASSUME NEW i \in 0 .. Left - 1
                 PROVE  start + i \in Addr /\ mem[start + i] = asked'[Done + 1 + i]
      BY <2>3 DEF Holds
    <3> QED BY <1>3, <2>1, <2>2 DEF VectorIs, Holds
  <2> QED BY <1>4, <2>1, <2>3, <2>4 DEF VectorIs
<1> QED BY <1>1, <1>4, <1>5, <1>6, <1>7, <1>8 DEF InTurn, EventInTurn

\* What the event thread finds in the middle of a call.
LEMMA MidPush ==
    ASSUME TInv, InTurn, ~fault, evPc # "idle"
    PROVE  /\ wkPc \in {"size", "between"}
           /\ start \in Nat /\ finish \in Int /\ eos \in Int /\ evPtr \in Int
           /\ brk \in Nat /\ newStart \in Nat /\ newLen \in Nat /\ newCap \in Nat
           /\ mem \in [Addr -> Request \cup {Raw}]
           /\ Left \in Nat /\ Left >= 1 /\ Done \in Nat
           /\ Done + Left = Len(asked)
           /\ evReq = asked[Len(asked)] /\ evReq \in Request
           /\ eos < brk /\ eos <= MaxAddr
           /\ MaxAddr \in Nat
<1>1. /\ start \in Nat /\ finish \in Int /\ eos \in Int /\ evPtr \in Int
      /\ brk \in Nat /\ newStart \in Nat /\ newLen \in Nat /\ newCap \in Nat
      /\ mem \in [Addr -> Request \cup {Raw}]
  BY DEF TInv, TypeOK, Addr
<1>2. wkPc \in {"size", "between"} /\ Left >= 1 /\ evReq = asked[Len(asked)]
      /\ eos < brk /\ eos <= MaxAddr
  BY DEF InTurn, TakeTurns, BufferIsOld
<1>3. Left \in Nat /\ Done \in Nat /\ Done + Left = Len(asked)
  BY <1>2, Logs DEF Left, Done
<1>4. Len(asked) \in 1 .. Len(asked)
  BY <1>2, <1>3
<1> QED BY <1>1, <1>2, <1>3, <1>4, Logs, VectorAssumption

\* Loads and the comparison change only the pointer loaded and what comes next.
LEMMA EvLoadInTurn ==
    ASSUME TInv, InTurn, LoadFinish \/ CompareEnd \/ LoadSlot \/ LoadBump
    PROVE  InTurn'
<1>1. /\ ~fault /\ ~fault' /\ evPc # "idle" /\ evPc' # "idle"
      /\ UNCHANGED <<vecVars, wkVars, evReq, newStart, newLen, newCap, asked>>
  BY DEF LoadFinish, CompareEnd, LoadSlot, LoadBump, EvGoto, EvAt
<1>2. /\ wkPc \in {"size", "between"} /\ evPtr \in Int /\ finish \in Int
      /\ Left' = Left /\ Done' = Done
  BY <1>1, MidPush DEF wkVars, Left, Done
<1>3. TakeTurns' /\ BufferIsOld' /\ WorkerInTurn'
  BY <1>1, <1>2, WorkerWaits DEF InTurn, TakeTurns, BufferIsOld, wkVars, vecVars
<1>4. \A n, k : VectorIs(n, k) => VectorIs(n, k)'
  BY <1>1 DEF VectorIs, Holds, vecVars
<1>5. EventInTurn'
  <2>1. CASE LoadFinish
    BY <1>1, <1>2, <1>4, <2>1 DEF LoadFinish, EvGoto, EvAt, InTurn, EventInTurn, vecVars
  <2>2. CASE CompareEnd
    BY <1>1, <1>2, <1>4, <2>2, MidPush DEF CompareEnd, EvAt, InTurn, EventInTurn, VectorIs, vecVars
  <2>3. CASE LoadSlot
    BY <1>1, <1>2, <1>4, <2>3 DEF LoadSlot, EvGoto, EvAt, InTurn, EventInTurn, vecVars
  <2>4. CASE LoadBump
    BY <1>1, <1>2, <1>4, <2>4 DEF LoadBump, EvGoto, EvAt, InTurn, EventInTurn, vecVars
  <2> QED BY <2>1, <2>2, <2>3, <2>4
<1> QED BY <1>3, <1>5 DEF InTurn

\* The request is written behind the others.
LEMMA ConstructInTurn ==
    ASSUME TInv, InTurn, Construct
    PROVE  InTurn'
<1>1. /\ ~fault /\ ~fault' /\ evPc = "write" /\ evPc' = "bump"
      /\ mem' = [mem EXCEPT ![evPtr] = evReq]
      /\ UNCHANGED <<brk, start, finish, eos, wkVars, evReq, asked>>
  BY DEF Construct, EvGoto, EvAt
<1>2. /\ VectorIs(Left - 1, Done + 1) /\ finish < eos /\ evPtr = finish
  BY <1>1 DEF InTurn, EventInTurn
<1>3. Left' = Left /\ Done' = Done
  BY <1>1 DEF wkVars, Left, Done
<1>4. TakeTurns' /\ BufferIsOld' /\ WorkerInTurn'
  BY <1>1, <1>3, MidPush, WorkerWaits DEF InTurn, TakeTurns, BufferIsOld, wkVars
<1>5. finish \in Addr
  BY <1>1, <1>2, MidPush DEF VectorIs, Addr
<1>6. mem'[finish] = evReq
  BY <1>1, <1>2, <1>5, MidPush
<1>7. VectorIs(Left - 1, Done + 1)'
  <2>1. ASSUME NEW i \in 0 .. Left - 1 - 1
        PROVE  start + i \in Addr /\ mem'[start + i] = asked[Done + 1 + i]
    <3>1. start + i # finish
      BY <1>1, <1>2, MidPush DEF VectorIs
    <3> QED BY <1>1, <1>2, <3>1, MidPush DEF VectorIs, Holds
  <2> QED BY <1>1, <1>2, <1>3, <2>1 DEF VectorIs, Holds
<1>8. EventInTurn'
  BY <1>1, <1>2, <1>6, <1>7 DEF EventInTurn
<1> QED BY <1>4, <1>8 DEF InTurn

\* With the end pointer moved the vector holds all that is left.
LEMMA StoreBumpInTurn ==
    ASSUME TInv, InTurn, StoreBump
    PROVE  InTurn'
<1>1. /\ ~fault /\ ~fault' /\ evPc = "store" /\ evPc' = "idle"
      /\ finish' = evPtr + 1
      /\ UNCHANGED <<mem, brk, start, eos, wkVars, evReq, asked>>
  BY DEF StoreBump, EvGoto, EvAt
<1>2. /\ VectorIs(Left - 1, Done + 1) /\ finish < eos /\ evPtr = finish
      /\ mem[finish] = evReq
  BY <1>1 DEF InTurn, EventInTurn
<1>3. Left' = Left /\ Done' = Done
  BY <1>1 DEF wkVars, Left, Done
<1>4. TakeTurns' /\ BufferIsOld'
  BY <1>1, <1>3, MidPush DEF InTurn, TakeTurns, BufferIsOld, wkVars
<1>m. /\ start \in Nat /\ finish \in Int /\ eos \in Int /\ MaxAddr \in Nat
      /\ Left \in Nat /\ Left >= 1 /\ Done \in Nat /\ Done + Left = Len(asked)
      /\ evReq = asked[Len(asked)] /\ eos <= MaxAddr
  BY <1>1, MidPush
<1>v. finish = start + (Left - 1) /\ Holds(start, Left - 1, Done + 1)
  BY <1>2 DEF VectorIs
<1> HIDE DEF Left, Done
<1>5. /\ finish \in Addr /\ Left - 1 \in Nat /\ Done + 1 \in Int /\ (Left - 1) + 1 = Left
      /\ Done + 1 + (Left - 1) = Len(asked) /\ finish + 1 = start + Left /\ finish + 1 <= eos
  <2>1. finish < eos
    BY <1>2
  <2> QED BY <1>m, <1>v, <2>1 DEF Addr
<1>6. Holds(start, Left, Done + 1)
  <2>1. start + (Left - 1) \in Addr
    BY <1>v, <1>5
  <2>2. mem[start + (Left - 1)] = asked[Done + 1 + (Left - 1)]
    BY <1>2, <1>m, <1>v, <1>5
  <2>3. start \in Int
    BY <1>m
  <2>4. Holds(start, (Left - 1) + 1, Done + 1)
    BY <1>v, <1>5, <2>1, <2>2, <2>3, HoldsOneMore
  <2> QED BY <1>5, <2>4
<1>7. VectorIs(Left, Done + 1)'
  <2>1. finish' = start + Left /\ start + Left <= eos /\ Left >= 0
    BY <1>1, <1>2, <1>m, <1>5
  <2>2. Holds(start, Left, Done + 1)'
    BY <1>1, <1>3, <1>6 DEF Holds
  <2> QED BY <1>1, <1>3, <2>1, <2>2 DEF VectorIs
<1>8. WorkerInTurn'
  BY <1>1, <1>3, <1>7, MidPush DEF InTurn, WorkerInTurn, wkVars
<1> QED BY <1>1, <1>4, <1>8 DEF InTurn, EventInTurn

\* The new buffer lies behind everything, with room for all that is left.
LEMMA AllocateInTurn ==
    ASSUME TInv, InTurn, Allocate
    PROVE  InTurn'
<1>1. /\ ~fault /\ ~fault' /\ evPc = "alloc" /\ evPc' = "new"
      /\ newCap' = IF Size = 0 THEN 1 ELSE 2 * Size
      /\ brk + newCap' <= MaxAddr
      /\ newStart' = brk
      /\ brk' = brk + newCap' + 1
      /\ UNCHANGED <<mem, start, finish, eos, wkVars, evReq, newLen, asked>>
  BY DEF Allocate, EvGoto, EvAt
<1>1a. /\ start \in Nat /\ finish \in Int /\ eos \in Int /\ brk \in Nat
      /\ newStart \in Nat /\ newCap \in Nat /\ Left \in Nat /\ Left >= 1
      /\ Done \in Nat /\ Done + Left = Len(asked) /\ MaxAddr \in Nat /\ eos < brk
  BY <1>1, MidPush
<1>2. VectorIs(Left - 1, Done + 1)
  BY <1>1 DEF InTurn, EventInTurn
<1>3. Left' = Left /\ Done' = Done
  BY <1>1 DEF wkVars, Left, Done
<1>4. Size = Left - 1
  BY <1>1a, <1>2 DEF VectorIs, Size
<1>5. newCap' \in Nat /\ Left <= newCap'
  BY <1>1, <1>1a, <1>4
<1>6. TakeTurns' /\ BufferIsOld' /\ WorkerInTurn'
  <2>1. TakeTurns'
    BY <1>1, <1>3 DEF InTurn, TakeTurns, wkVars
  <2>2. eos < brk'
    BY <1>1, <1>1a, <1>5
  <2>3. BufferIsOld'
    BY <1>1, <1>3, <2>2 DEF InTurn, BufferIsOld
  <2>4. WorkerInTurn'
    BY <1>1, WorkerWaits DEF wkVars
  <2> QED BY <2>1, <2>3, <2>4
<1>7. VectorIs(Left - 1, Done + 1)'
  BY <1>1, <1>2, <1>3 DEF VectorIs, Holds
<1>8. EventInTurn'
  BY <1>1, <1>1a, <1>3, <1>5, <1>7 DEF EventInTurn
<1> QED BY <1>6, <1>8 DEF InTurn

\* The new request goes to its place in the new buffer, the old one is as it was.
LEMMA ConstructNewInTurn ==
    ASSUME TInv, InTurn, ConstructNew
    PROVE  InTurn'
<1>1. /\ ~fault /\ ~fault' /\ evPc = "new" /\ evPc' = "copy"
      /\ mem' = [mem EXCEPT ![newStart + Size] = evReq]
      /\ UNCHANGED <<brk, start, finish, eos, wkVars, evReq, newStart, newLen, newCap, asked>>
  BY DEF ConstructNew, EvGoto, EvAt
<1>1a. /\ start \in Nat /\ finish \in Int /\ eos \in Int /\ brk \in Nat
      /\ newStart \in Nat /\ newCap \in Nat /\ Left \in Nat /\ Left >= 1
      /\ Done \in Nat /\ Done + Left = Len(asked) /\ MaxAddr \in Nat /\ eos < brk
  BY <1>1, MidPush
<1>2. /\ VectorIs(Left - 1, Done + 1)
      /\ newStart + newCap < brk /\ newStart + newCap <= MaxAddr /\ Left <= newCap
      /\ eos < newStart
  BY <1>1 DEF InTurn, EventInTurn
<1>3. Left' = Left /\ Done' = Done
  BY <1>1 DEF wkVars, Left, Done
<1>4. Size = Left - 1 /\ newStart + (Left - 1) \in Addr
  BY <1>1a, <1>2 DEF VectorIs, Size, Addr
<1>5. TakeTurns' /\ BufferIsOld' /\ WorkerInTurn'
  BY <1>1, <1>3, MidPush, WorkerWaits DEF InTurn, TakeTurns, BufferIsOld, wkVars
<1>6. VectorIs(Left - 1, Done + 1)'
  <2>1. ASSUME NEW i \in 0 .. Left - 1 - 1
        PROVE  start + i \in Addr /\ mem'[start + i] = asked[Done + 1 + i]
    <3>1. start + i # newStart + Size
      BY <1>1a, <1>2, <1>4 DEF VectorIs
    <3> QED BY <1>1, <1>2, <3>1, MidPush DEF VectorIs, Holds
  <2> QED BY <1>1, <1>2, <1>3, <2>1 DEF VectorIs, Holds
<1>7. mem'[newStart + Left - 1] = evReq
  <2>1. newStart + Left - 1 = newStart + Size
    BY <1>1a, <1>4
  <2>2. newStart + Size \in Addr
    BY <1>4
  <2> QED BY <1>1, <2>1, <2>2, MidPush
<1>8. EventInTurn'
  BY <1>1, <1>2, <1>3, <1>6, <1>7 DEF EventInTurn
<1> QED BY <1>5, <1>8 DEF InTurn

\* The others go before it.
LEMMA CopyOldInTurn ==
    ASSUME TInv, InTurn, CopyOld
    PROVE  InTurn'
<1>1. /\ ~fault /\ ~fault' /\ evPc = "copy" /\ evPc' = "free"
      /\ mem' = [a \in Addr |->
                  IF a \in newStart .. newStart + Size - 1
                  THEN mem[start + (a - newStart)] ELSE mem[a]]
      /\ newLen' = Size + 1
      /\ UNCHANGED <<brk, start, finish, eos, wkVars, evReq, newStart, newCap, asked>>
  BY DEF CopyOld, EvGoto, EvAt
<1>1a. /\ start \in Nat /\ finish \in Int /\ eos \in Int /\ brk \in Nat
      /\ newStart \in Nat /\ newCap \in Nat /\ Left \in Nat /\ Left >= 1
      /\ Done \in Nat /\ Done + Left = Len(asked) /\ MaxAddr \in Nat /\ eos < brk
  BY <1>1, MidPush
<1>2. /\ VectorIs(Left - 1, Done + 1)
      /\ newStart + newCap < brk /\ newStart + newCap <= MaxAddr /\ Left <= newCap
      /\ eos < newStart
      /\ mem[newStart + Left - 1] = evReq
  BY <1>1 DEF InTurn, EventInTurn
<1>3. Left' = Left /\ Done' = Done
  BY <1>1 DEF wkVars, Left, Done
<1>4. Size = Left - 1
  BY <1>1a, <1>2 DEF VectorIs, Size
<1>5. TakeTurns' /\ BufferIsOld' /\ WorkerInTurn'
  BY <1>1, <1>3, MidPush, WorkerWaits DEF InTurn, TakeTurns, BufferIsOld, wkVars
<1>6. Holds(newStart, Left, Done + 1)'
  <2>1. ASSUME NEW i \in 0 .. Left - 1
        PROVE  newStart + i \in Addr /\ mem'[newStart + i] = asked[Done + 1 + i]
    <3>1. newStart + i \in Addr
      BY <1>1a, <1>2 DEF Addr
    <3>2. CASE i = Left - 1
      <4>1. ~(newStart + i \in newStart .. newStart + Size - 1)
        BY <1>1a, <1>4, <3>2
      <4>2. newStart + i = newStart + Left - 1 /\ Done + 1 + i = Len(asked)
        BY <1>1a, <3>2
      <4> QED BY <1>1, <1>2, <3>1, <4>1, <4>2, MidPush
    <3>3. CASE i # Left - 1
      <4>1. /\ newStart + i \in newStart .. newStart + Size - 1
            /\ start + ((newStart + i) - newStart) = start + i
            /\ i \in 0 .. Left - 1 - 1
        BY <1>1a, <1>4, <3>3
      <4>2. mem'[newStart + i] = mem[start + i]
        BY <1>1, <3>1, <4>1
      <4> QED BY <1>2, <3>1, <4>1, <4>2 DEF VectorIs, Holds
    <3> QED BY <3>2, <3>3
  <2> QED BY <1>1, <1>3, <2>1 DEF Holds
<1>7. newLen' = Left
  BY <1>1, <1>1a, <1>4
<1>8. EventInTurn'
  BY <1>1, <1>2, <1>3, <1>6, <1>7 DEF EventInTurn
<1> QED BY <1>5, <1>8 DEF InTurn

\* Destroying the requests of the old buffer leaves the new one alone.
LEMMA FreeOldInTurn ==
    ASSUME TInv, InTurn, FreeOld
    PROVE  InTurn'
<1>1. /\ ~fault /\ ~fault' /\ evPc = "free" /\ evPc' = "setStart"
      /\ mem' = [a \in Addr |-> IF a \in start .. eos - 1 THEN Raw ELSE mem[a]]
      /\ UNCHANGED <<brk, start, finish, eos, wkVars, evReq, newStart, newLen, newCap, asked>>
  BY DEF FreeOld, EvGoto, EvAt
<1>2. /\ newStart + newCap < brk /\ newStart + newCap <= MaxAddr /\ Left <= newCap
      /\ eos < newStart
      /\ newLen = Left /\ Holds(newStart, Left, Done + 1)
  BY <1>1 DEF InTurn, EventInTurn
<1>3. Left' = Left /\ Done' = Done
  BY <1>1 DEF wkVars, Left, Done
<1>4. TakeTurns' /\ BufferIsOld' /\ WorkerInTurn'
  BY <1>1, <1>3, MidPush, WorkerWaits DEF InTurn, TakeTurns, BufferIsOld, wkVars
<1>5. Holds(newStart, Left, Done + 1)'
  <2>1. ASSUME NEW i \in 0 .. Left - 1
        PROVE  newStart + i \in Addr /\ mem'[newStart + i] = asked[Done + 1 + i]
    <3>1. ~(newStart + i \in start .. eos - 1)
      BY <1>1, <1>2, MidPush
    <3> QED BY <1>1, <1>2, <3>1 DEF Holds
  <2> QED BY <1>1, <1>3, <2>1 DEF Holds
<1>6. EventInTurn'
  BY <1>1, <1>2, <1>3, <1>5 DEF EventInTurn
<1> QED BY <1>4, <1>6 DEF InTurn

\* The three words of the vector follow; with the last the call is over.
LEMMA SetWordsInTurn ==
    ASSUME TInv, InTurn, SetStart \/ SetFinish \/ SetEnd
    PROVE  InTurn'
<1>1. /\ ~fault /\ ~fault' /\ evPc \in {"setStart", "setFinish", "setEnd"}
      /\ UNCHANGED <<mem, brk, wkVars, evReq, newStart, newLen, newCap, asked>>
  BY DEF SetStart, SetFinish, SetEnd, EvGoto, EvAt
<1>2. /\ newStart + newCap < brk /\ newStart + newCap <= MaxAddr /\ Left <= newCap
      /\ newLen = Left /\ Holds(newStart, Left, Done + 1)
  BY <1>1 DEF InTurn, EventInTurn
<1>3. Left' = Left /\ Done' = Done
  BY <1>1 DEF wkVars, Left, Done
<1>4. Holds(newStart, Left, Done + 1)'
  BY <1>1, <1>2, <1>3 DEF Holds
<1>5. TakeTurns'
  BY <1>1, <1>3, MidPush DEF InTurn, TakeTurns, wkVars
<1>6. CASE SetStart \/ SetFinish
  <2>1. BufferIsOld' /\ WorkerInTurn'
    BY <1>1, <1>3, <1>6, MidPush, WorkerWaits
       DEF SetStart, SetFinish, EvGoto, EvAt, BufferIsOld, wkVars
  <2>2. EventInTurn'
    BY <1>1, <1>2, <1>3, <1>4, <1>6
       DEF SetStart, SetFinish, EvGoto, EvAt, InTurn, EventInTurn
  <2> QED BY <1>5, <2>1, <2>2 DEF InTurn
<1>7. CASE SetEnd
  <2>1. /\ evPc' = "idle" /\ eos' = newStart + newCap
        /\ start' = newStart /\ finish' = newStart + Left
    BY <1>1, <1>7 DEF SetEnd, EvGoto, EvAt, InTurn, EventInTurn
  <2>2. VectorIs(Left, Done + 1)'
    BY <1>1, <1>2, <1>3, <1>4, <2>1, MidPush DEF VectorIs, Holds
  <2>3. BufferIsOld' /\ EventInTurn'
    BY <1>1, <1>2, <2>1 DEF BufferIsOld, EventInTurn
  <2>4. WorkerInTurn'
    BY <1>1, <1>3, <2>2, MidPush DEF InTurn, WorkerInTurn, wkVars
  <2> QED BY <1>5, <2>3, <2>4 DEF InTurn
<1> QED BY <1>6, <1>7

\* What the worker finds in a call, or when it starts one.
LEMMA MidErase ==
    ASSUME TInv, InTurn, evPc = "idle"
    PROVE  /\ start \in Nat /\ finish \in Int /\ eos \in Int /\ wkPtr \in Int
           /\ mem \in [Addr -> Request \cup {Raw}]
           /\ Left \in Nat /\ Done \in Nat /\ Done + Left = Len(asked)
           /\ MaxAddr \in Nat
<1>1. /\ start \in Nat /\ finish \in Int /\ eos \in Int /\ wkPtr \in Int
      /\ mem \in [Addr -> Request \cup {Raw}]
  BY DEF TInv, TypeOK, Addr
<1>2. Left \in Nat /\ Done \in Nat /\ Done + Left = Len(asked)
  BY Logs DEF Left, Done, InTurn, TakeTurns
<1> QED BY <1>1, <1>2, VectorAssumption

\* Steps of the worker that only load, compare and copy.
LEMMA WkLoadInTurn ==
    ASSUME TInv, InTurn, ~Overlap,
           LoadSize \/ CompareSize \/ LoadFront \/ ReadFront \/ FinishLoc
             \/ LoadFrontAgain \/ LoadBegin \/ LoadDec
    PROVE  InTurn'
<1> USE DEF WkGoto, WkAt
<1>1. /\ ~fault /\ ~fault' /\ evPc = "idle"
      /\ UNCHANGED <<vecVars, evVars, answered>>
  BY DEF LoadSize, CompareSize, LoadFront, ReadFront, FinishLoc, LoadFrontAgain,
         LoadBegin, LoadDec, InTurn, TakeTurns
<1>2. Left' = Left /\ Done' = Done /\ evPc' = "idle"
  BY <1>1 DEF evVars, Left, Done
<1>3. TakeTurns' /\ BufferIsOld' /\ EventInTurn'
  BY <1>1, <1>2 DEF InTurn, TakeTurns, BufferIsOld, EventInTurn, evVars, vecVars
<1>4. \A n, k : /\ VectorIs(n, k) => VectorIs(n, k)'
                /\ Holds(start, n, k) => Holds(start, n, k)'
  BY <1>1 DEF VectorIs, Holds, vecVars, evVars
<1>5. /\ UNCHANGED <<start, finish, eos, mem, asked>>
      /\ \A a : Constructed(a)' <=> Constructed(a)
      /\ start \in Nat /\ finish \in Int /\ Left \in Nat
  BY <1>1, MidErase DEF vecVars, evVars, Constructed
<1>6. ASSUME Left >= 1, VectorIs(Left, Done + 1)
      PROVE  mem[start] = asked[Done + 1]
  <2>1. 0 \in 0 .. Left - 1 /\ start + 0 = start /\ Done + 1 + 0 = Done + 1
    BY <1>1, <1>6, MidErase
  <2> QED BY <1>6, <2>1 DEF VectorIs, Holds
<1>7. WorkerInTurn'
  <2>1. CASE LoadSize
    BY <1>1, <1>2, <1>4, <2>1 DEF LoadSize, InTurn, WorkerInTurn, vecVars
  <2>2. CASE CompareSize
    BY <1>1, <1>2, <1>4, <1>5, <2>2 DEF CompareSize, InTurn, WorkerInTurn, VectorIs
  <2>3. CASE LoadFront
    BY <1>1, <1>2, <1>4, <1>5, <2>3 DEF LoadFront, InTurn, WorkerInTurn
  <2>4. CASE ReadFront
    BY <1>1, <1>2, <1>4, <1>5, <1>6, <2>4 DEF ReadFront, InTurn, WorkerInTurn
  <2>5. CASE FinishLoc
    BY <1>1, <1>2, <1>4, <1>5, <2>5 DEF FinishLoc, InTurn, WorkerInTurn
  <2>6. CASE LoadFrontAgain
    BY <1>1, <1>2, <1>4, <1>5, <2>6 DEF LoadFrontAgain, InTurn, WorkerInTurn
  <2>7. CASE LoadBegin
    BY <1>1, <1>2, <1>4, <1>5, <2>7 DEF LoadBegin, InTurn, WorkerInTurn
  <2>8. CASE LoadDec
    BY <1>1, <1>2, <1>4, <1>5, <2>8 DEF LoadDec, InTurn, WorkerInTurn
  <2> QED BY <2>1, <2>2, <2>3, <2>4, <2>5, <2>6, <2>7, <2>8
<1> QED BY <1>3, <1>7 DEF InTurn

\* The front is still the request the worker copied, so it is answered.
LEMMA CompareIdsAnswers ==
    ASSUME TInv, InTurn, CompareIds
    PROVE  /\ held = asked[Done + 1] /\ Left >= 1
           /\ wkPc' = "begin"
           /\ answered' = Append(answered, held)
           /\ results' = [results EXCEPT ![held.id] = Append(@, held)]
<1>1. evPc = "idle" /\ wkPc = "compare"
  BY DEF CompareIds, WkAt, InTurn, TakeTurns
<1>2. /\ held = asked[Done + 1] /\ Left >= 1 /\ wkPtr = start
      /\ VectorIs(Left, Done + 1)
  BY <1>1 DEF InTurn, WorkerInTurn
<1>3. mem[start] = asked[Done + 1]
  <2>0. Left \in Nat /\ start \in Nat /\ Done \in Nat /\ Left >= 1
    BY <1>1, <1>2, MidErase
  <2>1. 0 \in 0 .. Left - 1 /\ start + 0 = start /\ Done + 1 + 0 = Done + 1
    BY <2>0
  <2> QED BY <1>2, <2>1 DEF VectorIs, Holds
<1> QED BY <1>2, <1>3 DEF CompareIds

\* One request more is answered and not yet erased.
LEMMA CompareIdsInTurn ==
    ASSUME TInv, InTurn, CompareIds
    PROVE  InTurn'
<1>1. /\ ~fault /\ ~fault' /\ evPc = "idle" /\ wkPc = "compare" /\ wkPc' = "begin"
      /\ UNCHANGED <<vecVars, evVars, wkPtr, held>>
      /\ answered' = Append(answered, held)
  BY CompareIdsAnswers DEF CompareIds, WkAt, InTurn, TakeTurns
<1>2. held = asked[Done + 1] /\ Left >= 1 /\ VectorIs(Left, Done + 1)
  BY <1>1, CompareIdsAnswers DEF InTurn, WorkerInTurn
<1>3. held \in Request /\ answered \in Seq(Request)
  BY <1>1 DEF TInv, TypeOK, HeldIsRequest
<1>4. /\ Done' = Done + 1 /\ Left' = Left - 1
      /\ \A i \in 1 .. Done : answered'[i] = answered[i]
      /\ answered'[Done + 1] = held
  <2>1. /\ Len(answered') = Len(answered) + 1
        /\ \A i \in 1 .. Len(answered) : answered'[i] = answered[i]
        /\ answered'[Len(answered) + 1] = held
    BY <1>1, <1>3
  <2> QED BY <1>1, <2>1, Logs DEF Done, Left, evVars
<1>5. TakeTurns'
  <2>1. ASSUME NEW i \in 1 .. Done + 1
        PROVE  answered'[i] = asked[i]
    <3>1. CASE i = Done + 1
      BY <1>2, <1>4, <3>1
    <3>2. CASE i # Done + 1
      <4>1. i \in 1 .. Done
        BY <1>1, <3>2, MidErase
      <4> QED BY <1>4, <4>1 DEF InTurn, TakeTurns
    <3> QED BY <3>1, <3>2
  <2>2. Left' >= 0
    BY <1>1, <1>2, <1>4, MidErase
  <2> QED BY <1>1, <1>4, <2>1, <2>2 DEF TakeTurns, evVars
<1>6. BufferIsOld' /\ EventInTurn'
  BY <1>1 DEF InTurn, BufferIsOld, EventInTurn, evVars, vecVars
<1>7. VectorIs(Left + 1, Done)'
  <2>1. /\ Left' + 1 = Left /\ Done' = Done + 1
        /\ UNCHANGED <<mem, start, finish, eos, asked>>
    BY <1>1, <1>4, MidErase DEF vecVars, evVars
  <2> QED BY <1>2, <2>1 DEF VectorIs, Holds
<1>8. WorkerInTurn'
  BY <1>1, <1>4, <1>7, MidErase DEF WorkerInTurn
<1> QED BY <1>5, <1>6, <1>8 DEF InTurn

\* The requests move down over the one answered; what was the last stays there.
LEMMA MoveDownInTurn ==
    ASSUME TInv, InTurn, MoveDown
    PROVE  InTurn'
<1>1. /\ ~fault /\ ~fault' /\ evPc = "idle" /\ wkPc = "move" /\ wkPc' = "dec"
      /\ mem' = [a \in Addr |->
                  IF a \in wkPtr .. finish - 2 THEN mem[a + 1] ELSE mem[a]]
      /\ UNCHANGED <<brk, start, finish, eos, evVars, wkPtr, held, answered>>
  BY DEF MoveDown, WkGoto, WkAt, InTurn, TakeTurns
<1>2. wkPtr = start /\ Done >= 1 /\ VectorIs(Left + 1, Done)
  BY <1>1 DEF InTurn, WorkerInTurn
<1>3. Left' = Left /\ Done' = Done
  BY <1>1 DEF evVars, Left, Done
<1>4. /\ start \in Nat /\ Left \in Nat /\ Done \in Nat /\ Done + Left = Len(asked)
      /\ finish = start + (Left + 1) /\ finish <= eos
  BY <1>1, <1>2, MidErase DEF VectorIs
<1>5. TakeTurns' /\ BufferIsOld' /\ EventInTurn'
  BY <1>1, <1>3 DEF InTurn, TakeTurns, BufferIsOld, EventInTurn, evVars
<1>6. Holds(start, Left, Done + 1)'
  <2>1. ASSUME NEW i \in 0 .. Left - 1
        PROVE  start + i \in Addr /\ mem'[start + i] = asked[Done + 1 + i]
    <3>1. /\ i \in 0 .. Left + 1 - 1 /\ i + 1 \in 0 .. Left + 1 - 1
          /\ start + i \in start .. finish - 2
          /\ (start + i) + 1 = start + (i + 1) /\ Done + (i + 1) = Done + 1 + i
      BY <1>4
    <3>2. start + i \in Addr /\ mem[start + (i + 1)] = asked[Done + (i + 1)]
      BY <1>2, <1>4, <3>1 DEF VectorIs, Holds
    <3> QED BY <1>1, <1>2, <3>1, <3>2
  <2> QED BY <1>1, <1>3, <2>1 DEF Holds, evVars
<1>7. Constructed(finish - 1)'
  <2>1. /\ Left \in 0 .. Left + 1 - 1
        /\ start + Left = finish - 1 /\ Done + Left \in 1 .. Len(asked)
        /\ ~(finish - 1 \in start .. finish - 2)
    BY <1>2, <1>4
  <2>2. finish - 1 \in Addr /\ mem[finish - 1] = asked[Done + Left]
    BY <1>2, <2>1 DEF VectorIs, Holds
  <2> QED BY <1>1, <1>2, <2>1, <2>2, Logs DEF Constructed
<1>8. finish = start + Left + 1
  BY <1>4
<1>9. WorkerInTurn'
  BY <1>1, <1>3, <1>4, <1>6, <1>7, <1>8 DEF WorkerInTurn
<1> QED BY <1>5, <1>9 DEF InTurn

\* The end pointer moves below the last request, which is then destroyed.
LEMMA ShrinkInTurn ==
    ASSUME TInv, InTurn, StoreDec \/ Destroy
    PROVE  InTurn'
<1> USE DEF WkGoto, WkAt
<1>1. /\ ~fault /\ ~fault' /\ evPc = "idle" /\ wkPc \in {"decStore", "destroy"}
      /\ UNCHANGED <<brk, start, eos, evVars, wkPtr, held, answered>>
  BY DEF StoreDec, Destroy, InTurn, TakeTurns
<1>2. Left' = Left /\ Done' = Done
  BY <1>1 DEF evVars, Left, Done
<1>3. TakeTurns' /\ BufferIsOld' /\ EventInTurn'
  BY <1>1, <1>2 DEF InTurn, TakeTurns, BufferIsOld, EventInTurn, evVars,
                    StoreDec, Destroy
<1>4. start \in Nat /\ finish \in Int /\ Left \in Nat /\ eos \in Int
  BY <1>1, MidErase
<1>5. CASE StoreDec
  <2>1. /\ wkPtr = finish /\ finish = start + Left + 1 /\ finish <= eos
        /\ Holds(start, Left, Done + 1) /\ Constructed(finish - 1)
    BY <1>5 DEF StoreDec, InTurn, WorkerInTurn
  <2>2. finish' = finish - 1 /\ mem' = mem /\ wkPc' = "destroy"
    BY <1>5, <2>1 DEF StoreDec
  <2>3. VectorIs(Left, Done + 1)' /\ Constructed(finish)'
    BY <1>1, <1>2, <1>4, <2>1, <2>2 DEF VectorIs, Holds, Constructed, evVars
  <2> QED BY <1>3, <2>2, <2>3 DEF InTurn, WorkerInTurn
<1>6. CASE Destroy
  <2>1. VectorIs(Left, Done + 1)
    BY <1>1, <1>6 DEF Destroy, InTurn, WorkerInTurn
  <2>2. finish' = finish /\ mem' = [mem EXCEPT ![finish] = Raw] /\ wkPc' = "size"
    BY <1>6 DEF Destroy
  <2>3. VectorIs(Left, Done + 1)'
    <3>1. ASSUME NEW i \in 0 .. Left - 1
          PROVE  start + i \in Addr /\ mem'[start + i] = asked[Done + 1 + i]
      <4>1. start + i # finish
        BY <1>4, <2>1 DEF VectorIs
      <4> QED BY <1>1, <2>1, <2>2, <4>1, MidErase DEF VectorIs, Holds
    <3> QED BY <1>1, <1>2, <2>1, <2>2, <3>1 DEF VectorIs, Holds, evVars
  <2> QED BY <1>3, <2>2, <2>3 DEF InTurn, WorkerInTurn
<1> QED BY <1>5, <1>6

\* Every step of the two threads keeps their calls apart and the vector right.
LEMMA NextInTurn == TInv /\ InTurn /\ ~Overlap /\ [Next]_vars => InTurn'
<1> SUFFICES ASSUME TInv, InTurn, ~Overlap, [Next]_vars
             PROVE  InTurn'
  OBVIOUS
<1>1. CASE EventThread
  <2>1. CASE LoadFinish \/ CompareEnd \/ LoadSlot \/ LoadBump
    BY <2>1, EvLoadInTurn
  <2>2. CASE SetStart \/ SetFinish \/ SetEnd
    BY <2>2, SetWordsInTurn
  <2> QED BY <1>1, <2>1, <2>2, PushBackInTurn, ConstructInTurn, StoreBumpInTurn,
             AllocateInTurn, ConstructNewInTurn, CopyOldInTurn, FreeOldInTurn, NoFaultStep
             DEF EventThread
<1>2. CASE Worker
  <2>1. CASE LoadSize \/ CompareSize \/ LoadFront \/ ReadFront \/ FinishLoc
               \/ LoadFrontAgain \/ LoadBegin \/ LoadDec
    BY <2>1, WkLoadInTurn
  <2>2. CASE StoreDec \/ Destroy
    BY <2>2, ShrinkInTurn
  <2> QED BY <1>2, <2>1, <2>2, CompareIdsInTurn, MoveDownInTurn, NoFaultStep DEF Worker
<1>3. CASE UNCHANGED vars
  BY <1>3 DEF vars, evVars, wkVars, vecVars, InTurn, TakeTurns, BufferIsOld, WorkerInTurn,
              EventInTurn, VectorIs, Holds, Constructed, Left, Done
<1> QED BY <1>1, <1>2, <1>3 DEF Next, Stopped

\* In a behaviour whose calls never overlap the threads take turns for ever.
THEOREM TurnsInvariance == Spec => [](IInv /\ InTurnInv)
<1>1. IInv /\ InTurnInv /\ [Next]_vars => InTurnInv'
  <2> SUFFICES ASSUME IInv, InTurnInv, [Next]_vars, ~Overlap'
               PROVE  InTurn'
    BY DEF InTurnInv
  <2>1. startedAs' = startedAs
    BY DEF Next, vars
  <2> QED BY <2>1, NextInTurn DEF IInv, InTurnInv, Overlap
<1>2. Init => InTurnInv
  BY InitInTurn DEF InTurnInv
<1> QED BY VectorInvariance, <1>1, <1>2, PTL DEF Spec

\* Between two calls that do not overlap, the vector holds the requests asked and
\* not answered, in their order, whatever the capacity and however often it grew.
THEOREM NothingIsLostInTurn == Spec => []NothingLostInTurn
<1>1. IInv /\ InTurnInv => NothingLostInTurn
  <2> SUFFICES ASSUME TInv, InTurn, evPc = "idle", wkPc = "size"
               PROVE  asked = answered \o Contents
    BY DEF IInv, InTurnInv, NothingLostInTurn, NothingLost
  <2>1. /\ start \in Nat /\ finish \in Int /\ Left \in Nat /\ Done \in Nat
        /\ Done + Left = Len(asked)
    BY MidErase
  <2>2. VectorIs(Left, Done + 1)
    BY DEF InTurn, WorkerInTurn
  <2>3. asked \in Seq(Request) /\ answered \in Seq(Request)
    BY Logs
  <2>4. Contents = [k \in 1 .. Left |-> mem[start + k - 1]]
    BY <2>1, <2>2 DEF Contents, VectorIs
  <2>5. ASSUME NEW k \in 1 .. Left
        PROVE  mem[start + k - 1] = asked[Done + k]
    <3>1. k - 1 \in 0 .. Left - 1 /\ start + (k - 1) = start + k - 1
          /\ Done + 1 + (k - 1) = Done + k
      BY <2>1
    <3>2. mem[start + (k - 1)] = asked[Done + 1 + (k - 1)]
      BY <2>1, <2>2, <3>1 DEF VectorIs, Holds
    <3> QED BY <3>1, <3>2
  <2>6. ASSUME NEW k \in 1 .. Left
        PROVE  asked[Done + k] \in Request
    <3>1. Done + k \in 1 .. Len(asked)
      BY <2>1
    <3> QED BY <3>1, Logs
  <2>7. Contents \in Seq(Request) /\ Len(Contents) = Left
    <3>1. Contents \in [1 .. Left -> Request]
      BY <2>4, <2>5, <2>6
    <3> QED BY <2>1, <3>1
  <2>8. \A i \in 1 .. Done : answered[i] = asked[i]
    BY DEF InTurn, TakeTurns
  <2> DEFINE all == answered \o Contents
  <2>9. all \in Seq(Request) /\ Len(all) = Done + Left
    BY <2>3, <2>7 DEF Done
  <2>10. ASSUME NEW i \in 1 .. Done + Left
         PROVE  all[i] = asked[i]
    <3>1. all[i] = IF i <= Done THEN answered[i] ELSE Contents[i - Done]
      BY <2>1, <2>3, <2>7 DEF Done
    <3>2. CASE i <= Done
      BY <2>1, <2>8, <3>1, <3>2
    <3>3. CASE ~(i <= Done)
      <4>1. i - Done \in 1 .. Left /\ Done + (i - Done) = i
        BY <2>1, <3>3
      <4> QED BY <2>4, <2>5, <3>1, <3>3, <4>1
    <3> QED BY <3>2, <3>3
  <2> HIDE DEF all
  <2>11. all = asked
    BY <2>1, <2>3, <2>9, <2>10
  <2> QED BY <2>11 DEF all
<1> QED BY TurnsInvariance, <1>1, PTL

\* Calls that do not overlap read, write and destroy only what they may.
THEOREM NoFaultWhenInTurn == Spec => []NoFaultInTurn
<1>1. InTurnInv => NoFaultInTurn
  BY DEF InTurnInv, InTurn, TakeTurns, NoFaultInTurn, NoFault
<1> QED BY TurnsInvariance, <1>1, PTL
-----------------------------------------------------------------------------
(* The vector implements the service.                                      *)

\* Only push_back and the store of a result touch what the service shows.
LEMMA OnlyTwoSteps ==
    ASSUME [Next]_vars
    PROVE  \/ \E id \in Ids : PushBack(id)
           \/ CompareIds
           \/ EvFault \/ WkFault
           \/ UNCHANGED <<asked, answered, results, fault>>
<1>1. CASE EventThread
  BY <1>1 DEF EventThread, LoadFinish, CompareEnd, LoadSlot, Construct, LoadBump,
     StoreBump, Allocate, ConstructNew, CopyOld, FreeOld, SetStart, SetFinish, SetEnd,
     wkVars
<1>2. CASE Worker
  BY <1>2 DEF Worker, LoadSize, CompareSize, LoadFront, ReadFront, FinishLoc,
     LoadFrontAgain, LoadBegin, MoveDown, LoadDec, StoreDec, Destroy, evVars
<1>3. CASE UNCHANGED vars
  BY <1>3 DEF vars, evVars, wkVars
<1> QED BY <1>1, <1>2, <1>3 DEF Next, Stopped

\* The vector, used in turn, is the first-in first-out service of RequestService:
\* a call of push_back asks and the store of a result answers.
THEOREM VectorImplementsQueue == Spec => ImplementsQueue
<1>1. Init => Queue!Init
  BY DEF Init, Queue!Init
<1>2. IInv /\ InTurnInv /\ [Next]_vars => [Queue!Next]_(Queue!vars)
  <2> SUFFICES ASSUME IInv, InTurnInv, [Next]_vars
               PROVE  [Queue!Next]_(Queue!vars)
    OBVIOUS
  <2>1. Overlap' = Overlap
    BY DEF Next, vars, Overlap
  <2>2. CASE UNCHANGED <<asked, answered, results, fault>>
    BY <2>1, <2>2 DEF Queue!vars
  <2>3. CASE Overlap
    <3>1. CASE EvFault \/ WkFault
      <4>1. ~fault /\ fault'
        BY <3>1 DEF EvFault, WkFault, Fault, EvAt, WkAt
      <4> QED BY <2>1, <2>3, <4>1 DEF Queue!Next, Queue!Stop
    <3>2. CASE CompareIds \/ \E id \in Ids : PushBack(id)
      <4>1. fault' = fault
        BY <3>2 DEF CompareIds, PushBack
      <4> QED BY <2>1, <2>3, <4>1 DEF Queue!vars
    <3> QED BY <2>2, <3>1, <3>2, OnlyTwoSteps
  <2>4. CASE ~Overlap
    <3>1. TInv /\ InTurn
      BY <2>4 DEF IInv, InTurnInv
    <3>2. ASSUME NEW id \in Ids, PushBack(id)
          PROVE  Queue!Next
      <4>1. /\ ~fault /\ ~fault' /\ asked' = Append(asked, evReq')
            /\ answered' = answered /\ results' = results
        BY <3>2 DEF PushBack, EvGoto, EvAt, wkVars
      <4>2. evReq' \in Request
        BY <3>1, <3>2, Logs, VectorAssumption DEF PushBack, Request
      <4>3. Queue!Ask(evReq')
        BY <2>1, <2>4, <4>1 DEF Queue!Ask
      <4> QED BY <4>2, <4>3 DEF Queue!Next
    <3>3. CASE CompareIds
      <4>1. /\ held = asked[Done + 1] /\ Left >= 1
            /\ answered' = Append(answered, held)
            /\ results' = [results EXCEPT ![held.id] = Append(@, held)]
        BY <3>1, <3>3, CompareIdsAnswers
      <4>2. ~fault /\ ~fault' /\ asked' = asked
        BY <3>3 DEF CompareIds, WkAt, evVars
      <4>3. Len(answered') = Done + 1 /\ Done < Len(asked)
        <5>1. answered \in Seq(Request) /\ held \in Request
          BY <3>1, <3>3 DEF TInv, TypeOK, HeldIsRequest, CompareIds, WkAt
        <5>2. Len(Append(answered, held)) = Len(answered) + 1
          BY <5>1
        <5> QED BY <3>1, <4>1, <5>2, Logs DEF Done, Left
      <4>4. Queue!Answer
        BY <2>1, <2>4, <4>1, <4>2, <4>3 DEF Queue!Answer, Self, Done
      <4> QED BY <4>4 DEF Queue!Next
    <3>4. ~EvFault /\ ~WkFault
      BY <3>1, NoFaultStep
    <3> QED BY <2>2, <3>2, <3>3, <3>4, OnlyTwoSteps
  <2> QED BY <2>3, <2>4
<1> QED BY TurnsInvariance, <1>1, <1>2, PTL DEF Spec, ImplementsQueue, Queue!Spec
=============================================================================
