# LocationServer in TLA+

LocationServer is an indoor positioning server: clients connect over TCP, send
JSON requests, and the server answers with a position (from WiFi signal
strengths) or a path between two places. It runs three threads of one process on
shared objects without locks; a load test, a process of its own, drives it over
TCP. This directory holds a TLA+ model of both, the TLC configurations that check
the model on small instances, and TLAPS proofs.

Definitions keep the names of the source, and `PROJECT.json` maps each of them to
the lines it was translated from. Paths below are those of the repository.

## 1. The system

| component | source | state | operations |
|---|---|---|---|
| MsgQueue | `main/MsgQueue.cpp`, `include/MsgQueue.h` | request vectors `LocateVec`, `GuideVec`; result queues per user `LocatedVec`, `GuidedVec` | `addLocItem`, `startLoc`, `finishLoc`, `addGuideItem`, `startGuide`, `finishGuide`, `clearRqst`, `getLocateNum`, `getGuideNum` |
| Location | `main/Location.cpp` | samples `locateDuring`, `receiveBufSize`; the locals of `run` | `run` (thread), `test`, `record` |
| Guide | `main/Guide.cpp`, `include/Guide.h` | the map, the open and closed lists, samples | `guide` (thread), `searchpath`, `findPath`, `checkPath`, `findMinNode2EndInOpen`, `test`, `record` |
| TcpServer | `main/TcpServer.cpp` | `users`, the event base | `Init`, `Listen`, `OnAccept`, `OffConnection`, `QuitServer` |
| TcpUser | `main/TcpUser.cpp` | id, socket, user name, two events; the static `onLineNum` | `Init`, `OnRead`, `OnWrite`, `MyRead`, `MyWrite`, `DataHandle` |
| main | `main/main.cpp` | the four objects on its stack | construction, `Listen`, destruction |
| ConnPool | `main/DBConnpool.cpp` | `curSize`, `connList`, a mutex | `InitConnection`, `GetConnection`, `ReleaseConnection`, `DestroyConnPool`, `GetInstance` |
| DBAnaysisData | `main/DBAnaysisData.cpp` | none of its own; tables of users and of positions in a database | `Handle` with one handler per kind of account or history request, `UserPositionsHandle` |
| Location1, Util, Locate, Point | `main/Util.cpp`, ... | fingerprints, map matching | positioning; `Location::run` calls none of it |
| testClient | `src/testClient/` | a parent; for each client a process, two threads, a pipe, the flag `statue` | `clientInit`, `PerTransFun`, `senddata`, `recvdata`, `writeBypipe`, the parent's `main` |
| Lock, Log, define | `include/` | | used by nobody, or macros |

**How they interact.** The event thread (main, inside libevent's dispatch loop)
accepts clients and runs `OnRead` for a readable one; `DataHandle` parses the
message and calls `addLocItem` or `addGuideItem`. The Location thread polls
`startLoc`, answers with `finishLoc`, and calls `test`; the Guide thread does the
same with `startGuide`, its search, and `finishGuide`. Both threads are started by
constructors in `main` and joined by nobody. `SERVERQUIT` empties the vector of
users and breaks the loop; `main` then returns and destroys TcpServer, Location,
Guide and MsgQueue in that order, while the two threads run on.

The load test forks its clients, each with a pipe. A client connects, one of its
threads sends location requests (two bytes of length, then the data) for a while
and the other receives until it is told by `statue` that the sender has ended;
then it writes its results to the pipe, and the parent reads the pipes until it
has counted all clients. The account and history handlers talk to a database, one
connection of `ConnPool` each, several statements to a request.

**What is hard.** Every request crosses two threads without a lock. A worker
copies a request, works, and then erases *the front*, knowing it only by the
user's id. A client may leave, or quit the server, between any two steps, also
inside `OnRead`, which goes on to use the object `DataHandle` may have destroyed.
`test` takes two measurements in two calls. Teardown races the threads. `accept`,
`Init`, parsing and `gettimeofday` can fail. The search cuts doubles to int and
skips edges. TCP delivers a request in pieces, which `MyRead` does not put
together, and its second `recv` holds up every client. The load test looks at
`statue` before and after it is set, and its parent's reads are interrupted. The
connection pool counts connections that fail, close and get lost. The history
handlers are several statements with no transaction: requests, deletions and
exceptions come in between, and a handler overwrites the name of the session it
serves. Each of these is listed with its line under `hazards` in `PROJECT.json`.

**What makes each component right.**
MsgQueue: no request is lost, duplicated, reordered or answered to somebody else.
Location and Guide: the request answered is the request erased; samples mean what
they say; every request is answered. TcpServer and TcpUser: no event calls back a
destroyed user; a user has one entry. main: nothing is destroyed while a callback
uses it, and the process ends. Framing: what is handled are the client's messages,
whole and in order, and no client blocks the others for ever. Load test: each
result is counted once, every client ends, and the parent when all have. Accounts
and history: a path holds the positions of one login, numbered without a gap, the
newest path is that of the newest login, and a session reads and deletes its own
user's history only. Guide search: a node is in one list once, a path is
a walk over the map, a search ends, and on the repository's map it finds a
shortest path. ConnPool: the count is right and a connection has one owner.

## 2. Modules

| module | models | notes |
|---|---|---|
| `MsgQueue` | class MsgQueue | one operator per method, a call is one step |
| `Location`, `Guide` | the two worker threads | a pc per thread; extend `MsgQueue` |
| `TcpServer` | TcpServer and TcpUser, the event thread | extends `MsgQueue` |
| `LocationServer` | the process: main, threads, teardown | composes the three above |
| `RequestService` | abstract: a first-in first-out service | implemented by `LocationServer` (twice) and by `RequestVector` |
| `RequestVector` | one request vector, load by load and store by store | justifies, and limits, the atomic calls of `MsgQueue` |
| `Framing` | a connection from `senddata` to `MyRead`, in bytes | stands behind `OnReadData`, `OnReadFails` of `TcpServer` |
| `LoadTest` | testClient: parent, clients, their threads and pipes | extends `Framing` |
| `GuideSearch` | the A-star search of class Guide | stands behind `PathOf` of `Guide` |
| `ConnPool` | class ConnPool and its use by the handlers | stands under the statements of `Records` |
| `Records` | the account and history handlers of DBAnaysisData, statement by statement | over an external database |
| `LocationServer_proof`, `RequestService_proof`, `RequestVector_proof`, `GuideSearch_proof`, `ConnPool_proof`, `LoadTest_proof`, `Records_proof` | theorems about the module of that name | section 5 |
| `Naturals_proof` | induction, least and greatest numbers of a set, quotient and remainder | lemmas for the above |
| `MC*` | instances for TLC | section 4 |

### State and actions

*MsgQueue.* The four variables are the four vectors; `startLoc(req)` is enabled on
a non-empty queue only, the `-1` of the empty one being `PollLocating`. `Grown`
and `PushResult` are the loop that lengthens the vector of queues up to the id
(`id + 1` elements) and the push. `finishLoc` compares the id with that of the
front and returns at once when they differ, as the code does. `clearRqst` does
nothing: its body is commented out.

*Location, Guide.* `locPc` and `guidePc` name the call the thread makes next.
`time` and `size` are the two pushes of `test`. A time stamp is abstracted to the
length of the request queue at that instant, which is what the samples are
compared with. A path is the pair of its ends (`PathOf`). `RecordOverruns` is the
loop bound `size() - 1` of `record` in unsigned arithmetic; `SizeT` is its modulus,
smaller than 2^32 with the same outcome at every length below it.

*TcpServer.* A `TcpUser` is named by its id, which is never given twice. `users`
is the vector, `readEvts` the users whose event can fire. `OnAccept` adds the
entry and the event; after a failed `accept` the descriptor is -1, the entry is
there and the event never fires. `DataHandle` has one case per typecode that does
something; `OTHER` stands for those whose body is only commented-out database
calls. `OnReadData` is a message that parses to a request or does not parse, in
which case `typecode` has whatever its stack slot held and every field is null.
`OnReadFails` and `EndConnection` are the end of a connection: `DataHandle` on the
user's *name*, then `clearRqst` and `OffConnection`; the workers may run in
between. `EndDestroyedConnection` is the same when `DataHandle` ran `QuitServer`.
A conversation over one connection is a sequence of `OnReadData` steps; here
`MyRead` is one choice between a message and a failure. `Framing` says what it
does with the bytes.

*LocationServer.* `mainPc` names main's next step. A thread that touches an object
after its destructor either faults (the process stops, `fault` says why) or goes
on, its access having harmed only what is dead. `InitServerFails` is the early
return of main.

*RequestVector.* `start`, `finish`, `eos` are the three pointers of `std::vector`;
each action is one load or store of the unoptimised build, including the growth into
a buffer of twice the size. `Overlap` says whether calls of the two threads may
overlap; it is chosen at the start, with the capacity of the first buffer
(`Starts`), and `startedAs` remembers the choice. `asked` and `answered` are
history; `results` is the user's result queue that `finishLoc` pushes to before it
erases, each result named by the request it answers. Undefined accesses stop the
model in `fault`.

*Framing.* A message is two units of length and `Pieces` units of data; the units
of a connection are counted as sent and as received, which says which they are.
Each `recv` takes any number of those that have arrived, up to what it asks for.
A length read whole at the start of a message is the right one; one read from a
single byte, or from data after the stream got out of step, can be any of
`Lengths`. `RecvLength` and `RecvData` are the two calls of `MyRead`: between them
`reading` holds the event thread. A short read of data, a length of 0 and the end
of the stream end the connection (`OffConnection`), with a reset when bytes were
left unread.

*LoadTest.* A pc for each client's main thread and sending thread, and one for the
parent. `statue` is read and written in single steps: the mutex around it is only
tried for. The server never answers (section 4), so a client's `select` reports
its socket only once the server has closed it, and `recvdata` then returns what
its buffer held (`RecvCoordinate`). The pipe is empty or holds one block: it is
written with one `write` of less than `PIPE_BUF` bytes. `totalpipe` says whose pipe
the parent reads for each client: its own, or, when `pipe` failed, that of the
client before, whose descriptor `pipeId` still holds. A client without a pipe is
forked and runs like the others, and what it writes goes nowhere. A client that
overran its buffer goes on, is stopped before it has written (`killed`) or when
`writeBypipe` returns, with its block in the pipe (`crashed`). `ReadInterrupted` is
the parent's `read` ended by the `SIGCHLD` of another client.

*Records.* One action for each statement, or run of statements, that others can
see half done. `event` is the handler the event thread is in the middle of, `store`
the other thread's. A variable the code leaves uninitialised when a SELECT returns
nothing is a choice (`Garbage`, `AnyName`, `Paths`). A request without a username
names the empty string, `NoName`: that account can be registered, logged in and out
like any other, and is the name of a session that has none. `DeleteOneHistory` may
find the row of any time of day and so any path with a row. `torn` is a history
variable: the paths a deletion left without some of their positions, and those
deleted while their next position was about to be inserted.

*GuideSearch.* `v_open`, `v_close`, `g`, `parent`, `Node` are the search's own;
`Expand` is one round of the loop over all nodes. Positions are thousandths and
weights ten-thousandths of a map unit, exactly the digits of the map file, and
every cut to int in the code is an integer division or root here. `getIndexStart`
compares distances, which are ordered as their squares; these are exact, in two
parts (`Square`, `distanceSquared`), since one would be too large for TLC.

*ConnPool.* The mutex is held through each method, so each path through
`GetConnection` is one action. The constructor's part of `GetInstance` is `Construct`;
its only call, commented out, stands in main before any thread is started. A handler of the model is
one connection local of a handler in the code; `UserPositionsHandle` has two, which
it takes independently. `lost` records the connections a handler dropped
when a statement threw: its catch block does not give them back.

### Abstract specification

`RequestService` has three variables a client could observe (what was asked, how
much is answered, the results of each user) and three steps: `Ask`, `Answer` (the
oldest request, to the one who asked), `Stop`. `Locations`, `Guides` in
`LocationServer` and `Queue` in `RequestVector` are the refinement mappings:
`answered` is what was asked minus what is queued, results are the result queues.

## 3. Plan

Order, most important behaviour first; items 1 to 13 are done.

1. `MsgQueue`, `Location`, `Guide`, `TcpServer`: one module per class.
2. `LocationServer`: their composition with main and teardown; safety, liveness,
   refinement of `RequestService`.
3. `RequestVector`: the data race below `MsgQueue`.
4. `GuideSearch` on the repository's map and on one with a detour.
5. `ConnPool` with its handlers.
6. Proofs about `LocationServer`: types, queue discipline, callbacks, teardown, samples.
7. Proofs about `RequestVector` and `ConnPool`.
8. `Framing`: `MyRead` with its length header, partial reads, and the blocking
   `recv` that holds up every other client.
9. `LoadTest`: the mutex it tries and unlocks, its pipe protocol and its threads.
10. `Records`: accounts and history of `DBAnaysisData`, over an external database.
11. Proofs about `LoadTest` and `Records`: the parent's count, and whose history.
12. Proofs: `LocationServer` implements `RequestService`, and what the service
    promises; the search on every map; the vector when calls do not overlap, and
    its refinement; frames and clients of the load test; paths and logins of
    `Records`. With these every safety property of section 4 but `PathIsShortest`
    is a theorem.
13. Proofs: the liveness properties, from weak fairness and from where each thread
    can take a step, by what decreases with each of its rounds.
14. The string helpers of `Util`, as pure operators, once a thread calls them.

## 4. Runs

All with TLC, breadth first, deadlock checked everywhere.

| run | what it shows | instance |
|---|---|---|
| `server_safety` | the whole process: `TypeOK`, `HeldRequestIsFront`, `LocationsConserved`, `CallbacksReachLiveUsers`, `TeardownAfterLoop`, `SamplesNeverUndercount`, and `ImplementsLocations` | 2 connections, 2 location requests, 1 guide request |
| `server_guides` | `GuidesConserved`, `ImplementsGuides`: every user gets the paths of his own requests, in order | 2 connections, 2 guide requests, 2 places |
| `server_liveness` | `LocationsAnswered`, `GuidesAnswered`, `QuitEnds` under fairness | 2 connections, 1 request of each kind |
| `doc_clear` | *violated*: `DisconnectedForgotten` | as `server_safety` |
| `doc_logout` | *violated*: `NamedUserLoggedOut` | as `server_safety` |
| `doc_record` | *violated*: `RecordStaysInBounds` | as `server_safety` |
| `vector` | without overlap the vector, through every growth, is the queue `MsgQueue` takes it for: `NothingLostInTurn`, `NoFaultInTurn`, `ImplementsQueue`; with overlap, `FinishInBuffer`: the end pointer stays in the buffer until the first growth | without overlap 5 requests of 2 users, from an empty vector through capacities 1, 2, 4, 8; with overlap 4 requests, capacity 2 |
| `vector_lost` | *violated*: `NothingLost` with overlap | 3 requests, capacity 4 (no growth needed) |
| `guide_search` | `NodesOnce`, `ParentsAreSettled`, `NeverSelectsNull`, `PathIsWalk`, `SearchEnds`; `PathIsShortest` on `src/data.txt` | all pairs of its 12 nodes and of 6 made-up ones beside it, where a search must go round or give up; pairs across find nothing |
| `conn_pool` | `CurSizeIsRight`, `OneOwner` | 3 handlers, limit 2, 4 connections made |
| `load_test` | the load test against the event thread: `WholeMessagesAreHandled`, `OnlyCutClientsDie`, `ResultsCountedOnce`; `MessagesHandled`, `ClientsEnd`, `ParentEnds` | 2 clients, of 2 messages and 1, data in 2 pieces, lengths 0, 2, 3; the pipe of the second may fail |
| `records` | `PathsWhole`, `NewestPathLast`, `HistoryIsOwn`, `OnlyOwnDeleted` | 1 user with a name and the account of the empty name, 1 guest, 2 sessions, 2 logins of each user, 2 positions kept, 2 paths |

**Bounds.** `MaxUsers`, `MaxLocations`, `MaxGuides` bound the connections and
requests of one behaviour, in the guards of `OnAccept`, `HandleLocation` and
`HandleGuide`. Two connections are enough for one user to leave, fail to be
accepted or quit the server while the other has requests pending, for ids to
arrive out of order (which is what `Grown` must cope with), and for one user's
request to stand behind another's. Two requests are enough for a worker to hold
one while another of the same or another user arrives, is held next, or is left
when the server quits. Every property of a passing run but `PathIsShortest` is also proved, for all
bounds (section 5); what the bounds limit is the violations, and for the liveness
properties where a step is known to be enabled.
The abstract path and position make further values of `Rssi` and `Places`
indistinguishable; two places suffice for a path to be told from its reverse. In
`RequestVector`, `MaxAddr` bounds the addresses; it is large enough in
`vector` for every growth these numbers of requests
reach to be allocated (buffers are never reused, each followed by a gap). In
`ConnPool`, four connections let a pool of two lose, replace and close some
of each; handlers are symmetric. In `load_test`, two pieces let `recv` return less
than the data, and one byte less than the length; a length of 2 is the message's,
3 runs into the next one or past the end, 0 is refused. A client with two messages
can be cut between them and be sent a reset; another client is what the event
thread keeps waiting. `BufferLines` is 1 where the code's buffer holds 53 lines: the
overrun takes as many rounds as one more than fit, whatever their number. That
the pipe of the second client may fail is the case in which the parent reads one
pipe twice a round; a first client without a pipe is one whose results never come,
as is a client that is killed. In
`records`, two logins and two paths are what it takes to begin a path after
another and to get one in the wrong login; two positions kept at a time, deleted
and stored again without limit, let a path have a first and a next position or two
paths have one each. A login gives a session any name; with two of them one can
have a name and the other none, or the same, so that it matters which of them
deletes or reads. The two are interchangeable, which the configuration says
(`SYMMETRY`). Handlers tell names apart only as equal and as
empty, so the empty one is the second.

**Fairness** (`FairSpec`). Weak fairness of each worker thread, of main, and of the
rest of an `OnRead` that has begun: the kernel schedules the threads, the worker
loops never block, and a callback, once called, runs to its end. There is none on
`OnAccept`, on `OnReadData` or on the beginning of `OnReadFails`: nothing forces a
client to do anything, and no liveness property needs it to. `GuideSearch` has
weak fairness of the search, which is a loop of one thread. `LoadTest` has weak
fairness of each client's two threads, of the parent and of the event thread's
`recv`: they are processes and threads of one kernel, what is sent arrives, and
`TESTDURATION` runs out, since time passes whatever the sender does. `ParentEnds`
supposes that all clients wrote their results. The answers of the server are
promised while the server serves: once it quits, requests may go unanswered, and
the properties say so.

**What the violated runs show.**
`doc_clear`: `MsgQueue.h:64` says that `clearRqst` removes the requests and results
of a user; it does nothing, and a user who left is still answered.
`doc_logout`: the change log says that `OnRead` logs a user off when the connection
breaks; it hands the user's name to `DataHandle` as a message, which does not
parse, so an uninitialised `typecode` picks the case, `SERVERQUIT` included.
`doc_record`: `record` on no samples computes `size() - 1` and reads out of bounds,
as when `TcpServer::Init` fails. The `record` of Guide has the same loop.
`vector_lost`: `--finish` of an erase and `++finish` of a push_back overwrite each
other.

**Seen while modelling, with no run of its own.**
After a failed `accept` the entry of descriptor -1 stays in `users` for ever.
`test` says it takes a time and a length that belong together; requests that
arrive between the two calls are counted, and `SamplesNeverUndercount` is what is
left of the claim. A message that does not parse can queue a location request
with no rssi. A handler whose statement throws keeps its connection, and after
`maxSize` of these `GetConnection` returns NULL for ever, which `setSchema`
dereferences (the handlers are not in the build). `writeEvt` is never added to the
event base, so no result is ever sent. `recv` in `MyRead` blocks the event thread
until the client sends on or ends; a client that did neither would stop the server.
A message cut in two by TCP ends its connection, or is taken for others. The load
test's client then either dies of `SIGPIPE` or fills `sendbuff` with coordinates
nobody sent, and past its end when there are more than it holds (`MAX_LINE`); a
client that dies before it has written, or whose `pipe` failed, leaves the parent
reading for ever, as `main.cpp:12` says of those that cannot connect.
In the handlers: a session without a name can take that of another user through
positions stored with an empty tel, which is why `OnlyOwnDeleted` and `HistoryIsOwn`
except it. When it deletes its history it deletes of every path the positions with
an empty tel, and can leave one with no first position; so could a deletion between
the SELECTs and the INSERT of `UserPositionsHandle`, were that run in a thread of its
own. `GetHistory` reads beyond its data on such a path (`torn`): that it finds a
first position is no property of the code, and `HistoryIsOwn` does not say so.
`GetHistory` with
item 0 reads `a[-1]`, and `deleteOneHistory` with no match deletes whatever path an
uninitialised variable names. The JSON of one item of ROADRECORD is not cleared for
the next. `TelNotLoginHandle` looks for the number in schema `mysql`, where no
registered user is, though the comment at line 446 speaks of registered numbers.
With overlap and growth together the worker can read a freed buffer.

## 5. Proofs

`tlapm` checks every step. Every safety property of a passing run is a theorem,
`PathIsShortest` excepted; so are the three refinements, and, from the hypotheses
named below, the seven liveness properties. The theorems hold for any number of
users, requests, names, places, handlers, clients and rows.

**Assumptions** are those of the modules, and TLC evaluates each of them: the bounds
are natural numbers; `Null` is no value, no place and no user id; the vector's first
capacity leaves room in memory; the pool's limit is positive; clients are numbered
from 1 to `CLIENTNUM`, of which there is at least one; the lengths a header can hold
include 0 and the right one, and a message has data; the empty name is no user's,
and a user can have a path. Of the map: nodes have natural coordinates, edge numbers
are those of elements of `newedge`, which the code reads unchecked, and no line
joins a node to itself. `NullIsNeverRead`, `SearchIsNeverStuck` and `SearchesEnd`
have an assumption more, `MapIsSmall(w)`: edges weigh at most `w`, and an estimate
made of the greatest distance and a way through every node is below `INFI_MAX`. It
is false of some maps, on which the code would read a null pointer; `MCGuideSearch`
checks it for the repository's, with `w` = 2000000, an edge of 200 units.

The liveness theorems have hypotheses about behaviours, of two kinds. Weak fairness says
something of a step that is enabled, and TLAPS has no proof rules for ENABLED; so
`ThreadsEnabled`, `SearchEnabled` and `StepsEnabled` list for each step under
fairness a state predicate, its guard, and the hypothesis is that wherever the guard
is true the step is enabled. This is what a reader sees from the actions, which
assign every variable once, and no more than that: a guard says where a thread is
and what it waits for, and that it gets there, and how often, is proved. TLC
confirmed the three on the instances of `server_liveness`, `guide_search` and
`load_test`, in runs not listed here (the predicate as an INVARIANT). Of the search,
where the guard is a choice among the nodes, `SearchIsNeverStuck` proves that it is
true until the search is over.

The other kind is `InductionFor(F)`: if `F(0)`, and `F(n + 1)` whenever `F(n)`, then
`F(n)` for every number. It is a truth of logic: the lemma `Induction` of
`Naturals_proof` proves it of any operator `P`. But `F` is here a statement about behaviours ("with n
steps left the search ends"), which TLA+ does not let take the place of a constant
operator, nor of the operator of the library's induction theorem; so each theorem
names the instances it uses. That `F(0)` holds, and that `F(n)` implies
`F(n + 1)`, is proved for each. `QuittingEnds` needs no induction.

| module | theorem | property |
|---|---|---|
| `LocationServer_proof` | `TypeCorrect` | `TypeOK` |
| | `HeldIsFront` | `HeldRequestIsFront` |
| | `CallbacksSafe` | `CallbacksReachLiveUsers` |
| | `TeardownSafe` | `TeardownAfterLoop` |
| | `SamplesSafe` | `SamplesNeverUndercount` |
| | `LocationsImplemented`, `GuidesImplemented` | `ImplementsLocations`, `ImplementsGuides` |
| | `LocationsAreConserved`, `GuidesAreConserved` | `LocationsConserved`, `GuidesConserved` |
| | `EveryLocationAnswered`, `EveryGuideAnswered` | `LocationsAnswered`, `GuidesAnswered`, from `ThreadsEnabled` and induction |
| | `QuittingEnds` | `QuitEnds`, from `ThreadsEnabled` |
| `RequestService_proof` | `Conservation` | what the service promises (`Conserved`) |
| `RequestVector_proof` | `VectorTypeCorrect` | `TypeOK` |
| | `FinishStaysInBuffer` | `FinishInBuffer` |
| | `NothingIsLostInTurn` | `NothingLostInTurn` |
| | `NoFaultWhenInTurn` | `NoFaultInTurn` |
| | `VectorImplementsQueue` | `ImplementsQueue` |
| `GuideSearch_proof` | `SearchTypeCorrect` | `TypeOK` |
| | `NodesAreOnce` | `NodesOnce` |
| | `ParentsSettled` | `ParentsAreSettled` |
| | `PathsAreWalks` | `PathIsWalk` |
| | `NullIsNeverRead` | `NeverSelectsNull` |
| | `ParentsAreFirst` | parents are closed before their children |
| | `SearchIsNeverStuck` | a search that is not over has a next step |
| | `SearchesEnd` | `SearchEnds`, from `SearchEnabled` and induction |
| `ConnPool_proof` | `PoolTypeCorrect` | `TypeOK` |
| | `SizeIsRight` | `CurSizeIsRight` |
| | `OwnersAreOne` | `OneOwner` |
| `LoadTest_proof` | `LoadTypeCorrect` | `TypeOK` |
| | `ResultsCounted` | `ResultsCountedOnce` |
| | `WholeMessages` | `WholeMessagesAreHandled` |
| | `CutClientsDie` | `OnlyCutClientsDie` |
| | `EveryMessageIsHandled` | `MessagesHandled`, from `StepsEnabled` and induction |
| | `EveryClientComesToItsEnd` | `ClientsEnd`, from `StepsEnabled` and induction |
| | `ParentComesToItsEnd` | `ParentEnds`, from `StepsEnabled` and induction |
| `Records_proof` | `RecordsTypeCorrect` | `TypeOK` |
| | `PathsAreWhole` | `PathsWhole` |
| | `PathsFollowLogins` | `NewestPathLast` |
| | `HistoryIsOwnThm` | `HistoryIsOwn` |
| | `OnlyOwnDeletedThm` | `OnlyOwnDeleted` |

The inductive invariants are theorems too: `Invariance` and `ServiceInvariance`,
`TurnsInvariance`, `SearchInvariance`, `LoadInvariance`, `LiveInvariance`,
`RecordsInvariance`.

**LocationServer.** None of the properties is inductive alone; `Inv` joins them and
adds `LoopFollowsMain` (which states of the event loop go with which of main; a loop
that does not dispatch has no event, and outside `Listen` no `OnRead` is half done)
and `EntriesAreOld` (ids in `users` are below `onLineNum`, so a new one is new).
`HeldRequestIsFront` is preserved because the event thread only appends and the one
thread that erases is the one that holds. `CallbacksReachLiveUsers` needs
`EntriesAreOld` for `OnAccept`, and for `OffConnection` that removing the one entry
of a user keeps the others distinct. `SamplesSafe` needs more: between the two
pushes of `test` there is exactly one time stamp more than lengths, and the last one
is at most the length of the queue (`LocationSampled`, `GuideSampled`).

**The service.** That `LocationServer` implements `RequestService` takes
`QueuesAreRests`: each request queue is the end of the log of what was asked. So
what is answered is a number, the log's length less the queue's, and the front of
the queue is the log's next request. With `HeldRequestIsFront`, `finishLoc` then
answers that request to its user (`AnsweredRest`, `PushedResults`). Every step of
the process is, for each of the two services, an asking, an answering, the end of
the process, or leaves the three vectors alone. What the service promises, that a
user's results are the answers to his first requests in order and each request is
answered or still to be, is proved once, of the abstract module (`Conservation`),
and carried to both queues along the refinement.

**RequestVector.** With overlap, `BeforeGrowth` says what each thread may count on
whatever the other does: from its check that the vector is not full until it has
stored the new end, the event thread knows that the end is below the limit, and the
value it loaded is; from its check that the vector is not empty, the worker knows
the mirror image. Each stores an end that respects the other's condition, however
stale the value it was computed from. That is why a lost update loses a request and
does not yet leave the buffer. Without overlap, `InTurn` follows each call through
its loads and stores: one thread is between calls at any time (`TakeTurns`; the
worker is also between calls while it works on the request it copied), and each pc
goes with what the buffer holds (`VectorIs`, `Holds`). The worker's half says that
the requests left start at `_M_start`, with the answered one before them until the
move is done; the event thread's, that the new request is complete in its place, or
in the new buffer, before the pointers cover it. The abstract `Ask` is the start of
push_back, the abstract `Answer` the worker's comparison of the ids that lets it go
on to erase; every other step maps to a stutter.

**GuideSearch.** For every map. `SearchInv` adds to the properties that the start is
in a list once the search has begun (`StartIsMet`) and that the way back from the
node at hand is complete (`WayBack`): parents are closed before their children, so
following them, as the last loop of `searchpath` does, ends at the start. That the
nearest node, the last line of the map file for two nodes and the cut root exist is
in `Naturals_proof` and the lemmas about the map. `NeverSelectsNull` needs a bound
of its own, `WaysAreBounded(w)`: the way to a node in a list has at most as many
edges as there are closed nodes, and a node is closed once, so no estimate reaches
the value `findMinNode2EndInOpen` starts from.

**ConnPool.** Neither `CurSizeIsRight` nor `OneOwner` is inductive alone: the
invariant adds `HoldsByPc` (a handler has a connection exactly while it works on it)
and `Known` (every connection that is somewhere was made, so the next one is new).

**LoadTest.** `CountInv` says that a full pipe is that of a client that has written
to it: then reading a block adds one client to the set counted, by the library's
facts on cardinality, and no other step changes it, since a client writes once and is
gone. It does not matter for whom the parent reads that pipe, so a pipe read twice a
round is no exception.
`BornInv` says that the clients the parent has yet to fork are unborn, without which
a fork could bring back one that was counted. The parent ends when the count is
`CLIENTNUM`, and a set of clients of that size is all of them. For the connections,
`FrameInv` says that as long as no `recv` took less than it asked for, what was
received is a number of whole frames, with the header of the next one while its data
is waited for; then the message is the next one, by the uniqueness of quotient and
remainder (`DivisionUnique`). `SentInv` relates what is sent to the sending thread's
rounds, so a whole number of frames received is one the client has sent. `ConnInv`
says that a client closes its socket only by ending, and is reset only on a
connection the server closed; one that is in step the server closes only after its
client has ended, so no client that still sends dies of it (`OnlyCutClientsDie`).

**Records.** Whose history is read and deleted rests on `TelIsName`: RegisterHandle
stores the name as the tel, and UserPositionsHandle stores both or an empty tel, so
every row's tel is its name or empty, and a search for a name among names and tels
finds rows of that name. A handler may overwrite the session's name with a row's,
and it is the same name. `HistoryIsOwn` and `OnlyOwnDeleted` follow, of the session
that acts, whatever the others do. How paths are numbered rests on what the other thread knows
between its statements, while deletions, logins and registrations come in between.
`SelectInv` says what its SELECTs still mean: the path it read is the newest of the
name, and older ones belong to older logins. `Ready` says of the row on its way to
the INSERT that it comes after all rows of the name, in a path of its own login, and
has the next number unless the path was torn. `OrderInv` says that rows stored
before the user was registered, which have no login number, come before all others,
and that a login number in the history was given out before; without it the newest
path could be that of an older login.

**What happens in the end.** Each proof has the same shape. A measure, a natural
number, is never increased by any step and is decreased by the step that is fair
and enabled as long as the goal is not reached; by induction over the measure the
goal is reached. `Induction` is proved in `Naturals_proof` from the library's
well-founded minimum; its instance is the hypothesis named above, and what the
proofs show is the two steps it rests on.

- `EveryLocationAnswered`, `EveryGuideAnswered`: by induction on the number of
  requests answered, in the order they were asked. The next request stays the front
  of the queue, which the event thread only appends to, while the thread goes through
  `startLoc`, its work and `finishLoc`, or first through the calls of `test`; with
  `HeldRequestIsFront` it is the one that `finishLoc` erases.
- `QuittingEnds`: once the loop is broken no callback begins, and the one that may be
  half done gets over (`OnReadGetsOver`); from there each of main's calls leads to
  the next. Nothing the two threads do holds main up: they can only stop the process.
- `SearchesEnd`: while nodes are open the measure is the nodes not yet closed, and
  those still to look at in the round at hand; every round closes one (`NodesOnce`).
  On the way back from the end it is the place of the node at hand in the closed
  list, since a parent was closed before its child (`ParentsAreFirst`). Without the
  latter two nodes could be each other's parents.
- `EveryClientComesToItsEnd`: the parent forks each client once; a client connects or
  fails; its sending thread has at most two steps for each round left, and one to
  end; then `statue` is false for good and the receiving loop is left. A client
  whose main thread looked at `statue` too early waits in `join` for the same sender.
- `ParentComesToItsEnd`: when all have written, the measure is what is left of the
  round, and one round more if a pipe passed over is still full.
- `EveryMessageIsHandled`: when all clients are gone, the measure is the number of
  units not yet read on open connections, and one more for the end of each; every
  `recv` takes at least one, or ends a connection. The event thread can be in the
  middle of a message of a client that is gone: then that client's end is there to
  be read. `EndInv` says what is needed of the end of a connection: a client that is
  gone has closed its socket, and one in step is closed when all was received.

**Only model-checked.** `PathIsShortest` is a fact about the repository's map, false
on others (estimates cut to int and skipped edges can cost the shortest path), and
compares with shortest paths computed by recursion over the nodes. That the steps
are enabled where their guards say so, and the instances of induction, are hypotheses
(above); the liveness properties themselves TLC checks without either. The four
violations are TLC's.

## 6. Not modelled, and why

- `OnWrite`, `MyWrite`: never reached. `DestroyConnPool`: only the pool's destructor
  calls it, and the pool is static and never deleted.
- `LocationHandle`, `Location2Handle`, `getData` of DBAnaysisData: they only read
  tables of fingerprints, in another build's server.
- Item 0 and negative items of `GetHistory`, which read out of bounds.
- Location1, Util, Locate, Point: no thread calls them; `run` answers (2, 2, 2).
- The branch of testClient for `BURDEN_ANALY`, which nothing defines.
- Allocation failure, a missing or malformed map file, logging and output.
- A memory model weaker than sequential consistency, and the tearing of a request
  while it is copied: `RequestVector` already shows the race with neither.
- Who calls `UserPositionsHandle`: nothing in `src/` does yet. `Records` has it run in
  a thread beside the handlers; run by the event thread it would have fewer behaviours.
