# A verification project for tsiu

tsiu (C++, Windows) is a game and tool library, `TLibMain` and `TLibWin32`, with programs
built on it. The program with the most logic of its own is the **VUP manager**
(`src/src/VUPManager`): it supervises test clients ("VUPs") on several hosts, gathers them at
rendezvous points, starts their tests and shows their state. Clients link the **VUP client**
library (`src/src/VUPClient`). The two talk over UDT, a message protocol on UDP, and both hand
packets from threads to their main loop through `MemPool` (`TLibMain/TUtility_MemPool.h`). Two
other programs keep state that is easily left inconsistent: the **soccer debugger**, with a
formation editor whose callbacks share raw pointers, and the small game **Guess**. The library
itself has two versions of **behaviour trees**.

This directory holds TLA+ models of these parts, TLC configurations that check them on small
instances and TLAPS proofs for every value of the constants. There are no tests or design
documents of them in the repository (`doc/Mind.doc` sketches another kind of behaviour tree):
the models are translated from the code, and `PROJECT.json` (`map`) names for every definition
the lines it stands for. The build that is modelled defines `USE_UDT_LIB`; the branches for the
other one are dead code. `D_CHECK` is compiled in, so that an assertion that fails ends the
program.

## 1. Inventory

| Component | State | Operations | What is hard | Right when |
|---|---|---|---|---|
| Client registry (`VMVupManager.cpp`, `VMVup.cpp`) | maps by socket, by passport and by view key; dirty set; list of polled sockets | accept, poll, ClientRegister, ReportClientStatus, ReachRDVPoint, LostConnection, addvup, removevup, updatevup, sort, freeze | three threads; an object is deleted by a packet while three maps name it; keys made from attributes that change; refused clients | no map names a deleted object; one holder per passport; nobody loses a passport while connected |
| Rendezvous (`VMVupManager.cpp`, `VMSummary.cpp`) | points with their list, groups, full flag and age; parameters; seat of each client; group summary | reach, leave, set parameters, age, fire | seats are described three times over; time-out against arrivals; a client that moves on or leaves after the point fired | list, groups, seats and summary agree; a seated client is started, by its own point |
| Agent summary (`VMSummary.cpp`, `VMVup.cpp`) | counts per host, status and phase; rows shown | register, report, delete, draw | counts kept by differences | counts equal the registered objects |
| Packet pool (`TUtility_MemPool.h`) | deque, size, loss, mutex | InsertUDPData, GetSize, GetUDPData, CleanBuff | size is read without the mutex; full pool | a bounded FIFO; a fetch is never short |
| Client library (`VUPClient/main.cpp`) | pool, connected flag, last reported value | receive, Tick: wait for the answer, handle requests, report | requests overtake the answer and are put back | each request is handled once, or the pool was full |
| Threads (`TCore_Thread.cpp`, runners) | state of three threads, mutexes | start, run, stop, terminate | `TerminateThread` at any instruction | no thread outlives its object; the destructor ends |
| Behaviour tree (`TAI_BevTree`) | memory of every node | Evaluate, Tick, Transition | a choice from an earlier frame is stale; a branch is given up half-way | what executes may; what is entered exits |
| Behaviour tree 2 (`TAI_BevTree2.h`) | the tasks a tree of behaviours holds | install, update, destroy | nested ownership; a composite that ends while children run | a task that began is told its end before it goes |
| Formation editor (`SDFormationEditor.cpp`, `SDInit.cpp`) | canvases per pitch and team state, pointers to those shown, mode, tab, list boxes | choose, edit, copy, load, save, simulate, follow a real game | pointers refreshed in one mode only while a load deletes what they point to | what is edited is what the boxes show; ids unique |
| Guess (`src/src/Guess`) | state and effect of every block, the selected block | click, resize, tick, draw | an effect writes its picture back over what happened meanwhile | the open block is the selected one; effects end |
| Rest of the soccer debugger | frames received, replay position | receive, replay, draw | its receive thread is terminated | the pool is `MemPool`; the rest is drawing |
| Event module (`TEngine_EventModule.cpp`) | ring of 128 events | post, send, run one frame | - | FIFO |
| Behaviour tree, candel | actions, motions | select, run | - | not finished in the repository |
| Log transfer | file on a connection of its own | request, send, receive | blocking calls | - (I/O) |
| Console (`VMCommand.cpp`), window (`VMInit.cpp`) | - | commands are operations of the parts above; drawing reads them | drawing between ticks reads what packets changed | asserted by the widgets |
| Engine, clock, scenes | modules in a fixed order | one frame: messages, clock, network, input, events, scripts, scenes, rendering | - | drives the parts above |
| LuckyDraw, launchers, demos, GUI, script binding, maths, vendored libraries | - | - | - | not modelled |

**How they interact.** A client connects; the *listening thread* accepts, makes a `VMVup`, puts
it in the map by socket (own mutex) and then in the list of sockets (another mutex). The *working
thread* polls that list, reads messages and puts packets, and reports of broken sockets, in the
pool (its mutex). Once per frame the *main thread* takes all packets out of the pool, handles
them one by one, fires the rendezvous points that are due, re-keys the dirty objects and draws.
Operator commands run in the main thread between two frames. Requests to clients go out from the
main thread, are received by a thread of the client and wait in the client's pool for its
`Tick`. All data but the pool, the map by socket and the list of sockets belongs to the main
thread. The editor, Guess and the behaviour trees run on one thread: what interleaves there is
callbacks, frames and the choices of the user.

The hazards of this code, each at its line with the properties that watch it, are in
`PROJECT.json` (`hazards`); one that a property leaves out by its wording or its run is listed
without properties, with the reason.

## 2. Modules

| Module | Models | Checked by | Proved in |
|---|---|---|---|
| `VupRegistry` | the registry, three threads, the pool as one queue | `VupRegistryMC` with `...Distinct`, `...Shared` | `VupRegistryProofs` |
| `PassportLease` | what the registry promises: abstract specification | `KeepsLeases` in `VupRegistryShared` | `LeasesKept` |
| `RdvPoint` | rendezvous points and the group summary | `RdvPointMC` with `...Patient`, `...Any`, `...Rows` | `RdvPointProofs` |
| `AgentSummary` | the counts per host | `AgentSummaryMC` with `...Counts` | `ManagerProofs` |
| `MemPool` | the pool, lock by lock | `MemPoolMC` with `MemPoolThreads` | `MemPoolProofs` |
| `PacketFifo` | what the pool promises: abstract specification | `IsFifo` in `MemPoolThreads` | `PoolIsFifo` |
| `VupClient` | the client library | `VupClientTicks` | `VupClientProofs` |
| `ManagerThreads` | threads, mutexes, the manager's destructor | `ManagerThreadsEnd` | `ManagerProofs` |
| `BevTree` | behaviour trees, first version | `BevTreeMC` with `BevTreeFrames` | `BevTreeProofs` |
| `BevTree2` | behaviour trees, second version | `BevTreeMC` with `BevTreeFrames` | `BevTreeProofs` |
| `TreeShape` | what both make of a tree | `BevTreeMC` with `BevTreeFrames` | `BevTreeProofs` |
| `FormationEditor` | the canvases, modes and tabs of the soccer debugger's editor | `FormationEditorModes` | `FormationEditorProofs` |
| `GuessBoard` | the blocks of Guess | `GuessBoardPlay` | `GuessBoardProofs` |

The manager is cut along the data its threads share. `MemPool` shows that the pool is a bounded
FIFO whatever the unlocked reads of its size see (`IsFifo`); `VupRegistry` and `VupClient`
therefore use a plain bounded queue whose drain is one step (or two, in `VupClient`, where
packets are put back). `VupRegistry` decides when a client registers and when its object is
deleted; `RdvPoint` and `AgentSummary` model the effects of the same handlers on *their* data
and allow registration and deletion at any time, which is more than the registry does.
`ManagerThreads` keeps of all this only which mutexes each round takes.

### VupRegistry
An object is named by the connection it was made for, so a name left in a map after the delete
*is* the dangling pointer. `byPassport`, `bySocket`, `view` and `dirty` are the four containers;
`key` is the key an object would be erased by, `id` its `m_iUniqueID`. `Accept` and
`AddClientSocket` are the two publications of the listening thread. `Select`, `Receive` and
`ReportBroken` are one round of the working thread; the sets `rfds`, `efds` are its stale copies.
`StartTick`, the packet handlers, `StartViewUpdate`, `ReKey` and `EndTick` are one tick. Each
handler is one step: all it touches except the pool, the map by socket and the list of sockets
is private to its thread, and those are touched once per handler. `RemoveVup` includes the
destructor, which closes the socket; `LostConnection` finds the object by socket and removes
by passport, as the code does. `UpdateVupCommand` gives a registered object the attributes that
were typed, and so another view key. Messages of a connection may overtake each other (`sendmsg` is
called without `inorder`). The attributes a view key is built from are one value, `field`.

After a handler has followed a pointer to a deleted object (`fault`) the behaviour is undefined
and the model stops; no property that is claimed depends on what follows.

Left out: the chosen sort order (the `sort` command re-keys everything, and that is
modelled); filters; the text of commands; passports below zero (they mean "none"). `KillClient`,
`RequestLog` and `Refresh` only send (`Refresh` does nothing in the UDT build).

### RdvPoint
`rdv` is the list of points, `point` and `group` the seat each object remembers, `summary` the
group summary. `Reach` is the whole ReachRDVPoint case, `Leave` is `RemoveVup` with the
destructor, `UpdateRDVPoint` fires every point that is due. Two constants select the
assumptions: `Patient` clients reach a point only when they await no other, and with `Tunable`
the operator changes parameters under open points. `awaits` and `fired` are history that no code
reads. Start times and delays, which are only computed and sent, are left out; the age of a point
counts to its time-out.

### AgentSummary
The setters of `VMVup` as written, including `SetTestPhase`, which compares the new phase with
the *status* (VMVup.cpp:128) and so misses phases of the same number. The counts stay exact all
the same (`CountsExact`): the object and the count miss together.

### MemPool
Everything under one hold of the mutex is one step except the updates of `size`, which other
threads read without it. `GetSize` and the first test of `GetUDPData` are two such reads.

### VupClient
One client and its manager. `net` is a set: requests may overtake each other and the answer.
`WaitForRegisterACK` puts every packet that is not the answer back into the pool; a refusal drops
the rest of the batch. `Receive` and `Tick` interleave.

### ManagerThreads
`todo` holds the mutexes a thread takes in its round. `Stop`, `Joined`, `TimeOut` are
`Thread::Stop`; `TimeOut` is `TerminateThread` and leaves mutexes locked.

### BevTree
`Evaluate`, `Transition` and `Tick` pass the memory of all nodes through the tree in the order of
the code, including the choices `Evaluate` leaves in selectors of a branch that is not taken. Each
is a recursive function of the place in the tree, and gives at every place a function of memories:
`Place(n, 0)` is the method of node `n`, `Place(n, i)` its loop over the children, from the i-th on.
A definition such as `TickSelector(T, n, m)` is the body of that method, with `T` for the calls it
makes. `TreesAssumption` says what a tree is: a child has one parent and one place there and
nothing is below itself (`IsTree` of `TreeShape`, for both versions), a node has at most sixteen
children and, unless it is a terminal, at least one (`IsBevTree`). A frame chooses any outcome for preconditions and terminals. The trees of `BevTreeMC` are
the third example of the repository and three made so that every kind of node occurs. `TypeOK` is
not among the invariants of the run: a memory outside `Memories` is outside the domain of the
functions, which stops TLC with an error.

### BevTree2
A node has one parent, so that there is at most one task of it and the task is named by its node.
`Install` and `Uninstall` are those of `Behavior`; destroying a task destroys what its own
behaviours hold (`Below`). `Update` is `Behavior::Update`: `OnInit` when it was not executing,
`OnUpdate`, and `OnTerminate` when the result is not "executing". It is a recursive function of the
place in the tree, as in `BevTree`, and the tasks are what it passes on: at `Place(n, i)` is the loop
of a sequence (`RunOn`: as many children as finish in one frame), of a selector (`TryOthers`) or of a
parallel (`RunAll`). A composite without children fails, as in the code, or goes on for ever.
`BevTreeMC` puts a frame of the first version and a frame of the second in one specification, since
both share `tree`: the tree says which runs, and of the other version nothing is there.

### FormationEditor
`canvases` is `m_Canvases` for one of the fifteen positions, which are treated alike; a canvas
is its pair ids, `m_NextID` and the selected element. `current`, `ref` and `simRef` are the raw
pointers: a slot, `Null`, or `Dangling` after `Clear` deleted what it pointed to. The list boxes,
the mode, the tab and the enabled buttons decide which callback does what: `UpdateCanvas` and
`UpdateRefCanvas` do nothing outside the Edit mode, which is why a load in a simulation leaves
pointers behind. `Draw` is the frame that would follow such a pointer. Mouse and keys are not
guarded by the tab, as in the code. `leftTab` and `lateLoad` are history that no code reads.

### GuessBoard
A rectangle is named by what it spans and for which size of the window, so that "an effect that
began before a resize" is visible in the geometry. `Message`, `Tick` and `Draw` are the three
parts of a frame of the engine. `FrameAt` and `CurFrame` are `GSEffectController::Tick`: the
first key frame that is not over, the last one once after its time, then no data, at which the
block stops reading from the effect in the same call.

## 3. Runs

| Run | Instance | Shows |
|---|---|---|
| `VupRegistryDistinct` | 2 connections with passports of their own, 1 addvup object, pool of 1, 2 messages of one and 1 of the other, all commands | type, no dangling pointer, connected clients keep their passport, the list shows exactly the registered objects |
| `VupRegistryShared` | 2 connections that claim one passport, which the operator may remove at any moment, pool of 2, 2 messages of one and 1 of the other, fairness | never two connected holders; refinement of `PassportLease`; map and objects agree; no register packet without an object; broken connections are forgotten; a register is answered or was refused by a full pool |
| `RdvPointPatient` | 3 clients, 2 points, 3 settings, fixed while open, fairness | list, seats, full flag, summary; started by one's own point; every seated client is started |
| `RdvPointAny` | 2 impatient clients, 2 points, settings changed under open points | type (no negative counts), seats match the list, nobody stranded, groups within limits |
| `RdvPointRows` | 3 clients, 1 point | **violated**, see below |
| `AgentSummaryCounts` | 3 objects on 2 hosts, 3 statuses and phases | counts, hosts and rows |
| `MemPoolThreads` | 3 threads, pool of 2, 2 packets, fairness | FIFO, whole batches, packets leave |
| `VupClientTicks` | pool of 2, 2 requests, 1 change, fairness | exactly once, order, requests handled, changes reported |
| `ManagerThreadsEnd` | 3 threads, up to 2 packets per round, fairness | no thread outlives its object; the destructor ends |
| `BevTreeFrames` | 4 trees of 7 nodes of the first version, 4 of 7 to 9 of the second | preconditions hold; running terminals are remembered; tasks are told their end |
| `FormationEditorModes` | 2 pitches, 2 team states, 3 ids, 1 edit | the editor shows what was chosen, at its scale; ids unique; only the known pointers go stale |
| `GuessBoardPlay` | 3 blocks, 2 sizes of the window, fast and slow frames, fairness | the open block is the selected one; blocks at rest show their state; effects end |

**Bounds and why they suffice.** Two connections are the least with which one client can harm
another, by passport or by filling the pool. A pool of one or two is full in every run that needs
it, and `PoolMax` is the constant 1000 of the code. `MaxSends` lets one client register and then
report, or register twice, while the other registers. `MaxListed` allows each client of `RdvPointPatient` one place and,
in `RdvPointAny`, lets a client be listed twice. Three statuses are needed for phase = status and
phase /= status with both counted. `MaxLoss` and `MaxCount` cap counters that only grow.
`MaxPackets` = 2 lets the working thread be stopped between two insertions. `MaxId` = 2 is one
pair beyond the two fixed ones, so that a copy between a canvas that has it and one that has not
changes both ids and counter; one edit (`MaxEdits`) plus files that hold the third pair reach a
selection that a copy orphans. A frame of `GuessBoardPlay` is shorter than every key frame or
jumps over several of them; three blocks let a block be clicked while another is open and a third
is turning. Symmetry is used in `RdvPointAny` only, where no liveness is checked.

**Deadlock** is checked except where the system may stop: `VupRegistryShared`
(it ends at `fault`, see section 5), `VupClientTicks` (the program was killed, or there is nothing
left to do), `ManagerThreadsEnd` (the destructor is through, or waits for ever) and
`FormationEditorModes` and `GuessBoardPlay` (an assertion or a pointer ended the program).

**Fairness.** The main loop of an engine runs until its window is closed, so `Tick` is weakly
fair as long as the program runs; the threads loop without waiting for each other except for
mutexes. Nothing is assumed of clients and the operator: they may stop at any time.
`RdvPoint` needs the clock to advance (`SF` of `StartTick(1)`). `MemPool` takes the
Windows mutex to be strongly fair (a waiter is granted it when it is free often enough) and the
main thread to ask again and again; the receivers are only assumed to leave critical sections.
In `VupClient` what is on its way arrives while the connection is up (UDT is reliable; messages are
late, never lost). In `ManagerThreads` nothing is assumed of the network, so `accept` may block for
ever, and nothing of the log thread, which may sit in `recvfile`. In `GuessBoard` the engine's loop
goes on (`WF` of `Next`), and a frame takes time.

**A finding.** `RdvPointRows` checks what the list widget asserts of its callers
(`FXTreeList.cpp:607`, the item is not NULL) for the drawing code of an unlimited group
(`VMInit.cpp:428-450`). TLC finds: one client reaches a point and is started by its
time-out; two others reach the same point, which is opened again, and join the same group; the first
disconnects, and its destructor takes a client out of the *new* group, because the object still
remembers point and group. The group then has two clients and a count of one, the code walks past the
last row, and the widget aborts the manager. (With one client in the opened point the count becomes
zero and `UpdateGroupInfo` erases the whole entry, VMSummary.cpp:150-152.)

## 4. Proofs

`tlapm` checks the theorems below for every value of the constants under their named
assumptions. Each inductive invariant was first checked by TLC on the instance of section 3 that
belongs to it, or on a somewhat larger one; the states it was checked in are given with it. Where a
theorem needs more than the named assumptions, it says so in an `ASSUME` of its own, and a run of
section 3 has constants that satisfy it.

**Registry** (`VupRegistryProofs`). Three layers, each proved over the one before:

* *Types.* `TypeCorrect`: `Spec => []TypeOK`. Not inductive alone: `ReKey` builds a view key from
  `id`, which may be "none". The strengthening says that whatever is in `dirty` or in the map by
  passport has its passport; `Register` sets `id` before it marks the object, and no action
  resets it.
* *Passports and packets*, for any clients and any use of removevup. `PassportInv` relates the map by
  passport, the ids and what was answered; it gives `MapCorrect`, `AckedDiffer` and `AckedHolds`.
  `DeliveryInv` says what is on its way: a LostConnection packet is about a connection that has
  ended, nothing of that connection is behind it in the pool or can still be received, and what
  the working thread may read from, or what asked to register, is in the map by socket. Without
  the first part `RegistersAreKnown` is not inductive: a report of a broken socket could overtake
  the registration of that socket, which is read from the thread's stale set, and the handler
  of the registration would find no object.
  (191,521 states of `VupRegistryShared`, 613,194 of `VupRegistryDistinct`, 1,851,012 of a wider
  instance.)
* *Pointers and the view*, under `DistinctPassports`: clients do not share passports and the
  operator removes no connected client's. `DistinctInv`: an object with a passport is the one its
  passport finds, a connection finds a live object, and view and map by passport show the same
  objects. It gives `NothingDangles` and `ViewCorrect`; it is false without the hypothesis
  (section 5). (613,194 states.)
* *Refinement.* `LeasesKept`, for any clients and any use of removevup: the registry implements
  `PassportLease`. `Register` is a `Grant` when the passport is free and a `Refuse` when it is not,
  addvup an `Assign`, the end of a connection is `Leave`, and all that the three threads do besides
  stutters. What is left is who may take a passport back, and the contract has one way for each:
  `Release` when its holder has gone, `Withdraw` by the operator, `Evict` by the departure of a client
  that was refused this very passport. The contract knows whose turn it is (`turn`: the operator types
  between two frames), so that a holder lost to another client's packet cannot pass for one the operator
  removed. In the last two the connection of the holder ends in the same step,
  since the destructor closes it. To show that `LostConnection` has no fourth way needs `Answered`: an
  object that has taken a passport is the one on the map, or its client was refused. So what
  it removes by passport is its own object or that of the client that stood in its way. (191,521 states.)

**Rendezvous** (`RdvPointProofs`). The list of a point, the seats in its groups and the group every
object remembers describe the same thing three times, and leave, reach, time-out and parameter
changes update them in different orders.

* `RdvInv`, for any clients and any change of parameters, gives `SeatsBalance`,
  `NobodyIsStranded` and `GroupsAlwaysFit`. That a group never shows more clients than its limit
  cannot be inferred from the seat counts alone: an object gives its seat back to a group of its
  point that was opened again since (section 5), so counts may be too low. The invariant
  therefore weighs a group by what it shows *and* by the seated clients it does not show (`Weight`),
  which leaving and reaching keep within the limit. (821,118 states of `RdvPointAny`, 103,522 of
  `RdvPointPatient`.)
* `PatientInv` (`Patient`) adds that who is listed awaits that point and that a list holds each
  client once; it gives `StartsOwnClients`, an action property.
* `SteadyInv` (`Patient` and not `Tunable`) adds that the full flag says whether there is room and
  that the summary shows what is there until a point fires; it gives `SeatsAreExact` and
  `SummaryIsExact`. (103,522 states.)

**Agent summary** (`ManagerProofs`). `CountsCorrect` and `HostsCorrect` from `SummaryInv`: an
unregistered object has blank status and phase, so that its destructor subtracts nothing, and a
host's count is at least the number of its registered objects, so that it is zero only after the
last. (68,972 states.)

**Pool** (`MemPoolProofs`).

* `PoolInvariant`, `WholeBatches`: `PoolAgrees` has three parts. The owner of
  the mutex is the thread inside; `size` differs from the length of the deque by the pending
  update of that thread only; what the consumer was promised stays there, since only the consumer
  removes packets. The third makes `GetUDPData` return as many packets as the caller allocated
  for, which no caller checks.
* `PoolIsFifo`: `MemPool` implements `PacketFifo`. `PushBack`, `Lose`, `Copy` and `CleanBuff`
  are `Put`, `Lose`, `Take` and `Clear`; `GetSize` is `Ask` and needs `PoolAgrees`; the rest
  stutters. It holds for any number of threads and any limit.

**Client library** (`VupClientProofs`). `HandledOnce` and `HandledInOrder` from `ClientInv`. What was
handled, what is left of the array and what is in the pool form one line. It has no message twice
and none that is still on its way; a packet joins at the end; `Tick` moves the borders between
the three parts and takes the answer out, and puts an early packet back at the end. The order of
*all* packets is not kept, so the invariant is about those received after the answer was seen:
none of these is in the array while `Tick` still waits (`LateAfterAnswer`), since the array is filled
before. The lemmas on lines (`LineJoined`, `LineLeft`, `ArrayAdvances`, `BorderMoves`,
`ArrayFilled`) are about sequences only. (273,982 states, pool of 3 and 3 requests.)

**Threads** (`ManagerProofs`).

* `DeletedThreadsAreDead`: `OnlyMissedOutlive`. The invariant adds that
  `m_bStarted` is false only of threads that have not begun or are dead, and that what the
  destructor deletes next is dead or was missed. Mutexes and packets play no part in it.
* `MutexesHeldInTurn`: the type invariant with who may hold which mutex. `MutexInv` adds that a
  thread or the main thread that rests has no mutex left to take. (20,499 states.)

**Guess** (`GuessBoardProofs`).

* `BoardOpenIsSelected`, `BoardDrawsFrames`: `OpenIsSelected` and that no
  block is drawn without a frame. `OpenIsSelected` is inductive with the types of `selected` and
  `state`: a click goes to the selected block if there is one, so that a second block cannot open,
  and the selection is released in the click in which the answer starts to shrink. The second
  needs `FrameReady`: between the tick and the drawing, a block that still reads from its effect
  has a frame, because the end of the effect is *sent*, not posted, and reaches the block before
  the tick returns.
* `BoardShowsStates`: `ShownAsState`. `ShownInv` says of a block that reads from its effect that the
  last key frame is the picture of the state the block is in, that at any time up to it there is a
  key frame to go towards (`Covers`), and that this last frame is the one shown once its time has
  passed. That is what the block keeps when it stops reading. (99,257 states.)

**Formation editor** (`FormationEditorProofs`). `EditorShowsChosen`, `EditorScale`, `EditorPairs`,
`EditorCrashesKnown`: the four properties of the editor, for any number of pairs and edits,
from one invariant. What it adds: a pointer to a canvas in Edit mode names one that exists even
while the other tab is shown, where keys still reach it (`Held`); the simulated canvas is NULL in
Edit mode and stale only after a late load (`SimRefKnown`); the start button of the other mode is
disabled, so that the assertions of the mode switches cannot fail, and a tab shown again in a
simulation was left in one (`ModesAgree`). The data part (`WellFormed`) is kept by each operation
on a canvas by a lemma of its own.

**Behaviour trees** (`BevTreeProofs`), for any finite trees and any preconditions and outcomes.

* *Recursion.* The functions are defined by recursion over places; `RecursionExists` and
  `PlaceInduction` justify it by the height of a node and, in a loop, by the children that are left.
  `EvaluateDef`, `TransitionDef` and `TickDef` are the equations everything else uses.
* *What a visit may change.* `Region` is the part of the tree a place speaks for, `Alike` says that two
  memories agree on a node. Every walk leaves the nodes outside its region alike, so that what holds
  of the brothers of a branch is kept while the branch is visited.
* *Preconditions.* When `Evaluate` lets a branch pass, it is `Ready` (`EvaluateGoodAll`): whatever
  `Tick` would reach through the choices, steps and finished children now in memory has a
  precondition that holds. The choices of earlier frames that were not renewed are those `Tick` does
  not reach. From a `Ready` memory `Tick` executes only terminals that are `Permitted`
  (`TickGoodAll`); in a selector it ticks the child that `Evaluate` chose, after the one it gives up was
  told, and telling does not touch the choice.
* *Paths.* `Tidy` is `PathRemembered` for a branch. `Transition` of a tidy branch leaves it `Clear`, with
  nothing running outside OR parallels (`TransitionGoodAll`); that is why a selector may then forget
  the child it leaves. `Tick` keeps a branch tidy and, when its status is not "executing", leaves
  it clear, so that the parent may forget it too.
* `Invariant` puts the three together; `TypeCorrect`, `PreconditionsHeld` and `PathsRemembered` follow.
* *The second version.* `TasksPaired` is inductive only with what holds of every single node
  (`Sound`): a child has a task only if its parent has, what executes has a task, and a parallel that
  executes has given tasks to all its children. Below a node without task nothing has been done
  (`NoneExist`), and below one that does not execute only a parallel can have left a terminal
  between `OnInit` and `OnTerminate` (`Quiet`); so to install or give up a child that has ended drops
  nothing (`InstallIdle`, `UninstallIdle`). By induction over places, `Update` changes only its own
  branch (`Within`) and leaves it sound (`UpdatesGood`): the loops keep the one child of a sequence or
  selector (`Single`), which is idle whenever another is installed. `TasksSound` and `TasksArePaired`
  follow for every tree. (631 states of `BevTreeFrames`, 340 of the first version.)

**Assumptions**: `ConstantsAssumption`, `RdvAssumption`, `SummaryAssumption`, `PoolAssumption`,
`ClientAssumption`, `PacketsAssumption`, `BoardAssumption`, `DataAssumption`, `EditorAssumption`,
`TreesAssumption`, `TaskTreesAssumption`. TLC evaluates them in the runs. They say that names are
distinct, sets of clients are finite, limits are numbers, frames take time, the pools of registry
and client hold at least one packet, and trees are trees.

Three properties are stated so that they can be reasoned about without recursion, by sets of
positions and their cardinality: `SeatsMatchList`, `ExactlyOnce`, `InOrder`.

**Only model-checked**: the liveness properties (`SeatedIsStarted`, `BrokenConnectionForgotten`,
`RegisterAnswered`, `PacketsLeave`, `RequestsHandled`, `ChangesReported`, `ShutdownCompletes`,
`EffectsEnd`: temporal reasoning with `ENABLED` is beyond this prover). `RowForEveryClient` is
violated (section 3).

## 5. What the properties do not claim

Each was met while modelling and is excluded by a named assumption, not hidden:

* **Shared passports.** `NoDanglingPointer` is claimed under `DistinctPassports` only. A client
  that is refused because its passport is taken keeps the number in its object; when it disconnects,
  `LostConnection` removes *by passport* (VMVupManager.cpp:1587) and deletes the object of the
  client that holds it, whose entry in the map by socket then dangles.
  `VupRegistryShared` shows what still holds up to that moment. `KeepsLeases` does not forbid it: it
  says that nobody but a refused claimant of the same passport does this (`Evict`). Nor does it
  forbid that a client which comes back before its old connection was removed is refused; it
  never asks again.
* **removevup of a connected client.** The same entry dangles when the operator removes
  the passport of a client that is connected; with such a passport in `RemovablePassports` TLC
  refutes `NoDanglingPointer`. `VupRegistryDistinct`, where it is checked, removes what addvup made;
  `VupRegistryShared` removes the clients' passport and checks the properties that still hold.
* **A client that never registered** is not freed when it disconnects: there is no passport to remove
  it by, and the object and its socket stay.
* **Full pool.** A broken socket is reported on every poll until it is handled, so reports can fill
  the pool and push out another client's registration, which is never sent again. Hence the
  third way out in `RegisterAnswered`.
* **Impatient clients.** A client that reaches a second point while it waits at the first stays
  listed there, and may be started by it: `StartedByOwnPoint`, `SeatsAgree` and `SummaryAgrees`
  assume `Patient`, while `SeatsMatchList` and `NobodyStranded` do not. A client that gets no
  group is not started by anyone and is left out of `SeatedIsStarted`.
* **Changed parameters.** After setrdvp raises the size of a group the full flag is stale
  (the full flag in `SeatsAgree` assumes fixed parameters).
* **Fired points.** A client keeps its seat after its point has fired and gives it back when it
  leaves; `SummaryAgrees` is about points that have not fired before, and
  `RdvPointRows` shows what happens at one that has.
* **Registering twice** on a connection counts the client twice for its host (`HostsExact` excludes
  it), so the host's row never goes.
* **A failed report.** The client records the value of the watched variable before it sends it
  (main.cpp:676) and does not repeat a send that failed; `ChangesReported` excuses a broken link.
* **Late start.** `m_bStarted` is set by the new thread. `Stop` that comes earlier neither tells
  nor waits for it (`missed`).
* **Orphaned mutex.** The listening thread is terminated inside `AddClientSocket` and the destructor
  then waits for the working thread for ever (`Orphaned`). Locks inside UDT, and the map by
  socket left half-changed, are not modelled.
* **OR parallels** of a behaviour tree forget children that have not finished (`Forgotten`); the
  parallel of the second version destroys what still runs without `OnTerminate`
  (`UnderParallel`). `BevNodeLoop` reports "finish" after its first round and "executing" after its
  last (TAI_BevTree.cpp:292); the model does the same, and no property says how often a loop runs.
* **A load outside the Edit mode** leaves `m_SimulatedRefCanvas` (and the other two, until the mode
  ends) pointing at deleted canvases: `CrashesKnown` allows a stale pointer only then (`lateLoad`).
* **A file that cannot be read** leaves no canvases and is reported as loaded; saving or copying then
  follows NULL (`crashed = "null"`).
* **A selection behind a copy.** `FEEditorCanvas::operator=` replaces the pairs and keeps
  `m_SelectedElement`; pressing Delete then fails the assertion that its pair exists (`orphan`).
* **Leaving the tab in a simulation** resets the size of the pitch to Normal, and coming back
  restores it in Edit mode only: `ScaleAgrees` excludes it (`leftTab`).
* **A resize during an effect** of Guess is overwritten by the effect's frames, which were made for
  the old size (`late`); a click on the last pixels of a window that is not a multiple of three
  asserts (`ClickOutside`).

## 6. Not modelled

The repository holds some 275,000 lines of which about 29,000 are its own; the rest
(`ExternLibs`: FOX, fmod, libjpeg, Lua, TinyXML, UDT) is vendored and modelled only where the manager
relies on it (UDT's `selectEx`, `accept` and message queue). Of its own code, out of scope are: the
GUI, rendering, mathematics and input (drawing, and numbers TLC cannot enumerate), script
binding, sockets and log transfer (I/O), containers (thin wrappers of arrays and lists), LuckyDraw,
the launchers and the demos (assets and timers), the replay of the soccer debugger and
the tuning pages of its players (data shown as it is), the geometry of the formation editor,
the content of logs, the text of commands. The candel behaviour tree is unfinished and used by no
program. Only input events are posted to the event module; what the models use of it is
`SendEvent`, a call.
