# LeapWorkSpace: a TLA+ model of the signature service

LeapWorkSpace runs browser scripts in a container. A Node program
(`leap-env/runner.js`) starts a C++ server (`leap-vm`), sends it signature
tasks over TCP and prints the answers. The server keeps a pool of worker
threads; each owns a V8 isolate dressed up as a browser by a JavaScript bundle
built from `leap-env/src`.

This directory holds TLA+ modules translated from that code, TLC configurations
that check them on small instances, and TLAPS proofs about them.

| Module | Code it models | Runs | Proofs |
|---|---|---|---|
| `WorkerPool` (implements `TaskService`) | `service/worker_pool.cc` | `pool` | `WorkerPoolProofs` |
| `SignatureTask` | `service/task_protocol.cc`, `ExecuteTask` of `worker_pool.cc`, `instance/signature-task.instance.js`, `core/runtime.js` | `task` | `VmInstanceProofs` |
| `IpcServer` | `service/ipc_server.cc`, the loop of `main.cc` | `ipc` | `IpcServerProofs` |
| `StandaloneClient` | `leap-env/src/client/standalone-client.js` | `client`, `client_lost_socket` | `StandaloneClientProofs` |
| `ServerManager` | `leap-env/src/client/server-manager.js` | `manager` | `ServerManagerProofs` |
| `VmPlatform` | `leapvm/vm_instance.cc` (thread part), `leap_platform.cc`, `leap_foreground_task_runner.cc`, `leap_delayed_task_scheduler.cc` | `platform` | `VmPlatformProofs` |
| `VmTimers` | `leapvm/vm_instance.cc` (timers) | `timers` | `VmInstanceProofs` |
| `DomTree` | `impl/00-dom-shared.impl.js` (tree, documents, task scopes), `Node.impl.js`, `Document.impl.js` | `dom`, `dom_insert_before` | `DomProofs` |
| `EventDispatch` | `impl/00-dom-shared.impl.js` (listeners, dispatch), `Event.impl.js` | `events` | `DomProofs` |
| `MessagePorts` | `impl/MessageChannel.impl.js`, `MessagePort.impl.js` | `ports` | `MessagePortsProofs` |

`tlc -config X.cfg MCX.tla` runs a configuration, `tlapm XProofs.tla` checks the
proofs. `PROJECT.json` maps every definition to the lines it models.

Two proof modules extend two specifications each. So that their names do not
clash, `EventDispatch` and `VmTimers` prefix what every module has: `EventInit`,
`EventNext`, `EventSpec`, `EventTypeOK`, `TimersInit`, `TimersNext`, `TimersSpec`,
`TimersTypeOK`.

## 1. Inventory

| Component | Where | State | Operations | Talks to |
|---|---|---|---|---|
| Runner | `leap-env/runner.js` | none that outlives a run | start, N requests, stop | ServerManager, StandaloneClient |
| Server manager | `src/client/server-manager.js` | `_process`, `_running`, `_exitPromise`, the set of active managers | `start`, `stop`, the `close` / `error` / ready handlers, parent-exit kill | the server process |
| Client | `src/client/standalone-client.js` | `_socket`, `_connected`, `_pending`, `_recvBuf` | `connect`, `disconnect`, requests, timers, socket events | IPC server over TCP |
| IPC server | `service/ipc_server.cc` | `clients_` by fd, send and receive buffers, `completed_tasks_`, the eventfd | `Poll`, `HandleMessage`, the completion callback, `Stop` | client, worker pool |
| Worker pool | `service/worker_pool.cc` | per slot queue, state, counters, vm; the totals; `running_` | `Start`, `SubmitTask`, `GetStats`, `Stop`, `WorkerThread`, `RecycleWorker` | IPC server (callback), VmInstance |
| Task execution | `worker_pool.cc` `ExecuteTask`, `task_protocol.cc`, `core/runtime.js`, `instance/signature-task.instance.js` | cache counters of a slot, the task scope inside the vm | combined and split execution, cleanup | VmInstance |
| VmInstance thread | `leapvm/vm_instance.cc` | task queue, `running_`, `accepting_tasks_` | `PostTask`, `ThreadMain`, `RunScript`, destructor | worker thread, platform |
| Timers | `vm_instance.cc` `AddTimer` ... `RunLoopOnce` | `timers_by_id_`, the timer heap, the count of stale entries | add, clear, compact, run due | JavaScript |
| Platform | `leap_platform.cc`, `leap_foreground_task_runner.cc`, `leap_delayed_task_scheduler.cc` | runners by isolate, shut-down isolates, queues | post, run, register, unregister, quiesce | V8, VmInstance |
| Child frames | `vm_instance.cc` | frames by id | create, run bundle, destroy | JavaScript |
| Inspector | `leap_inspector_client.cc`, `ws_inspector_server.cc` | active session, message queue, pause state | connect, dispatch, pause loop, shutdown | DevTools |
| DOM core | `impl/00-dom-shared.impl.js`, `Node.impl.js`, `Document.impl.js`, `Event.impl.js` | nodes and their links, documents by task, owned nodes, listeners | tree operations, begin and end of a task scope, dispatch | JavaScript, task execution |
| Message ports | `MessageChannel.impl.js`, `MessagePort.impl.js` | ports, queues, live lists, statistics | post, start, close, flush, reset | JavaScript, task execution |
| Native DOM | `dom_core.cc` | a mirror of the node tree | what the JavaScript tree asks for | DOM core |
| Skeleton registry and dispatch | `skeleton/*.cc` | templates, dispatch cache | build, dispatch, hook filters | JavaScript |
| JS environment | `leap-env/src/impl`, `core`, `instance` | storage, history, navigator, canvas ... | the browser APIs | the scripts |

What is hard here: six kinds of threads (main, workers, VM threads, platform
workers, delayed scheduler, inspector), single-threaded callbacks in Node that
outlive the connection or the process they belong to, identifiers that are
reused (file descriptors, isolate addresses), and shutdown, which every layer
does in its own order.

How the parts meet: the runner starts the manager, which spawns the server and
waits for a line on its standard output; then the client connects. A request is
a frame (length and JSON). The main thread of the server reads it, hands a task
to `SubmitTask` with a callback that holds only the *number* of the descriptor,
and goes back to `poll`. A worker runs the task on its `VmInstance`: it posts a
closure to the VM thread and waits for its promise. Meanwhile V8 posts tasks of
its own through `LeapPlatform`, which finds the runner of the isolate by the
isolate's *address*, and through the delayed scheduler, one thread for the whole
process. The result comes back through the callback: pushed on
`completed_tasks_`, an eventfd is written, the main thread sends it.

What makes each component correct:

| Component | It is correct when |
|---|---|
| Server manager | every `start()` and `stop()` settles; a server that was spawned is found by `stop()` or by the exit of the parent; after `stop()` its server is dead |
| Client | every request settles once; no timer outlives its request; what `disconnect()` promises holds whichever socket's event comes late |
| IPC server | no request is lost or answered twice, while a client's connection is open its replies go to nobody else, no completion sleeps through a `poll`, no descriptor leaks, a shutdown ends |
| Worker pool | a task accepted is called back once, in the order of its slot; no wakeup is lost; `Stop` joins everybody and nobody calls back after it; statistics never count a task twice |
| Task execution | what a task leaves in the vm does not reach the next task, whichever of its scripts fails |
| VmInstance thread, platform | what `PostTask` accepted is run; a task never runs on a later isolate with the same address; a new isolate is never taken for a dead one; the destructor ends |
| Timers | a timer fires at most once per period, not after `clearTimeout`, in the order of due times; the count of stale entries is the number of stale entries |
| DOM core | until the tree is damaged in one of three ways (section 2) both sides of a parent link agree and no node is below itself, whatever nodes of earlier tasks scripts still hold, and a document owns what it will clear and no more; a walk to the root always ends; listeners see their own node and none is skipped |
| Message ports | messages leave a queue once and in order and no callback gets one twice, though callbacks run inside each other; a closed port begins no dispatch; the statistics are those of the ports |
| Child frames | what belongs to a task is released with the task |
| Inspector | a paused vm can be resumed or shut down |
| Runner, configuration, skeleton, monitor, logging, build | sequential glue, data or output: no property worth a model |

## 2. The modules and the code

Conventions. Variables carry the names of the fields (`next_worker_` is
`nextWorker` in the older modules, unchanged in `VmPlatform`); the actions carry
the names of the functions. A region under one mutex, or one event handler in
Node, is one action; every other access to shared state is an action of its own.
A variable commented *history* exists only to state properties. A definition
`Name_Fault` is `Name` with a mistake a maintainer could make; `Spec` never uses
it. `PROJECT.json` names for every checked property one of them that breaks
it: a property that nothing can break would say nothing.

### WorkerPool

State: the main thread (`mpc`, `cur`, the `PoolStats` it fills in), the two
totals, `running_`, and per slot the queue, the flags, the counter, the vm and
the place of its thread. Task *n* is the *n*-th call of `SubmitTask`.

| Actions | Code |
|---|---|
| `StartPool`, `AwaitWorker` | `Start`: create the threads, then poll every `slot->state` |
| `SubmitRejected`, `SubmitPush`, `SubmitNotify` | `SubmitTask`: the callback on the spot, or the push under `task_mu` and the `notify_one` after it |
| `StatsCompleted` ... `StatsReturn` | `GetStats`, one action for each atomic or lock it reads |
| `StopPool`, `SignalStop`, `WakeWorker`, `JoinWorker` | `Stop`, slot by slot |
| `InitVm`, `LoopTest`, `WaitForTask`, `SpuriousWake`, `MarkBusy`, `FinishTask`, `CallBack`, `AfterTask`, `ReinitVm`, `CleanupWorker` | `WorkerThread` and `RecycleWorker` |

The creation of the slots and their threads is one action: `running_` is
published before it and a new worker touches only its own slot.
What `ExecuteTask` does inside the vm is one step that succeeds or fails here;
`SignatureTask` opens it.

`TaskService` is what a submitter may rely on: a task accepted is answered at
most once, a refused one on the spot, nothing is answered after the end, and only
the tasks still unanswered at the end are abandoned. `WorkerPool` implements it
under `Phase` (from `mpc`) and `Status` (a task is *accepted* while a queue or a
hand holds it). The mapping uses `answered`, a history variable, only to
tell an answered task from an abandoned one. The run `pool` checks the refinement on an
instance, `WorkerPoolProofs` proves it.

### IpcServer

State: the main thread in `Poll` (`pc`, what is left of the `poll` snapshot,
the swapped batch), `clients_` with its buffers by descriptor, the completion
queue and the eventfd, and the kernel: which connection is behind a descriptor,
the backlog, what is under way in either direction, and the state of each peer
(`fin` and `rst` differ by whether replies were unread; the send after that is
accepted or resets, and the next raises `SIGPIPE`). The kernel and the clients
are external and carry only what the code can observe: descriptors are
given out lowest first and reused, `send` is partial.

| Actions | Code |
|---|---|
| `BeginPoll`, `SendDrained`, `Notified`, `SendNotified` | the two calls of `DrainCompletedTasks` in `Poll` |
| `PollReturn`, `Accept`, `AcceptDone` | `poll`, `AcceptConnections` |
| `HangUp`, `Receive`, `ReceiveEnd`, `WriteOnly`, `Flush` | the loop over the snapshot |
| `HandleRun`, `HandleQuery`, `HandleBad`, `HandleShutdown`, `HandleHuge` | `ProcessClient` and `HandleMessage`, a kind of request each |
| `Signal`, `StopServer`, `DiscardCompletions`, `CloseNotify`, `StopPool` | the end of `main` and `Stop` |
| `PushCompletion`, `WriteEvent` | the callback, on a worker |

A request is one frame, so no two entries of the clients' scripts are the same
one (`SentOnceAssumption`); two frames with the same text are two requests. The
server may have no eventfd (`eventfd()` failed: `notifyOpen` starts false), and then
finds completions when `poll` times out. A frame that is not JSON is answered, or, if
its bytes are not UTF-8 either, ends the process (`DumpThrows`): the reply quotes
them, and `dump()` throws where nothing catches it. A
frame arrives whole. The order of the descriptors in the loop is arbitrary, as
that of an `unordered_map` is. An allocation that fails is left out.

### StandaloneClient

One action per call, timer or socket event; each runs to its end. Every socket
ever opened keeps reporting to the client (`sk`), each has its connect timer and
the promise `connect()` returned. A reply comes in two halves so that the
receive buffer can hold part of a frame; bytes of two sockets may meet in that
one buffer (`OnGarbled`). The server is what the client can see: it answers
in any order, or closes.

### ServerManager

One action per call, event or timer, including the continuations of the promises
it settles. Every `start()` has a server of its own; its handlers write to the
fields of the manager whichever server those are about. `patient` says whether
callers start again only after the last `'close'`: that no server is lost
(`ServersTracked`) is promised to those callers only; section 6 says what the
others get.

### VmPlatform

The creator makes and destroys `MaxLives` VmInstances in turn, all at **one**
isolate address, the case `leap_platform.cc` and its manual guard against. The
other threads are the VM thread (`vm`), V8's poster and the delayed scheduler
(`poster`), and whichever thread is inside `Deactivate` (`deactivating`), which
has four critical sections. `mode` is the order of shutdown chosen by environment
variables.

| Actions | Code |
|---|---|
| `NewIsolate` ... `RunScriptReturns` | the constructor, `StartVmThread`, `RunScript` |
| `BeginDestroy` ... `Dispose` | `~VmInstance`, `StopVmThread`, `UnregisterIsolate` |
| `DeactivateFlag`, `-Owner`, `-Swap`, `-Cancel` | `LeapForegroundTaskRunner::Deactivate` |
| `VmReady`, `VmTest`, `VmRunScript`, `VmRunPrelude`, `VmCheckActive`, `VmRunTask`, `SpuriousWake` | `ThreadMain` and the closures it runs |
| `PostTaskImpl`, `PostDelayedTaskImpl`, `ScheduleDelayedTask`, `RecordDelayedTask` | the runner, on V8's thread |
| `Due`, `ForgetDelayedTask` | `LeapDelayedTaskScheduler::ThreadMain` |
| `ReadOwner`, `PostToOwner` | `EnqueueTask`: the owner is read under the lock and used after it |

Where the code would crash, `crash` says how (`null_runner`, `freed_owner`,
`moved_task`) and the behaviour ends. Taken from outside the repository:
`Isolate::New` dereferences the runner it asks for, and `Isolate::Dispose`
waits for V8's own background work (so V8's poster is idle; the scheduler's
thread may not be). The quiesce loop only delays and is left out, as are the
metrics.

### SignatureTask

One worker and its vm, request by request. `stage` is the script that runs or
runs next, `then` where the drain of its microtasks leads. What a script can
leave behind is abstracted to *areas*, the fields that are set and reset
together, and to the documents of a task scope; each holds the numbers of the
requests that left something in it.

| Actions | Code |
|---|---|
| `ExecuteTask` | the choice of the path by the length of the target |
| `Setup`, `SetupDoesNotParse` | `BuildTaskSetupScript`, the first part of `BuildCombinedScript`, the snapshots |
| `BeforeEnds`, `TargetEnds` | `ExecuteSplitCachedTask` with the rejected code cache; the `try` of the combined script |
| `Act`, `QueueMicrotask`, `DrainEnds` | what scripts do; V8 drains after each script |
| `Cleanup`, `FallbackCleanup` | `BuildTaskCleanupScript`, the `finally` block, `BuildStandaloneCleanupScript`, all three through `ResetAll` |

Timers do not fire inside a task: nothing in the server calls `RunLoopOnce`.
Variables that a script makes on `globalThis` are never reset, and a script that
keeps one id and seed goes on in the same random sequence; neither is in an
area. Where setup takes `leapenv` from `globalThis` again at cleanup (split) or
holds on to it (combined) is no different for a script that leaves it alone.

### VmTimers

State: the timers, `timers_by_id_`, how often each is in the heap, whether the
heap is in order, the stale count, and the loop with the timer it runs. Callbacks
run in the middle of the loop and may add and clear timers. `Before` is
`TimerTaskCompare`; the entry on top is the least one as long as the heap is in
order, and any one after the due time of an entry in it changed.

The heap can hold what it should not: a `ClearTimer` inside a callback that makes
the queue compact puts the running timer back, as it is still in
`timers_by_id_`. A timeout is then called again after its handles were released
(`crashed`, or a second run if it is a string); an interval has two entries for
ever. `requeued` is a history variable that names those timers, and the
properties say exactly where this stops: no other timer is ever in the heap
twice, started after its end, or out of order.

### DomTree

A call is one step; a state record passes through the functions of the source
that call each other, so that a call that throws keeps what it did. Every call
takes any node, also one of a document that was released. A node's kind is the
set it belongs to; the html element stands for the default tree of a document.

| Actions | Code |
|---|---|
| `AppendChild`, `InsertBefore`, `RemoveChild`, `ReplaceChild`, `SetTextContent` | the tree operations, fragments one child at a time |
| `CreateElement`, `CreateText`, `CreateDocumentFragment`, `CloneNode`, `TouchElement`, `SetInnerHTML`, `ParseHTMLUnsafe` | creation and parsing, each with the ownership it gives; `TouchElement` is an accessor of an element |
| `GetOrCreateTaskDocument` | the getter of `window.document`, with the default tree |
| `BeginTaskScope`, `EndTaskScope` | release of the stale scopes, or of one |

What the code does here and the model has: `appendChild` of a fragment whose
later child is refused keeps the earlier ones where they went; `replaceChild(x,
x)` removes `x`; a call that names a node of a released document registers that
document again, for the task that runs, and makes it `window.document`;
`parseHTMLUnsafe` makes its document the primary one and clears the tree it had.
The HTML that is parsed is an element and then a text or a comment, either of which
may be missing; more of them would be more of the same calls.

A text that `innerHTML` makes in an element without an `ownerDocument` (a clone,
for instance) names *the element* as its document. As the text is appended its owner
becomes the element's, which is none, and the element, as the owner that loses a node,
is treated as a document and gets `nodeType` 9 (`turned`). Until an accessor of the element repairs it, the next child it is given
registers it as a document, the task's primary one, and takes its parent away
without telling the parent. There the model ends (`Running`, `Ended`): what a task
does with an element for its document is not modelled.

So the code does not keep its tree in order for ever. Three calls damage it, and
`intact`, a history variable, says that none of them has happened:

- a release clears a node that is listed by a node which is not cleared. A fragment is
  never in `ownedNodes`, so one that a script keeps past its document is such a lister;
- `parseHTMLUnsafe` on a document that has more than childless children: what hung in it
  loses its parent and keeps its own `childNodes`, and what the document owned besides
  keeps naming it;
- an element is registered as a document.

Up to then links agree (`LinksAgree`, a part of `TreeLinks`) and owners do (`OwnersAgree`).
After it, both may fail, and an `appendChild` can list an element below itself: it
then walks along `childNodes` without end, and is no step of the model. In a tree that is
intact such a call would be a step, so that `TreeLinks` sees what it did.
Whatever happened, a walk along `parentNode` ends (`WalksEnd`, the other part of
`TreeLinks`), and the books of the tasks are right (`OneTask`).

### EventDispatch

The nodes are a chain, as a dispatch takes its path when it begins. A listener
runs in the middle of `dispatchEvent` and may add and remove listeners, stop the
event and dispatch, the same event too; `stack` holds the dispatches under way.
`Enter` is the head of one of the loops of `dispatchEvent`, `Call` and
`ListenerReturns` a turn of the loop in `invokeEventListenersAtNode`, which goes
over a copy of the list. A listener that was removed still runs from that copy,
a `once` listener is removed only after its call (a dispatch inside it runs it
again), and stop flags are never reset: the code does so, the model has it, the
properties do not deny it.

### MessagePorts

`postMessage` drains the queue of the other port before it returns, so callbacks
run inside each other; `stack` holds the drains and callbacks under way. Each
callback is a frame: `onmessage`, and then every listener of the snapshot that
`dispatchEvent` takes, one after the other. `closed` is read before the dispatch and
not between two listeners, so the second listener of a snapshot starts though
the first has closed the port. A callback that has the peer post to its own port starts a drain
inside itself, so the callbacks after it get the later message before the earlier
one. `taken` and `given` are histories, of the messages that left a queue and of the
callbacks that started, with their message. The
microtasks of `schedulePortFlush` (`flushes`) come after the script, when they
find nothing: a queue of a started port never outlives the `postMessage` that
filled it. A message that comes before there is a callback is handed
to nobody, and `onmessage` on a closed port marks it started again without effect.

## 3. The runs

Deadlock is checked in every run but `task`, which really ends after its last
request; where another system may end there is an explicit stuttering action
(`Terminated`, `Finished`, `Settled`, `Crashed`, `Ended`) whose guard says when.

| Run | Instance | States | What it shows |
|---|---|---|---|
| `pool` | 2 workers, 3 tasks, recycling after 2, re-initialisation may fail | 62,584 | no task is lost, reordered or run twice (`NothingLost`); statistics never count a task twice or miss an answered one or a worker (`StatsHonest`); the refinement of `TaskService`; every task is answered, `Stop` and `Start` return (`EveryCallEnds`) |
| `task` | 3 requests, 2 ids | 59,486 | scripts find no traces of earlier requests (`OnlyOwnTraces`), none are left in between (`CleanBetweenTasks`), nothing of the split path acts after its cleanup (`SplitEndsInTime`) |
| `ipc` | 5 scenarios, 2 connections, 2 descriptors, a kernel buffer of 1 reply, with and without an eventfd | 183,498 | descriptors, requests in exactly one place, queries in order, answers to nobody else while the connection is open (`RequestsKept`), no completion asleep, answers and shutdown (`EveryRequestEnds`) |
| `client` | 2 sockets that may overlap, 2 requests, one reply too long, with and without a request timeout | 7,456 | promises, entries, timers and the socket always match (`PromisesKept`); all requests settle |
| `manager` | 2 servers, 2 calls of `stop()`, both kinds of caller | 44,544 | no server is lost and a running manager has one (`ServersTracked`), `stop()` leaves a dead server, all promises settle |
| `platform` | 2 tasks, 2 lives, 3 modes | 186,459 | no task on a later life; no null runner, nothing left in the queue, no stale mark (`NothingLeftBehind`); the creator is never stuck |
| `timers` | 4 timers, one a string, delays 0 and 2, times 0 to 2, compaction at 2 stale entries | 2,425,252 | no timer lost, none started out of order, after a clear or twice, but for those put back while they ran |
| `dom` | 2 documents, 2 html elements, an element, a text, a fragment, 2 tasks; at most 4 nodes and 2 links once the tree is damaged; symmetric documents and html elements | 108,794 | both sides of a link agree, there is no cycle and walks to the root end (`TreeLinks`), ownership is exact (`OwnersAgree`), documents are the current task's (`OneTask`) |
| `events` | 2 nodes, 2 functions, 2 events, dispatches 2 deep, 2 listeners | 1,984,701 | a listener sees its node and phase, none is skipped, stops are obeyed |
| `ports` | a channel with at most 2 listeners, or 2 channels without; 2 messages; symmetric listeners | 1,619,484 | messages leave the queues once and in order, no callback has one twice, and who gets them late (`Delivered`), statistics match the ports, silence after a close |

The other two, `client_lost_socket` and `dom_insert_before`, expect a violation;
section 6 describes them.

Why the bounds are enough. *Pool*: two workers are what round-robin, the slot
loops and a statistics read across slots need; three tasks make one slot receive
two, so order, recycling and a queue behind a busy worker all occur. *IPC*: two
connections on two descriptors reuse a descriptor while a task of its former
owner is running; one reply of buffer makes the second send partial; each
scenario is one of the interesting mixes (two tasks, a frame too long next to
another client, everything answered at once, tasks and queries, a frame too long
with a task running). *Client* and *manager*: every hazard is about an event
of the *previous* socket or server, so two are enough; the second call or `stop()`
is what could be confused with the first. *Platform*: a stale task or mark needs
a second life and no third; two tasks let one be immediate or delayed while the
other is cancelled. *Task*: a trace needs the request that leaves it, one that
might find it and one after that; two ids give both a repeated and a new one, and
one of them is the default id. The proofs have no such bounds. *Timers*: the
threshold is 8 in the code and 2 here, so that four timers suffice to compact
inside a callback with live timers, dead ones and the one that runs; the proofs
hold for any threshold. *DOM*: every rule is about one parent, one child and
what hangs below it, in or out of one document while another is released. A tree
that is intact is not bounded further. Of a damaged one `LinksAgree` and
`OwnersAgree` say nothing, and what is left to check are types, tasks and walks to
the root: a node that moves between two parents takes four nodes and two links
(`FewLinks`).
*Events* and *ports*: one call inside another is the whole difficulty, and
two deep is the first depth at which it occurs; the second message
can overtake the first, and the second listener can start after the first closed.
Order is a matter of one channel, and
the statistics of two, whose ports need no listeners for that (`Bounded`).

Properties restricted on purpose: `ServersTracked` to patient callers, the socket
part of `PromisesKept` to a client that has opened one socket and its entries to
distinct ids, `EveryCallSettles` of the client without a request timeout to
connections that do not overlap, `EveryRequestEnds` to clients that stay,
`AnswersGoHome` to clients whose connection the server still has,
`SleepsOnlyWhenDrained` to a server with an eventfd,
`OnlyOwnTraces` and `CleanBetweenTasks` to what was done before the cleanup of
the request that did it (`late`), `EntriesMatch` and `StartsInOrder` to timers
that were not put back, `LinksAgree` and `OwnersAgree` to a tree that is still `intact`,
`GivenInOrder` (a part of `Delivered`) to the order of messages no earlier callback has had,
`ClosedIsSilent` to dispatches that had not reached the listeners,
`ListenerSeesItsNode` to an event that is not dispatched
again inside itself. Each restriction is the boundary of what the code does;
section 6 or the notes of the hazards show the other side.

## 4. Fairness

| Module | Weak fairness of | Why | None for |
|---|---|---|---|
| `WorkerPool` | the steps of the main thread inside a call; every worker | threads are scheduled and scripts end | submitting, asking for statistics, stopping, starting |
| `IpcServer` | the main thread; each worker's completion; a client's reading | as above; a client that stays reads its socket | connecting, sending, closing, signals |
| `StandaloneClient` | each socket's events, each timer, the server's answers | the event loop delivers; the server's side is what `ipc` and `pool` show | calls; a server that closes |
| `ServerManager` | every event and timer of Node | the event loop delivers | the server: it need not print its line, exit or heed `SIGTERM` |
| `VmPlatform` | creator, the deactivation, the VM thread, V8's poster | threads are scheduled and scripts end | starting a life, a script or a destructor, posting, the time at which a delayed task is due |

`SignatureTask`, `VmTimers`, `DomTree`, `EventDispatch` and `MessagePorts` state
safety only: each is one thread that does what the script asks, and whether the
script ends is not the code's doing.

Weak fairness is enough everywhere: no step here is disabled and enabled
for ever by others' steps before it is taken, a mutex being held for one action.
"Scripts end" is an assumption, not a fact of the code: nothing watches a worker
(section 6).

## 5. The proofs

TLAPS checks the proof modules to the last leaf; nothing is assumed beyond the
named `ASSUME`s on the constants, which TLC evaluates on the instances.

**`WorkerPoolProofs`**, for any number of workers, tasks, failures and any
recycling period. `TypeCorrect` is inductive by itself (it needs
`WorkerFacts`: the round-robin and the loops stay inside the slots).
`NothingLost` is not: when a worker pops a task its hand must be empty,
or a task would be overwritten, and when `Stop` destroys the queues nobody may
still work. So

    PoolInv == TypeOK /\ HandsEmpty /\ JoinedExited /\ NothingLost

where `HandsEmpty` says a hand is full only between pop and callback and
`JoinedExited` that a joined thread has exited. Three lemmas on sequences
(`PopKeepsOrder`, `PushKeepsOrder`, `AnswerKeepsOrder`) say that the three moves
of a task leave answers, hand and queue, read in a row, as they were. From
`PoolInv` follow `TasksAreNotLost` and, since every worker has exited once
`Stop` is over, `StoppedPoolIsQuiet`.

The refinement is proved under the same freedom: every behaviour of the pool is
one of `TaskService` (`PoolImplementsService`). What `NothingLost` says of the
order is not enough: for a step of one task to be a step of that task alone, no
other may be in two places. So the invariant `PlaceInv` adds that no task is
routed twice, to one slot or to two (`RoutedOnce`), that a hand holds at most one
(`HandOfOne`), and that a slot holds only what was routed to it (`SlotRouted`).
Then each action of the pool is a move of the service or a stutter: `Start` and
`Stop` open and close it, a submission accepts or refuses one task, the callback
answers one, the join of the last worker ends the service and abandons what is
in the queues; the rest keep every status.

`StatisticsAreHonest` is about numbers read one after the other while workers go
on. It needs no sum over the slots: a task is in one place (`PlaceInv`), so the
numbers are compared with the cardinality of a set of tasks. The invariant is

    StatsInv == PlaceInv /\ HandHolds /\ CountedBeforeAnswered
                /\ ServingInv /\ SeenSoFar /\ NoneCountedTwice

`NoneCountedTwice` carries the argument: when `GetStats` has reached slot *c*,
what it has counted is at most the number of tasks routed that are *not* in the
queues from *c* on. A worker that takes a task from one of those queues after the
totals were read only makes that set larger; one that finishes a task already
counted as pending changes nothing, because the totals are read first. Had the
code read the queues before the totals, this step would fail. `ServingInv` says
why a report has as many idle, busy and recycling workers as there are workers:
while the pool serves, none is `kStopped`.

**`IpcServerProofs`**, for any number of connections, requests and descriptors,
any scripts of the clients and any size of the kernel's buffers, proves all four
invariants of the run. `TypeCorrect` adds to `TypeOK` that the batch under way is
not empty and that no drain overwrites one, that what the kernel buffers fits,
and that a descriptor `poll` found readable is open until it is served.
`NoDescriptorLeaks` needs that a connection is in the backlog at most once and
never returns there, and that a server that has stopped has no clients left.
`NoCompletionSleeps`, for a server with an eventfd, rests on `WakeupPending`: as
long as it is open, a
completion in the queue has set it or its worker is about to, and the drain at
the head of `Poll` comes before the wait.

`RequestsAreKept` is the theorem of the module: no request is answered twice; of a
client whose connection is open each is somewhere; answers made at once are never
overtaken by one another; and while the server holds a client's connection nobody
else is sent an answer to it. The invariant is

    KeptInv == DescriptorInv /\ OnceInEach /\ EachInOneBox
               /\ OnlyRuns /\ AtHome /\ NoneDropped /\ InOrder

A *box* is a place without the position in it: what a client has yet to send, the
kernel's buffers, the receive and send buffer of each descriptor, the pool, the
completion queue, the batch, what the client has. Every action moves a request
between two boxes or drops it with its connection; the two dozen paths come down
to the moves of `Moving`, and each part of the invariant is proved once against
those. `AtHome` is what makes reuse of descriptors harmless for clients that
stay: as long as the server has not closed a client's connection, whatever
carries a descriptor on its behalf carries the one it still has (`AnswersGoHome`
follows). For clients that
have left it is false, and section 6 says what follows. `InOrder` is about
replies made at once (queries and the shutdown); runs are answered as the workers
end. Nothing is said of a server that has been killed, by `SIGPIPE` or by
`dump()`, but that the order of what it had sent stands.

**`VmPlatformProofs`**, for any set of tasks, any number of lives, any subset of
the modes. `RunsOnItsOwnVm` is the theorem the platform layer exists for: though
lives share an address, a foreground task never runs on another life's vm. The
invariant is

    PlatformInv == Types /\ Phases /\ Registration /\ InFlight
                   /\ RunsWhereItBelongs /\ NoStaleMarks

and the argument goes: a thread that is not there has an empty queue and accepts
nothing (`Phases`); so between two lives the platform has forgotten the address,
and a registered runner is the one of the life in progress (`Registration`);
so a task in flight is either on its way to its own owner or already in the queue
of the life in progress, whose task it is (`InFlight`). The call on an owner that
has been freed ends the behaviour in the model, so the theorem says nothing about
what a use after free would do. `AddressIsForgotten`, `NothingLeftInQueue`
and `MarksAreCurrent` are parts of the same invariant, and together they are
`NothingLeftBehind` (`LivesLeaveNothing`).

`TypeCorrect` has one part that is no type: the queue never holds a closure twice
(`QueuedOnce`). A closure of the creator is in the queue or in the hands of the VM
thread only while the creator waits for its answer (`Awaited`), so there is no
second one. A foreground task is with V8's poster, or scheduled, or with the
scheduler's thread, or queued, and never in two of these (`PostedOnce`): `Due`
takes the task off the scheduler in the step in which its thread takes it, and
`ScheduleDelayedTask` lets go of it in the step that schedules it, since what
V8's thread does afterwards (`RecordDelayedTask`) touches the runner's list alone.

**`VmInstanceProofs`** on `SignatureTask`, for any ids and any number of requests.
The invariant adds to the types what is in the environment at each stage (`Environment`: its
own traces while the request's scripts run, none outside, either at the cleanup,
and always what late microtasks did) and that no microtasks are left where the
split path cleans up (`NothingQueued`). The four properties of the run follow
(`TaskTypeCorrect`, `NoForeignTraces`, `EmptyBetweenTasks`, `LateNeedsCombined`).

On `VmTimers`, for any threshold, any delays and any number of timers, it is
`TimersTypeOK /\ Running /\ EntriesMatch`, where `Running` says what is known of
the timer under way: it is in `timers_by_id_`, or was cleared, or was put back;
and that the heap is in order until a timer is put back. From it follow
`TimersTypeCorrect`, `NoTimerLost` and, with the order of the heap,
`TimersStartInOrder`.

**`ServerManagerProofs`**, for any number of servers and of calls. The properties
rest on what the manager's books say (`Books`): a ready line is read before its
`'close'`; the process the manager remembers, and the target of a `stop()` that
waits, have not closed; servers are spawned in order and, to patient callers, each
after the `'close'` of the one before. The last is why a late `'close'` cannot
take the fields of a newer server (`ServersStayTracked`), and the first why
`running` is never set for one that is gone. `StopKills` needs no patience.

**`StandaloneClientProofs`**, for any number of sockets, calls and ids, overlapping
or not. `PromisesKept` (`BooksAreRight`) becomes inductive with what is
known of the timers of sockets and, for a client that has opened one,
`OneSocketInv`: a socket that is connecting or open is the one the client has, and
an open one is connected with no connect timer left. The case that carries the
proof is the `'close'` of an old socket, which rejects everything whoever sent it.

**`MessagePortsProofs`**, for any number of channels, listeners and messages, however
deep the callbacks nest. The invariant is that ports talk to their peers, that what an
open port accepted is what it has taken followed by what is queued
(`InOrder`), and that a queue that is not empty belongs to a port with a drain on
the stack (`Drained`), wherever in the stack that is. When the script has ended
the stack is empty, so the queues are (`MessagesLeaveInOrder`). `Close`
empties the queue, so a closed port takes no message, and what its drains and its
`onmessage` do next reads `closed` first (`ClosedPortsAreSilent`).

`CallbacksInOrder` is about who gets a message, and the two are
`MessagesAreDelivered`. Its invariant, `GivenInv`, says that a
message still queued has been given to nobody (`Fresh`), that two
frames of one port have different messages, and that what a frame may yet call has
not had the frame's message (`Begun`): the listeners ahead in a snapshot are
not those behind, as a list has no function twice. So nobody gets a message twice; and a
callback that gets an earlier message after a later one belongs to a dispatch that
had begun, whose first callback had the message before (`Ordered`).

The statistics are compared with cardinalities: of the live ports, of their
channels, and of the set of places in the queues (`Waiting`). `StatisticsMatch`
needs that a closed port holds nothing (`ClosedIsEmpty`), or it would be counted
off twice, and that a channel's own count is that of its open ports
(`OpenCounted`), on which the code decides that a channel is gone. From it
follows that no counter is ever negative (`TypeCorrect`), so that the guards
`notePortClosed` has against that never apply; the model leaves them out.

**`DomProofs`**, on `DomTree`, for any nodes of each kind and any tasks. A call walks
the tree and goes over lists of children, so what it does has to be proved by
induction over data. The induction theorems of the library take a predicate,
which the provers cannot instantiate; stated with a set instead (`LeastNumber`,
`SetInduction`) they need none, and `Recursion` gives the recursive functions of
the model their values. With them, once for every use:

- `SubtreeFacts`: the walk along `childNodes` ends within as many rounds as there
  are nodes, in a set closed under `childNodes` that holds nothing else;
- `AncestorsFacts`: the walk along `parentNode` visits a set closed under
  `parentNode`, which is what the test for cycles of `appendChild` needs;
- `RemoveFirstFacts`, `InsertAtFacts`: what `splice` does to a list without
  repetitions;
- `AppendToGood`, `InsertIntoGood`: a fragment that gives its children away one by
  one, up to the first that is refused.

The invariant, for every state a call passes through, is

    DomInv == Now \in States /\ Registered(Now) /\ Grounded(Now)
              /\ (intact => Sound(Now)) /\ currentTaskId \in Task

`Registered` is `OneTask`. `Grounded` says that there is no set of nodes, finite or
not, whose parents are all in it, the form of "no cycle" that a step can
preserve. `Sound` is more than the run checks: links agree
everywhere and not in documents only;
what does not exist yet has nothing; and of owners, a child always has
the owner of its parent, and an element, or a child, that has an owner is in its
list. This is where `OwnersAgree` alone fails to be inductive: a subtree that is
outside every document moves into one with the owners it had, so those must be
right already. Moving a node (`PlaceSound`) is the heart of it: cut it off
(`CutSound`), hang it in (`PutLinked`, where the test for cycles is used), hand
its whole subtree over (`AdoptSound`). The end of a scope (`ScopesSound`) needs
that a node loses its children exactly if they lose their parent, which is the
inheritance of owners read in both directions.

`DomTyped`, `DomOneTask` and `DomWalksEnd`, which is half of `DomTreeLinks`, hold in
every state, damaged or not: the last is `Grounded`, which survives because the two calls that give a node a parent
refuse an ancestor, and all others only take parents away. The rest of `DomTreeLinks`
and `DomOwners` are `Sound`, up to the first damage. That each of the three calls is
harmless otherwise is part of the proof: a release that clears no child of a node
it leaves (`ScopesSound`), the reparse of a document with nothing but childless
children, the registration of a document.

On `EventDispatch`, for any path, functions, types and events, any length of the
lists and any depth of the dispatches inside each other. The invariant is

    EventInv == EventTypeOK /\ Framed /\ Told /\ Stops

`Framed`: each dispatch is on the path once it has begun, one that waits has a
listener running, of the dispatches of one event only the innermost does not know
the event as dispatched again, and what a visit owes is ahead of it in its copy of
the list. (`EventTypeOK` has that no list holds a key twice.) `Told`:
the innermost dispatch of an event, once begun, has given the event its target,
node and phase. `Stops`: if the event was stopped in it, that was at the node it
visits. A change of a list of listeners (`ListsStep`) is the same for every
frame that visits it, however deep in the stack, and a step of the innermost
dispatch leaves the others as they are (`FrameMoves`).

What stays with TLC: liveness (`EveryCallEnds`, `EveryRequestEnds`,
`CreatorNeverStuck` and both `EveryCallSettles`), as fairness and `ENABLED` are out
of the prover's reach. Every invariant and every action property of the passing
runs is a theorem.

## 6. Where the code and its documents part

Two runs show a behaviour that a line of the repository denies. The
counterexample is the run's output; `PROJECT.json` quotes the lines.

- `client_lost_socket` (`DisconnectClosesSocket`): `disconnect()`, `connect()`,
  then the `'close'` of the first socket makes the client forget the second.
- `dom_insert_before` (`InsertsBefore`): `insertBefore(x, ref)` takes the index
  of `ref` before it detaches `x`; if `x` was an earlier sibling it ends up after
  `ref`.

Seen while modelling, with no run of their own. In the pool and the server:

- A worker whose `InitWorkerVm` fails leaves its slot `kStopped` and returns;
  `Start` waits until no slot is `kStopped` and polls for ever, though `main.cc`
  handles its failure. `WorkerPool` has the case (`BadStart`); the run leaves it
  out because `Start` does not return in it.
- A worker that fails to re-initialise is said to exit because its vm is null
  (`worker_pool.cc:550`). The vm is not null, nobody tests it, and the worker
  takes its next task with it. The model has it (`vm = "broken"`).
- The completion callback keeps a descriptor number. Its client leaves, another
  is accepted on the same number and is sent the result, where a comment
  (`ipc_server.cc:504`) says it is discarded. The model has it.
- `send` without `MSG_NOSIGNAL` and with `SIGPIPE` at its default: the second
  reply to a client that left ends the process (`pc = "killed"` in the model).
- A malformed payload that is not UTF-8 ends the server: `dump()` of the reply, which
  quotes it, throws outside the `try` (`ipc_server.cc:435`). The model has it.
- Without an eventfd (`eventfd()` failed, which is logged) completions wait for the
  timeout of `poll`. The model has it.
- Any other malformed payload is answered with an empty id where the IPC manual (lines
  160 and 186) says the connection is closed; `recycle_all` answers and does
  nothing (line 75 says it recycles); there is no heartbeat (line 187). Replies
  that are buffered when `Stop` closes the sockets are cut off, and a worker may
  write to the eventfd while `Stop` closes it. With `--workers 0` the
  first submission divides by zero.
- A code cache that V8 rejects: `RunScriptWithCache` has already compiled and run
  the target (`vm_instance.h:188` says it falls back), and
  `ExecuteSplitCachedTask` runs it once more, in the same environment.
- On the combined path the target's microtasks run after the `finally` block that
  cleans up, so a promise of one request can leave something for the next.

- Three calls damage the tree (section 2, `DomTree`): the release of a document of which
  a script keeps a fragment with children; `parseHTMLUnsafe` on a document
  that has a tree; `innerHTML` with text on an element that has no document,
  which turns the element into one. Afterwards `removeChild` on a node that still lists
  what hangs elsewhere takes its parent away and leaves it in the other list, and an
  `appendChild` can put an element below itself: the `adoptOwnerDocument` in it does
  not come to an end.
- On a port with two callbacks the second gets the messages in the reverse order when
  the first has another one posted to the port, and a listener still runs after an earlier one of
  the same dispatch has closed the port. The model has both.

On the Node side: a server's `'close'` that comes after the next `start()` makes
the manager forget the server that runs, and `stop()` returns at once without a
signal; `disconnect()` during `connect()` leaves its promise pending (line 183
promises a rejection); of two requests with one id the second takes the entry of
the first.

In the vm: when `PostTask` refuses, `EnqueueTask` calls `Cancel` on the pointer it
has moved away (outcome `moved_task`); a deactivated runner still accepts delayed
tasks, which are dropped when they are due; a dropped delayed task is never
reported to the metrics, so the quiesce loop waits out its 50 ms; the thread of
the delayed scheduler, for which no destructor waits, can reach a freed
`VmInstance` (outcome `freed_owner`); a closure that throws before it fulfils its
promise leaves its caller waiting. A compaction inside a callback puts the
running timer back (section 2, `VmTimers`), although `vm_instance.cc:5226` says
that a one-time task is removed; clearing the running timer counts an entry that
is not in the heap; and when the last live timer ends by running, nothing
compacts, though the manual on the thread pool says that an empty
`timers_by_id_` compacts at once.

## 7. What is not modelled

| Part | Why |
|---|---|
| Attributes, styles, selectors, layout, serialisation, `Range`, the native mirror of the tree | values and text, or a copy of the tree `DomTree` has; none of them changes the tree, ownership or scopes |
| `append`, `prepend`, `before`, `after`, `remove`, `replaceWith` | loops of the calls `DomTree` has |
| `outerHTML`, `insertAdjacentHTML` | parse into a new fragment, which text can turn into a document as it can an element; what the fragment then gives away is `InsertBefore` |
| Listeners on `window`, `initEvent` inside a dispatch, `passive` | a list of their own without path or phases; a flag nobody reads |
| Storage, history, navigator, canvas and the other browser objects | answers from tables and from the task's snapshot, of which `SignatureTask` has what is set and reset |
| Skeleton registry, dispatch and data, native wrappers | V8's object model, built once from generated tables; the tables are the largest files of the repository and have no behaviour |
| Child frames | V8 contexts and wrappers, little state of this code |
| Inspector | a debugging aid, off in service |
| Background scheduler | forwards to V8's default platform |
| Runner, configuration, logging, metrics, monitor | sequential glue, start-up input, output |
| The scripts under `src/work`, bundle build, legacy pools, tests, site profiles | subjects of the service and its tests, a hand-run script, stubs that throw |
| The release of timers when the VM thread ends, the nesting level of timeouts | the end of everything; a lower bound of a delay |
| The Windows branch of the server | stubs |
| Framing of bytes on the server, JSON | frames are whole, JSON is a kind of request |

## 8. Plan

The service is modelled from the Node side to the timers and the tree inside the
vm. What is left, in the order in which it would add most:

1. An abstract specification of the IPC server, what one client may rely on, with
   `KeptInv` as the invariant of the refinement.
2. `IpcServer` composed with `TaskService` in place of the completions it has
   now, so that a request is followed from the socket to the pool and back.
3. Child frames: their wrappers are released with the task, which meets the task
   scopes of `DomTree`.
4. The pause loop of the inspector against the shutdown of the VM thread.
5. The native mirror of the tree, a second tree that must agree with `DomTree`.
6. The tree of a task after an element has become a document, and fragments that
   parse (`outerHTML`, `insertAdjacentHTML`).
