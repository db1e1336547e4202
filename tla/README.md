# Formal models of dbusipc

dbusipc is a C++ library over libdbus. Application threads call a C API
(`inc/dbusipc/dbusipc_api.h`); every call becomes a command object that one
dispatcher thread executes, and that thread alone talks to libdbus. These
modules model that machinery, TLC checks them on small instances, and TLAPS
proves the main invariants for every instance. Paths below are relative to
`src/`.

## The system

| Component | State | Operations | Interaction |
|---|---|---|---|
| API functions (`src/svcipc_api.cpp`) | `gDispatcher`, a semaphore on the stack of a blocking caller | initialize, shutdown, a blocking and an asynchronous form of each operation | allocate a command, `submitCommand`, wait for its semaphore |
| Singleton holder (`src/SingletonHolder.hpp`) | the dispatcher instance, a lock | `get`, `destroy` | `get` hands out a raw pointer, after releasing the lock |
| Command queue (`src/Dispatcher.cpp`) | `mCmdQueue`, `mCmdQLock` (recursive), `mPipe`, the handle counter | `submitCommand`, `onCommand`, `~Dispatcher` | one byte is written for each command; `onCommand` runs callbacks with the lock held |
| Dispatcher thread (`src/Thread.cpp`, `src/Dispatcher.cpp`) | `mRunning`, `mQuit`, `mStartedSem` | start, stop, wait, the loop `dispatchPending` then `dispatch` | polls the pipe and the sockets of libdbus |
| Watches and timeouts (`src/Dispatcher.cpp`, `src/*Watch*`, `src/*Timeout*`) | `mWatches`, `mTimeouts`, `mPollFds` | add, remove, toggle, poll, handle | libdbus calls back; handlers change the containers that are being walked |
| Connections (`src/Connection.cpp`) | `msConnCache`, reference counts, pending commands, subscriptions, registrations | create, release, forced release, cancel by handle, dispatch messages | shared by clients; destroying one cancels its pending commands |
| Requests (`src/Command.cpp`) | a command that waits for its reply, its D-Bus pending call | execute, notification, cancel | `registerPending` hands the command to its connection |
| Subscriptions, registrations (`src/SignalSubscription.cpp`, `src/ServiceRegistration.cpp`, `Connection::messageFilter`) | per connection | subscribe, unsubscribe, register, unregister, match and dispatch | callbacks on the dispatcher thread |
| Request contexts (`src/RequestContext.cpp`) | the message to answer | send a reply or an error, free | created by the filter, used by commands |
| Names, handles, errors (`src/NUtil.cpp`, `src/svcipc_error.cpp`, `Dispatcher::getNextHandle`) | a counter | pure functions | |
| libdbus, system wrappers (`src/NSysDep.cpp`) | external | replies, time-outs, messages, descriptors | |

What is hard here: any number of threads submit while one executes; callbacks
re-enter the API from inside `onCommand`; a shutdown overlaps calls under way;
a command changes owner several times and must be answered once; the end of
the dispatcher has three owners of unfinished commands to empty (queue,
connections, the thread itself). `PROJECT.json` lists each hazard at its line.

What makes each component correct:

* queue: bytes and commands in step, one owner for a command, one answer,
  nobody waits in vain, nothing accepted is lost;
* thread and shutdown: commands accepted before the shutdown are executed,
  a shutdown ends, a blocking call returns;
* requests: a request is answered by exactly one of reply, time-out,
  cancellation and loss of its connection, and no pending call outlives it;
* connections: a connection lives exactly as long as somebody holds it;
* services and subscriptions: from the moment the bus routes a message to an
  entry, its callback gets it; a handle is freed once and not used afterwards;
* request contexts: a call gets one reply, and a context lives as long as a
  command that uses it;
* poll loop: nothing removed is handled, nothing ready is forgotten.

## Modules

| Module | Models |
|---|---|
| `CallService` | The promise to callers, with no threads: a command is refused, or accepted and later finished; it is answered at most once, when it finishes; the service closes with nothing open. Only a command its user declares `Fragile` may be lost instead. |
| `CallServiceProofs` | What any implementation of `CallService` promises its callers. |
| `CommandQueue` | The path of a command: `DBUSIPC_submitCmd` and the calls around it, `submitCommand`, the thread loop, `onCommand`, `ShutdownCmd`, the join, `~Dispatcher`. |
| `MCCommandQueue` | The module TLC starts from. |
| `CommandQueueProofs` | The inductive invariant of `CommandQueue` and the safety theorems. |
| `CommandQueueRefinement` | The proofs that `CommandQueue` implements `CallService` and `DispatchRound`. |
| `Connections` | What the dispatcher thread does inside a command or a dispatch: connections, their reference counts and list, requests waiting for replies, subscriptions and registrations. |
| `MCConnections` | The module TLC starts from: which request is for which connection. |
| `ConnectionsProofs` | The inductive invariant of `Connections`, the safety theorems, and the proof that it implements `CallService`. |
| `DispatchRound` | The round of the dispatcher thread as `CommandQueue` and `PollLoop` both see it: when `onCommand` is called. |
| `PollLoop` | One round of the thread after another: `Dispatcher::dispatch`, its containers, the watches and timeouts that handlers change under it. |
| `MCPollLoop` | The module TLC starts from. |
| `PollLoopProofs` | The inductive invariant of `PollLoop`, the safety theorems, and the proof that it implements `DispatchRound`. |
| `Services` | Messages of peers on one connection: adding and removing services and subscriptions against what the bus routes meanwhile, the message filter, request contexts and their replies, emission. |
| `MCServices` | The module TLC starts from: which entries a message matches. |
| `ServicesProofs` | The inductive invariant of `Services` and the safety theorems. |
| `Commands` | What becomes of one command object when a step of it fails: each class of `Command.cpp` from the API function to its deletion, on one private connection. |
| `CommandsProofs` | The inductive invariant of `Commands` and the safety theorems. |
| `Lifecycle` | Initialize, shutdown, exit and restart: the singleton, the thread of each `Dispatcher`, the semaphores down to their mutex and condition variable, and the memory they live in. |
| `LifecycleProofs` | The inductive invariant of `Lifecycle` and the safety theorems. |

The modules meet at the execution of a command. `CommandQueue` knows that
a command is executed once and then finished, answered or held;
`Connections` says what holding is: what the connection, libdbus and the bus
may do with it until it is answered. Both implement `CallService`. `PollLoop`
opens up two steps of `CommandQueue`, `PollPipe` and `PollOther`: the first is
the handler of the watch `Pipe`. `DispatchRound` is what the two must agree on,
and both implement it: between two tests of `mQuit`, `onCommand` is called at
most once, after `dispatchPending`, and only when the pipe can be read. `Services` looks at one connection of
`Connections` from the other side: there a registration is a request that is
answered, here it is an entry that messages must find. It keeps the order of
commands and of messages, which `Connections` leaves open. `Commands` opens up
what `Connections` takes as one step, the `execute`, `cancel` and
`onPendingCallNotify` functions: there many requests and connections, here every
failure of every step. `Lifecycle` goes around `CommandQueue`: there all the
commands of one `Dispatcher` and one shutdown, here several `Dispatcher` objects,
the threads that start and end in them, and who still uses what is freed.

### CommandQueue and the code

One action is one stretch of code between two points where another thread can
matter: taking a lock, a system call on the pipe, a wait, a call to user code.
`pc` says where each thread is.

* `CallSync`, `CallAsync`, `CallFromCallback` and `CallShutdown` allocate a
  command; `GetDispatcher` is `gDispatcher.get()`, which waits while
  `destroy()` runs. Then `LockQueue`, `Push` (or `NotRunning`) and `Write` (or
  `WriteFails`) are `Dispatcher::submitCommand`, and `Return` is the end of
  `sem.wait()`.
* The dispatcher thread goes `TestQuit`, then `dispatchPending` (`Reply`,
  `DeliverMessage`, `EndPending`), then `dispatch` (`PollPipe` or
  `PollOther`), then `onCommand` (`EnterOnCommand`, `DrainNext`, `ReadAndPop`,
  one of the `Exec` actions, `DrainEnd`), and ends with `LoopExit`. User code
  runs at `"callback"`, inside `onCommand` with the lock held or inside
  `dispatchPending` without it.
* `Join`, `LockToCancel`, `CancelNext` and `DestroyEnd` are the rest of
  `DBUSIPC_shutdown`.
* A command is what the queue sees of it: `SyncCmds` post a semaphore,
  `AsyncCmds` call back, `OneWayCmds` may end silently
  (`FreeRequestContextCmd`, a request without reply). `ExecRetain` stands for
  a request that was sent: `held` is the union of the connections'
  `mPendingCmds`.
* A semaphore created with 0 has a maximum of 1 (`Semaphore_POSIX.cpp`):
  `Answer` sets it, a second post would be lost.
* `OpenCmds` are the commands of `DBUSIPC_openConnection` and
  `DBUSIPC_getConnection`. Their `execute` catches `DBUSIPCError` only, so
  `std::bad_alloc` leaves it and `onCommand` and is caught in
  `Dispatcher::execute`: `ExecEscape`. The lock is let go, the command is
  `lost` (nobody owns it, nobody answers it), and the commands behind it wait
  for the next round, which does not come when the thread was told to stop.
* `late`, `done` and `cut` record history for the properties; `cut` says that an
  exception ended `onCommand` after the shutdown was executed.

Left out of `CommandQueue`: the content of a command and of its answer; an
exception anywhere else (of a command that cannot be allocated, of `push_back` in
`submitCommand`, out of a callback of the application; the `execute` functions of
the other commands catch their own, which is in `Commands`); loss
of a connection (a held request is answered by libdbus or by the shutdown);
callbacks that call the API after `DBUSIPC_shutdown` was called, which the
header forbids; `DBUSIPC_shutdown` called from a callback. A second initialize
and a shutdown that is forgotten (the static destructor) are in `Lifecycle`.

### Connections and the code

Only the dispatcher thread touches this state, so a handler is one action. The
dispatching of a connection is several, because between two messages the
connection can break and callbacks run; `dispatching` names the connection in
the loop.

* `link` is the D-Bus connection itself, `refs` is `mRefCount` (0: no
  `Connection` in `msConnCache`), `listed` is `mPendingConnList` of the
  dispatcher, `unread` is the dispatch status libdbus last reported: it calls
  `onDispatchStatusUpdate` only when the status changes (`Unread`), which is why
  the constructor lists a new connection (`OpenNew`).
* `pending` is `mPendingCmds`; `life` is where a command object is (in the
  queue, kept for a reply, deleted), `call` its `DBusPendingCall`, `entry` the
  subscription or registration it made, `answers` how often its `dispatch()`
  ran.
* `OpenNew`, `OpenCached` are `Connection::create`; `Release`, `ReleaseAll`
  with `Destroy` are `release`, `forceReleaseAll`, `decRef` and
  `~Connection`, including the cancellation of every pending command.
* `Issue` is the API function; `Refuse`, `Send`, `SendCast` are the ends of the
  `execute` functions; `Cancel` is `cancelPendingByHandle`.
* `BeginDispatch`, `SkipDispatch`, `EndDispatch`, `SuspendDispatch` are
  `dispatchPending` with `dispatchMessages`. `Notify`,
  `NotifySubscribeDown`, `NotifyRegisterDown` and `NotifyDeleted` are the
  cases of the `onPendingCallNotify` functions: the ordinary one, the two ways
  of handling a lost connection, and the call of a deleted command.
* `ReplyArrives`, `MessageArrives` and `Lose` are libdbus and the bus. libdbus
  keeps a shared connection that is up when the library lets go of it
  (`Kept`), with the pending calls nobody cancelled.

`Fragile` of the service it implements is empty: the commands that open and get
connections are those of `CommandQueue`, here they are steps.

Left out of `Connections`: how often a connection is listed (`listed` is a set; a
connection listed twice is dispatched once more than needed, and `removePending`
takes it off altogether); the order in
which the list is walked and in which
commands are executed (any order is allowed); what a reply says, beyond
whether the bus agreed (`Settle`); a notification without a reply and replies
of an unexpected type, which libdbus does not produce; a `Connection` with a null
`DBusConnection`, for which `dbus_connection_get_is_connected` is taken to say not
connected; failed allocations after
the request was sent (`Refuse` covers them); a new object allocated at the
address of a deleted one. Where the code uses a deleted object, the model goes
on as if it were still there: the run that reaches this by its violation is
`reopened_connection`, and the safety properties hold in spite of it. The message filter
and the emission of signals are in `Services`.

### PollLoop and the code

* `fd` and `on` are `mWatches` (a member of `Watches` is the address of a watch
  object; `NoFd`: nothing there); `timeouts`, `armed`, `interval` and `left` are
  `mTimeouts` with `isEnabled`, `mInterval` and `mExpiry`. Time is kept as what
  is left of each timeout, so that `Tick` needs no clock.
* `polled`, `expired` and `active` are the copies a round works on: `mPollFds`,
  `expiredTimers`, `activeWatches`. `ready` is what the operating system knows
  of the descriptors.
* `StartPoll`, `PollReturns` (or `PollFails`), `HandleTimer`, `MatchWatches`,
  `HandleWatch` (or `SkipWatch`), `HandlerReturns`, `EndDispatch` are `dispatch`
  from top to bottom. `AddWatch`, `RemoveWatch`, `ToggleWatch`, `AddTimeout`,
  `RemoveTimeout`, `ToggleTimeout` are the six callbacks of libdbus.
* Who may call them when comes from the code and libdbus: watches and timeouts
  are added where connections are opened and requests sent, in commands
  (`InCommand`); a socket's handler and `dispatchPending` remove and toggle
  (`InHandler`); a timeout's handler changes that timeout only. The last is what
  `ExpiredAreDue` rests on.
* A deleted watch's address can be used again by a command of the same round.
  `reused` remembers it for `HandlersAreSound`, which makes it the only exception
  to a handler being given the events poll reported for its watch. `ActiveIsSound`
  is the invariant of `activeWatches` behind it.

Left out of `PollLoop`: readable and writable as separate events; `dispatch`
with a failed allocation of its lists; handlers that throw (`ExecEscape` of
`CommandQueue` is the one known), which are taken to return. In the code such a
handler ends the round early, and the next rounds do the rest: poll reports again
an event that is still there, and a timer that expired is still expired.

### Services and the code

* A connection is a stream in each direction: `toBus` are requests to the bus,
  `inbox` messages from it. The bus takes requests and answers in order, and
  from the moment it took an `AddMatch` or a `RequestName` (`BusAdds`) it routes.
* `life` says where an entry (a `ServiceRegistration` or a `SignalSubscription`)
  stands; `Held` is membership in `mSvcRegistrations` or `mSigSubscriptions`:
  entered in `ReadAdded`, left in `ReadRemoved`, both when a reply is
  dispatched.
* `queue` is `mCmdQueue` of the commands that matter here, and `draining` says
  that `onCommand` still has the lock: it executes the queue to its end, so
  nobody submits and no message is dispatched in between. A callback that
  submits from inside adds at the end of the queue, as the next submission does.
* `FilterCall` and `FilterSignal` are `messageFilter` with the `dispatch`
  functions of the entries; a call that no registration takes, or whose arguments
  cannot be decoded, is answered by libdbus. `ctx` is the `RequestContext`, `asked`
  what the application did with it, `replies` what went out.
* When the `RequestContext` cannot be made, the exception is caught in the filter
  (`Connection.cpp:587`) and the call still counts as handled: no callback, no
  reply, and the caller waits for its time-out. `spoilt` is the history of this
  and of messages that were not decoded, `unsent` of the answers for which
  `sendReply` or `sendError` reported `DBUSIPC_ERR_NO_MEMORY`.
* `ExecAdd` and `ExecRemove` may fail for want of memory before the request is
  sent or after it. In the second case the bus grants what the application is told
  has failed: an addition is `failed` though routed, and an entry whose removal
  failed so is `kept` by the library.
* `AskEmit` lets a thread emit on a service until the removal was reported.
* `TimeOut` is the local time-out of a request; the bus may still grant it, and
  the late reply is for nobody.

Left out of `Services`: opening, and more than one client of the connection
(`ExecClose` is the last release); matching of strings (`For` says which
entries a message matches); two services with one path; a null callback; calls
that want no reply; a removal retried after the bus was asked; the attempt of the
notifications to take back a name or rule whose entry did not fit into its container
(`ReadAdded` leaves it with the bus, as when the attempt fails); libdbus without
memory for its own refusal; an address used again.

### Commands and the code

* Commands are numbered in the order of their submission. `life` is where the
  object is (queued, executed, kept in `mPendingCmds`, deleted), `object` the
  `SignalSubscription` or `ServiceRegistration` it made and which the `auto_ptr`
  of the command, or the connection, owns; `call` and `notify` are its
  `DBusPendingCall` and whether `onPendingCallNotify` is set on it; `owes` is what
  the code must give back: the request message, the reference to the call, the
  reply.
* `at` walks through an `execute` function: `Allocate`, `Append`, `SendRequest`
  (`SendNoReply`, `SendSignal`), `SetNotify`, `RegisterPending`, `UnrefRequest`,
  `FinishCommand` are the steps all the classes share, each of which can fail.
  The `Execute` actions are the checks before them, which differ (who asks for a
  connection, who for its being up, who for its registration).
* The `Post` actions are the API functions with the arguments the application
  can have: a handle it was given, or the null handle where it is accepted.
* `CancelCall`, `CloseCancels`, `CloseEnds` are `cancel` and `~Connection`,
  `DropQueued` is `~Dispatcher`. `NotifyInvoke` and its like are
  `onPendingCallNotify`, one for each class; each handles a lost connection its own
  way.
* `Escape` is `std::bad_alloc`, which `OpenConnectionCmd::execute` does not catch:
  the command is neither answered nor deleted. `NothingIsOwed` and `AnsweredOnce`
  except it, by the life `lost`, and the two cases `Abandoned` names.

Left out of `Commands`: a second connection (in `Connections`); the race of
semaphore and callback (in `CommandQueue`); the contents of arguments and
replies; a use of a deleted object, after which the model goes on; the classes
`ReturnResultCmd`, `ReturnErrorCmd` and `FreeRequestContextCmd`, which are in
`Services`.

### Lifecycle and the code

* A `Dispatcher` is a number, in the order of construction; `obj` is its memory.
  `inst` is `SingletonHolder::instance`, `running`, `quit` and `mutex` are its
  members, `thr` is where `threadFunc` is: from `PostStarted` (the semaphore) and
  `Enter` (`mRunning`) through the loop (`Poll`, `Drained`, `ExecuteOpen`,
  `ExecuteShutdown`) to `Leave`, `ResetStarted`, `Left`.
* `main` walks through `DBUSIPC_initialize` (`Initialize`, `Start`, `Started`) and
  `DBUSIPC_shutdown` (`Shutdown`, `SubmitShutdown`, `Stopped`, `Wait`, `Join`,
  `DbusShutdown`, `DestroyStops`, `DestroyEnds`). `Exit` is the destructor of the
  static holder.
* A semaphore is a record: `_n`, who holds `_mutex`, whether the main thread
  sleeps on `_cond`, and whether its memory is still there. The post is three
  steps (`PostStop`, `SignalStop`, `UnlockStop`), because the semaphore of
  `DBUSIPC_shutdown` is a variable of the frame that the waiter leaves. A wake-up
  may be spurious.
* `cached` and `watched` say which `Dispatcher` has a `Connection` in the static
  cache, and which one libdbus would call for a shared connection it kept.
* `late` is history: the `Dispatcher` opened a connection after `ShutdownCmd`,
  which happens because `onCommand` empties the queue.

Left out of `Lifecycle`: `DBUSIPC_shutdown` from a callback (the thread would
join itself); what a client does with a `Dispatcher` it got before `destroy()`
and uses after it (the API forbids calls during shutdown, and `Submit` waits for
the object to be alive); private connections, which libdbus does not keep;
priorities; initialize or shutdown from two threads, which the header forbids.

## Runs

| Run | Instance | Shows |
|---|---|---|
| `queue_safety` | 2 application threads, 2 blocking calls and 1 with a callback (one of either opens a connection), 1 one-way, a shutdown, a pipe of 2 bytes | types, `PipeMatchesQueue`, `OneOwner`, `AnsweredOnce`, `WaiterIsServed`, `OnlyLateCallsAreDropped`, and the refinement of `CallService` |
| `queue_liveness` | 2 application threads, 2 blocking calls (one opens a connection), 1 with a callback, a shutdown, a pipe of 4 | `SyncCallReturns`, `ShutdownCompletes` under fairness |
| `queue_full_pipe` | 1 blocking call, 1 with a callback, a shutdown, a pipe of 1 | `SubmitDoesNotBlock` fails: see Findings |
| `connections_safety` | a shared and a private connection, at most 2 references; a request, a subscription, an owner subscription and a removal on the first, a registration on the second | types, `RepliesAreListed`, `NoTraceOfClosed`, `OpenIsPending`, `PendingIsAlive`, `AnsweredOnce`, and the refinement of `CallService` |
| `connections_liveness` | the same connections, at most 1 reference; a request with and one without reply, a registration on the second | `SentIsAnswered` under fairness |
| `lost_connection` | one request | `RequestsTimeOut` fails: see Findings |
| `reopened_connection` | one owner subscription | `CallbackFindsCommand` fails: see Findings |
| `poll_loop` | the pipe and a socket, three addresses of watches, one timeout | types, `NoOversleep`, `ExpiredAreDue`, `HandlersAreSound` (a property of steps), the refinement of `DispatchRound`, and under fairness `EventIsHandled`, `TimerIsHandled` |
| `services` | one service with a call, one subscription with a signal | types, `NothingIsMissed`, `ContextIsAlive`, `RepliedOnce`, and under fairness `MessageIsHandled`, `RequestsAreCarriedOut` |
| `commands` | 3 commands of any classes | types, `AnsweredOnce`, `NothingIsOwed`, `NoDanglingCommand`, `HandleIsSound` |
| `lifecycle` | 2 clients, 3 `Dispatcher` objects, queues of 3 commands | types, `NoUseAfterDestroy`, `StartedIsRunning`, `OnlyLateConnectionsSurvive`, and under fairness `CallsReturn` |
| `emit_unregistered` | one service | `EmitFindsRegistration` fails: see Findings |

Bounds of the queue runs. The only bounds are the sets of commands (one object for each call, as
in the code) and `PipeCapacity`; no action has a bound of its own. Five commands and two threads
are enough for a command to be queued before, during and after the shutdown's
execution, for two callers to be blocked at once, for a callback to submit
with the lock held and without, for the pipe to be full, so that a write
is interrupted and withdrawn, and for an open that runs out of memory to have
commands before and behind it, the shutdown among them. The liveness run gives the pipe room for every
command: a full pipe is the subject of the third run, and a submission of the
shutdown command that fails would leave `DBUSIPC_shutdown` joining a thread
that nobody stopped (a hazard in the list).

Bounds of the connection runs. `MaxRefs` bounds opening: with 2, a connection is
released both above and at its last reference. One request of each kind meets
every handler, and two connections show that one does not disturb the other.
Each connection can be closed and opened again any number of times.

Bounds of the poll loop runs. Time-outs and waits last at most 2 units
(`MaxInterval`, `MaxWait`): one that is due, one that is not yet, one that is
longer. Two watches on one socket are what libdbus makes, and what pairs a watch
with the entry of another one.

Bounds of the services runs. Nothing bounds them but the sets: an entry is added
and removed once, a message comes once. A service and a subscription together
share the queue, both streams and the close; what two subscriptions would add,
a signal for one that is active and one that is being added, differs from this
only in which entries are handed the message.

Bounds of the commands run. `N` is the number of commands. Three are an addition,
its removal and a third that disturbs either: a cancellation, a close, an
emission or another removal. `CommandsProofs` needs no bound.

Bounds of the lifecycle run. With three `Dispatcher` objects (`MaxInst`) there are
two restarts: a connection can be left by one and met by the next while a third
is still to come. `MaxQueue` of 3 holds an open before the shutdown command and
one behind it; two clients can be between `get()` and the queue at once.

Deadlock is not checked: after a shutdown, or when nobody calls, the system
rests.

Fairness of `CommandQueue`. A thread that can go on does (weak fairness of its steps: the
threads are scheduled by the operating system and the mutex is not held
forever). Polling is strongly fair to the pipe, because `poll` reports every
readable descriptor and `PollOther` recurs only every 3 seconds
(`DEFAULT_POLL_MSEC_WAIT`) or on traffic. `EndPending` and `Reply` are
strongly fair: the bus does not send without end, and libdbus delivers a reply
or a time-out for each request of a connection that is up. Starting a call,
sending a message and interrupting a write are never forced.

Fairness of `Connections`. libdbus completes every request or times it out
(`ReplyArrives`). A listed connection is dispatched, and once it is, its replies
are delivered and the loop ends: strong fairness of `BeginDispatch` and
`OnPendingCallNotify`, because commands and other connections come in between;
it assumes that the peers of a connection do not send without end, which would
keep `dispatchMessages` in its loop, and that memory is not short for ever.
Nobody is forced to open, close, cancel or issue anything.

Fairness of `PollLoop`. The thread goes on and its handlers return; `poll` is not
interrupted for ever when it has something to report (`SF` of `PollReturns`).
Neither time nor events are forced.

Fairness of `Services`. Commands are executed (`WF`). Messages of a connection
that is up are dispatched, with strong fairness because commands come in between
and because a lost connection is not dispatched. The bus, the peers and the
application are never forced.

Fairness of `Lifecycle`. A thread that can go on does (`WF` of each thread, and of the
main thread inside a call). Nothing obliges the program to call the library, a
client to submit, or a sleeper to wake without a signal. `CallsReturn` is thus
about the library alone: `start` waits with `mMutex` held for a thread that must
not need it yet, and `destroy` waits for one that must not need the holder's.

## Proofs

Each liveness property a run checks has a safety core: what must hold in every state
for the property to have a chance. Fairness is out of the prover's reach, but the core
is not, and it holds for any number of threads, requests and objects. These formulas
(`HolderGoesOn`, `NoDeadlock`, `SentGoesOn`, `NoLostWakeUp`, `AskedIsUnderWay` and
others below) are stated by theorems; TLC was used on them with the constants of the
runs before they were proved, and no run lists them.

### CallService

`CallServiceProofs` shows for any set of commands that whoever implements
`CallService` answers a command once, when it finishes, and loses none that is not
fragile (`OneAnswer`), and does nothing to a command that was refused, finished or lost,
nor to any after the close (`EndsAreFinal`). `CommandQueueRefinement` and `ConnectionsProofs` instantiate it and
conclude it for their own callers (`CallersAreServed`) from the refinement.

### CommandQueue

TLAPS proves, for any sets of threads and commands and any capacity,
`Spec => []P` for the type invariant and each of the five safety invariants of
`queue_safety`, and `Spec => ImplementsService`. Assumptions: the threads are
distinct, the kinds of commands are disjoint, the capacity is positive.

None of the properties is inductive, so `CommandQueueProofs` builds `Inv` in
layers, each proved on top of those before it:

1. `Control`: which places each thread can be in, and who holds the recursive
   lock how often. It gives `Exclusive`: one thread at a time is between
   `LockQueue` and `Unlock`, and none once the dispatcher is destroyed.
2. `Types`: the type invariant, with what it rests on (a queue seen non-empty
   stays so while its reader holds the lock).
3. `PipeMatchesQueue`: only the owner of the lock changes either side.
4. `Ownership`: a submitted command is alive, without handle and its thread's
   alone (`Arguments`); only the last queued command may lack its handle, and
   then its thread is writing its byte (`InTransit`), which is why a failed
   write withdraws the right command; owners are disjoint (`Single`) and every
   live accepted command has one (`Owned`). The facts about sequences are
   lemmas of their own (`AppendFacts`, `TailFacts`, `FrontFacts`).
5. `Answers`: `AnsweredOnce`; a deleted command's waiter finds its semaphore
   posted (`Posted`); after the shutdown was executed no request is held and the
   thread only drains and leaves (`Stopping`). Only an open is ever lost, and what
   is lost has no owner and no answer.

The properties name the lost open as their exception, and no other: its caller
(`WaiterIsServed`, `SyncCallReturns`; `Forgotten` in `NoDeadlock`), what it leaves
queued when the shutdown was executed before it (`cut` in `OnlyLateCallsAreDropped`),
and its place in the service (`Fragile` in `CallService`, whose other commands
are never lost). That it holds the queue lock no longer, owns its byte in the pipe no
longer and delays nobody else for ever is part of what is proved.

On top of `Inv`, the layer `Caller` says that the main thread submits the shutdown
command, once, and nobody else does. With it come three facts that `SyncCallReturns`
and `ShutdownCompletes` rest on:

* `HolderGoesOn`: whoever holds the queue lock waits for nobody. The recursive lock lets a
  callback submit, and the read in `onCommand` always finds a byte
  (`PipeMatchesQueue`). The one exception is the write into a full pipe, which is the
  finding of `queue_full_pipe`.
* `NoDeadlock`: among the threads in the library one can always go on, or writes into a
  full pipe. The circle that has to be excluded is caller, dispatcher, lock, shutdown.
* `NoOvertaking`, a property of steps: accepted commands leave the queue in their order, and
  the command that a failed write takes back from the end is its own.

`CommandQueueRefinement` shows that each action is a step of `CallService` or
leaves its state alone. That the shutdown command is never among the commands
`~Dispatcher` cancels, and that nothing is open when it ends, come from
`Stopping` and `Owned`.

### Connections

TLAPS proves, for any sets of connections and requests, any bound on the
references and any assignment of requests to connections, `Spec => []P` for
the six invariants of `connections_safety` and `Spec => ImplementsService`.
Assumptions: the kinds of requests are disjoint, and a removal is for the
connection of its subject. `Inv` is layered again:

1. `Lists`: a listed connection is cached, and `RepliesAreListed` with what it
   rests on: a cached connection with unread messages that is up is listed, and
   a ready reply means unread messages.
2. `Closed`: what is not cached has no pending command and no entry, and
   `dispatching` is cached.
3. `Owners`: for each request, how `life`, `call` and `pending` go together,
   with the commands of lost connections as the only exceptions.
4. `AnsweredOnce`, which needs `Owners` to know that whoever answers finds a
   command not answered yet.

Each action has a lemma, with the closing of connections (`DestroyInv`) shared
by `Release` and `ReleaseAll`.

The layer `Made` adds that an entry exists only after its command has ended, and that a
command waits without a call only if its connection is lost. From it and `Inv`:

* `SentGoesOn`, the core of `SentIsAnswered`: a request that was sent over a connection that is
  up is in `mPendingCmds`, and libdbus has still to complete it or its reply is ready and
  the connection is listed.
* `EntriesAreNotRevived`, a property of steps: a subscription or registration is made in the step
  that answers its command, and a late reply brings back none that was removed.
* `OtherCallbacksFindCommand`: the finding of `reopened_connection` is confined to
  `SubscribeOwnerChangedCmd`. For every other class libdbus calls back a command that exists.

### PollLoop

For any sets of watches, descriptors and timeouts and any intervals, TLAPS
proves the type invariant, `NoOversleep`, `ExpiredAreDue`, `ActiveIsSound`,
`HandlersAreSound` and `ImplementsRound`. Assumption: the pipe is a watch and has a descriptor.
`Inv` adds one layer, `Phases`, to the invariants: what each place in `dispatch`
knows of the copies, such as that nothing is expired or active outside the phase
that handles it. Each action has a lemma; timers are due because no container
step is possible while `pc = "timers"`.

The refinement of `DispatchRound` needs one more layer, `PipeAlone`: the pipe's watch and
descriptor are each other's alone, so that `MatchWatches` pairs it with its own entry
only, and what poll reported of it is still there when its handler runs, because only
that handler reads the pipe. `CommandQueueRefinement` proves the other side
(`RoundRefinement`): a round of `CommandQueue` is one too, with the callbacks inside
`onCommand` and `dispatchPending` counted to the place they were called from.

### Services

For any services, subscriptions, calls and signals and any matching of them,
TLAPS proves the type invariant, `NothingIsMissed`, `ContextIsAlive` and
`RepliedOnce`. Assumption: registrations and subscriptions are different entries,
calls and signals different messages, a call is for one registration and a signal
for subscriptions only. The layers of `Inv`:

1. `Commanded`: a command about an entry is queued once, and the entry is still in
   the life it was queued for.
2. `Requests`: the bus is asked to add an entry once and answers once, and nothing
   of its removal is under way before it was active.
3. `Served`: of an entry the bus routes to, the reply that adds it was read or is
   on its way, and the reply that removes it was not sent.
4. `InOrder`: a message is in the stream behind the reply that adds its entries
   and before the one that removes them. This is what `NothingIsMissed` rests on:
   the step that takes an entry out of its container cannot overtake a message.
5. `Matching`, `Unread`: what an entry is owed is for it; a message waits once, and
   a call that waits has no context and no reply.
6. `Contexts`: an answer is queued once, for a call without a reply, and the
   freeing of the context is behind everything that uses it.

What appending to a sequence and taking its head mean for its elements are lemmas
of their own (`Extends`, `Shifts`), as is what reading the first message leaves of
the other parts (`ReadLeaves`).

Three more theorems stand on this invariant:

* `DeliveriesAreOwed`, the converse of `NothingIsMissed`, a property of steps: a callback is
  handed only messages the bus sent because of its entry. What came before the entry was added
  is dispatched before it is there. Its layer `Timely` places every message that was *not*
  sent for an entry before the reply that adds it or behind the one that removes it. The
  exception is an entry whose removal timed out or failed (`kept`): the library keeps it
  though the bus has removed it, and it is handed what other subscriptions of the
  connection receive.
* `HandedOnce`: a message that waits was handed to nobody (layer `Handed`).
* `AskedIsUnderWay`, the core of `RequestsAreCarriedOut`: an answer or a freeing the
  application asked for is queued until it is done, whatever is closed or lost; an answer
  is then sent, or reported as not sent for want of memory (`unsent`).

`NothingIsMissed` and `MessageIsHandled` except the messages in `spoilt`, which only the
two failures of the filter enter (`Filtered` is what it may do with a message).

### Commands

For any number of commands TLAPS proves the type invariant, `AnsweredOnce`,
`NothingIsOwed`, `NoDanglingCommand` and `HandleIsSound`. Assumption: the null
handle is not the number of a command. `Inv` adds three layers:

1. `Fresh`: a command that was not executed has its object at most, and no call.
2. `Owners`: who has the object and the call of a command that runs or waits; only
   the two abandoned cases are in `mPendingCmds` after their deletion.
3. `Progress`: what a command has, owes and was told at each step of its execution.
   This is the layer the failures need: at `unref` without a registration, the
   call must be over and the caller must have been told, whichever step failed.

Four more theorems stand on it. `ClosedKeepsNothing` (behind a closed connection nothing
waits, no call is open, no object is entered) needs one more layer, `Closing`: a command
that has checked its connection still finds it open at the later steps of its
execution. `RemovedOnce`: of all removals of one handle at most one is reported as done,
and then the object is gone. Removals that race are the hazard of `Command.cpp:979`; the
theorem is about what they report, with the use of the deleted object left out as
everywhere in `Commands`. And two properties of steps: `AnswersReachCommands` (only
commands of a lost connection are answered after their deletion) and
`ObjectsLeaveOnRequest` (an object leaves its connection when that is closed, or in the step
that reports its removal).

### Lifecycle

For any set of clients and any bounds TLAPS proves the type invariant,
`NoUseAfterDestroy`, `StartedIsRunning` and `OnlyLateConnectionsSurvive`.
Assumption: the bounds are natural numbers. The layers of `Inv`:

1. `Memory`: the singleton is the only `Dispatcher` alive, and no thread runs in
   another.
2. `Threads`: what the place of the main thread tells of the thread and of
   `mRunning` and `mQuit`. `StartedIsRunning` needs that nobody sets `mQuit`
   outside shutdown and exit.
3. `Locks`: who holds `mMutex` or is inside a post; the waiter cannot leave a
   semaphore while its poster has the mutex.
4. `Stopping`: there is one `ShutdownCmd`, and the frame with its semaphore waits
   until it was posted.
5. `Connected`: after `mQuit` only late connections are left, and none is watched
   when the object goes.

A sixth layer, `Waking`, says where the count or the signal is that main waits for: past
the post it is counted, before it `ShutdownCmd` is queued. It gives the safety core of
`CallsReturn`: `NoLostWakeUp` (while main sleeps on a semaphore its signal is still to
come), `OneThread` (never two dispatcher threads at once, on which the statics without a
lock rely), and `NoDeadlock`: main and the thread never wait for each other. Its only exception,
`JoinsInVain`, is the shutdown whose command could not be submitted, which joins a
thread nobody stopped.

### Not proved

The liveness properties (`SyncCallReturns`, `ShutdownCompletes`, `SentIsAnswered`,
`EventIsHandled`, `TimerIsHandled`, `MessageIsHandled`, `RequestsAreCarriedOut`,
`CallsReturn`) are only model-checked: fairness is out of the prover's reach. Proved is
what they rest on in every state, as said above; that a step which is possible is taken
in the end is TLC's result, on the instances of the runs. The four violations are
TLC's too. No invariant and no refinement is only model-checked.

## Findings

* `queue_full_pipe`: `Pipe::open` means to make the write end non-blocking
  but passes `O_NONBLOCK` to `F_SETFD`, so the write blocks when the pipe is
  full, and it does so with the queue lock held. The dispatcher thread, the
  only reader, then waits for the lock. `submitCommand` has code for the failed
  write, which the build never reaches that way.
* `lost_connection`: a blocking `DBUSIPC_invoke` whose connection is lost
  neither returns nor times out. `dispatchMessages` skips a connection that is
  down, and the error libdbus made up for the request is behind that check.
  `connections_liveness` shows that this is the only way to lose an answer.
* `reopened_connection`: `SubscribeOwnerChangedCmd::cancel` does not cancel
  its D-Bus call. If a shared connection is closed and opened again before the
  reply comes, the reply is handed to the deleted command.
* `emit_unregistered`: `EmitCmd` does not ask whether its registration still
  exists. Two threads, one of which unregisters a service while the other emits,
  make it use a deleted object.

The invariants carve out two more cases, stated in their comments: after the
loss of a connection during dispatching, a `SubscribeCmd` or
`SubscribeOwnerChangedCmd` is deleted and stays in `mPendingCmds`
(`NotifySubscribeDown`), and a `RegisterServiceCmd` is answered and will be
answered again (`NotifyRegisterDown`). `Commands` and `CommandQueue` add the exception that leaves
`OpenConnectionCmd::execute` and `GetConnectionCmd::execute` (`Escape`, `ExecEscape`:
a blocking caller waits for ever), `Services` the call whose request context
cannot be made (`spoilt`: nobody replies) and the answer that cannot be sent
(`unsent`), and `Lifecycle` the connection that was
opened behind the shutdown (`late`) and the shutdown whose command could not be
submitted, which joins a thread nobody stopped (in `CallsReturn`).

Seen while reading, with no run of their own: a subscription or registration
removed twice before the first reply is used after its deletion
(`Command.cpp:979`); a command that closes one connection and opens another in one
round can put a new watch at the address of a deleted one, which is then handed
the old one's events (`Dispatcher.cpp:303`, `reused` in `PollLoop`); the
constructor of `Connection`, when it throws, leaves its functions set on a shared
connection (`Connection.cpp:361`); the result of `DBUSIPC_validateUtf8` is an error
whatever the string (`svcipc_api.cpp:1478`).

## Not modelled

* Pure functions: names, introspection text, the packing of error codes, the
  handle counter. They keep no state but a counter, whose wrap after 2^32 handles
  is a hazard in the list with no property.
* Checks of arguments in the API functions, which return before anything is
  allocated.
* Tracing, exceptions as objects (what they interrupt is modelled), string
  constants.
* The system wrappers other than `poll`, the clock and the pipe; thread priorities.
* `FreeRequestContextCmd` and a request context met by `~Dispatcher` or by a
  connection opened again at the same address: hazards in the list. They need
  the addresses of contexts and connections, which `Services` abstracts.
* The vendored D-Bus headers, build files and configuration.
