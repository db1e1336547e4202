---------------------------- MODULE CommandQueue ----------------------------
(***************************************************************************)
(* The path of a command from an API function to the dispatcher thread and *)
(* back: DBUSIPC_submitCmd and the API functions around it                 *)
(* (svcipc_api.cpp), Dispatcher::submitCommand, onCommand and ~Dispatcher  *)
(* (Dispatcher.cpp), the thread loop (Thread.cpp) and the pipe (Pipe.cpp). *)
(*                                                                         *)
(* Application threads (Clients) call synchronous and asynchronous         *)
(* functions; callbacks run on the dispatcher thread Disp and may submit   *)
(* commands from there, re-entering the recursive queue lock; the thread   *)
(* Main calls DBUSIPC_shutdown.  One dispatcher is followed from the state *)
(* DBUSIPC_initialize leaves (thread in its loop) until it is destroyed.   *)
(*                                                                         *)
(* A command object is used once, as in the code, where every call         *)
(* allocates one.  The finite sets of commands given to TLC are the bound  *)
(* on the number of calls.                                                 *)
(***************************************************************************)
EXTENDS Naturals, Sequences

CONSTANTS
  Clients,       \* application threads
  SyncCmds,      \* commands of blocking calls: a semaphore is posted
  AsyncCmds,     \* commands with a callback
  OneWayCmds,    \* commands that may end in silence: FreeRequestContextCmd,
                 \* InvokeCmd with noReplyExpected
  OpenCmds,      \* those of DBUSIPC_openConnection and DBUSIPC_getConnection,
                 \* blocking or not
  ShutdownCmd,   \* the command of DBUSIPC_shutdown
  Disp,          \* the dispatcher thread
  Main,          \* the thread that calls DBUSIPC_shutdown
  Nobody,        \* no thread: the queue lock is free
  NoCmd,         \* no command
  PipeCapacity   \* bytes the pipe holds before a write blocks

Calls == SyncCmds \cup AsyncCmds \cup OneWayCmds
Cmds == Calls \cup {ShutdownCmd}
Threads == Clients \cup {Disp, Main}

\* The commands whose dispatch() posts a semaphore.
Semaphored == SyncCmds \cup {ShutdownCmd}

ASSUME ThreadsAssumption ==
  /\ Disp # Main
  /\ Disp \notin Clients
  /\ Main \notin Clients
  /\ Nobody \notin Threads

ASSUME CmdsAssumption ==
  /\ SyncCmds \cap AsyncCmds = {}
  /\ OneWayCmds \cap (SyncCmds \cup AsyncCmds) = {}
  /\ OpenCmds \subseteq SyncCmds \cup AsyncCmds
  /\ ShutdownCmd \notin Calls
  /\ NoCmd \notin Cmds

ASSUME PipeAssumption == PipeCapacity \in Nat \ {0}

VARIABLES
  pc,             \* where each thread is
  arg,            \* the command each thread submits or waits for
  lock,           \* owner of mCmdQLock
  depth,          \* how often the owner has locked it
  queue,          \* mCmdQueue
  pipe,           \* bytes in mPipe
  running,        \* mRunning
  quit,           \* mQuit
  cur,            \* the command onCommand executes
  held,           \* requests sent to the bus: mPendingCmds of the connections
  life,           \* whether each command object exists; lost: it does, but
                  \* nobody owns it any more
  accepted,       \* commands with a valid handle
  late,           \* history: those accepted after the shutdown was executed
  done,           \* how many times each command's dispatch() ran
  sem,            \* the value of each caller's semaphore
  shutdownCalled, \* DBUSIPC_shutdown was called
  destroyed,      \* ~Dispatcher has finished
  cut             \* history: an exception ended onCommand after the shutdown
                  \* was executed

threadVars == <<pc, arg>>
lockVars == <<lock, depth>>
queueVars == <<queue, pipe>>
loopVars == <<running, quit, cur>>
cmdVars == <<held, life, accepted, late, done, sem>>
endVars == <<shutdownCalled, destroyed, cut>>
vars == <<threadVars, lockVars, queueVars, loopVars, cmdVars, endVars>>

Labels ==
  {"idle", "get", "lock", "push", "write", "wait", "crashed"}
    \cup {"test", "pending", "poll", "onCommand", "drain", "read", "exec",
          "callback", "exit", "dead"}
    \cup {"join", "destroy", "cancel", "end"}

Init ==
  /\ pc = [t \in Threads |-> IF t = Disp THEN "test" ELSE "idle"]
  /\ arg = [t \in Threads |-> NoCmd]
  /\ lock = Nobody
  /\ depth = 0
  /\ queue = <<>>
  /\ pipe = 0
  /\ running = TRUE
  /\ quit = FALSE
  /\ cur = NoCmd
  /\ held = {}
  /\ life = [c \in Cmds |-> "unborn"]
  /\ accepted = {}
  /\ late = {}
  /\ done = [c \in Cmds |-> 0]
  /\ sem = [c \in Cmds |-> 0]
  /\ shutdownCalled = FALSE
  /\ destroyed = FALSE
  /\ cut = FALSE

-----------------------------------------------------------------------------
(* Shared pieces of the actions.                                           *)

Goto(t, label) == pc' = [pc EXCEPT ![t] = label]

Lock(t) ==
  /\ lock \in {Nobody, t}
  /\ lock' = t
  /\ depth' = depth + 1

Unlock ==
  /\ depth' = depth - 1
  /\ lock' = IF depth = 1 THEN Nobody ELSE lock

\* The commands of A run their dispatch(): callbacks are called, semaphores
\* posted.  A semaphore made with the value 0 never exceeds 1: posting it
\* again is reported and lost.
Answer(A) ==
  /\ done' = [c \in Cmds |-> IF c \in A THEN done[c] + 1 ELSE done[c]]
  /\ sem' = [c \in Cmds |-> IF c \in A \cap Semaphored THEN 1 ELSE sem[c]]

Delete(S) == life' = [c \in Cmds |-> IF c \in S THEN "deleted" ELSE life[c]]

\* Where a thread continues once its command was accepted or refused.
\* DBUSIPC_shutdown goes on to join the dispatcher even when refused.
AfterSubmit(t, ok) ==
  IF t = Disp THEN "callback"
  ELSE IF ok /\ arg[t] \in Semaphored THEN "wait"
  ELSE IF t = Main THEN "join"
  ELSE "idle"

\* DBUSIPC_submitCmd deletes the command it could not submit.
Refused(t) ==
  /\ Goto(t, AfterSubmit(t, FALSE))
  /\ Delete({arg[t]})
  /\ UNCHANGED <<arg, held, accepted, late, done, sem>>

-----------------------------------------------------------------------------
(* Calling a function of the API.  Once DBUSIPC_shutdown has been called,  *)
(* no other function may be (dbusipc_api.h); calls under way go on.        *)

NewCommand(t, c) ==
  /\ ~shutdownCalled
  /\ life[c] = "unborn"
  /\ life' = [life EXCEPT ![c] = "alive"]
  /\ arg' = [arg EXCEPT ![t] = c]
  /\ Goto(t, "get")
  /\ UNCHANGED <<lockVars, queueVars, loopVars, held, accepted, late, done, sem>>

\* An application thread calls a blocking function.
CallSync(t, c) ==
  /\ pc[t] = "idle"
  /\ c \in SyncCmds
  /\ NewCommand(t, c)
  /\ UNCHANGED endVars

\* An application thread calls a function that only submits its command.
CallAsync(t, c) ==
  /\ pc[t] = "idle"
  /\ c \in AsyncCmds \cup OneWayCmds
  /\ NewCommand(t, c)
  /\ UNCHANGED endVars

\* A callback on the dispatcher thread does so.  (A blocking function called
\* there returns DBUSIPC_ERR_DEADLOCK at once and changes nothing.)
CallFromCallback(c) ==
  /\ pc[Disp] = "callback"
  /\ c \in AsyncCmds \cup OneWayCmds
  /\ NewCommand(Disp, c)
  /\ UNCHANGED endVars

CallShutdown ==
  /\ pc[Main] = "idle"
  /\ running
  /\ NewCommand(Main, ShutdownCmd)
  /\ shutdownCalled' = TRUE
  /\ UNCHANGED <<destroyed, cut>>

\* gDispatcher.get() waits while gDispatcher.destroy() is under way.  A destroyed
\* instance is replaced by a new one, whose thread is not running, so that the
\* command will be refused there.
GetDispatcher(t) ==
  /\ pc[t] = "get"
  /\ pc[Main] \notin {"destroy", "cancel"}
  /\ IF destroyed
     THEN Refused(t)
     ELSE /\ Goto(t, "lock")
          /\ UNCHANGED <<arg, cmdVars>>
  /\ UNCHANGED <<lockVars, queueVars, loopVars, endVars>>

-----------------------------------------------------------------------------
(* Dispatcher::submitCommand.                                              *)

LockQueue(t) ==
  /\ pc[t] = "lock"
  /\ ~destroyed
  /\ Lock(t)
  /\ Goto(t, "push")
  /\ UNCHANGED <<arg, queueVars, loopVars, cmdVars, endVars>>

\* The pointer gDispatcher.get() returned is dangling: what the thread does
\* now is undefined, and it is followed no further.
LockDestroyed(t) ==
  /\ pc[t] = "lock"
  /\ destroyed
  /\ Goto(t, "crashed")
  /\ UNCHANGED <<arg, lockVars, queueVars, loopVars, cmdVars, endVars>>

Push(t) ==
  /\ pc[t] = "push"
  /\ running
  /\ queue' = Append(queue, arg[t])
  /\ Goto(t, "write")
  /\ UNCHANGED <<arg, lockVars, pipe, loopVars, cmdVars, endVars>>

NotRunning(t) ==
  /\ pc[t] = "push"
  /\ ~running
  /\ Unlock
  /\ Refused(t)
  /\ UNCHANGED <<queueVars, loopVars, endVars>>

\* The byte is written, or the thread blocks here, holding the lock: the
\* flag Pipe::open sets on the descriptor is not the one that would make the
\* write fail on a full pipe.
Write(t) ==
  /\ pc[t] = "write"
  /\ pipe < PipeCapacity
  /\ pipe' = pipe + 1
  /\ Unlock
  /\ accepted' = accepted \cup {arg[t]}
  /\ late' = IF quit THEN late \cup {arg[t]} ELSE late
  /\ Goto(t, AfterSubmit(t, TRUE))
  /\ UNCHANGED <<arg, queue, loopVars, held, life, done, sem, endVars>>

WriteFails_KeepsCommand(t) ==
  /\ pc[t] = "write"
  /\ pipe = PipeCapacity
  /\ Unlock
  /\ Refused(t)
  /\ UNCHANGED <<queueVars, loopVars, endVars>>

\* A signal handler interrupts the blocked write, which returns -1.
WriteFails(t) ==
  /\ pc[t] = "write"
  /\ pipe = PipeCapacity
  /\ queue' = SubSeq(queue, 1, Len(queue) - 1)
  /\ Unlock
  /\ Refused(t)
  /\ UNCHANGED <<pipe, loopVars, endVars>>

\* The caller's semaphore was posted.
Return(t) ==
  /\ pc[t] = "wait"
  /\ sem[arg[t]] = 1
  /\ sem' = [sem EXCEPT ![arg[t]] = 0]
  /\ Goto(t, IF t = Main THEN "join" ELSE "idle")
  /\ UNCHANGED <<arg, lockVars, queueVars, loopVars, held, life, accepted, late,
                 done, endVars>>

SubmitStep(t) ==
  \/ GetDispatcher(t)
  \/ LockQueue(t)
  \/ LockDestroyed(t)
  \/ Push(t)
  \/ NotRunning(t)
  \/ Write(t)
  \/ Return(t)

-----------------------------------------------------------------------------
(* The dispatcher thread.                                                  *)

\* while ( !mQuit && execute() )
TestQuit ==
  /\ pc[Disp] = "test"
  /\ Goto(Disp, IF quit THEN "exit" ELSE "pending")
  /\ UNCHANGED <<arg, lockVars, queueVars, loopVars, cmdVars, endVars>>

\* dispatchPending: libdbus delivers the reply to a request, or the error it
\* makes up when the request times out; the request is answered and deleted.
Reply(c) ==
  /\ pc[Disp] = "pending"
  /\ c \in held
  /\ held' = held \ {c}
  /\ Answer({c})
  /\ Delete({c})
  /\ Goto(Disp, IF c \in AsyncCmds THEN "callback" ELSE "pending")
  /\ UNCHANGED <<arg, lockVars, queueVars, loopVars, accepted, late, endVars>>

\* dispatchPending: a signal or a request from the bus is handed to the callback
\* that was registered for it.
DeliverMessage ==
  /\ pc[Disp] = "pending"
  /\ Goto(Disp, "callback")
  /\ UNCHANGED <<arg, lockVars, queueVars, loopVars, cmdVars, endVars>>

\* No message is left to dispatch.
EndPending ==
  /\ pc[Disp] = "pending"
  /\ Goto(Disp, "poll")
  /\ UNCHANGED <<arg, lockVars, queueVars, loopVars, cmdVars, endVars>>

\* dispatch: poll reports the pipe, and its watch calls onCommand.
PollPipe ==
  /\ pc[Disp] = "poll"
  /\ pipe > 0
  /\ Goto(Disp, "onCommand")
  /\ UNCHANGED <<arg, lockVars, queueVars, loopVars, cmdVars, endVars>>

\* poll fails, times out (after DEFAULT_POLL_MSEC_WAIT at the latest), or
\* reports only descriptors of connections.
PollOther ==
  /\ pc[Disp] = "poll"
  /\ Goto(Disp, "test")
  /\ UNCHANGED <<arg, lockVars, queueVars, loopVars, cmdVars, endVars>>

EnterOnCommand ==
  /\ pc[Disp] = "onCommand"
  /\ Lock(Disp)
  /\ Goto(Disp, "drain")
  /\ UNCHANGED <<arg, queueVars, loopVars, cmdVars, endVars>>

MoreCommands_UnlessQuit == queue # <<>> /\ running /\ ~quit

MoreCommands == queue # <<>> /\ running

DrainNext ==
  /\ pc[Disp] = "drain"
  /\ MoreCommands
  /\ Goto(Disp, "read")
  /\ UNCHANGED <<arg, lockVars, queueVars, loopVars, cmdVars, endVars>>

DrainEnd ==
  /\ pc[Disp] = "drain"
  /\ ~MoreCommands
  /\ Unlock
  /\ Goto(Disp, "test")
  /\ UNCHANGED <<arg, queueVars, loopVars, cmdVars, endVars>>

ReadAndPop_LeavesByte ==
  /\ pc[Disp] = "read"
  /\ pipe > 0
  /\ cur' = Head(queue)
  /\ queue' = Tail(queue)
  /\ Goto(Disp, "exec")
  /\ UNCHANGED <<arg, lockVars, pipe, running, quit, cmdVars, endVars>>

\* One byte is read for each command; reading an empty pipe would block.
ReadAndPop ==
  /\ pc[Disp] = "read"
  /\ pipe > 0
  /\ pipe' = pipe - 1
  /\ cur' = Head(queue)
  /\ queue' = Tail(queue)
  /\ Goto(Disp, "exec")
  /\ UNCHANGED <<arg, lockVars, running, quit, cmdVars, endVars>>

\* The command's execute() ends with its dispatch(): it did its work, or it
\* failed before a request was on its way.  onCommand deletes it.
ExecAnswer ==
  /\ pc[Disp] = "exec"
  /\ cur \in Calls
  /\ Answer({cur})
  /\ Delete({cur})
  /\ Goto(Disp, IF cur \in SyncCmds THEN "drain" ELSE "callback")
  /\ cur' = NoCmd
  /\ UNCHANGED <<arg, lockVars, queueVars, running, quit, held, accepted, late,
                 endVars>>

ExecEscape_KeepsLock ==
  /\ pc[Disp] = "exec"
  /\ cur \in OpenCmds
  /\ life' = [life EXCEPT ![cur] = "lost"]
  /\ cut' = (cut \/ quit)
  /\ Goto(Disp, "test")
  /\ cur' = NoCmd
  /\ UNCHANGED <<arg, lockVars, queueVars, running, quit, held, accepted, late,
                 done, sem, shutdownCalled, destroyed>>

\* std::bad_alloc is not a DBUSIPCError: it leaves execute() and onCommand, which
\* lets go of the lock, and Dispatcher::execute catches it.  The command is
\* neither answered nor deleted, and the commands behind it wait for the next
\* round, or for ~Dispatcher if the thread was told to stop.
ExecEscape ==
  /\ pc[Disp] = "exec"
  /\ cur \in OpenCmds
  /\ life' = [life EXCEPT ![cur] = "lost"]
  /\ cut' = (cut \/ quit)
  /\ Unlock
  /\ Goto(Disp, "test")
  /\ cur' = NoCmd
  /\ UNCHANGED <<arg, queueVars, running, quit, held, accepted, late, done, sem,
                 shutdownCalled, destroyed>>

ExecSilently ==
  /\ pc[Disp] = "exec"
  /\ cur \in OneWayCmds
  /\ Delete({cur})
  /\ Goto(Disp, "drain")
  /\ cur' = NoCmd
  /\ UNCHANGED <<arg, lockVars, queueVars, running, quit, held, accepted, late,
                 done, sem, endVars>>

\* A request went out: registerPending keeps the command (execAndDestroy is
\* now false).  An open sends no request.  Once a shutdown was executed no
\* connection is left that a queued request could name, and it is answered by
\* ExecAnswer.
ExecRetain ==
  /\ pc[Disp] = "exec"
  /\ cur \in (SyncCmds \cup AsyncCmds) \ OpenCmds
  /\ ~quit
  /\ held' = held \cup {cur}
  /\ Goto(Disp, "drain")
  /\ cur' = NoCmd
  /\ UNCHANGED <<arg, lockVars, queueVars, running, quit, life, accepted, late,
                 done, sem, endVars>>

ExecShutdown_WithoutStop ==
  /\ pc[Disp] = "exec"
  /\ cur = ShutdownCmd
  /\ Answer(held \cup {cur})
  /\ Delete(held \cup {cur})
  /\ held' = {}
  /\ Goto(Disp, "drain")
  /\ cur' = NoCmd
  /\ UNCHANGED <<arg, lockVars, queueVars, running, quit, accepted, late, endVars>>

ExecShutdown_DropsRequests ==
  /\ pc[Disp] = "exec"
  /\ cur = ShutdownCmd
  /\ Answer({cur})
  /\ Delete(held \cup {cur})
  /\ held' = {}
  /\ quit' = TRUE
  /\ Goto(Disp, "drain")
  /\ cur' = NoCmd
  /\ UNCHANGED <<arg, lockVars, queueVars, running, accepted, late, endVars>>

\* forceReleaseAll destroys every connection, which cancels the requests it
\* holds; then the thread is told to stop and DBUSIPC_shutdown is woken up.
ExecShutdown ==
  /\ pc[Disp] = "exec"
  /\ cur = ShutdownCmd
  /\ Answer(held \cup {cur})
  /\ Delete(held \cup {cur})
  /\ held' = {}
  /\ quit' = TRUE
  /\ Goto(Disp, "drain")
  /\ cur' = NoCmd
  /\ UNCHANGED <<arg, lockVars, queueVars, running, accepted, late, endVars>>

\* The callback returns to onCommand, or to dispatchPending.
CallbackReturn ==
  /\ pc[Disp] = "callback"
  /\ Goto(Disp, IF lock = Disp THEN "drain" ELSE "pending")
  /\ UNCHANGED <<arg, lockVars, queueVars, loopVars, cmdVars, endVars>>

LoopExit ==
  /\ pc[Disp] = "exit"
  /\ running' = FALSE
  /\ Goto(Disp, "dead")
  /\ UNCHANGED <<arg, lockVars, queueVars, quit, cur, cmdVars, endVars>>

DispStep ==
  \/ TestQuit \/ EndPending
  \/ PollPipe \/ PollOther
  \/ EnterOnCommand \/ DrainNext \/ DrainEnd
  \/ ReadAndPop
  \/ ExecAnswer \/ ExecEscape \/ ExecSilently \/ ExecRetain \/ ExecShutdown
  \/ CallbackReturn
  \/ LoopExit

-----------------------------------------------------------------------------
(* The end of DBUSIPC_shutdown: gDispatcher.destroy().                     *)

Join_WithoutWaiting ==
  /\ pc[Main] = "join"
  /\ Goto(Main, "destroy")
  /\ UNCHANGED <<arg, lockVars, queueVars, loopVars, cmdVars, endVars>>

\* The dispatcher thread has ended; Main takes the lock of the SingletonHolder.
Join ==
  /\ pc[Main] = "join"
  /\ pc[Disp] = "dead"
  /\ Goto(Main, "destroy")
  /\ UNCHANGED <<arg, lockVars, queueVars, loopVars, cmdVars, endVars>>

LockToCancel ==
  /\ pc[Main] = "destroy"
  /\ Lock(Main)
  /\ Goto(Main, "cancel")
  /\ UNCHANGED <<arg, queueVars, loopVars, cmdVars, endVars>>

CancelNext_OnlyDeletes ==
  /\ pc[Main] = "cancel"
  /\ queue # <<>>
  /\ queue' = Tail(queue)
  /\ Delete({Head(queue)})
  /\ UNCHANGED <<threadVars, lockVars, pipe, loopVars, held, accepted, late, done,
                 sem, endVars>>

\* cancel() answers DBUSIPC_ERR_CANCELLED; FreeRequestContextCmd inherits the
\* empty cancel() of BaseCommand.
CancelNext ==
  /\ pc[Main] = "cancel"
  /\ queue # <<>>
  /\ queue' = Tail(queue)
  /\ LET c == Head(queue) IN
       /\ Delete({c})
       /\ \/ /\ c \in Calls
             /\ Answer({c})
          \/ /\ c \notin SyncCmds \cup AsyncCmds
             /\ UNCHANGED <<done, sem>>
  /\ UNCHANGED <<threadVars, lockVars, pipe, loopVars, held, accepted, late,
                 endVars>>

DestroyEnd ==
  /\ pc[Main] = "cancel"
  /\ queue = <<>>
  /\ Unlock
  /\ destroyed' = TRUE
  /\ Goto(Main, "end")
  /\ UNCHANGED <<arg, queueVars, loopVars, cmdVars, shutdownCalled, cut>>

MainStep == Join \/ LockToCancel \/ CancelNext \/ DestroyEnd

-----------------------------------------------------------------------------
Next ==
  \/ \E t \in Clients, c \in Calls : CallSync(t, c) \/ CallAsync(t, c)
  \/ \E c \in Calls : CallFromCallback(c)
  \/ CallShutdown
  \/ \E t \in Threads : SubmitStep(t) \/ WriteFails(t)
  \/ DispStep
  \/ DeliverMessage
  \/ \E c \in Cmds : Reply(c)
  \/ MainStep

\* Threads that can go on do, the bus does not send messages without end, poll
\* keeps reporting a readable pipe, and libdbus delivers a reply or a timeout
\* for every request of a connection that is up.  Nobody has to call the API,
\* to send a message or to interrupt a write.
Fairness ==
  /\ \A t \in Threads : WF_vars(SubmitStep(t))
  /\ WF_vars(DispStep)
  /\ SF_vars(EndPending)
  /\ SF_vars(PollPipe)
  /\ \A c \in Cmds : SF_vars(Reply(c))
  /\ WF_vars(MainStep)

Spec == Init /\ [][Next]_vars

FairSpec == Spec /\ Fairness

-----------------------------------------------------------------------------
(* Properties.                                                             *)

TypeOK ==
  /\ pc \in [Threads -> Labels]
  /\ arg \in [Threads -> Cmds \cup {NoCmd}]
  /\ lock \in Threads \cup {Nobody}
  /\ depth \in 0 .. 2
  /\ queue \in Seq(Cmds)
  /\ pipe \in 0 .. PipeCapacity
  /\ running \in BOOLEAN
  /\ quit \in BOOLEAN
  /\ cur \in Cmds \cup {NoCmd}
  /\ held \in SUBSET (SyncCmds \cup AsyncCmds)
  /\ life \in [Cmds -> {"unborn", "alive", "deleted", "lost"}]
  /\ accepted \in SUBSET Cmds
  /\ late \in SUBSET accepted
  /\ done \in [Cmds -> Nat]
  /\ sem \in [Cmds -> {0, 1}]
  /\ shutdownCalled \in BOOLEAN
  /\ destroyed \in BOOLEAN
  /\ cut \in BOOLEAN

\* The bytes in the pipe count the queued commands, but for the one whose byte
\* is being written: onCommand is woken for every command (no lost wake-up)
\* and never blocks reading an empty pipe while it holds the queue lock.
\* ~Dispatcher empties the queue without reading.
PipeMatchesQueue ==
  pc[Main] \notin {"cancel", "end"} =>
    Len(queue) = pipe + (IF \E t \in Threads : pc[t] = "write" THEN 1 ELSE 0)

Queued(c) == \E i \in 1 .. Len(queue) : queue[i] = c

\* A command object has one owner at a time: one place of the queue, onCommand,
\* or the connection that waits for its reply.  An owned object exists, so
\* nothing executes, answers or deletes a command that its caller (after a
\* refusal) or the dispatcher has deleted.
OneOwner ==
  /\ \A i, j \in 1 .. Len(queue) : queue[i] = queue[j] => i = j
  /\ \A c \in Cmds : Queued(c) => life[c] = "alive" /\ c # cur /\ c \notin held
  /\ cur # NoCmd => life[cur] = "alive" /\ cur \notin held
  /\ \A c \in held : life[c] = "alive"

\* A call with an answer to give is answered exactly once if its command was
\* accepted, no later than the command is deleted, and never if it was
\* refused, whichever of a reply, a failed request, the shutdown and
\* ~Dispatcher comes first.
AnsweredOnce ==
  \A c \in SyncCmds \cup AsyncCmds :
    done[c] = IF c \in accepted /\ life[c] = "deleted" THEN 1 ELSE 0

\* Nobody waits in vain: the command of a blocked caller has been answered or
\* still has an owner that will answer it.  (Once the dispatcher is destroyed
\* no owner is left.)  The exception is an open for which memory ran out.
WaiterIsServed ==
  \A t \in Threads :
    pc[t] = "wait" =>
      \/ sem[arg[t]] = 1
      \/ ~destroyed /\ (Queued(arg[t]) \/ arg[t] = cur \/ arg[t] \in held)
      \/ arg[t] \in OpenCmds /\ life[arg[t]] = "lost"

\* The dispatcher thread leaves its loop only when every command accepted
\* before the shutdown was executed has been executed too: what ~Dispatcher
\* cancels was accepted later, unless an exception ended onCommand in between.
OnlyLateCallsAreDropped ==
  pc[Disp] \in {"exit", "dead"} =>
    cut \/ \A i \in 1 .. Len(queue) : queue[i] \in accepted => queue[i] \in late

\* Whether the step a thread has come to must wait for another thread: until
\* gDispatcher.destroy() is over, for the queue lock, for room in the pipe or a
\* byte in it, for its semaphore, or for the end of the dispatcher thread.
Waits(t) ==
  \/ pc[t] = "get" /\ pc[Main] \in {"destroy", "cancel"}
  \/ pc[t] \in {"lock", "onCommand", "destroy"} /\ ~destroyed /\ lock \notin {Nobody, t}
  \/ pc[t] = "write" /\ pipe = PipeCapacity
  \/ pc[t] = "read" /\ pipe = 0
  \/ pc[t] = "wait" /\ sem[arg[t]] = 0
  \/ pc[t] = "join" /\ pc[Disp] # "dead"

\* The caller of an open for which memory ran out waits for ever.
Forgotten(t) == pc[t] = "wait" /\ life[arg[t]] = "lost"

\* A thread that is in the library and can get on.
Inside(t) == pc[t] \notin {"idle", "crashed", "dead", "end"} /\ ~Forgotten(t)

\* Whoever holds the queue lock waits for nobody, also in a callback that calls
\* the library and when it reads the pipe: only a full pipe can stop it.
HolderGoesOn ==
  \A t \in Threads : lock = t /\ Waits(t) => pc[t] = "write"

\* The threads never wait for each other all at once, unless one of them is
\* writing into a full pipe: a caller for the dispatcher, the dispatcher for the
\* lock, DBUSIPC_shutdown for both, and others for its end.
NoDeadlock ==
  (\E t \in Threads : Inside(t)) =>
    \E t \in Threads : Inside(t) /\ (Waits(t) => pc[t] = "write")

\* Commands are executed, or cancelled by ~Dispatcher, in the order in which they
\* were accepted: only the first leaves the queue and no other overtakes it, and
\* a write that fails takes back its own command only.
NoOvertaking ==
  [][\A i \in 2 .. Len(queue) :
       queue[i] \in accepted =>
         \E j \in {i - 1, i} : j <= Len(queue') /\ queue'[j] = queue[i]]_vars

\* A blocking call returns, also when the library is shut down meanwhile, unless
\* it is an open for which memory ran out.
SyncCallReturns ==
  \A t \in Clients : (pc[t] = "wait") ~> (pc[t] = "idle" \/ Forgotten(t))

\* DBUSIPC_shutdown stops, joins and destroys the dispatcher.
ShutdownCompletes == shutdownCalled ~> destroyed

\* The abstract service: a command's status follows from whether it was given
\* a handle and whether it still exists or was lost.
Status ==
  [c \in Cmds |->
     IF c \in accepted
     THEN CASE life[c] = "deleted" -> "finished"
            [] life[c] = "lost" -> "lost"
            [] OTHER -> "open"
     ELSE IF life[c] = "deleted" THEN "refused" ELSE "new"]

Service == INSTANCE CallService WITH
  Cmds <- Cmds, OneWay <- OneWayCmds, Fragile <- OpenCmds,
  status <- Status, answers <- done, closed <- destroyed

\* Every behaviour of the queue is one of the abstract service.
ImplementsService == Service!SSpec

\* The dispatcher thread is in onCommand, or in a callback called from there.
InOnCommand ==
  \/ pc[Disp] = "onCommand"
  \/ lock = Disp /\ (pc[Disp] \in {"push", "write"} => depth = 2)

\* Where the loop stands; a callback of dispatchPending belongs to that.
RoundAt ==
  IF pc[Disp] \in {"exit", "dead"} THEN "over"
  ELSE IF pc[Disp] \in {"test", "poll"} THEN pc[Disp]
  ELSE IF InOnCommand THEN "onCommand" ELSE "pending"

Round == INSTANCE DispatchRound WITH at <- RoundAt, readable <- pipe > 0

\* The loop around the queue is the one PollLoop describes from the inside.
ImplementsRound == Round!RSpec

\* Pipe::open(true, false) asks for writes that do not block, and
\* submitCommand handles the failure: a thread in its write gets on.
SubmitDoesNotBlock ==
  \A t \in Threads : (pc[t] = "write") ~> (pc[t] # "write")

\* A caller inside an API function never uses a dispatcher that another thread
\* has destroyed.
NoUseAfterDestroy == \A t \in Threads : pc[t] # "crashed"
=============================================================================
