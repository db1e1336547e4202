----------------------------- MODULE Lifecycle -----------------------------
(***************************************************************************)
(* DBUSIPC_initialize and DBUSIPC_shutdown, over and over: the singleton   *)
(* of the Dispatcher, the thread each Dispatcher starts and joins, the     *)
(* semaphores of Semaphore_POSIX at the level of their mutex and condition *)
(* variable, and the memory all of them live in.  CommandQueue follows the *)
(* commands of one Dispatcher; here the commands are those that open a     *)
(* shared connection and the one that shuts down, and what matters is who  *)
(* still uses a Dispatcher, and its semaphores, when it is destroyed.      *)
(*                                                                         *)
(* The main thread calls the two functions, which are not thread safe, in  *)
(* any order; the API forbids other calls once shutdown is called, so      *)
(* clients begin none then, but a call may be under way.  A callback that  *)
(* shuts down would wait for its own thread and is left out.  What a       *)
(* client does with a Dispatcher that was destroyed meanwhile is not       *)
(* followed.                                                               *)
(***************************************************************************)
EXTENDS Naturals, Sequences

CONSTANTS
  Clients,     \* threads that open connections
  MaxInst,     \* bound on the number of Dispatcher objects
  MaxQueue     \* bound on the length of a command queue

ASSUME BoundsAssumption == MaxInst \in Nat /\ MaxQueue \in Nat

\* Dispatchers in the order of their construction; 0 is the null pointer.
Insts == 1 .. MaxInst

VARIABLES
  inst,      \* SingletonHolder::instance
  obj,       \* the memory of each Dispatcher
  running,   \* mRunning
  quit,      \* mQuit
  mutex,     \* who holds mMutex
  queue,     \* mCmdQueue
  thr,       \* where the thread of each Dispatcher is
  started,   \* mStartedSem
  stop,      \* the semaphore in the frame of DBUSIPC_shutdown
  main,      \* where the main thread is
  usable,    \* initialize succeeded and shutdown was not called since
  at,        \* the Dispatcher a client has got and not yet used, or 0
  cached,    \* Dispatchers with a Connection in msConnCache
  watched,   \* Dispatchers libdbus calls for an open DBusConnection
  late       \* Dispatchers that opened a connection after ShutdownCmd

memVars == <<inst, obj>>
flagVars == <<running, quit, mutex>>
semVars == <<started, stop>>
apiVars == <<usable, at>>
connVars == <<cached, watched, late>>
vars == <<inst, obj, running, quit, mutex, queue, thr, started, stop, main,
          usable, at, cached, watched, late>>

\* A semaphore: _n, who holds _mutex, whether main sleeps on _cond, and the
\* memory it is in.
NewSem == [n |-> 0, lock |-> "free", main |-> "awake", obj |-> "live"]

NoSem == [n |-> 0, lock |-> "free", main |-> "awake", obj |-> "freed"]

Init ==
  /\ inst = 0
  /\ obj = [i \in Insts |-> "none"]
  /\ running = [i \in Insts |-> FALSE]
  /\ quit = [i \in Insts |-> FALSE]
  /\ mutex = [i \in Insts |-> "free"]
  /\ queue = [i \in Insts |-> <<>>]
  /\ thr = [i \in Insts |-> "none"]
  /\ started = [i \in Insts |-> NoSem]
  /\ stop = NoSem
  /\ main = "idle"
  /\ usable = FALSE
  /\ at = [c \in Clients |-> 0]
  /\ cached = {}
  /\ watched = {}
  /\ late = {}

-----------------------------------------------------------------------------
(* SingletonHolder.                                                        *)

\* destroy() holds the lock of the holder.
Destroying == main \in {"destroy", "destroyJoin", "exit", "exitJoin"}

\* get(): the instance is i, made now if there was none.
Get(i) ==
  /\ ~Destroying
  /\ \/ /\ inst = i /\ i # 0
        /\ UNCHANGED <<inst, obj, started>>
     \/ /\ inst = 0
        /\ i \in Insts /\ obj[i] = "none"
        /\ \A j \in Insts : j < i => obj[j] # "none"
        /\ inst' = i
        /\ obj' = [obj EXCEPT ![i] = "live"]
        /\ started' = [started EXCEPT ![i] = NewSem]

\* isRunning() waits for mMutex, of which a new Dispatcher's is free.
CanAsk(i) == mutex[i] = "free"

-----------------------------------------------------------------------------
(* Semaphore_POSIX.                                                        *)

\* The critical section of waitImpl: it takes the count, or sleeps on _cond.
Taken(s) == [s EXCEPT !.n = 0]
Asleep(s) == [s EXCEPT !.main = "asleep"]

MayTake(s) == s.lock = "free" /\ s.main = "awake" /\ s.n = 1
MaySleep(s) == s.lock = "free" /\ s.main = "awake" /\ s.n = 0

\* setImpl: lock and count, signal, unlock.
Counted(s) == [n |-> 1, lock |-> "thread", main |-> s.main, obj |-> s.obj]
Signalled(s) == [s EXCEPT !.main = "awake"]
Unlocked(s) == [s EXCEPT !.lock = "free"]

\* pthread_cond_wait may return without a signal.
SpuriousWake ==
  /\ \/ /\ stop.main = "asleep"
        /\ stop' = Signalled(stop)
        /\ UNCHANGED started
     \/ /\ \E i \in Insts :
             /\ started[i].main = "asleep"
             /\ started' = [started EXCEPT ![i] = Signalled(@)]
        /\ UNCHANGED stop
  /\ UNCHANGED <<memVars, flagVars, queue, thr, main, apiVars, connVars>>

-----------------------------------------------------------------------------
(* DBUSIPC_initialize.                                                     *)

\* Nothing to start, or Thread::start follows.  The construction of the
\* Dispatcher may throw instead, which changes nothing.
Initialize ==
  /\ main = "idle"
  /\ \E i \in Insts :
       /\ Get(i)
       /\ CanAsk(i)
       /\ main' = IF running[i] THEN "idle" ELSE "start"
       /\ usable' = running[i]
  /\ UNCHANGED <<flagVars, queue, thr, stop, at, connVars>>

\* Thread::start takes mMutex; pthread_create succeeds or not.
Start ==
  /\ main = "start"
  /\ CanAsk(inst)
  /\ quit' = [quit EXCEPT ![inst] = FALSE]
  /\ \/ /\ mutex' = [mutex EXCEPT ![inst] = "main"]
        /\ thr' = [thr EXCEPT ![inst] = "post"]
        /\ main' = "waitStarted"
     \/ /\ main' = "idle"
        /\ UNCHANGED <<mutex, thr>>
  /\ UNCHANGED <<memVars, running, queue, semVars, apiVars, connVars>>

StartSleeps ==
  /\ main = "waitStarted"
  /\ MaySleep(started[inst])
  /\ started' = [started EXCEPT ![inst] = Asleep(@)]
  /\ UNCHANGED <<memVars, flagVars, queue, thr, stop, main, apiVars, connVars>>

Started_NotRunning ==
  /\ main = "waitStarted"
  /\ MayTake(started[inst])
  /\ started' = [started EXCEPT ![inst] = Taken(@)]
  /\ mutex' = [mutex EXCEPT ![inst] = "free"]
  /\ main' = "idle"
  /\ usable' = TRUE
  /\ UNCHANGED <<memVars, running, quit, queue, thr, stop, at, connVars>>

\* start() says that the thread runs and gives mMutex back; initialize returns.
Started ==
  /\ main = "waitStarted"
  /\ MayTake(started[inst])
  /\ started' = [started EXCEPT ![inst] = Taken(@)]
  /\ running' = [running EXCEPT ![inst] = TRUE]
  /\ mutex' = [mutex EXCEPT ![inst] = "free"]
  /\ main' = "idle"
  /\ usable' = TRUE
  /\ UNCHANGED <<memVars, quit, queue, thr, stop, at, connVars>>

-----------------------------------------------------------------------------
(* DBUSIPC_shutdown.                                                       *)

Shutdown ==
  /\ main = "idle"
  /\ \E i \in Insts :
       /\ Get(i)
       /\ CanAsk(i)
       /\ main' = IF running[i] THEN "submit" ELSE "dbus"
  /\ usable' = FALSE
  /\ UNCHANGED <<flagVars, queue, thr, stop, at, connVars>>

\* The thread holds mCmdQLock as long as onCommand executes commands.
QueueIsFree(i) == thr[i] \notin {"drain", "postStop", "signalStop", "unlockStop"}

\* A failure to submit, for want of memory or of the pipe, is not followed by
\* a wait for the semaphore, but by the join all the same.
SubmitShutdown ==
  /\ main = "submit"
  /\ QueueIsFree(inst)
  /\ CanAsk(inst)
  /\ \/ /\ queue' = [queue EXCEPT ![inst] = Append(@, "shutdown")]
        /\ stop' = NewSem
        /\ main' = "waitStop"
     \/ /\ main' = "join"
        /\ UNCHANGED <<queue, stop>>
  /\ UNCHANGED <<memVars, flagVars, thr, started, apiVars, connVars>>

StopSleeps ==
  /\ main = "waitStop"
  /\ MaySleep(stop)
  /\ stop' = Asleep(stop)
  /\ UNCHANGED <<memVars, flagVars, queue, thr, started, main, apiVars, connVars>>

\* The semaphore goes with the frame it is in.
Stopped ==
  /\ main = "waitStop"
  /\ MayTake(stop)
  /\ stop' = NoSem
  /\ main' = "join"
  /\ UNCHANGED <<memVars, flagVars, queue, thr, started, apiVars, connVars>>

\* Thread::wait: nothing is joined once mRunning is false.
Wait ==
  /\ main = "join"
  /\ CanAsk(inst)
  /\ main' = IF running[inst] THEN "joining" ELSE "dbus"
  /\ UNCHANGED <<memVars, flagVars, queue, thr, semVars, apiVars, connVars>>

Join ==
  /\ main = "joining"
  /\ thr[inst] = "exited"
  /\ thr' = [thr EXCEPT ![inst] = "joined"]
  /\ main' = "dbus"
  /\ UNCHANGED <<memVars, flagVars, queue, semVars, apiVars, connVars>>

\* dbus_shutdown closes the shared connections, which calls their watch
\* functions.
DbusShutdown ==
  /\ main = "dbus"
  /\ watched' = {}
  /\ main' = "destroy"
  /\ UNCHANGED <<memVars, flagVars, queue, thr, semVars, apiVars, cached, late>>

\* ~Dispatcher stops its thread and waits for it.  The static destructor of the
\* holder does the same for a program that does not shut down.
Exit ==
  /\ main = "idle"
  /\ inst # 0
  /\ main' = "exit"
  /\ usable' = FALSE
  /\ UNCHANGED <<memVars, flagVars, queue, thr, semVars, at, connVars>>

DestroyStops_ClearsFirst ==
  /\ main \in {"destroy", "exit"}
  /\ CanAsk(inst)
  /\ quit' = [quit EXCEPT ![inst] = TRUE]
  /\ inst' = 0
  /\ main' = IF main = "exit" THEN "exitJoin" ELSE "destroyJoin"
  /\ UNCHANGED <<obj, running, mutex, queue, thr, semVars, apiVars, connVars>>

DestroyStops ==
  /\ main \in {"destroy", "exit"}
  /\ CanAsk(inst)
  /\ quit' = [quit EXCEPT ![inst] = TRUE]
  /\ main' = IF main = "exit" THEN "exitJoin" ELSE "destroyJoin"
  /\ UNCHANGED <<memVars, running, mutex, queue, thr, semVars, apiVars, connVars>>

\* It joins a thread it finds running, drops the queue, and frees the object.
DestroyEnds ==
  /\ main \in {"destroyJoin", "exitJoin"}
  /\ \/ /\ thr[inst] = "exited"
        /\ thr' = [thr EXCEPT ![inst] = "joined"]
     \/ /\ CanAsk(inst) /\ ~running[inst]
        /\ UNCHANGED thr
  /\ queue' = [queue EXCEPT ![inst] = <<>>]
  /\ obj' = [obj EXCEPT ![inst] = "freed"]
  /\ started' = [started EXCEPT ![inst] = NoSem]
  /\ inst' = 0
  /\ main' = IF main = "exitJoin" THEN "ended" ELSE "idle"
  /\ UNCHANGED <<flagVars, stop, apiVars, connVars>>

-----------------------------------------------------------------------------
(* Calls of the clients: DBUSIPC_submitCmd.                                *)

\* A call begins while the library is in use; get() finds the Dispatcher.
Call(c) ==
  /\ usable
  /\ at[c] = 0
  /\ at' = [at EXCEPT ![c] = inst]
  /\ UNCHANGED <<memVars, flagVars, queue, thr, semVars, main, usable, connVars>>

\* submitCommand, under mCmdQLock: accepted, or refused.
Submit(c) ==
  LET i == at[c] IN
  /\ i # 0
  /\ obj[i] = "live"
  /\ QueueIsFree(i) /\ CanAsk(i)
  /\ at' = [at EXCEPT ![c] = 0]
  /\ \/ /\ running[i] /\ Len(queue[i]) < MaxQueue
        /\ queue' = [queue EXCEPT ![i] = Append(@, "open")]
     \/ UNCHANGED queue
  /\ UNCHANGED <<memVars, flagVars, thr, semVars, main, usable, connVars>>

-----------------------------------------------------------------------------
(* The dispatcher thread: Thread::threadFunc.                              *)

Goes(i, p, q) == thr[i] = p /\ thr' = [thr EXCEPT ![i] = q]

PostStarted_Locked(i) ==
  /\ Goes(i, "post", "signal")
  /\ CanAsk(i)
  /\ started[i].lock = "free"
  /\ started' = [started EXCEPT ![i] = Counted(@)]
  /\ UNCHANGED <<memVars, flagVars, queue, stop, main, apiVars, connVars>>

\* mStartedSem->post().
PostStarted(i) ==
  /\ Goes(i, "post", "signal")
  /\ started[i].lock = "free"
  /\ started' = [started EXCEPT ![i] = Counted(@)]
  /\ UNCHANGED <<memVars, flagVars, queue, stop, main, apiVars, connVars>>

SignalStarted(i) ==
  /\ Goes(i, "signal", "unlock")
  /\ started' = [started EXCEPT ![i] = Signalled(@)]
  /\ UNCHANGED <<memVars, flagVars, queue, stop, main, apiVars, connVars>>

UnlockStarted(i) ==
  /\ Goes(i, "unlock", "enter")
  /\ started' = [started EXCEPT ![i] = Unlocked(@)]
  /\ UNCHANGED <<memVars, flagVars, queue, stop, main, apiVars, connVars>>

\* mRunning, under mMutex.
Enter(i) ==
  /\ Goes(i, "enter", "loop")
  /\ CanAsk(i)
  /\ running' = [running EXCEPT ![i] = TRUE]
  /\ UNCHANGED <<memVars, quit, mutex, queue, semVars, main, apiVars, connVars>>

\* The loop runs until mQuit; it finds a byte in the pipe for each command.
Poll(i) ==
  /\ ~quit[i]
  /\ queue[i] # <<>>
  /\ Goes(i, "loop", "drain")
  /\ UNCHANGED <<memVars, flagVars, queue, semVars, main, apiVars, connVars>>

\* onCommand goes on until the queue is empty, also after ShutdownCmd.
Drained(i) ==
  /\ queue[i] = <<>>
  /\ Goes(i, "drain", "loop")
  /\ UNCHANGED <<memVars, flagVars, queue, semVars, main, apiVars, connVars>>

Takes(i, command) ==
  /\ thr[i] = "drain"
  /\ queue[i] # <<>> /\ Head(queue[i]) = command
  /\ CanAsk(i)
  /\ queue' = [queue EXCEPT ![i] = Tail(@)]

\* OpenConnectionCmd: a Connection of this Dispatcher, or an error.
ExecuteOpen(i) ==
  /\ Takes(i, "open")
  /\ \/ /\ cached' = cached \cup {i}
        /\ watched' = watched \cup {i}
        /\ late' = IF quit[i] THEN late \cup {i} ELSE late
     \/ UNCHANGED connVars
  /\ UNCHANGED <<memVars, flagVars, thr, semVars, main, apiVars>>

ExecuteShutdown_KeepsConnections(i) ==
  /\ Takes(i, "shutdown")
  /\ Goes(i, "drain", "postStop")
  /\ quit' = [quit EXCEPT ![i] = TRUE]
  /\ UNCHANGED <<memVars, running, mutex, semVars, main, apiVars, connVars>>

\* ShutdownCmd: forceReleaseAll, which leaves the shared DBusConnections to
\* libdbus, and stop().
ExecuteShutdown(i) ==
  /\ Takes(i, "shutdown")
  /\ Goes(i, "drain", "postStop")
  /\ cached' = {}
  /\ quit' = [quit EXCEPT ![i] = TRUE]
  /\ UNCHANGED <<memVars, running, mutex, semVars, main, apiVars, watched, late>>

PostStop_EarlyUnlock(i) ==
  /\ Goes(i, "postStop", "signalStop")
  /\ stop.lock = "free"
  /\ stop' = Unlocked(Counted(stop))
  /\ UNCHANGED <<memVars, flagVars, queue, started, main, apiVars, connVars>>

\* mSem->post().
PostStop(i) ==
  /\ Goes(i, "postStop", "signalStop")
  /\ stop.lock = "free"
  /\ stop' = Counted(stop)
  /\ UNCHANGED <<memVars, flagVars, queue, started, main, apiVars, connVars>>

SignalStop(i) ==
  /\ Goes(i, "signalStop", "unlockStop")
  /\ stop' = Signalled(stop)
  /\ UNCHANGED <<memVars, flagVars, queue, started, main, apiVars, connVars>>

UnlockStop(i) ==
  /\ Goes(i, "unlockStop", "drain")
  /\ stop' = Unlocked(stop)
  /\ UNCHANGED <<memVars, flagVars, queue, started, main, apiVars, connVars>>

\* mQuit ends the loop; what follows is done under mMutex.
Leave(i) ==
  /\ quit[i]
  /\ CanAsk(i)
  /\ Goes(i, "loop", "reset")
  /\ mutex' = [mutex EXCEPT ![i] = "thread"]
  /\ running' = [running EXCEPT ![i] = FALSE]
  /\ UNCHANGED <<memVars, quit, queue, semVars, main, apiVars, connVars>>

ResetStarted(i) ==
  /\ Goes(i, "reset", "leave")
  /\ started' = [started EXCEPT ![i] = NewSem]
  /\ UNCHANGED <<memVars, flagVars, queue, stop, main, apiVars, connVars>>

\* The unlock of mMutex is the last use of the Dispatcher.
Left(i) ==
  /\ Goes(i, "leave", "exited")
  /\ mutex' = [mutex EXCEPT ![i] = "free"]
  /\ UNCHANGED <<memVars, running, quit, queue, semVars, main, apiVars, connVars>>

-----------------------------------------------------------------------------
MainStep ==
  \/ Initialize \/ Start \/ StartSleeps \/ Started
  \/ Shutdown \/ SubmitShutdown \/ StopSleeps \/ Stopped \/ Wait \/ Join
  \/ DbusShutdown \/ Exit \/ DestroyStops \/ DestroyEnds

ThreadStep(i) ==
  \/ PostStarted(i) \/ SignalStarted(i) \/ UnlockStarted(i) \/ Enter(i)
  \/ Poll(i) \/ Drained(i) \/ ExecuteOpen(i) \/ ExecuteShutdown(i)
  \/ PostStop(i) \/ SignalStop(i) \/ UnlockStop(i)
  \/ Leave(i) \/ ResetStarted(i) \/ Left(i)

Next ==
  \/ MainStep
  \/ \E i \in Insts : ThreadStep(i)
  \/ \E c \in Clients : Call(c) \/ Submit(c)
  \/ SpuriousWake

Spec == Init /\ [][Next]_vars

\* A thread that can run does.  Nothing obliges the program to call the library.
FairSpec ==
  /\ Spec
  /\ WF_vars(main # "idle" /\ MainStep)
  /\ \A i \in Insts : WF_vars(ThreadStep(i))

-----------------------------------------------------------------------------
(* Properties.                                                             *)

SemType == [n : 0 .. 1, lock : {"free", "thread"}, main : {"awake", "asleep"},
            obj : {"live", "freed"}]

TypeOK ==
  /\ inst \in Insts \cup {0}
  /\ obj \in [Insts -> {"none", "live", "freed"}]
  /\ running \in [Insts -> BOOLEAN]
  /\ quit \in [Insts -> BOOLEAN]
  /\ mutex \in [Insts -> {"free", "main", "thread"}]
  /\ queue \in [Insts -> Seq({"open", "shutdown"})]
  /\ thr \in [Insts -> {"none", "post", "signal", "unlock", "enter", "loop", "drain",
                        "postStop", "signalStop", "unlockStop", "reset", "leave",
                        "exited", "joined"}]
  /\ started \in [Insts -> SemType]
  /\ stop \in SemType
  /\ main \in {"idle", "start", "waitStarted", "submit", "waitStop", "join",
               "joining", "dbus", "destroy", "destroyJoin", "exit", "exitJoin",
               "ended"}
  /\ main \notin {"idle", "ended"} => inst # 0
  /\ usable \in BOOLEAN
  /\ at \in [Clients -> Insts \cup {0}]
  /\ cached \in SUBSET Insts
  /\ watched \in SUBSET Insts
  /\ late \in SUBSET Insts

\* Nothing the library may still use is freed: not the Dispatcher of a thread
\* that has not left threadFunc, not the semaphore a thread is inside the post
\* of, which for DBUSIPC_shutdown is a variable of a frame that is left, and not
\* the Dispatcher whose watch functions dbus_shutdown will call.
NoUseAfterDestroy ==
  /\ \A i \in Insts :
       /\ thr[i] \notin {"none", "exited", "joined"} => obj[i] = "live"
       /\ thr[i] \in {"post", "signal", "unlock"} => started[i].obj = "live"
       /\ thr[i] \in {"postStop", "signalStop", "unlockStop"} => stop.obj = "live"
  /\ main # "ended" => \A i \in watched : obj[i] = "live"

\* When DBUSIPC_initialize returns without an error commands are accepted at
\* once, and until the application shuts down: its Dispatcher exists, says that
\* it runs and was not told to stop, however slowly the new thread starts.
StartedIsRunning ==
  usable => inst # 0 /\ running[inst] /\ ~quit[inst]

\* A Connection outlives its Dispatcher only if the command that opened it was
\* queued behind ShutdownCmd, by a call that was under way when shutdown began.
OnlyLateConnectionsSurvive ==
  main # "ended" => \A i \in cached : obj[i] = "live" \/ i \in late

\* Two dispatcher threads never run at the same time, though each start makes a
\* new one: msConnCache and the lists of a Connection have no lock.
OneThread ==
  \A i, j \in Insts :
    thr[i] \notin {"none", "exited", "joined"} /\ thr[j] \notin {"none", "exited", "joined"}
      => i = j

ShutdownQueued == \E m \in 1 .. Len(queue[inst]) : queue[inst][m] = "shutdown"

\* Main never sleeps through its wake-up: as long as it sleeps in start or in
\* shutdown, the thread has still to signal it, at the latest after the
\* ShutdownCmd in its queue.
NoLostWakeUp ==
  /\ main = "waitStarted" /\ started[inst].main = "asleep" =>
       thr[inst] \in {"post", "signal"}
  /\ main = "waitStop" /\ stop.main = "asleep" =>
       ShutdownQueued \/ thr[inst] \in {"postStop", "signalStop"}

\* Where main must wait for the dispatcher thread.
MainWaits ==
  \/ main = "waitStarted" /\ (started[inst].lock # "free" \/ started[inst].main = "asleep")
  \/ main = "waitStop" /\ (stop.lock # "free" \/ stop.main = "asleep")
  \/ main = "submit" /\ ~QueueIsFree(inst)
  \/ main \in {"start", "submit", "join", "destroy", "exit"} /\ ~CanAsk(inst)
  \/ main = "joining" /\ thr[inst] # "exited"
  \/ /\ main \in {"destroyJoin", "exitJoin"}
     /\ thr[inst] # "exited" /\ (running[inst] \/ ~CanAsk(inst))

\* Where the thread of a Dispatcher must wait for main or for a command, or is
\* none.
ThreadWaits(i) ==
  \/ thr[i] \in {"none", "exited", "joined"}
  \/ thr[i] = "post" /\ started[i].lock # "free"
  \/ thr[i] = "postStop" /\ stop.lock # "free"
  \/ thr[i] = "enter" /\ ~CanAsk(i)
  \/ thr[i] = "loop" /\ IF quit[i] THEN ~CanAsk(i) ELSE queue[i] = <<>>
  \/ thr[i] = "drain" /\ queue[i] # <<>> /\ ~CanAsk(i)

\* A shutdown whose command could not be submitted joins a thread nobody stops.
JoinsInVain == main = "joining" /\ ~quit[inst] /\ thr[inst] = "loop" /\ queue[inst] = <<>>

\* Inside initialize, shutdown or the destructor, main and the thread never
\* wait for each other.
NoDeadlock ==
  main \notin {"idle", "ended"} => ~MainWaits \/ ~ThreadWaits(inst) \/ JoinsInVain

\* Every call of initialize and shutdown, and the destructor at exit, returns,
\* again and again: no start waits for a thread that waits for its lock, and no
\* wake-up is lost.  But a shutdown whose command could not be submitted joins
\* a thread that nobody told to stop.
CallsReturn ==
  main \notin {"idle", "ended"} ~>
    (main \in {"idle", "ended"} \/ (main = "joining" /\ ~quit[inst]))
=============================================================================
