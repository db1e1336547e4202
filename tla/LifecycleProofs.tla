-------------------------- MODULE LifecycleProofs --------------------------
(***************************************************************************)
(* Theorems about Lifecycle for every set of clients and every number of   *)
(* Dispatchers.  The invariant says who is alive (Memory), what main's     *)
(* place tells of the thread of the current Dispatcher (Threads), what the *)
(* two semaphores and mMutex tell of both (Locks), where ShutdownCmd is    *)
(* (Stopping), and which connections are left (Connected).  Each action    *)
(* has a lemma with one step per part.                                     *)
(***************************************************************************)
EXTENDS Lifecycle, TLAPS

Inactive == {"none", "exited", "joined"}

\* Where the thread is inside the post of one of the semaphores.
Posting == {"post", "signal", "unlock"}
Stops == {"postStop", "signalStop", "unlockStop"}

\* The singleton is the one Dispatcher that lives, and threads run in it only.
Memory ==
  /\ \A i \in Insts : obj[i] = "live" <=> i = inst
  /\ \A i \in Insts : thr[i] \notin Inactive => i = inst
  /\ \A i \in Insts : obj[i] = "none" =>
       /\ thr[i] = "none"
       /\ ~running[i] /\ ~quit[i]
       /\ i \notin cached

\* mRunning is false before the thread posts and after it leaves, and quit is
\* set only when main is in shutdown or exits.
Threads ==
  /\ \A i \in Insts :
       /\ running[i] => thr[i] \in {"enter", "loop", "drain"} \cup Stops
       /\ thr[i] \in {"loop", "drain"} \cup Stops => running[i]
       /\ thr[i] = "enter" => running[i] \/ main = "waitStarted"
       /\ thr[i] \in {"reset", "leave", "exited", "joined"} => quit[i]
  /\ main \in {"idle", "start", "waitStarted", "submit", "exit"} /\ inst # 0 =>
       ~quit[inst]
  /\ main = "start" => thr[inst] = "none"
  /\ main \in {"dbus", "destroy", "destroyJoin"} => thr[inst] \in Inactive
  /\ main = "destroyJoin" => quit[inst]
  /\ main = "ended" => inst = 0
  /\ usable => main = "idle"

\* Who holds a lock is inside its critical section, and main leaves a semaphore
\* only when its poster has.
Locks ==
  /\ \A i \in Insts :
       /\ mutex[i] = "main" <=> main = "waitStarted" /\ i = inst
       /\ mutex[i] = "thread" <=> thr[i] \in {"reset", "leave"}
       /\ thr[i] \in Posting => main = "waitStarted"
       /\ thr[i] \in Posting => started[i].obj = "live"
       /\ started[i].lock = "thread" <=> thr[i] \in {"signal", "unlock"}
       /\ thr[i] \in {"none", "post"} /\ i = inst =>
            started[i].n = 0 /\ started[i].obj = "live"
  /\ main = "waitStarted" => thr[inst] \in Posting \cup {"enter"}

\* ShutdownCmd is queued once, and main waits until it was executed.
Stopping ==
  /\ \A i \in Insts : \A m \in 1 .. Len(queue[i]) :
       queue[i][m] = "shutdown" =>
         /\ main = "waitStop" /\ i = inst
         /\ ~quit[i] /\ stop.n = 0 /\ stop.lock = "free"
         /\ \A n \in 1 .. Len(queue[i]) : queue[i][n] = "shutdown" => n = m
  /\ \A i \in Insts : thr[i] \in Stops => main = "waitStop" /\ quit[i]
  /\ \A i \in Insts : thr[i] = "postStop" => stop.n = 0
  /\ stop.lock = "thread" <=> \E i \in Insts : thr[i] \in {"signalStop", "unlockStop"}
  /\ main = "waitStop" => stop.obj = "live"

Connected ==
  /\ \A i \in Insts : quit[i] /\ main \notin {"exitJoin", "ended"} =>
       i \notin cached \/ i \in late
  /\ \A i \in Insts : thr[i] = "none" => i \notin cached
  /\ main \in {"destroy", "destroyJoin"} => watched = {}

Inv ==
  /\ TypeOK /\ Memory /\ Threads /\ Locks /\ Stopping /\ Connected
  /\ NoUseAfterDestroy /\ StartedIsRunning /\ OnlyLateConnectionsSurvive


LEMMA ZeroIsNoInst == 0 \notin Insts
BY DEF Insts

LEMMA NewSemFacts ==
  /\ NewSem \in SemType /\ NoSem \in SemType
  /\ NewSem.n = 0 /\ NewSem.lock = "free" /\ NewSem.obj = "live"
  /\ NoSem.n = 0 /\ NoSem.lock = "free"
BY DEF NewSem, NoSem, SemType

\* What the steps of the semaphores leave and change.
LEMMA SemFacts ==
  ASSUME NEW s \in SemType
  PROVE  /\ Taken(s) \in SemType /\ Asleep(s) \in SemType /\ Counted(s) \in SemType
         /\ Signalled(s) \in SemType /\ Unlocked(s) \in SemType
         /\ Taken(s).n = 0 /\ Taken(s).lock = s.lock /\ Taken(s).obj = s.obj
         /\ Asleep(s).n = s.n /\ Asleep(s).lock = s.lock /\ Asleep(s).obj = s.obj
         /\ Counted(s).n = 1 /\ Counted(s).lock = "thread" /\ Counted(s).obj = s.obj
         /\ Signalled(s).n = s.n /\ Signalled(s).lock = s.lock
         /\ Signalled(s).obj = s.obj
         /\ Unlocked(s).n = s.n /\ Unlocked(s).lock = "free"
         /\ Unlocked(s).obj = s.obj
<1>1. s = [n |-> s.n, lock |-> s.lock, main |-> s.main, obj |-> s.obj]
      /\ s.n \in 0 .. 1 /\ s.lock \in {"free", "thread"}
      /\ s.main \in {"awake", "asleep"} /\ s.obj \in {"live", "freed"}
  BY DEF SemType
<1>2. /\ Taken(s) = [n |-> 0, lock |-> s.lock, main |-> s.main, obj |-> s.obj]
      /\ Asleep(s) = [n |-> s.n, lock |-> s.lock, main |-> "asleep", obj |-> s.obj]
      /\ Signalled(s) = [n |-> s.n, lock |-> s.lock, main |-> "awake", obj |-> s.obj]
      /\ Unlocked(s) = [n |-> s.n, lock |-> "free", main |-> s.main, obj |-> s.obj]
  BY <1>1 DEF Taken, Asleep, Signalled, Unlocked
<1>3. Counted(s) = [n |-> 1, lock |-> "thread", main |-> s.main, obj |-> s.obj]
  BY <1>1 DEF Counted
<1> QED
  BY <1>1, <1>2, <1>3 DEF SemType

LEMMA AppendFacts ==
  ASSUME NEW S, NEW q \in Seq(S), NEW x \in S
  PROVE  /\ Append(q, x) \in Seq(S)
         /\ Len(Append(q, x)) = Len(q) + 1
         /\ \A m \in 1 .. Len(q) : Append(q, x)[m] = q[m]
         /\ Append(q, x)[Len(q) + 1] = x
OBVIOUS

\* get() gives the instance, or a Dispatcher that was not there before.
LEMMA GetFacts ==
  ASSUME Inv, NEW i \in Insts, Get(i)
  PROVE  /\ inst' = i
         /\ inst = i \/ (inst = 0 /\ obj[i] = "none")
         /\ obj' = [obj EXCEPT ![i] = "live"]
         /\ started' \in [Insts -> SemType]
         /\ \A j \in Insts : j # i \/ inst = i => started'[j] = started[j]
         /\ inst = 0 => started'[i] = NewSem
<1> USE ZeroIsNoInst, NewSemFacts DEF Inv, Get
<1>1. CASE inst = i
  BY <1>1 DEF TypeOK, Memory
<1>2. CASE inst = 0
  BY <1>2 DEF TypeOK, Memory
<1> QED
  BY <1>1, <1>2

\* Nothing was made yet.
LEMMA InitInv == Init => Inv
<1> SUFFICES ASSUME Init PROVE Inv
  OBVIOUS
<1> USE ZeroIsNoInst, NewSemFacts DEF Init
<1>1. TypeOK
  <2>1. running \in [Insts -> BOOLEAN] /\ quit \in [Insts -> BOOLEAN]
    OBVIOUS
  <2>2. queue \in [Insts -> Seq({"open", "shutdown"})]
    OBVIOUS
  <2>3. started \in [Insts -> SemType] /\ stop \in SemType
    OBVIOUS
  <2> QED
    BY <2>1, <2>2, <2>3 DEF TypeOK
<1>2. Memory /\ Threads
  BY DEF Memory, Threads, Inactive, Stops
<1>3. Locks
  BY DEF Locks, Posting
<1>4. Stopping
  BY DEF Stopping, Stops
<1>5. Connected /\ NoUseAfterDestroy /\ StartedIsRunning /\ OnlyLateConnectionsSurvive
  BY DEF Connected, NoUseAfterDestroy, StartedIsRunning, OnlyLateConnectionsSurvive
<1> QED
  BY <1>1, <1>2, <1>3, <1>4, <1>5 DEF Inv

\* A new Dispatcher is as free as one that was never started.
LEMMA InitializeInv ==
  ASSUME Inv, Initialize PROVE Inv'
<1> USE ZeroIsNoInst, GetFacts
      DEF Inv, flagVars, connVars,
          Initialize, CanAsk
<1>1. TypeOK'
  <2>1. inst' \in Insts /\ obj' \in [Insts -> {"none", "live", "freed"}]
    BY DEF TypeOK
  <2>2. started' \in [Insts -> SemType] /\ usable' \in BOOLEAN
    BY DEF TypeOK
  <2> QED
    BY <2>1, <2>2 DEF TypeOK
<1>2. Memory'
  BY DEF TypeOK, Memory, Threads, Locks
<1>3. Threads'
  BY DEF TypeOK, Memory, Threads, Locks, Posting, Stops
<1>4. Locks'
  <2>1. PICK i \in Insts : Get(i)
    OBVIOUS
  <2>2. /\ main # "waitStarted" /\ main' # "waitStarted"
        /\ UNCHANGED <<mutex, thr>>
    OBVIOUS
  <2>3. CASE inst = i
    <3>1. UNCHANGED <<inst, started>>
      BY <2>1, <2>3, GetFacts DEF TypeOK
    <3> QED
      BY <2>2, <3>1 DEF Locks
  <2>4. CASE inst = 0 /\ obj[i] = "none"
    <3>1. /\ inst' = i /\ started'[i] = NewSem
          /\ \A j \in Insts : j # i => started'[j] = started[j]
      BY <2>1, <2>4, GetFacts
    <3>2. thr[i] = "none" /\ \A j \in Insts : thr[j] \in Inactive
      BY <2>4 DEF Memory
    <3> QED
      BY <2>2, <3>1, <3>2, NewSemFacts DEF Locks, Inactive, Posting
  <2> QED
    BY <2>1, <2>3, <2>4, GetFacts
<1>5. Stopping'
  BY DEF Stopping
<1>6. Connected'
  BY DEF TypeOK, Connected
<1>7. NoUseAfterDestroy'
  BY DEF TypeOK, NoUseAfterDestroy
<1>8. StartedIsRunning'
  <2>1. PICK i \in Insts : Get(i) /\ usable' = running[i]
    OBVIOUS
  <2>2. inst' = i /\ i # 0
    BY <2>1, GetFacts
  <2>3. running[i] => ~quit[i]
    BY <2>1, GetFacts DEF Memory, Threads
  <2> QED
    BY <2>1, <2>2, <2>3 DEF StartedIsRunning
<1>9. OnlyLateConnectionsSurvive'
  BY DEF TypeOK, OnlyLateConnectionsSurvive
<1> QED
  BY <1>1, <1>2, <1>3, <1>4, <1>5, <1>6, <1>7, <1>8, <1>9

\* Until the thread has posted it cannot have mMutex.
LEMMA StartInv ==
  ASSUME Inv, Start PROVE Inv'
<1> USE ZeroIsNoInst
      DEF Inv, memVars, semVars, apiVars, connVars,
          Start, CanAsk
<1>1. TypeOK'
  <2>1. inst \in Insts
    BY DEF TypeOK
  <2>2. quit' \in [Insts -> BOOLEAN]
    BY <2>1 DEF TypeOK
  <2>3. mutex' \in [Insts -> {"free", "main", "thread"}]
    <3>1. mutex' = mutex \/ mutex' = [mutex EXCEPT ![inst] = "main"]
      OBVIOUS
    <3>2. mutex \in [Insts -> {"free", "main", "thread"}]
      BY DEF TypeOK
    <3> QED
      BY <2>1, <3>1, <3>2
  <2>4. thr' \in [Insts -> {"none", "post", "signal", "unlock", "enter", "loop",
                           "drain", "postStop", "signalStop", "unlockStop", "reset",
                           "leave", "exited", "joined"}]
    BY <2>1 DEF TypeOK
  <2>5. main' \in {"idle", "waitStarted"}
    OBVIOUS
  <2> QED
    BY <2>1, <2>2, <2>3, <2>4, <2>5 DEF TypeOK
<1>2. Memory'
  BY DEF TypeOK, Memory, Threads
<1>3. Threads'
  BY DEF TypeOK, Threads, Locks, Posting, Stops
<1>4. Locks'
  BY DEF TypeOK, Locks, Threads, Posting
<1>5. Stopping'
  BY DEF TypeOK, Stopping, Stops
<1>6. Connected'
  BY DEF TypeOK, Memory, Threads, Locks, Connected, NoUseAfterDestroy
<1>7. NoUseAfterDestroy'
  BY DEF TypeOK, Memory, Threads, Locks, NoUseAfterDestroy
<1>8. StartedIsRunning'
  BY DEF StartedIsRunning
<1>9. OnlyLateConnectionsSurvive'
  BY DEF OnlyLateConnectionsSurvive
<1> QED
  BY <1>1, <1>2, <1>3, <1>4, <1>5, <1>6, <1>7, <1>8, <1>9

\* Only the sleeper is noted.
LEMMA StartSleepsInv ==
  ASSUME Inv, StartSleeps PROVE Inv'
<1> USE ZeroIsNoInst, SemFacts
      DEF Inv, memVars, flagVars, apiVars, connVars,
          StartSleeps
<1>1. TypeOK'
  BY DEF TypeOK
<1>2. Memory'
  BY DEF Memory, Threads
<1>3. Threads'
  BY DEF TypeOK, Threads, Locks
<1>4. Locks'
  BY DEF TypeOK, Locks
<1>5. Stopping'
  BY DEF Stopping
<1>6. Connected'
  BY DEF TypeOK, Connected
<1>7. NoUseAfterDestroy'
  BY DEF TypeOK, NoUseAfterDestroy
<1>8. StartedIsRunning'
  BY DEF StartedIsRunning
<1>9. OnlyLateConnectionsSurvive'
  BY DEF OnlyLateConnectionsSurvive
<1> QED
  BY <1>1, <1>2, <1>3, <1>4, <1>5, <1>6, <1>7, <1>8, <1>9

\* What counted the semaphore has unlocked it, so the thread is past its post.
LEMMA StartedInv ==
  ASSUME Inv, Started PROVE Inv'
<1> USE ZeroIsNoInst, SemFacts
      DEF Inv, memVars, connVars,
          Started
<1>1. TypeOK'
  BY DEF TypeOK
<1>2. Memory'
  BY DEF TypeOK, Memory, Threads, Locks, Inactive, MayTake
<1>3. Threads'
  BY DEF TypeOK, Memory, Threads, Locks, Inactive, Posting, MayTake
<1>4. Locks'
  BY DEF TypeOK, Memory, Threads, Locks, Stopping, Inactive, Posting, MayTake
<1>5. Stopping'
  BY DEF Stopping
<1>6. Connected'
  BY DEF TypeOK, Connected
<1>7. NoUseAfterDestroy'
  BY DEF TypeOK, NoUseAfterDestroy
<1>8. StartedIsRunning'
  BY DEF TypeOK, Threads, StartedIsRunning
<1>9. OnlyLateConnectionsSurvive'
  BY DEF OnlyLateConnectionsSurvive
<1> QED
  BY <1>1, <1>2, <1>3, <1>4, <1>5, <1>6, <1>7, <1>8, <1>9

\* The command is submitted to a Dispatcher that runs; another has no thread.
LEMMA ShutdownInv ==
  ASSUME Inv, Shutdown PROVE Inv'
<1> USE ZeroIsNoInst, GetFacts
      DEF Inv, flagVars, connVars,
          Shutdown, CanAsk
<1>1. TypeOK'
  <2>1. inst' \in Insts /\ obj' \in [Insts -> {"none", "live", "freed"}]
    BY DEF TypeOK
  <2>2. started' \in [Insts -> SemType] /\ usable' \in BOOLEAN
    BY DEF TypeOK
  <2> QED
    BY <2>1, <2>2 DEF TypeOK
<1>2. Memory'
  BY DEF TypeOK, Memory, Threads, Locks, Inactive
<1>3. Threads'
  BY DEF TypeOK, Memory, Threads, Locks, Inactive, Posting, Stops
<1>4. Locks'
  <2>1. PICK i \in Insts : Get(i)
    OBVIOUS
  <2>2. /\ main # "waitStarted" /\ main' # "waitStarted"
        /\ UNCHANGED <<mutex, thr>>
    OBVIOUS
  <2>3. CASE inst = i
    <3>1. UNCHANGED <<inst, started>>
      BY <2>1, <2>3, GetFacts DEF TypeOK
    <3> QED
      BY <2>2, <3>1 DEF Locks
  <2>4. CASE inst = 0 /\ obj[i] = "none"
    <3>1. /\ inst' = i /\ started'[i] = NewSem
          /\ \A j \in Insts : j # i => started'[j] = started[j]
      BY <2>1, <2>4, GetFacts
    <3>2. thr[i] = "none" /\ \A j \in Insts : thr[j] \in Inactive
      BY <2>4 DEF Memory
    <3> QED
      BY <2>2, <3>1, <3>2, NewSemFacts DEF Locks, Inactive, Posting
  <2> QED
    BY <2>1, <2>3, <2>4, GetFacts
<1>5. Stopping'
  BY DEF Stopping
<1>6. Connected'
  BY DEF TypeOK, Memory, Connected
<1>7. NoUseAfterDestroy'
  BY DEF TypeOK, Memory, NoUseAfterDestroy
<1>8. StartedIsRunning'
  BY DEF TypeOK, StartedIsRunning
<1>9. OnlyLateConnectionsSurvive'
  BY DEF TypeOK, OnlyLateConnectionsSurvive
<1> QED
  BY <1>1, <1>2, <1>3, <1>4, <1>5, <1>6, <1>7, <1>8, <1>9

\* The one ShutdownCmd finds a new semaphore.
LEMMA SubmitShutdownInv ==
  ASSUME Inv, SubmitShutdown PROVE Inv'
<1> USE ZeroIsNoInst, NewSemFacts
      DEF Inv, memVars, flagVars, apiVars, connVars,
          SubmitShutdown, QueueIsFree, CanAsk
<1>1. TypeOK'
  <2>1. stop' \in SemType
    BY DEF TypeOK
  <2>2. queue' \in [Insts -> Seq({"open", "shutdown"})]
    <3>1. inst \in Insts /\ queue[inst] \in Seq({"open", "shutdown"})
      BY DEF TypeOK
    <3>2. Append(queue[inst], "shutdown") \in Seq({"open", "shutdown"})
      BY <3>1, AppendFacts
    <3> QED
      BY <3>1, <3>2 DEF TypeOK
  <2> QED
    BY <2>1, <2>2 DEF TypeOK
<1>2. Memory'
  BY DEF Memory, Threads
<1>3. Threads'
  BY DEF Threads, Locks
<1>4. Locks'
  BY DEF Locks
<1>5. Stopping'
  <2>1. \A i \in Insts : \A m \in 1 .. Len(queue[i]) : queue[i][m] # "shutdown"
    BY DEF Stopping
  <2>2. \A i \in Insts : thr[i] \notin Stops
    BY DEF Stopping
  <2>3. CASE main' = "join"
    BY <2>1, <2>2, <2>3 DEF Stopping, Stops
  <2>4. CASE main' = "waitStop"
    <3>1. inst \in Insts /\ ~quit[inst]
      BY DEF TypeOK, Threads
    <3>2. queue[inst] \in Seq({"open", "shutdown"})
      BY <3>1 DEF TypeOK
    <3>3. queue' = [queue EXCEPT ![inst] = Append(@, "shutdown")] /\ stop' = NewSem
      BY <2>4
    <3>4. \A i \in Insts : i # inst => queue'[i] = queue[i]
      BY <3>3 DEF TypeOK
    <3>5. queue'[inst] = Append(queue[inst], "shutdown")
      BY <3>1, <3>3 DEF TypeOK
    <3>6. \A m \in 1 .. Len(queue'[inst]) :
             queue'[inst][m] = "shutdown" => m = Len(queue[inst]) + 1
      BY <2>1, <3>1, <3>2, <3>5, AppendFacts
    <3> QED
      BY <2>1, <2>2, <2>4, <3>1, <3>3, <3>4, <3>6 DEF Stopping, Stops
  <2> QED
    BY <2>3, <2>4
<1>6. Connected'
  BY DEF Connected
<1>7. NoUseAfterDestroy'
  BY DEF NoUseAfterDestroy
<1>8. StartedIsRunning'
  BY DEF StartedIsRunning
<1>9. OnlyLateConnectionsSurvive'
  BY DEF OnlyLateConnectionsSurvive
<1> QED
  BY <1>1, <1>2, <1>3, <1>4, <1>5, <1>6, <1>7, <1>8, <1>9

\* Only the sleeper is noted.
LEMMA StopSleepsInv ==
  ASSUME Inv, StopSleeps PROVE Inv'
<1> USE ZeroIsNoInst, SemFacts
      DEF Inv, memVars, flagVars, apiVars, connVars,
          StopSleeps
<1>1. TypeOK'
  BY DEF TypeOK
<1>2. Memory'
  BY DEF Memory, Threads
<1>3. Threads'
  BY DEF Threads, Locks
<1>4. Locks'
  BY DEF TypeOK, Memory, Locks
<1>5. Stopping'
  BY DEF TypeOK, Memory, Stopping
<1>6. Connected'
  BY DEF TypeOK, Connected
<1>7. NoUseAfterDestroy'
  BY DEF TypeOK, Stopping, NoUseAfterDestroy
<1>8. StartedIsRunning'
  BY DEF StartedIsRunning
<1>9. OnlyLateConnectionsSurvive'
  BY DEF OnlyLateConnectionsSurvive
<1> QED
  BY <1>1, <1>2, <1>3, <1>4, <1>5, <1>6, <1>7, <1>8, <1>9

\* What counted the semaphore has unlocked it, and nobody will post it again.
LEMMA StoppedInv ==
  ASSUME Inv, Stopped PROVE Inv'
<1> USE ZeroIsNoInst, NewSemFacts
      DEF Inv, memVars, flagVars, apiVars, connVars,
          Stopped
<1>1. TypeOK'
  BY DEF TypeOK
<1>2. Memory'
  BY DEF Memory, Threads
<1>3. Threads'
  BY DEF Threads, Locks
<1>4. Locks'
  BY DEF Locks, Stopping, Stops, MayTake
<1>5. Stopping'
  BY DEF Stopping, Stops, MayTake
<1>6. Connected'
  BY DEF Stopping, Connected, NoUseAfterDestroy, MayTake
<1>7. NoUseAfterDestroy'
  BY DEF Stopping, NoUseAfterDestroy, MayTake
<1>8. StartedIsRunning'
  BY DEF StartedIsRunning
<1>9. OnlyLateConnectionsSurvive'
  BY DEF OnlyLateConnectionsSurvive
<1> QED
  BY <1>1, <1>2, <1>3, <1>4, <1>5, <1>6, <1>7, <1>8, <1>9

\* A thread that does not run, with mMutex free, has left.
LEMMA WaitInv ==
  ASSUME Inv, Wait PROVE Inv'
<1> USE ZeroIsNoInst
      DEF Inv, memVars, flagVars, semVars, apiVars, connVars,
          Wait, CanAsk
<1>1. TypeOK'
  BY DEF TypeOK
<1>2. Memory'
  BY DEF TypeOK, Memory, Threads, Locks, Inactive
<1>3. Threads'
  BY DEF TypeOK, Threads, Locks, Inactive, Posting, Stops
<1>4. Locks'
  BY DEF Locks
<1>5. Stopping'
  BY DEF Stopping
<1>6. Connected'
  BY DEF Connected
<1>7. NoUseAfterDestroy'
  BY DEF NoUseAfterDestroy
<1>8. StartedIsRunning'
  BY DEF StartedIsRunning
<1>9. OnlyLateConnectionsSurvive'
  BY DEF OnlyLateConnectionsSurvive
<1> QED
  BY <1>1, <1>2, <1>3, <1>4, <1>5, <1>6, <1>7, <1>8, <1>9

\* A thread that is joined has left.
LEMMA JoinInv ==
  ASSUME Inv, Join PROVE Inv'
<1> USE ZeroIsNoInst
      DEF Inv, memVars, flagVars, semVars, apiVars, connVars,
          Join
<1>1. TypeOK'
  BY DEF TypeOK
<1>2. Memory'
  BY DEF Memory, Threads, Inactive
<1>3. Threads'
  BY DEF Threads, Locks, Inactive, Posting, Stops
<1>4. Locks'
  BY DEF Locks, Posting
<1>5. Stopping'
  BY DEF Stopping, Stops
<1>6. Connected'
  BY DEF Connected
<1>7. NoUseAfterDestroy'
  BY DEF NoUseAfterDestroy
<1>8. StartedIsRunning'
  BY DEF StartedIsRunning
<1>9. OnlyLateConnectionsSurvive'
  BY DEF OnlyLateConnectionsSurvive
<1> QED
  BY <1>1, <1>2, <1>3, <1>4, <1>5, <1>6, <1>7, <1>8, <1>9

\* No thread is left to open a connection.
LEMMA DbusShutdownInv ==
  ASSUME Inv, DbusShutdown PROVE Inv'
<1> USE ZeroIsNoInst
      DEF Inv, memVars, flagVars, semVars, apiVars,
          DbusShutdown
<1>1. TypeOK'
  BY DEF TypeOK
<1>2. Memory'
  BY DEF Memory, Threads
<1>3. Threads'
  BY DEF Threads, Locks
<1>4. Locks'
  BY DEF Locks
<1>5. Stopping'
  BY DEF Stopping
<1>6. Connected'
  BY DEF Connected
<1>7. NoUseAfterDestroy'
  BY DEF NoUseAfterDestroy
<1>8. StartedIsRunning'
  BY DEF StartedIsRunning
<1>9. OnlyLateConnectionsSurvive'
  BY DEF OnlyLateConnectionsSurvive
<1> QED
  BY <1>1, <1>2, <1>3, <1>4, <1>5, <1>6, <1>7, <1>8, <1>9

\* Only main moves.
LEMMA ExitInv ==
  ASSUME Inv, Exit PROVE Inv'
<1> USE ZeroIsNoInst
      DEF Inv, memVars, flagVars, semVars, connVars,
          Exit
<1>1. TypeOK'
  BY DEF TypeOK
<1>2. Memory'
  BY DEF Memory, Threads
<1>3. Threads'
  BY DEF Threads, Locks
<1>4. Locks'
  BY DEF Locks
<1>5. Stopping'
  BY DEF Stopping
<1>6. Connected'
  BY DEF Connected
<1>7. NoUseAfterDestroy'
  BY DEF NoUseAfterDestroy
<1>8. StartedIsRunning'
  BY DEF StartedIsRunning
<1>9. OnlyLateConnectionsSurvive'
  BY DEF OnlyLateConnectionsSurvive
<1> QED
  BY <1>1, <1>2, <1>3, <1>4, <1>5, <1>6, <1>7, <1>8, <1>9

\* A Dispatcher that is stopped without ShutdownCmd had no thread, or ends the program.
LEMMA DestroyStopsInv ==
  ASSUME Inv, DestroyStops PROVE Inv'
<1> USE ZeroIsNoInst
      DEF Inv, memVars, semVars, apiVars, connVars,
          DestroyStops, CanAsk
<1>1. TypeOK'
  BY DEF TypeOK
<1>2. Memory'
  BY DEF TypeOK, Memory, Threads
<1>3. Threads'
  BY DEF TypeOK, Threads, Locks
<1>4. Locks'
  BY DEF Locks
<1>5. Stopping'
  BY DEF Stopping
<1>6. Connected'
  BY DEF Threads, Connected, Inactive
<1>7. NoUseAfterDestroy'
  BY DEF NoUseAfterDestroy
<1>8. StartedIsRunning'
  BY DEF Threads, StartedIsRunning
<1>9. OnlyLateConnectionsSurvive'
  BY DEF OnlyLateConnectionsSurvive
<1> QED
  BY <1>1, <1>2, <1>3, <1>4, <1>5, <1>6, <1>7, <1>8, <1>9

\* The thread has left, and libdbus knows the Dispatcher no more.
LEMMA DestroyEndsInv ==
  ASSUME Inv, DestroyEnds PROVE Inv'
<1> USE ZeroIsNoInst, NewSemFacts
      DEF Inv, flagVars, apiVars, connVars,
          DestroyEnds, CanAsk
<1>1. TypeOK'
  <2>1. inst \in Insts
    BY DEF TypeOK
  <2>2. queue' \in [Insts -> Seq({"open", "shutdown"})]
    BY <2>1 DEF TypeOK
  <2>3. started' \in [Insts -> SemType] /\ obj' \in [Insts -> {"none", "live", "freed"}]
    BY <2>1 DEF TypeOK
  <2> QED
    BY <2>1, <2>2, <2>3 DEF TypeOK
<1>2. Memory'
  <2>1. inst \in Insts /\ inst' = 0
    BY DEF TypeOK
  <2>2. \A i \in Insts : i # inst => obj'[i] = obj[i] /\ thr'[i] = thr[i]
    BY <2>1 DEF TypeOK
  <2>3. obj'[inst] = "freed"
    BY <2>1 DEF TypeOK
  <2>4. thr'[inst] \in Inactive
    BY <2>1 DEF TypeOK, Threads, Locks, Inactive, Posting, Stops
  <2> QED
    BY <2>1, <2>2, <2>3, <2>4 DEF Memory
<1>3. Threads'
  BY DEF TypeOK, Threads, Locks, Posting, Stops
<1>4. Locks'
  BY DEF TypeOK, Locks, Posting
<1>5. Stopping'
  BY DEF TypeOK, Stopping, Stops
<1>6. Connected'
  BY DEF TypeOK, Threads, Locks, Posting, Stops, Connected, NoUseAfterDestroy
<1>7. NoUseAfterDestroy'
  BY DEF TypeOK, Threads, Locks, Posting, Stops, NoUseAfterDestroy, Connected
<1>8. StartedIsRunning'
  BY DEF TypeOK, Threads, StartedIsRunning
<1>9. OnlyLateConnectionsSurvive'
  BY DEF TypeOK, Threads, Connected, OnlyLateConnectionsSurvive
<1> QED
  BY <1>1, <1>2, <1>3, <1>4, <1>5, <1>6, <1>7, <1>8, <1>9

\* Only the client moves.
LEMMA CallInv ==
  ASSUME Inv, NEW c \in Clients, Call(c) PROVE Inv'
<1> USE ZeroIsNoInst
      DEF Inv, memVars, flagVars, semVars, connVars,
          Call
<1>1. TypeOK'
  BY DEF TypeOK
<1>2. Memory'
  BY DEF Memory, Threads
<1>3. Threads'
  BY DEF Threads, Locks
<1>4. Locks'
  BY DEF Locks
<1>5. Stopping'
  BY DEF Stopping
<1>6. Connected'
  BY DEF Connected
<1>7. NoUseAfterDestroy'
  BY DEF NoUseAfterDestroy
<1>8. StartedIsRunning'
  BY DEF StartedIsRunning
<1>9. OnlyLateConnectionsSurvive'
  BY DEF OnlyLateConnectionsSurvive
<1> QED
  BY <1>1, <1>2, <1>3, <1>4, <1>5, <1>6, <1>7, <1>8, <1>9

\* The clients queue no ShutdownCmd.
LEMMA SubmitInv ==
  ASSUME Inv, NEW c \in Clients, Submit(c) PROVE Inv'
<1> USE ZeroIsNoInst
      DEF Inv, memVars, flagVars, semVars, connVars,
          Submit, QueueIsFree, CanAsk
<1>1. TypeOK'
  <2>1. at' \in [Clients -> Insts \cup {0}] /\ at[c] \in Insts
    BY DEF TypeOK
  <2>2. queue' \in [Insts -> Seq({"open", "shutdown"})]
    <3>1. queue[at[c]] \in Seq({"open", "shutdown"})
      BY <2>1 DEF TypeOK
    <3>2. Append(queue[at[c]], "open") \in Seq({"open", "shutdown"})
      BY <3>1, AppendFacts
    <3> QED
      BY <2>1, <3>2 DEF TypeOK
  <2> QED
    BY <2>1, <2>2 DEF TypeOK
<1>2. Memory'
  BY DEF Memory, Threads
<1>3. Threads'
  BY DEF Threads, Locks
<1>4. Locks'
  BY DEF Locks
<1>5. Stopping'
  <2> DEFINE j == at[c]
  <2>1. j \in Insts /\ queue[j] \in Seq({"open", "shutdown"})
    BY DEF TypeOK
  <2>2. CASE queue' = queue
    BY <2>2 DEF Stopping, Stops
  <2>3. CASE queue' = [queue EXCEPT ![j] = Append(@, "open")]
    <3>1. \A i \in Insts : i # j => queue'[i] = queue[i]
      BY <2>3 DEF TypeOK
    <3>2. queue'[j] = Append(queue[j], "open")
      BY <2>1, <2>3 DEF TypeOK
    <3>3. \A i \in Insts : \A m \in 1 .. Len(queue'[i]) : queue'[i][m] = "shutdown" =>
             m \in 1 .. Len(queue[i]) /\ queue[i][m] = "shutdown"
      BY <2>1, <3>1, <3>2, AppendFacts
    <3> QED
      BY <3>3 DEF Stopping, Stops
  <2> QED
    BY <2>2, <2>3
<1>6. Connected'
  BY DEF Connected
<1>7. NoUseAfterDestroy'
  BY DEF NoUseAfterDestroy
<1>8. StartedIsRunning'
  BY DEF StartedIsRunning
<1>9. OnlyLateConnectionsSurvive'
  BY DEF OnlyLateConnectionsSurvive
<1> QED
  BY <1>1, <1>2, <1>3, <1>4, <1>5, <1>6, <1>7, <1>8, <1>9

\* The first of three steps in which the semaphore must live.
LEMMA PostStartedInv ==
  ASSUME Inv, NEW i \in Insts, PostStarted(i) PROVE Inv'
<1> USE ZeroIsNoInst, SemFacts
      DEF Inv, memVars, flagVars, apiVars, connVars,
          PostStarted, Goes
<1>1. TypeOK'
  BY DEF TypeOK
<1>2. Memory'
  BY DEF Memory, Threads, Locks, Inactive
<1>3. Threads'
  BY DEF TypeOK, Threads, Locks, Posting, Stops
<1>4. Locks'
  BY DEF TypeOK, Locks, Posting
<1>5. Stopping'
  BY DEF Stopping, Stops
<1>6. Connected'
  BY DEF TypeOK, Connected
<1>7. NoUseAfterDestroy'
  BY DEF TypeOK, NoUseAfterDestroy
<1>8. StartedIsRunning'
  BY DEF StartedIsRunning
<1>9. OnlyLateConnectionsSurvive'
  BY DEF OnlyLateConnectionsSurvive
<1> QED
  BY <1>1, <1>2, <1>3, <1>4, <1>5, <1>6, <1>7, <1>8, <1>9

\* Main may wake, but not lock.
LEMMA SignalStartedInv ==
  ASSUME Inv, NEW i \in Insts, SignalStarted(i) PROVE Inv'
<1> USE ZeroIsNoInst, SemFacts
      DEF Inv, memVars, flagVars, apiVars, connVars,
          SignalStarted, Goes
<1>1. TypeOK'
  BY DEF TypeOK
<1>2. Memory'
  BY DEF Memory, Threads, Locks, Inactive
<1>3. Threads'
  BY DEF TypeOK, Threads, Locks, Posting, Stops
<1>4. Locks'
  BY DEF TypeOK, Locks, Posting
<1>5. Stopping'
  BY DEF Stopping, Stops
<1>6. Connected'
  BY DEF TypeOK, Connected
<1>7. NoUseAfterDestroy'
  BY DEF TypeOK, NoUseAfterDestroy
<1>8. StartedIsRunning'
  BY DEF StartedIsRunning
<1>9. OnlyLateConnectionsSurvive'
  BY DEF OnlyLateConnectionsSurvive
<1> QED
  BY <1>1, <1>2, <1>3, <1>4, <1>5, <1>6, <1>7, <1>8, <1>9

\* From here on main may take the semaphore.
LEMMA UnlockStartedInv ==
  ASSUME Inv, NEW i \in Insts, UnlockStarted(i) PROVE Inv'
<1> USE ZeroIsNoInst, SemFacts
      DEF Inv, memVars, flagVars, apiVars, connVars,
          UnlockStarted, Goes
<1>1. TypeOK'
  BY DEF TypeOK
<1>2. Memory'
  BY DEF Memory, Threads, Locks, Inactive
<1>3. Threads'
  BY DEF TypeOK, Threads, Locks, Posting, Stops
<1>4. Locks'
  BY DEF TypeOK, Locks, Posting
<1>5. Stopping'
  BY DEF Stopping, Stops
<1>6. Connected'
  BY DEF Connected
<1>7. NoUseAfterDestroy'
  <2>1. thr'[i] = "enter" /\ obj[i] = "live"
    BY DEF TypeOK, Memory, Inactive
  <2>2. \A j \in Insts : j # i => thr'[j] = thr[j] /\ started'[j] = started[j]
    BY DEF TypeOK
  <2> QED
    BY <2>1, <2>2 DEF NoUseAfterDestroy
<1>8. StartedIsRunning'
  BY DEF StartedIsRunning
<1>9. OnlyLateConnectionsSurvive'
  BY DEF OnlyLateConnectionsSurvive
<1> QED
  BY <1>1, <1>2, <1>3, <1>4, <1>5, <1>6, <1>7, <1>8, <1>9

\* mMutex is free, so main has left start().
LEMMA EnterInv ==
  ASSUME Inv, NEW i \in Insts, Enter(i) PROVE Inv'
<1> USE ZeroIsNoInst
      DEF Inv, memVars, semVars, apiVars, connVars,
          Enter, Goes, CanAsk
<1>1. TypeOK'
  BY DEF TypeOK
<1>2. Memory'
  BY DEF TypeOK, Memory, Threads, Inactive
<1>3. Threads'
  BY DEF TypeOK, Threads, Locks, Inactive, Posting
<1>4. Locks'
  BY DEF Locks, Posting
<1>5. Stopping'
  BY DEF Stopping, Stops
<1>6. Connected'
  BY DEF Connected
<1>7. NoUseAfterDestroy'
  BY DEF NoUseAfterDestroy
<1>8. StartedIsRunning'
  BY DEF StartedIsRunning
<1>9. OnlyLateConnectionsSurvive'
  BY DEF OnlyLateConnectionsSurvive
<1> QED
  BY <1>1, <1>2, <1>3, <1>4, <1>5, <1>6, <1>7, <1>8, <1>9

\* Only the thread moves.
LEMMA PollInv ==
  ASSUME Inv, NEW i \in Insts, Poll(i) PROVE Inv'
<1> USE ZeroIsNoInst
      DEF Inv, memVars, flagVars, semVars, apiVars, connVars,
          Poll, Goes
<1>1. TypeOK'
  BY DEF TypeOK
<1>2. Memory'
  BY DEF Memory, Threads, Inactive
<1>3. Threads'
  BY DEF Threads, Locks, Inactive, Posting
<1>4. Locks'
  BY DEF Locks, Posting
<1>5. Stopping'
  BY DEF Stopping, Stops
<1>6. Connected'
  BY DEF Connected
<1>7. NoUseAfterDestroy'
  BY DEF NoUseAfterDestroy
<1>8. StartedIsRunning'
  BY DEF StartedIsRunning
<1>9. OnlyLateConnectionsSurvive'
  BY DEF OnlyLateConnectionsSurvive
<1> QED
  BY <1>1, <1>2, <1>3, <1>4, <1>5, <1>6, <1>7, <1>8, <1>9

\* Only the thread moves.
LEMMA DrainedInv ==
  ASSUME Inv, NEW i \in Insts, Drained(i) PROVE Inv'
<1> USE ZeroIsNoInst
      DEF Inv, memVars, flagVars, semVars, apiVars, connVars,
          Drained, Goes
<1>1. TypeOK'
  BY DEF TypeOK
<1>2. Memory'
  <2>1. thr'[i] = "loop" /\ i = inst /\ obj[i] = "live"
    BY DEF TypeOK, Memory, Inactive
  <2>2. \A j \in Insts : j # i => thr'[j] = thr[j]
    BY DEF TypeOK
  <2> QED
    BY <2>1, <2>2 DEF Memory
<1>3. Threads'
  BY DEF Threads, Locks, Inactive, Posting
<1>4. Locks'
  BY DEF Locks, Posting
<1>5. Stopping'
  BY DEF Stopping, Stops
<1>6. Connected'
  BY DEF Connected
<1>7. NoUseAfterDestroy'
  BY DEF NoUseAfterDestroy
<1>8. StartedIsRunning'
  BY DEF StartedIsRunning
<1>9. OnlyLateConnectionsSurvive'
  BY DEF OnlyLateConnectionsSurvive
<1> QED
  BY <1>1, <1>2, <1>3, <1>4, <1>5, <1>6, <1>7, <1>8, <1>9

\* A connection opened when mQuit is set is late.
LEMMA ExecuteOpenInv ==
  ASSUME Inv, NEW i \in Insts, ExecuteOpen(i) PROVE Inv'
<1> USE ZeroIsNoInst
      DEF Inv, memVars, flagVars, semVars, apiVars, connVars,
          ExecuteOpen, Takes, CanAsk
<1>1. TypeOK'
  BY DEF TypeOK
<1>2. Memory'
  BY DEF Memory, Threads
<1>3. Threads'
  BY DEF Threads, Locks
<1>4. Locks'
  BY DEF Locks
<1>5. Stopping'
  BY DEF Memory, Stopping
<1>6. Connected'
  BY DEF Memory, Threads, Connected, Inactive
<1>7. NoUseAfterDestroy'
  <2>1. obj[i] = "live"
    BY DEF NoUseAfterDestroy
  <2>2. watched' \subseteq watched \cup {i}
    OBVIOUS
  <2> QED
    BY <2>1, <2>2 DEF NoUseAfterDestroy
<1>8. StartedIsRunning'
  BY DEF Memory, StartedIsRunning
<1>9. OnlyLateConnectionsSurvive'
  BY DEF Memory, OnlyLateConnectionsSurvive, Inactive
<1> QED
  BY <1>1, <1>2, <1>3, <1>4, <1>5, <1>6, <1>7, <1>8, <1>9

\* Every connection is released, and main waits.
LEMMA ExecuteShutdownInv ==
  ASSUME Inv, NEW i \in Insts, ExecuteShutdown(i) PROVE Inv'
<1> USE ZeroIsNoInst
      DEF Inv, memVars, semVars, apiVars,
          ExecuteShutdown, Takes, Goes, CanAsk
<1>1. TypeOK'
  BY DEF TypeOK
<1>2. Memory'
  BY DEF Memory, Threads, Stopping, Stops
<1>3. Threads'
  BY DEF Threads, Locks, Stopping, Posting, Stops
<1>4. Locks'
  BY DEF TypeOK, Locks, Posting
<1>5. Stopping'
  BY DEF TypeOK, Stopping
<1>6. Connected'
  BY DEF Connected
<1>7. NoUseAfterDestroy'
  BY DEF Threads, Stopping, NoUseAfterDestroy
<1>8. StartedIsRunning'
  BY DEF Threads, Stopping, StartedIsRunning
<1>9. OnlyLateConnectionsSurvive'
  BY DEF OnlyLateConnectionsSurvive
<1> QED
  BY <1>1, <1>2, <1>3, <1>4, <1>5, <1>6, <1>7, <1>8, <1>9

\* The first of three steps in which the frame must live.
LEMMA PostStopInv ==
  ASSUME Inv, NEW i \in Insts, PostStop(i) PROVE Inv'
<1> USE ZeroIsNoInst, SemFacts
      DEF Inv, memVars, flagVars, apiVars, connVars,
          PostStop, Goes
<1>1. TypeOK'
  BY DEF TypeOK
<1>2. Memory'
  BY DEF Memory, Threads, Inactive
<1>3. Threads'
  BY DEF Threads, Locks, Inactive, Posting, Stops
<1>4. Locks'
  BY DEF Locks, Posting
<1>5. Stopping'
  <2>1. thr[i] \in Stops /\ thr'[i] = "signalStop"
    BY DEF TypeOK, Stops
  <2>2. i = inst /\ main = "waitStop" /\ quit[i]
    BY <2>1 DEF Memory, Stopping, Inactive, Stops
  <2>3. \A j \in Insts : j # i => thr[j] \in Inactive /\ thr'[j] = thr[j]
    BY <2>2 DEF TypeOK, Memory
  <2>4. \A j \in Insts : \A m \in 1 .. Len(queue[j]) : queue[j][m] # "shutdown"
    BY <2>2 DEF Stopping
  <2>5. stop'.lock = "thread" /\ stop'.obj = stop.obj
    BY DEF TypeOK
  <2> QED
    BY <2>1, <2>2, <2>3, <2>4, <2>5 DEF Stopping, Stops, Inactive
<1>6. Connected'
  BY DEF TypeOK, Connected
<1>7. NoUseAfterDestroy'
  BY DEF TypeOK, Stopping, NoUseAfterDestroy
<1>8. StartedIsRunning'
  BY DEF StartedIsRunning
<1>9. OnlyLateConnectionsSurvive'
  BY DEF OnlyLateConnectionsSurvive
<1> QED
  BY <1>1, <1>2, <1>3, <1>4, <1>5, <1>6, <1>7, <1>8, <1>9

\* Main may wake, but not lock.
LEMMA SignalStopInv ==
  ASSUME Inv, NEW i \in Insts, SignalStop(i) PROVE Inv'
<1> USE ZeroIsNoInst, SemFacts
      DEF Inv, memVars, flagVars, apiVars, connVars,
          SignalStop, Goes
<1>1. TypeOK'
  BY DEF TypeOK
<1>2. Memory'
  BY DEF Memory, Threads, Inactive
<1>3. Threads'
  BY DEF Threads, Locks, Inactive, Posting, Stops
<1>4. Locks'
  BY DEF Locks, Posting
<1>5. Stopping'
  <2>1. thr[i] \in Stops /\ thr'[i] = "unlockStop"
    BY DEF TypeOK, Stops
  <2>2. i = inst /\ main = "waitStop" /\ quit[i]
    BY <2>1 DEF Memory, Stopping, Inactive, Stops
  <2>3. \A j \in Insts : j # i => thr[j] \in Inactive /\ thr'[j] = thr[j]
    BY <2>2 DEF TypeOK, Memory
  <2>4. \A j \in Insts : \A m \in 1 .. Len(queue[j]) : queue[j][m] # "shutdown"
    BY <2>2 DEF Stopping
  <2>5. stop'.lock = "thread" /\ stop'.obj = stop.obj
    BY DEF TypeOK, Stopping
  <2> QED
    BY <2>1, <2>2, <2>3, <2>4, <2>5 DEF Stopping, Stops, Inactive
<1>6. Connected'
  BY DEF TypeOK, Connected
<1>7. NoUseAfterDestroy'
  BY DEF TypeOK, Stopping, NoUseAfterDestroy
<1>8. StartedIsRunning'
  BY DEF StartedIsRunning
<1>9. OnlyLateConnectionsSurvive'
  BY DEF OnlyLateConnectionsSurvive
<1> QED
  BY <1>1, <1>2, <1>3, <1>4, <1>5, <1>6, <1>7, <1>8, <1>9

\* From here on main may leave its frame.
LEMMA UnlockStopInv ==
  ASSUME Inv, NEW i \in Insts, UnlockStop(i) PROVE Inv'
<1> USE ZeroIsNoInst, SemFacts
      DEF Inv, memVars, flagVars, apiVars, connVars,
          UnlockStop, Goes
<1>1. TypeOK'
  BY DEF TypeOK
<1>2. Memory'
  BY DEF Memory, Threads, Inactive
<1>3. Threads'
  BY DEF Threads, Locks, Inactive, Posting, Stops
<1>4. Locks'
  BY DEF Locks, Posting
<1>5. Stopping'
  <2>1. thr[i] \in Stops /\ thr'[i] = "drain"
    BY DEF TypeOK, Stops
  <2>2. i = inst /\ main = "waitStop" /\ quit[i]
    BY <2>1 DEF Memory, Stopping, Inactive, Stops
  <2>3. \A j \in Insts : j # i => thr[j] \in Inactive /\ thr'[j] = thr[j]
    BY <2>2 DEF TypeOK, Memory
  <2>4. \A j \in Insts : \A m \in 1 .. Len(queue[j]) : queue[j][m] # "shutdown"
    BY <2>2 DEF Stopping
  <2>5. stop'.lock = "free" /\ stop'.obj = stop.obj
    BY DEF TypeOK
  <2> QED
    BY <2>1, <2>2, <2>3, <2>4, <2>5 DEF Stopping, Stops, Inactive
<1>6. Connected'
  BY DEF TypeOK, Memory, Connected
<1>7. NoUseAfterDestroy'
  BY DEF TypeOK, Memory, NoUseAfterDestroy
<1>8. StartedIsRunning'
  BY DEF StartedIsRunning
<1>9. OnlyLateConnectionsSurvive'
  BY DEF OnlyLateConnectionsSurvive
<1> QED
  BY <1>1, <1>2, <1>3, <1>4, <1>5, <1>6, <1>7, <1>8, <1>9

\* mRunning is false as long as the thread still has to unlock mMutex.
LEMMA LeaveInv ==
  ASSUME Inv, NEW i \in Insts, Leave(i) PROVE Inv'
<1> USE ZeroIsNoInst
      DEF Inv, memVars, semVars, apiVars, connVars,
          Leave, Goes, CanAsk
<1>1. TypeOK'
  BY DEF TypeOK
<1>2. Memory'
  BY DEF TypeOK, Memory, Threads, Inactive
<1>3. Threads'
  BY DEF TypeOK, Threads, Locks, Inactive, Posting, Stops
<1>4. Locks'
  BY DEF TypeOK, Locks, Posting
<1>5. Stopping'
  BY DEF Stopping, Stops
<1>6. Connected'
  BY DEF Connected
<1>7. NoUseAfterDestroy'
  BY DEF NoUseAfterDestroy
<1>8. StartedIsRunning'
  BY DEF StartedIsRunning
<1>9. OnlyLateConnectionsSurvive'
  BY DEF OnlyLateConnectionsSurvive
<1> QED
  BY <1>1, <1>2, <1>3, <1>4, <1>5, <1>6, <1>7, <1>8, <1>9

\* A new semaphore for a next start.
LEMMA ResetStartedInv ==
  ASSUME Inv, NEW i \in Insts, ResetStarted(i) PROVE Inv'
<1> USE ZeroIsNoInst, NewSemFacts
      DEF Inv, memVars, flagVars, apiVars, connVars,
          ResetStarted, Goes
<1>1. TypeOK'
  BY DEF TypeOK
<1>2. Memory'
  BY DEF Memory, Threads, Inactive
<1>3. Threads'
  BY DEF Threads, Locks, Inactive, Posting, Stops
<1>4. Locks'
  BY DEF Locks, Posting
<1>5. Stopping'
  BY DEF Stopping, Stops
<1>6. Connected'
  BY DEF Connected
<1>7. NoUseAfterDestroy'
  BY DEF NoUseAfterDestroy
<1>8. StartedIsRunning'
  BY DEF StartedIsRunning
<1>9. OnlyLateConnectionsSurvive'
  BY DEF OnlyLateConnectionsSurvive
<1> QED
  BY <1>1, <1>2, <1>3, <1>4, <1>5, <1>6, <1>7, <1>8, <1>9

\* The last use of the Dispatcher.
LEMMA LeftInv ==
  ASSUME Inv, NEW i \in Insts, Left(i) PROVE Inv'
<1> USE ZeroIsNoInst
      DEF Inv, memVars, semVars, apiVars, connVars,
          Left, Goes
<1>1. TypeOK'
  BY DEF TypeOK
<1>2. Memory'
  BY DEF Memory, Threads, Inactive
<1>3. Threads'
  BY DEF TypeOK, Threads, Locks, Inactive, Posting, Stops
<1>4. Locks'
  BY DEF TypeOK, Locks, Posting
<1>5. Stopping'
  BY DEF Stopping, Stops
<1>6. Connected'
  BY DEF Connected
<1>7. NoUseAfterDestroy'
  BY DEF NoUseAfterDestroy
<1>8. StartedIsRunning'
  BY DEF StartedIsRunning
<1>9. OnlyLateConnectionsSurvive'
  BY DEF OnlyLateConnectionsSurvive
<1> QED
  BY <1>1, <1>2, <1>3, <1>4, <1>5, <1>6, <1>7, <1>8, <1>9

\* Who wakes still has to find the count.
LEMMA SpuriousWakeInv ==
  ASSUME Inv, SpuriousWake PROVE Inv'
<1> USE ZeroIsNoInst, SemFacts
      DEF Inv, memVars, flagVars, apiVars, connVars,
          SpuriousWake
<1>1. TypeOK'
  <2>1. stop' \in SemType
    BY DEF TypeOK
  <2>2. CASE UNCHANGED started
    BY <2>1, <2>2 DEF TypeOK
  <2>3. ASSUME NEW j \in Insts, started' = [started EXCEPT ![j] = Signalled(started[j])]
        PROVE  started' \in [Insts -> SemType]
    BY <2>3 DEF TypeOK
  <2> QED
    BY <2>1, <2>2, <2>3 DEF TypeOK
<1>2. Memory'
  BY DEF Memory, Threads
<1>3. Threads'
  BY DEF Threads
<1>4. Locks'
  <2>1. CASE UNCHANGED started
    BY <2>1 DEF Locks
  <2>2. ASSUME NEW j \in Insts, started' = [started EXCEPT ![j] = Signalled(started[j])]
        PROVE  Locks'
    <3>1. \A i \in Insts : i # j => started'[i] = started[i]
      BY <2>2 DEF TypeOK
    <3>2. started'[j] = Signalled(started[j]) /\ started[j] \in SemType
      BY <2>2 DEF TypeOK
    <3>3. \A i \in Insts : /\ started'[i].n = started[i].n
                          /\ started'[i].lock = started[i].lock
                          /\ started'[i].obj = started[i].obj
      BY <3>1, <3>2
    <3> QED
      BY <3>3 DEF Locks
  <2> QED
    BY <2>1, <2>2
<1>5. Stopping'
  BY DEF TypeOK, Stopping
<1>6. Connected'
  BY DEF TypeOK, Memory, Threads, Locks, Inactive, Posting, Stops, Connected,
     NoUseAfterDestroy
<1>7. NoUseAfterDestroy'
  BY DEF TypeOK, Memory, Threads, Locks, Inactive, Posting, Stops,
     NoUseAfterDestroy, Connected
<1>8. StartedIsRunning'
  BY DEF StartedIsRunning
<1>9. OnlyLateConnectionsSurvive'
  BY DEF OnlyLateConnectionsSurvive
<1> QED
  BY <1>1, <1>2, <1>3, <1>4, <1>5, <1>6, <1>7, <1>8, <1>9

\* The actions of the main thread.
LEMMA MainInv ==
  ASSUME Inv, MainStep PROVE Inv'
BY InitializeInv, StartInv, StartSleepsInv, StartedInv, ShutdownInv,
   SubmitShutdownInv, StopSleepsInv, StoppedInv, WaitInv, JoinInv, DbusShutdownInv,
   ExitInv, DestroyStopsInv, DestroyEndsInv DEF MainStep

\* The actions of a dispatcher thread.
LEMMA ThreadInv ==
  ASSUME Inv, NEW i \in Insts, ThreadStep(i) PROVE Inv'
BY PostStartedInv, SignalStartedInv, UnlockStartedInv, EnterInv, PollInv, DrainedInv,
   ExecuteOpenInv, ExecuteShutdownInv, PostStopInv, SignalStopInv, UnlockStopInv,
   LeaveInv, ResetStartedInv, LeftInv DEF ThreadStep

LEMMA StutterInv == ASSUME Inv, UNCHANGED vars PROVE Inv'
<1> USE DEF Inv, vars
<1>1. TypeOK' /\ Memory' /\ Threads'
  BY DEF TypeOK, Memory, Threads
<1>2. Locks' /\ Stopping' /\ Connected'
  BY DEF Locks, Stopping, Connected
<1>3. NoUseAfterDestroy' /\ StartedIsRunning' /\ OnlyLateConnectionsSurvive'
  BY DEF NoUseAfterDestroy, StartedIsRunning, OnlyLateConnectionsSurvive
<1> QED
  BY <1>1, <1>2, <1>3

\* Every state is one in which whatever is still used is alive.
THEOREM Invariance == Spec => []Inv
<1>1. Inv /\ [Next]_vars => Inv'
  <2> SUFFICES ASSUME Inv, [Next]_vars PROVE Inv'
    OBVIOUS
  <2>1. ASSUME NEW c \in Clients, Call(c) \/ Submit(c) PROVE Inv'
    BY <2>1, CallInv, SubmitInv
  <2> QED
    BY <2>1, MainInv, ThreadInv, SpuriousWakeInv, StutterInv DEF Next
<1> QED
  BY <1>1, InitInv, PTL DEF Spec

\* The types of the singleton, its threads and semaphores; main is inside no
\* call without a Dispatcher.
THEOREM TypeCorrect == Spec => []TypeOK
BY Invariance, PTL DEF Inv

\* Through any number of starts and stops no thread is left in a destroyed
\* Dispatcher, no post in a semaphore that is gone, and no watch function with
\* libdbus whose Dispatcher was destroyed.
THEOREM NoUseAfterDestroyCorrect == Spec => []NoUseAfterDestroy
BY Invariance, PTL DEF Inv

\* When DBUSIPC_initialize has succeeded the Dispatcher accepts commands, until
\* DBUSIPC_shutdown is called.
THEOREM StartedIsRunningCorrect == Spec => []StartedIsRunning
BY Invariance, PTL DEF Inv

\* Shutdown releases every Connection but those opened behind ShutdownCmd.
THEOREM OnlyLateConnectionsSurviveCorrect == Spec => []OnlyLateConnectionsSurvive
BY Invariance, PTL DEF Inv

-----------------------------------------------------------------------------
(* Sleeping and waiting.                                                   *)

\* What NoLostWakeUp rests on: when the thread is past its post the count is
\* there for main to take, and as long as main waits for the shutdown ShutdownCmd
\* is queued, being posted or counted; and main joins or submits only to a thread
\* that was started.
Waking ==
  /\ main = "waitStarted" /\ thr[inst] # "post" => started[inst].n = 1
  /\ main = "waitStop" => stop.n = 1 \/ ShutdownQueued \/ thr[inst] = "postStop"
  /\ main \in {"submit", "waitStop"} /\ ~quit[inst] => running[inst]
  /\ main = "joining" => thr[inst] \notin {"none", "joined"}
  /\ main = "exitJoin" => quit[inst]

Awake == Waking /\ NoLostWakeUp

\* Whether main is asleep, after each step of a semaphore.
LEMMA SleepFacts ==
  ASSUME NEW s \in SemType
  PROVE  /\ Asleep(s).main = "asleep" /\ Signalled(s).main = "awake"
         /\ Taken(s).main = s.main /\ Counted(s).main = s.main
         /\ Unlocked(s).main = s.main
         /\ NewSem.main = "awake" /\ NoSem.main = "awake"
  BY DEF SemType, Asleep, Signalled, Taken, Counted, Unlocked, NewSem, NoSem

\* Taking a command that is not ShutdownCmd leaves ShutdownCmd in the queue.
LEMMA TailKeeps ==
  ASSUME NEW q \in Seq({"open", "shutdown"}), q # <<>>, Head(q) # "shutdown",
         \E m \in 1 .. Len(q) : q[m] = "shutdown"
  PROVE  \E m \in 1 .. Len(Tail(q)) : Tail(q)[m] = "shutdown"
<1>1. PICK m \in 1 .. Len(q) : q[m] = "shutdown"
  OBVIOUS
<1>2. m # 1 /\ Len(Tail(q)) = Len(q) - 1
  BY <1>1
<1>3. m - 1 \in 1 .. Len(Tail(q)) /\ Tail(q)[m - 1] = "shutdown"
  BY <1>1, <1>2
<1> QED
  BY <1>3

\* Main does not wait at the start.
LEMMA InitAwake == Init => Awake
  BY DEF Init, Awake, Waking, NoLostWakeUp

\* A step of main that leaves it outside its waits.
LEMMA NotWaiting ==
  ASSUME main' \notin {"waitStarted", "waitStop", "submit", "joining", "exitJoin"}
  PROVE  Awake'
  BY DEF Awake, Waking, NoLostWakeUp

\* Main goes to sleep only under the lock of the semaphore and with the count at
\* 0, so that the post is still to come.
LEMMA MainAwake == ASSUME Inv, Awake, MainStep PROVE Awake'
<1> USE ZeroIsNoInst, NewSemFacts DEF Inv, memVars, flagVars, semVars, apiVars, connVars
<1>0. main \notin {"idle", "ended"} => inst \in Insts
  BY DEF TypeOK
<1>1. ASSUME Initialize PROVE Awake'
  BY <1>1, NotWaiting DEF Initialize
<1>2. ASSUME Start PROVE Awake'
  <2>1. CASE main' = "idle"
    BY <2>1, NotWaiting
  <2>2. CASE main' = "waitStarted"
    <3>1. inst \in Insts /\ thr' = [thr EXCEPT ![inst] = "post"] /\ inst' = inst
      BY <1>2, <2>2, <1>0 DEF Start
    <3>2. thr'[inst] = "post"
      BY <3>1 DEF TypeOK
    <3> QED
      BY <2>2, <3>1, <3>2 DEF Awake, Waking, NoLostWakeUp
  <2> QED
    BY <1>2, <2>1, <2>2 DEF Start
<1>3. ASSUME StartSleeps PROVE Awake'
  <2>1. /\ main = "waitStarted" /\ inst \in Insts
        /\ UNCHANGED <<main, inst, thr, quit>>
        /\ started[inst].lock = "free" /\ started[inst].n = 0
        /\ started'[inst].n = started[inst].n
    BY <1>3, <1>0, SemFacts DEF StartSleeps, MaySleep, TypeOK
  <2>2. thr[inst] = "post"
    BY <2>1 DEF Awake, Waking
  <2> QED
    BY <2>1, <2>2 DEF Awake, Waking, NoLostWakeUp
<1>4. ASSUME Started PROVE Awake'
  BY <1>4, NotWaiting DEF Started
<1>5. ASSUME Shutdown PROVE Awake'
  <2>1. PICK i \in Insts : Get(i) /\ main' = IF running[i] THEN "submit" ELSE "dbus"
    BY <1>5 DEF Shutdown
  <2>2. inst' = i /\ running' = running
    BY <1>5, <2>1, GetFacts DEF Shutdown
  <2> QED
    BY <2>1, <2>2 DEF Awake, Waking, NoLostWakeUp
<1>6. ASSUME SubmitShutdown PROVE Awake'
  <2>1. CASE main' = "join"
    BY <2>1, NotWaiting
  <2>2. CASE main' = "waitStop"
    <3>1. /\ inst \in Insts /\ queue' = [queue EXCEPT ![inst] = Append(@, "shutdown")]
          /\ stop' = NewSem /\ main = "submit" /\ UNCHANGED <<inst, running, quit>>
      BY <1>6, <2>2, <1>0 DEF SubmitShutdown
    <3>2. queue[inst] \in Seq({"open", "shutdown"}) /\ queue'[inst] = Append(queue[inst], "shutdown")
      BY <3>1 DEF TypeOK
    <3>3. ShutdownQueued'
      BY <3>1, <3>2, AppendFacts DEF ShutdownQueued
    <3> QED
      BY <2>2, <3>1, <3>3 DEF Awake, Waking, NoLostWakeUp
  <2> QED
    BY <1>6, <2>1, <2>2 DEF SubmitShutdown
<1>7. ASSUME StopSleeps PROVE Awake'
  <2>1. /\ main = "waitStop" /\ stop.n = 0 /\ stop'.n = stop.n
        /\ UNCHANGED <<main, inst, thr, quit, queue, running>>
    BY <1>7, SemFacts DEF StopSleeps, MaySleep, TypeOK
  <2>2. ShutdownQueued \/ thr[inst] = "postStop"
    BY <2>1 DEF Awake, Waking
  <2> QED
    BY <2>1, <2>2 DEF Awake, Waking, NoLostWakeUp, ShutdownQueued
<1>8. ASSUME Stopped PROVE Awake'
  BY <1>8, NotWaiting DEF Stopped
<1>9. ASSUME Wait PROVE Awake'
  <2>1. inst \in Insts /\ main = "join" /\ UNCHANGED <<inst, thr>>
    BY <1>9, <1>0 DEF Wait
  <2>2. running[inst] => thr[inst] \notin {"none", "joined"}
    BY <2>1 DEF Threads, Stops
  <2> QED
    BY <1>9, <2>1, <2>2 DEF Wait, Awake, Waking, NoLostWakeUp
<1>10. ASSUME Join PROVE Awake'
  BY <1>10, NotWaiting DEF Join
<1>11. ASSUME DbusShutdown PROVE Awake'
  BY <1>11, NotWaiting DEF DbusShutdown
<1>12. ASSUME Exit PROVE Awake'
  BY <1>12, NotWaiting DEF Exit
<1>13. ASSUME DestroyStops PROVE Awake'
  <2>1. inst \in Insts /\ inst' = inst /\ quit'[inst] = TRUE
    BY <1>13, <1>0 DEF DestroyStops, TypeOK
  <2> QED
    BY <1>13, <2>1 DEF DestroyStops, Awake, Waking, NoLostWakeUp
<1>14. ASSUME DestroyEnds PROVE Awake'
  BY <1>14, NotWaiting DEF DestroyEnds
<1> QED
  BY <1>1, <1>2, <1>3, <1>4, <1>5, <1>6, <1>7, <1>8, <1>9, <1>10, <1>11, <1>12,
     <1>13, <1>14 DEF MainStep

\* A thread that signals main has counted before, and ShutdownCmd is taken from
\* the queue only to be posted.
LEMMA ThreadAwake == ASSUME Inv, Awake, NEW i \in Insts, ThreadStep(i) PROVE Awake'
<1> USE ZeroIsNoInst, NewSemFacts
    DEF Inv, memVars, flagVars, semVars, apiVars, connVars, Goes
<1>0. /\ thr \in [Insts -> {"none", "post", "signal", "unlock", "enter", "loop", "drain",
                        "postStop", "signalStop", "unlockStop", "reset", "leave",
                        "exited", "joined"}]
      /\ started \in [Insts -> SemType] /\ stop \in SemType
      /\ quit \in [Insts -> BOOLEAN] /\ running \in [Insts -> BOOLEAN]
      /\ queue \in [Insts -> Seq({"open", "shutdown"})]
      /\ main \notin {"idle", "ended"} => inst \in Insts
  BY DEF TypeOK
<1>1. ASSUME PostStarted(i) PROVE Awake'
  <2>1. i = inst
    BY <1>1, <1>0 DEF PostStarted, Memory, Inactive
  <2>2. /\ thr[inst] = "post" /\ thr'[inst] = "signal"
        /\ started'[inst].n = 1
        /\ UNCHANGED <<inst, main, running, quit, queue, stop>>
    BY <1>1, <1>0, <2>1, SemFacts DEF PostStarted
  <2> QED
    BY <1>0, <2>1, <2>2 DEF Awake, Waking, NoLostWakeUp, ShutdownQueued
<1>2. ASSUME SignalStarted(i) PROVE Awake'
  <2>1. i = inst
    BY <1>2, <1>0 DEF SignalStarted, Memory, Inactive
  <2>2. /\ thr[inst] = "signal" /\ thr'[inst] = "unlock"
        /\ started'[inst].n = started[inst].n /\ started'[inst].main = "awake"
        /\ UNCHANGED <<inst, main, running, quit, queue, stop>>
    BY <1>2, <1>0, <2>1, SemFacts, SleepFacts DEF SignalStarted
  <2> QED
    BY <1>0, <2>1, <2>2 DEF Awake, Waking, NoLostWakeUp, ShutdownQueued
<1>3. ASSUME UnlockStarted(i) PROVE Awake'
  <2>1. i = inst
    BY <1>3, <1>0 DEF UnlockStarted, Memory, Inactive
  <2>2. /\ thr[inst] = "unlock" /\ thr'[inst] = "enter"
        /\ started'[inst].n = started[inst].n
        /\ started'[inst].main = started[inst].main
        /\ UNCHANGED <<inst, main, running, quit, queue, stop>>
    BY <1>3, <1>0, <2>1, SemFacts, SleepFacts DEF UnlockStarted
  <2> QED
    BY <1>0, <2>1, <2>2 DEF Awake, Waking, NoLostWakeUp, ShutdownQueued
<1>4. ASSUME Enter(i) PROVE Awake'
  <2>1. i = inst
    BY <1>4, <1>0 DEF Enter, Memory, Inactive
  <2> QED
    BY <1>4, <1>0, <2>1, SemFacts, SleepFacts
       DEF Enter, Awake, Waking, NoLostWakeUp, ShutdownQueued
<1>5. ASSUME Poll(i) PROVE Awake'
  <2>1. i = inst
    BY <1>5, <1>0 DEF Poll, Memory, Inactive
  <2> QED
    BY <1>5, <1>0, <2>1, SemFacts, SleepFacts
       DEF Poll, Awake, Waking, NoLostWakeUp, ShutdownQueued
<1>6. ASSUME Drained(i) PROVE Awake'
  <2>1. i = inst
    BY <1>6, <1>0 DEF Drained, Memory, Inactive
  <2> QED
    BY <1>6, <1>0, <2>1, SemFacts, SleepFacts
       DEF Drained, Awake, Waking, NoLostWakeUp, ShutdownQueued
<1>7. ASSUME ExecuteOpen(i) PROVE Awake'
  <2>1. /\ i = inst /\ queue[i] # <<>> /\ Head(queue[i]) = "open"
        /\ queue' = [queue EXCEPT ![i] = Tail(@)]
        /\ UNCHANGED <<inst, running, quit, thr, started, stop, main>>
    BY <1>7, <1>0 DEF ExecuteOpen, Takes, Memory, Inactive
  <2>2. ShutdownQueued => ShutdownQueued'
    <3>1. queue'[inst] = Tail(queue[inst]) /\ queue[inst] \in Seq({"open", "shutdown"})
      BY <1>0, <2>1
    <3>2. queue[inst] # <<>> /\ Head(queue[inst]) # "shutdown"
      BY <2>1
    <3> QED
      BY <2>1, <3>1, <3>2, TailKeeps DEF ShutdownQueued
  <2> QED
    BY <2>1, <2>2 DEF Awake, Waking, NoLostWakeUp
<1>8. ASSUME ExecuteShutdown(i) PROVE Awake'
  <2>1. /\ i = inst /\ thr'[inst] = "postStop" /\ main = "waitStop" /\ quit'[inst]
        /\ UNCHANGED <<inst, main>>
    <3>1. i = inst /\ queue[i] # <<>> /\ Head(queue[i]) = "shutdown"
      BY <1>8, <1>0 DEF ExecuteShutdown, Takes, Memory, Inactive
    <3>2. 1 \in 1 .. Len(queue[i]) /\ queue[i][1] = "shutdown"
      BY <1>0, <3>1
    <3> QED
      BY <1>8, <1>0, <3>1, <3>2 DEF ExecuteShutdown, Stopping
  <2> QED
    BY <2>1 DEF Awake, Waking, NoLostWakeUp
<1>9. ASSUME PostStop(i) PROVE Awake'
  <2>1. i = inst
    BY <1>9, <1>0 DEF PostStop, Memory, Inactive
  <2> QED
    BY <1>9, <1>0, <2>1, SemFacts, SleepFacts
       DEF PostStop, Awake, Waking, NoLostWakeUp, ShutdownQueued
<1>10. ASSUME SignalStop(i) PROVE Awake'
  <2>1. i = inst
    BY <1>10, <1>0 DEF SignalStop, Memory, Inactive
  <2> QED
    BY <1>10, <1>0, <2>1, SemFacts, SleepFacts
       DEF SignalStop, Awake, Waking, NoLostWakeUp, ShutdownQueued
<1>11. ASSUME UnlockStop(i) PROVE Awake'
  <2>1. i = inst
    BY <1>11, <1>0 DEF UnlockStop, Memory, Inactive
  <2> QED
    BY <1>11, <1>0, <2>1, SemFacts, SleepFacts
       DEF UnlockStop, Awake, Waking, NoLostWakeUp, ShutdownQueued
<1>12. ASSUME Leave(i) PROVE Awake'
  <2>1. i = inst
    BY <1>12, <1>0 DEF Leave, Memory, Inactive
  <2> QED
    BY <1>12, <1>0, <2>1, SemFacts, SleepFacts
       DEF Leave, Awake, Waking, NoLostWakeUp, ShutdownQueued
<1>13. ASSUME ResetStarted(i) PROVE Awake'
  <2>1. i = inst
    BY <1>13, <1>0 DEF ResetStarted, Memory, Inactive
  <2>2. /\ thr[inst] = "reset" /\ thr'[inst] = "leave" /\ main # "waitStarted"
        /\ UNCHANGED <<inst, main, running, quit, queue, stop>>
    BY <1>13, <1>0, <2>1 DEF ResetStarted, Locks, Posting
  <2> QED
    BY <1>0, <2>1, <2>2 DEF Awake, Waking, NoLostWakeUp, ShutdownQueued
<1>14. ASSUME Left(i) PROVE Awake'
  <2>1. i = inst
    BY <1>14, <1>0 DEF Left, Memory, Inactive
  <2> QED
    BY <1>14, <1>0, <2>1, SemFacts, SleepFacts
       DEF Left, Awake, Waking, NoLostWakeUp, ShutdownQueued
<1> QED
  BY <1>1, <1>2, <1>3, <1>4, <1>5, <1>6, <1>7, <1>8, <1>9, <1>10, <1>11, <1>12,
     <1>13, <1>14 DEF ThreadStep

\* Clients only append to the queue, and a wake-up without a signal is one.
LEMMA OthersAwake ==
  ASSUME Inv, Awake,
         (\E c \in Clients : Call(c) \/ Submit(c)) \/ SpuriousWake \/ UNCHANGED vars
  PROVE  Awake'
<1> USE ZeroIsNoInst DEF Inv, memVars, flagVars, semVars, apiVars, connVars
<1>0. /\ started \in [Insts -> SemType] /\ stop \in SemType
      /\ queue \in [Insts -> Seq({"open", "shutdown"})]
      /\ main \notin {"idle", "ended"} => inst \in Insts
  BY DEF TypeOK
<1>1. ASSUME NEW c \in Clients, Call(c) PROVE Awake'
  BY <1>1 DEF Call, Awake, Waking, NoLostWakeUp, ShutdownQueued
<1>2. ASSUME NEW c \in Clients, Submit(c) PROVE Awake'
  <2> DEFINE i == at[c]
  <2>1. /\ i \in Insts /\ UNCHANGED <<inst, running, quit, thr, started, stop, main>>
        /\ queue' = queue \/ queue' = [queue EXCEPT ![i] = Append(@, "open")]
    BY <1>2 DEF Submit, TypeOK
  <2>2. inst \in Insts /\ ShutdownQueued => ShutdownQueued'
    <3> SUFFICES ASSUME inst \in Insts, ShutdownQueued,
                        queue' = [queue EXCEPT ![i] = Append(@, "open")], i = inst
                 PROVE  ShutdownQueued'
      BY <1>0, <2>1 DEF ShutdownQueued
    <3>1. queue'[inst] = Append(queue[inst], "open") /\ queue[inst] \in Seq({"open", "shutdown"})
      BY <1>0
    <3> QED
      BY <2>1, <3>1, AppendFacts DEF ShutdownQueued
  <2> QED
    BY <1>0, <2>1, <2>2 DEF Awake, Waking, NoLostWakeUp
<1>3. ASSUME SpuriousWake PROVE Awake'
  <2>1. /\ UNCHANGED <<inst, running, quit, thr, main, queue>>
        /\ stop'.n = stop.n /\ stop'.main \in {stop.main, "awake"}
        /\ \A j \in Insts : started'[j].n = started[j].n
                           /\ started'[j].main \in {started[j].main, "awake"}
    <3>1. CASE stop' = Signalled(stop) /\ started' = started
      BY <1>3, <1>0, <3>1, SemFacts, SleepFacts DEF SpuriousWake
    <3>2. ASSUME NEW k \in Insts, started' = [started EXCEPT ![k] = Signalled(@)],
                 stop' = stop
          PROVE  \A j \in Insts : started'[j].n = started[j].n
                             /\ started'[j].main \in {started[j].main, "awake"}
      <4> SUFFICES ASSUME NEW j \in Insts
                   PROVE  started'[j].n = started[j].n
                            /\ started'[j].main \in {started[j].main, "awake"}
        OBVIOUS
      <4>1. CASE j = k
        BY <1>0, <3>2, <4>1, SemFacts, SleepFacts
      <4>2. CASE j # k
        BY <1>0, <3>2, <4>2
      <4> QED
        BY <4>1, <4>2
    <3> QED
      BY <1>3, <3>1, <3>2 DEF SpuriousWake
  <2> QED
    BY <1>0, <2>1 DEF Awake, Waking, NoLostWakeUp, ShutdownQueued
<1>4. ASSUME UNCHANGED vars PROVE Awake'
  BY <1>4 DEF vars, Awake, Waking, NoLostWakeUp, ShutdownQueued
<1> QED
  BY <1>1, <1>2, <1>3, <1>4

\* Main is owed its wake-up in every state.
LEMMA AwakeInvariance == Spec => []Awake
<1>1. Inv /\ Awake /\ [Next]_vars => Awake'
  BY MainAwake, ThreadAwake, OthersAwake DEF Next
<1> QED
  BY <1>1, InitAwake, Invariance, PTL DEF Spec

\* Main never sleeps in start or in shutdown with no signal to come.
THEOREM NoLostWakeUpCorrect == Spec => []NoLostWakeUp
  BY AwakeInvariance, PTL DEF Awake

\* Of all the threads the library ever started one at a time runs.
THEOREM OneThreadCorrect == Spec => []OneThread
<1>1. Inv => OneThread
  BY DEF Inv, Memory, Inactive, OneThread
<1> QED
  BY <1>1, Invariance, PTL

\* While main waits, the thread is where its step waits for nobody.
LEMMA DeadlockLemma == Inv /\ Awake => NoDeadlock
<1> SUFFICES ASSUME Inv, Awake, main \notin {"idle", "ended"}, MainWaits,
                    ThreadWaits(inst)
             PROVE  JoinsInVain
  BY DEF NoDeadlock
<1> USE DEF Inv
<1>0. /\ inst \in Insts /\ mutex[inst] \in {"free", "main", "thread"}
      /\ started[inst] \in SemType /\ stop \in SemType
      /\ quit[inst] \in BOOLEAN /\ running[inst] \in BOOLEAN
  BY DEF TypeOK
<1>1. main # "waitStarted" => CanAsk(inst) \/ thr[inst] \in {"reset", "leave"}
  BY <1>0 DEF Locks, CanAsk
<1>2. main # "waitStarted" => CanAsk(inst)
  BY <1>1 DEF ThreadWaits
<1>3. main # "waitStarted"
  <2> SUFFICES ASSUME main = "waitStarted" PROVE FALSE
    OBVIOUS
  <2>1. started[inst].lock # "free" => thr[inst] \in {"signal", "unlock"}
    BY <1>0 DEF Locks, SemType
  <2>2. started[inst].main = "asleep" => thr[inst] \in {"post", "signal"}
    BY DEF Awake, NoLostWakeUp
  <2>3. thr[inst] = "post" => started[inst].lock = "free"
    BY <2>1
  <2> QED
    BY <2>1, <2>2, <2>3 DEF MainWaits, ThreadWaits
<1>4. main # "waitStop"
  <2> SUFFICES ASSUME main = "waitStop" PROVE FALSE
    OBVIOUS
  <2>1. stop.lock # "free" => thr[inst] \in {"signalStop", "unlockStop"}
    BY <1>0 DEF Stopping, Memory, Inactive, SemType
  <2>2. stop.lock = "free"
    BY <2>1 DEF ThreadWaits
  <2>3. ShutdownQueued
    BY <2>2 DEF MainWaits, ThreadWaits, Awake, NoLostWakeUp
  <2>4. queue[inst] # <<>> /\ ~quit[inst]
    BY <1>0, <2>3 DEF ShutdownQueued, Stopping, TypeOK
  <2>5. running[inst]
    BY <2>4 DEF Awake, Waking
  <2>6. thr[inst] \in {"enter", "loop", "drain", "postStop", "signalStop", "unlockStop"}
    BY <1>0, <2>5 DEF Threads, Stops
  <2> QED
    BY <1>2, <2>2, <2>4, <2>6 DEF ThreadWaits
<1>5. main # "submit"
  <2> SUFFICES ASSUME main = "submit" PROVE FALSE
    OBVIOUS
  <2>1. thr[inst] \notin Stops
    BY <1>0 DEF Stopping
  <2>2. thr[inst] = "drain"
    BY <1>2, <2>1 DEF MainWaits, QueueIsFree, Stops
  <2> QED
    BY <1>2, <2>2 DEF ThreadWaits
<1>6. CASE main = "joining"
  <2>1. thr[inst] \notin {"none", "joined", "exited"}
    BY <1>6 DEF Awake, Waking, MainWaits
  <2>2. thr[inst] \notin Posting \cup Stops
    BY <1>0, <1>6 DEF Locks, Stopping
  <2>3. thr[inst] = "loop" /\ ~quit[inst] /\ queue[inst] = <<>>
    BY <1>2, <1>6, <2>1, <2>2 DEF ThreadWaits, Posting, Stops
  <2> QED
    BY <1>6, <2>3 DEF JoinsInVain
<1>7. main \notin {"destroyJoin", "exitJoin"}
  <2> SUFFICES ASSUME main \in {"destroyJoin", "exitJoin"} PROVE FALSE
    OBVIOUS
  <2>1. thr[inst] # "exited" /\ running[inst] /\ quit[inst]
    BY <1>2 DEF MainWaits, Awake, Waking, Threads
  <2>2. thr[inst] \in {"enter", "loop", "drain"}
    BY <1>0, <2>1 DEF Threads, Stopping
  <2> QED
    BY <1>2, <2>1, <2>2 DEF ThreadWaits
<1> QED
  BY <1>2, <1>3, <1>4, <1>5, <1>6, <1>7 DEF MainWaits

\* Initialize, shutdown and the destructor never come to a state where neither
\* main nor the thread can go on, but for the join of a thread nobody stopped.
THEOREM DeadlockFree == Spec => []NoDeadlock
  BY DeadlockLemma, Invariance, AwakeInvariance, PTL
=============================================================================
