---------------------- MODULE CommandQueueRefinement ----------------------
(***************************************************************************)
(* Proof that CommandQueue implements CallService, for every set of        *)
(* threads and of commands: each step of a thread is a step of the         *)
(* abstract service or leaves it alone.  It rests on the invariant of      *)
(* CommandQueueProofs.                                                     *)
(***************************************************************************)
EXTENDS CommandQueueProofs

\* What a step of the queue is for the service.
ServiceStep == Service!SNext \/ UNCHANGED Service!svars

\* A step that accepts, deletes, answers and destroys nothing.
LEMMA Stutters ==
  ASSUME UNCHANGED <<accepted, life, done, destroyed>>
  PROVE  ServiceStep
  BY DEF ServiceStep, Service!svars, Status

\* A command is refused while its handle does not exist.
LEMMA Refuses ==
  ASSUME NEW c \in Cmds, c \notin accepted, life[c] = "alive",
         life' = [d \in Cmds |-> IF d \in {c} THEN "deleted" ELSE life[d]],
         UNCHANGED <<accepted, done, destroyed>>
  PROVE  ServiceStep
<1>1. Status[c] = "new"
  BY DEF Status
<1>2. Status' = [Status EXCEPT ![c] = "refused"]
  BY DEF Status
<1>3. Service!Refuse(c)
  BY <1>1, <1>2 DEF Service!Refuse
<1> QED
  BY <1>3 DEF ServiceStep, Service!SNext

\* The owner of accepted commands deletes them and answers all of them but,
\* possibly, one-way commands.
LEMMA Finishes ==
  ASSUME NEW S \in SUBSET Cmds, NEW A \in SUBSET S, S \ A \subseteq OneWayCmds,
         \A c \in S : c \in accepted /\ life[c] = "alive",
         life' = [c \in Cmds |-> IF c \in S THEN "deleted" ELSE life[c]],
         done' = [c \in Cmds |-> IF c \in A THEN done[c] + 1 ELSE done[c]],
         UNCHANGED <<accepted, destroyed>>
  PROVE  ServiceStep
<1>1. \A c \in S : Status[c] = "open"
  BY DEF Status
<1>2. Status' = [c \in Cmds |-> IF c \in S THEN "finished" ELSE Status[c]]
  BY DEF Status
<1>3. Service!Finish(S, A)
  BY <1>1, <1>2 DEF Service!Finish
<1> QED
  BY <1>3 DEF ServiceStep, Service!SNext

\* The owner of one command deletes and answers it.
LEMMA FinishesOne ==
  ASSUME NEW c \in Cmds, c \in accepted, life[c] = "alive",
         life' = [d \in Cmds |-> IF d \in {c} THEN "deleted" ELSE life[d]],
         done' = [d \in Cmds |-> IF d \in {c} THEN done[d] + 1 ELSE done[d]],
         UNCHANGED <<accepted, destroyed>>
  PROVE  ServiceStep
<1> DEFINE S == {c}
<1>1. /\ S \in SUBSET Cmds /\ S \in SUBSET S /\ S \ S \subseteq OneWayCmds
      /\ \A d \in S : d \in accepted /\ life[d] = "alive"
  OBVIOUS
<1>2. /\ life' = [d \in Cmds |-> IF d \in S THEN "deleted" ELSE life[d]]
      /\ done' = [d \in Cmds |-> IF d \in S THEN done[d] + 1 ELSE done[d]]
  OBVIOUS
<1> HIDE DEF S
<1> QED
  BY <1>1, <1>2, Finishes

\* The owner of a one-way command deletes it in silence.
LEMMA FinishesSilently ==
  ASSUME NEW c \in OneWayCmds, c \in accepted, life[c] = "alive",
         done \in [Cmds -> Nat],
         life' = [d \in Cmds |-> IF d \in {c} THEN "deleted" ELSE life[d]],
         UNCHANGED <<accepted, done, destroyed>>
  PROVE  ServiceStep
<1> DEFINE S == {c}
           A == {}
<1>1. /\ S \in SUBSET Cmds /\ A \in SUBSET S /\ S \ A \subseteq OneWayCmds
      /\ \A d \in S : d \in accepted /\ life[d] = "alive"
  BY CommandFacts
<1>2. /\ life' = [d \in Cmds |-> IF d \in S THEN "deleted" ELSE life[d]]
      /\ done' = [d \in Cmds |-> IF d \in A THEN done[d] + 1 ELSE done[d]]
  OBVIOUS
<1> HIDE DEF S, A
<1> QED
  BY <1>1, <1>2, Finishes

\* An open that an exception ended is lost.
LEMMA Loses ==
  ASSUME NEW c \in OpenCmds, c \in Cmds, c \in accepted, life[c] = "alive",
         life' = [life EXCEPT ![c] = "lost"], DOMAIN life = Cmds,
         UNCHANGED <<accepted, done, destroyed>>
  PROVE  ServiceStep
<1>1. Status[c] = "open"
  BY DEF Status
<1>2. Status' = [Status EXCEPT ![c] = "lost"]
  BY DEF Status
<1>3. Service!Lose(c)
  BY <1>1, <1>2 DEF Service!Lose
<1> QED
  BY <1>3 DEF ServiceStep, Service!SNext

\* The service starts with every command new.
LEMMA InitRefines == Init => Service!SInit
<1> SUFFICES ASSUME Init PROVE Service!SInit
  OBVIOUS
<1>1. Status = [c \in Cmds |-> "new"]
  BY DEF Init, Status
<1> QED
  BY <1>1 DEF Init, Service!SInit

\* Every step of every thread is one of the service.
LEMMA NextRefines == Inv /\ [Next]_vars => ServiceStep
<1> SUFFICES ASSUME Inv, [Next]_vars PROVE ServiceStep
  OBVIOUS
<1>0. Exclusive
  BY MutualExclusion DEF Inv
<1> USE ThreadFacts, CommandFacts
    DEF Inv, Types, TypeOK, Filled, Submitting, Ownership,
        threadVars, lockVars, queueVars, loopVars, cmdVars, endVars
<1>1. ASSUME NEW t \in Clients, NEW c \in Calls, CallSync(t, c) PROVE ServiceStep
  <2>1. /\ c \in Cmds /\ life[c] = "unborn"
        /\ life' = [life EXCEPT ![c] = "alive"]
        /\ UNCHANGED <<accepted, done, destroyed>>
    BY <1>1 DEF CallSync, NewCommand
  <2>2. c \notin accepted
    BY <2>1 DEF Owned
  <2>3. Status' = Status
    BY <2>1, <2>2 DEF Status
  <2> QED
    BY <2>1, <2>3 DEF ServiceStep, Service!svars
<1>2. ASSUME NEW t \in Clients, NEW c \in Calls, CallAsync(t, c) PROVE ServiceStep
  <2>1. /\ c \in Cmds /\ life[c] = "unborn"
        /\ life' = [life EXCEPT ![c] = "alive"]
        /\ UNCHANGED <<accepted, done, destroyed>>
    BY <1>2 DEF CallAsync, NewCommand
  <2>2. c \notin accepted
    BY <2>1 DEF Owned
  <2>3. Status' = Status
    BY <2>1, <2>2 DEF Status
  <2> QED
    BY <2>1, <2>3 DEF ServiceStep, Service!svars
<1>3. ASSUME NEW c \in Calls, CallFromCallback(c) PROVE ServiceStep
  <2>1. /\ c \in Cmds /\ life[c] = "unborn"
        /\ life' = [life EXCEPT ![c] = "alive"]
        /\ UNCHANGED <<accepted, done, destroyed>>
    BY <1>3 DEF CallFromCallback, NewCommand
  <2>2. c \notin accepted
    BY <2>1 DEF Owned
  <2>3. Status' = Status
    BY <2>1, <2>2 DEF Status
  <2> QED
    BY <2>1, <2>3 DEF ServiceStep, Service!svars
<1>4. ASSUME CallShutdown PROVE ServiceStep
  <2>1. /\ ShutdownCmd \in Cmds /\ life[ShutdownCmd] = "unborn"
        /\ life' = [life EXCEPT ![ShutdownCmd] = "alive"]
        /\ UNCHANGED <<accepted, done, destroyed>>
    BY <1>4 DEF CallShutdown, NewCommand
  <2>2. ShutdownCmd \notin accepted
    BY <2>1 DEF Owned
  <2>3. Status' = Status
    BY <2>1, <2>2 DEF Status
  <2> QED
    BY <2>1, <2>3 DEF ServiceStep, Service!svars
<1>5. ASSUME NEW t \in Threads, GetDispatcher(t) PROVE ServiceStep
  <2>1. CASE ~destroyed
    BY <1>5, <2>1, Stutters DEF GetDispatcher
  <2>2. CASE destroyed
    BY <1>5, <2>2, Refuses DEF GetDispatcher, Refused, Delete, Arguments
  <2> QED
    BY <2>1, <2>2
<1>6. ASSUME NEW t \in Threads, LockQueue(t) PROVE ServiceStep
  BY <1>6, Stutters DEF LockQueue, Lock
<1>7. ASSUME NEW t \in Threads, LockDestroyed(t) PROVE ServiceStep
  BY <1>7, Stutters DEF LockDestroyed
<1>8. ASSUME NEW t \in Threads, Push(t) PROVE ServiceStep
  BY <1>8, Stutters DEF Push
<1>9. ASSUME NEW t \in Threads, NotRunning(t) PROVE ServiceStep
  BY <1>9, Refuses DEF NotRunning, Refused, Delete, Arguments
<1>10. ASSUME NEW t \in Threads, Write(t) PROVE ServiceStep
  <2>1. /\ arg[t] \in Cmds /\ arg[t] \notin accepted /\ life[arg[t]] = "alive"
        /\ accepted' = accepted \cup {arg[t]}
        /\ UNCHANGED <<life, done, destroyed>>
    BY <1>10 DEF Write, Arguments
  <2>2. ~destroyed
    BY <1>10, <1>0 DEF Write, Exclusive, LockLabels
  <2>3. Status[arg[t]] = "new"
    BY <2>1 DEF Status
  <2>4. Status' = [Status EXCEPT ![arg[t]] = "open"]
    BY <2>1 DEF Status
  <2>5. Service!Accept(arg[t])
    BY <2>1, <2>2, <2>3, <2>4 DEF Service!Accept
  <2> QED
    BY <2>1, <2>5 DEF ServiceStep, Service!SNext
<1>11. ASSUME NEW t \in Threads, WriteFails(t) PROVE ServiceStep
  BY <1>11, Refuses DEF WriteFails, Refused, Delete, Arguments
<1>12. ASSUME NEW t \in Threads, Return(t) PROVE ServiceStep
  BY <1>12, Stutters DEF Return
<1>13. ASSUME TestQuit PROVE ServiceStep
  BY <1>13, Stutters DEF TestQuit
<1>14. ASSUME NEW c \in Cmds, Reply(c) PROVE ServiceStep
  <2>1. /\ c \in accepted /\ life[c] = "alive"
        /\ life' = [d \in Cmds |-> IF d \in {c} THEN "deleted" ELSE life[d]]
        /\ done' = [d \in Cmds |-> IF d \in {c} THEN done[d] + 1 ELSE done[d]]
        /\ UNCHANGED <<accepted, destroyed>>
    BY <1>14 DEF Reply, Answer, Delete, Owned, Single
  <2> QED
    BY <2>1, FinishesOne
<1>15. ASSUME DeliverMessage PROVE ServiceStep
  BY <1>15, Stutters DEF DeliverMessage
<1>16. ASSUME EndPending PROVE ServiceStep
  BY <1>16, Stutters DEF EndPending
<1>17. ASSUME PollPipe PROVE ServiceStep
  BY <1>17, Stutters DEF PollPipe
<1>18. ASSUME PollOther PROVE ServiceStep
  BY <1>18, Stutters DEF PollOther
<1>19. ASSUME EnterOnCommand PROVE ServiceStep
  BY <1>19, Stutters DEF EnterOnCommand, Lock
<1>20. ASSUME DrainNext PROVE ServiceStep
  BY <1>20, Stutters DEF DrainNext, MoreCommands
<1>21. ASSUME DrainEnd PROVE ServiceStep
  BY <1>21, Stutters DEF DrainEnd, Unlock
<1>22. ASSUME ReadAndPop PROVE ServiceStep
  BY <1>22, Stutters DEF ReadAndPop
<1>23. ASSUME ExecAnswer PROVE ServiceStep
  <2>1. /\ cur \in Cmds /\ cur \in accepted /\ life[cur] = "alive"
        /\ life' = [d \in Cmds |-> IF d \in {cur} THEN "deleted" ELSE life[d]]
        /\ done' = [d \in Cmds |-> IF d \in {cur} THEN done[d] + 1 ELSE done[d]]
        /\ UNCHANGED <<accepted, destroyed>>
    BY <1>23 DEF ExecAnswer, Answer, Delete, Owned, Single
  <2> QED
    BY <2>1, FinishesOne
<1>24. ASSUME ExecSilently PROVE ServiceStep
  <2>1. /\ cur \in Cmds /\ cur \in OneWayCmds /\ cur \in accepted /\ life[cur] = "alive"
        /\ life' = [d \in Cmds |-> IF d \in {cur} THEN "deleted" ELSE life[d]]
        /\ UNCHANGED <<accepted, done, destroyed>>
    BY <1>24 DEF ExecSilently, Delete, Owned, Single
  <2> QED
    BY <2>1, FinishesSilently
<1>25. ASSUME ExecRetain PROVE ServiceStep
  BY <1>25, Stutters DEF ExecRetain
<1>26. ASSUME ExecShutdown PROVE ServiceStep
  <2> DEFINE S == held \cup {cur}
  <2>1. /\ S \in SUBSET Cmds
        /\ \A c \in S : c \in accepted /\ life[c] = "alive"
        /\ life' = [d \in Cmds |-> IF d \in S THEN "deleted" ELSE life[d]]
        /\ done' = [d \in Cmds |-> IF d \in S THEN done[d] + 1 ELSE done[d]]
        /\ UNCHANGED <<accepted, destroyed>>
    BY <1>26 DEF ExecShutdown, Answer, Delete, Owned, Single
  <2> HIDE DEF S
  <2>2. S \in SUBSET S /\ S \ S \subseteq OneWayCmds
    OBVIOUS
  <2> QED
    BY <2>1, <2>2, Finishes
<1>27. ASSUME CallbackReturn PROVE ServiceStep
  BY <1>27, Stutters DEF CallbackReturn
<1>28. ASSUME LoopExit PROVE ServiceStep
  BY <1>28, Stutters DEF LoopExit
<1>29. ASSUME Join PROVE ServiceStep
  BY <1>29, Stutters DEF Join
<1>30. ASSUME LockToCancel PROVE ServiceStep
  BY <1>30, Stutters DEF LockToCancel, Lock
<1>31. ASSUME CancelNext PROVE ServiceStep
  <2> DEFINE c == Head(queue)
  <2>1. c \in Cmds /\ In(queue, c)
    BY <1>31, TailFacts DEF CancelNext
  <2>2. c \in accepted /\ life[c] = "alive"
    BY <1>31, <1>0, <2>1 DEF CancelNext, InTransit, Single, Exclusive, LockLabels
  <2>3. c # ShutdownCmd
    BY <1>31, <2>2 DEF CancelNext, Control, Places, Answers, Stopping
  <2>4. life' = [d \in Cmds |-> IF d \in {c} THEN "deleted" ELSE life[d]]
    BY <1>31 DEF CancelNext, Delete
  <2>5. UNCHANGED <<accepted, destroyed>>
    BY <1>31 DEF CancelNext
  <2>6. CASE done' = [d \in Cmds |-> IF d \in {c} THEN done[d] + 1 ELSE done[d]]
    <3> HIDE DEF c
    <3> QED
      BY <2>1, <2>2, <2>4, <2>5, <2>6, FinishesOne
  <2>7. CASE c \notin SyncCmds \cup AsyncCmds /\ done' = done
    <3>1. c \in OneWayCmds
      BY <2>1, <2>3, <2>7
    <3> HIDE DEF c
    <3> QED
      BY <2>2, <2>4, <2>5, <2>7, <3>1, FinishesSilently
  <2> QED
    BY <1>31, <2>6, <2>7 DEF CancelNext, Answer
<1>32. ASSUME DestroyEnd PROVE ServiceStep
  <2>1. /\ queue = <<>> /\ destroyed' = TRUE /\ ~destroyed
        /\ UNCHANGED <<accepted, life, done>>
    BY <1>32 DEF DestroyEnd, Control, Places
  <2>2. pc[Disp] = "dead" /\ quit
    BY <1>32 DEF DestroyEnd, Control, Places, Answers, Stopping
  <2>3. cur = NoCmd /\ held = {}
    BY <2>2 DEF Owned, Answers, Stopping
  <2>4. \A c \in accepted : life[c] \in {"deleted", "lost"}
    BY <2>1, <2>3 DEF Owned, In
  <2>5. \A c \in Cmds : Status[c] # "open"
    BY <2>4 DEF Status
  <2>6. Status' = Status
    BY <2>1 DEF Status
  <2>7. Service!Close
    BY <2>1, <2>5, <2>6 DEF Service!Close
  <2> QED
    BY <2>7 DEF ServiceStep, Service!SNext
<1>33. ASSUME UNCHANGED vars PROVE ServiceStep
  BY <1>33, Stutters DEF vars
<1>34. ASSUME ExecEscape PROVE ServiceStep
  <2>1. /\ cur \in OpenCmds /\ cur \in Cmds /\ cur \in accepted /\ life[cur] = "alive"
        /\ life' = [life EXCEPT ![cur] = "lost"] /\ DOMAIN life = Cmds
        /\ UNCHANGED <<accepted, done, destroyed>>
    BY <1>34 DEF ExecEscape, Owned, Single
  <2> QED
    BY <2>1, Loses
<1> QED
  BY <1>1, <1>2, <1>3, <1>4, <1>5, <1>6, <1>7, <1>8, <1>9, <1>10, <1>11,
      <1>12, <1>13, <1>14, <1>15, <1>16, <1>17, <1>18, <1>19, <1>20, <1>21,
      <1>22, <1>23, <1>24, <1>25, <1>26, <1>27, <1>28, <1>29, <1>30, <1>31,
      <1>32, <1>33, <1>34 DEF Next, SubmitStep, DispStep, MainStep

\* Every behaviour of the command queue is one of the abstract service: no
\* command is answered twice, after a refusal or after the service closed, and
\* the service closes with every accepted command finished, or lost if it is an
\* open for which memory ran out.
THEOREM Refinement == Spec => ImplementsService
<1>1. Init => Service!SInit
  BY InitRefines
<1>2. Inv /\ [Next]_vars => [Service!SNext]_(Service!svars)
  BY NextRefines DEF ServiceStep
<1> QED
  BY <1>1, <1>2, Invariance, PTL DEF Spec, ImplementsService, Service!SSpec

\* What is proved of every implementation of the service.
ServiceFacts == INSTANCE CallServiceProofs WITH
  Cmds <- Cmds, OneWay <- OneWayCmds, Fragile <- OpenCmds,
  status <- Status, answers <- done, closed <- destroyed

\* The service of the model is the one those theorems are about.
LEMMA SameService ==
  /\ Service!SInit <=> ServiceFacts!SInit
  /\ [Service!SNext]_(Service!svars) <=> [ServiceFacts!SNext]_(ServiceFacts!svars)
<1>1. Service!svars = ServiceFacts!svars
  BY DEF Service!svars, ServiceFacts!svars
<1>2. Service!SNext <=> ServiceFacts!SNext
  BY DEF Service!SNext, ServiceFacts!SNext, Service!Accept, ServiceFacts!Accept,
     Service!Refuse, ServiceFacts!Refuse, Service!Finish, ServiceFacts!Finish,
     Service!Lose, ServiceFacts!Lose, Service!Close, ServiceFacts!Close
<1>3. Service!SInit <=> ServiceFacts!SInit
  BY DEF Service!SInit, ServiceFacts!SInit
<1> QED
  BY <1>1, <1>2, <1>3 DEF Service!svars, ServiceFacts!svars

\* The callers of the API have what CallService promises: one answer for each
\* accepted command, when it is deleted, nothing after that or after a refusal,
\* nothing accepted or executed by a destroyed dispatcher, and no command lost
\* but an open, which is never answered then.
THEOREM CallersAreServed == Spec => []ServiceFacts!OneAnswer /\ ServiceFacts!EndsAreFinal
<1>1. ImplementsService => ServiceFacts!SSpec
  BY SameService, PTL DEF ImplementsService, Service!SSpec, ServiceFacts!SSpec
<1> QED
  BY <1>1, Refinement, ServiceFacts!Promises, PTL

-----------------------------------------------------------------------------
(* The round of the dispatcher's loop.                                     *)

\* What a step of the queue is for the round.
RoundStep == Round!RNext \/ UNCHANGED Round!rvars

\* The loop stands where it stood when neither the dispatcher thread moves nor
\* its lock.
LEMMA StandsStill ==
  ASSUME pc'[Disp] = pc[Disp], lock = Disp <=> lock' = Disp,
         lock = Disp => depth' = depth
  PROVE  RoundAt' = RoundAt
BY DEF RoundAt, InOnCommand

\* Another thread locks what is free and unlocks what is its own.
LEMMA OthersLock ==
  ASSUME Control, NEW t \in Threads, t # Disp, Lock(t) \/ (lock = t /\ Unlock)
  PROVE  lock # Disp /\ lock' # Disp
BY ThreadFacts DEF Control, Locking, Lock, Unlock

\* A submission by another thread leaves the loop where it is.
LEMMA OthersSubmit ==
  ASSUME Control, NEW t \in Threads, t # Disp, SubmitStep(t) \/ WriteFails(t)
  PROVE  RoundAt' = RoundAt
<1> USE ThreadFacts DEF Control, Locking, Goto
<1>1. pc'[Disp] = pc[Disp]
  BY DEF SubmitStep, GetDispatcher, LockQueue, LockDestroyed, Push, NotRunning, Write,
     WriteFails, Return, Refused, threadVars
<1>2. CASE LockQueue(t)
  BY <1>1, <1>2, OthersLock, StandsStill DEF LockQueue
<1>3. CASE NotRunning(t) \/ Write(t) \/ WriteFails(t)
  BY <1>1, <1>3, OthersLock, StandsStill DEF NotRunning, Write, WriteFails
<1>4. CASE GetDispatcher(t) \/ LockDestroyed(t) \/ Push(t) \/ Return(t)
  BY <1>1, <1>4, StandsStill DEF GetDispatcher, LockDestroyed, Push, Return, lockVars
<1> QED
  BY <1>2, <1>3, <1>4 DEF SubmitStep

\* A submission from a callback ends in the function that called the callback.
LEMMA CallbackSubmits ==
  ASSUME Control, SubmitStep(Disp) \/ WriteFails(Disp)
  PROVE  RoundAt' = RoundAt
<1> USE ThreadFacts
    DEF Control, Places, Locking, Goto, Lock, Unlock, AfterSubmit, RoundAt, InOnCommand,
        lockVars
<1>1. CASE GetDispatcher(Disp)
  BY <1>1 DEF GetDispatcher, Refused, Delete
<1>2. CASE LockQueue(Disp)
  BY <1>2 DEF LockQueue
<1>3. CASE LockDestroyed(Disp)
  BY <1>3 DEF LockDestroyed
<1>4. CASE Push(Disp)
  BY <1>4 DEF Push
<1>5. CASE NotRunning(Disp)
  BY <1>5 DEF NotRunning, Refused, Delete
<1>6. CASE Write(Disp)
  BY <1>6 DEF Write
<1>7. CASE WriteFails(Disp)
  BY <1>7 DEF WriteFails, Refused, Delete
<1>8. CASE Return(Disp)
  BY <1>8 DEF Return, DispLabels
<1> QED
  BY <1>1, <1>2, <1>3, <1>4, <1>5, <1>6, <1>7, <1>8 DEF SubmitStep

\* One step per place of the loop.
LEMMA NextRound == Inv /\ [Next]_vars => RoundStep
<1> SUFFICES ASSUME Inv, [Next]_vars PROVE RoundStep
  OBVIOUS
<1>0. Control /\ pipe \in Nat
  BY PipeAssumption DEF Inv, Types, TypeOK
<1> USE ThreadFacts DEF Goto
<1>1. ASSUME UNCHANGED pipe, RoundAt' = RoundAt PROVE RoundStep
  BY <1>1 DEF RoundStep, Round!rvars
<1>2. ASSUME NEW t \in Threads, SubmitStep(t) \/ WriteFails(t) PROVE RoundStep
  <2>1. RoundAt' = RoundAt
    BY <1>0, <1>2, OthersSubmit, CallbackSubmits
  <2>2. CASE Write(t)
    <3>1. pipe' > 0
      BY <1>0, <2>2 DEF Write
    <3> QED
      BY <2>1, <3>1 DEF RoundStep, Round!RNext, Round!Written
  <2>3. CASE ~Write(t)
    BY <1>1, <1>2, <2>1, <2>3 DEF SubmitStep, GetDispatcher, LockQueue, LockDestroyed,
       Push, NotRunning, WriteFails, Return, queueVars
  <2> QED
    BY <2>2, <2>3
<1>3. ASSUME NEW t \in Clients, NEW c \in Calls, CallSync(t, c) \/ CallAsync(t, c)
      PROVE  RoundStep
  <2>1. pc'[Disp] = pc[Disp] /\ UNCHANGED <<lock, depth, pipe>>
    BY <1>0, <1>3 DEF CallSync, CallAsync, NewCommand, lockVars, queueVars, Control
  <2> QED
    BY <1>1, <2>1, StandsStill
<1>4. ASSUME NEW c \in Calls, CallFromCallback(c) PROVE RoundStep
  <2>1. pc[Disp] = "callback" /\ pc'[Disp] = "get" /\ UNCHANGED <<lock, depth, pipe>>
    BY <1>0, <1>4 DEF CallFromCallback, NewCommand, lockVars, queueVars, Control
  <2> QED
    BY <1>1, <2>1 DEF RoundAt, InOnCommand
<1>5. CASE CallShutdown \/ Join \/ DestroyEnd \/ CancelNext \/ LockToCancel
  <2>1. pc'[Disp] = pc[Disp] /\ UNCHANGED pipe
    BY <1>0, <1>5 DEF CallShutdown, NewCommand, Join, DestroyEnd, CancelNext,
       LockToCancel, queueVars, threadVars, Control
  <2>2. CASE CallShutdown \/ Join \/ CancelNext
    BY <1>1, <2>1, <2>2, StandsStill DEF CallShutdown, NewCommand, Join, CancelNext,
       lockVars
  <2>3. CASE LockToCancel
    BY <1>0, <1>1, <2>1, <2>3, OthersLock, StandsStill DEF LockToCancel
  <2>4. CASE DestroyEnd
    BY <1>0, <1>1, <2>1, <2>4, OthersLock, StandsStill
       DEF DestroyEnd, Control, Locking
  <2> QED
    BY <1>5, <2>2, <2>3, <2>4
<1>6. CASE TestQuit
  <2>1. RoundAt = "test" /\ RoundAt' \in {"pending", "over"} /\ UNCHANGED pipe
    BY <1>0, <1>6 DEF TestQuit, queueVars, lockVars, RoundAt, InOnCommand, Control,
       Locking
  <2> QED
    BY <2>1 DEF RoundStep, Round!RNext, Round!TestQuit
<1>7. CASE EndPending
  <2>1. RoundAt = "pending" /\ RoundAt' = "poll" /\ UNCHANGED pipe
    BY <1>0, <1>7 DEF EndPending, queueVars, lockVars, RoundAt, InOnCommand, Control,
       Locking
  <2> QED
    BY <2>1 DEF RoundStep, Round!RNext, Round!EndPending
<1>8. CASE PollPipe
  <2>1. RoundAt = "poll" /\ RoundAt' = "onCommand" /\ pipe > 0 /\ UNCHANGED pipe
    BY <1>0, <1>8 DEF PollPipe, queueVars, RoundAt, InOnCommand, Control
  <2> QED
    BY <2>1 DEF RoundStep, Round!RNext, Round!CallOnCommand
<1>9. CASE PollOther
  <2>1. RoundAt = "poll" /\ RoundAt' = "test" /\ UNCHANGED pipe
    BY <1>0, <1>9 DEF PollOther, queueVars, RoundAt, Control
  <2> QED
    BY <2>1 DEF RoundStep, Round!RNext, Round!EndRound
<1>10. CASE DrainEnd
  <2>1. RoundAt = "onCommand" /\ RoundAt' = "test" /\ UNCHANGED pipe
    BY <1>0, <1>10 DEF DrainEnd, queueVars, RoundAt, InOnCommand, Control, Locking
  <2> QED
    BY <2>1 DEF RoundStep, Round!RNext, Round!EndRound
<1>11. CASE ReadAndPop
  <2>1. RoundAt = "onCommand" /\ RoundAt' = RoundAt /\ pipe > 0
    BY <1>0, <1>11 DEF ReadAndPop, lockVars, RoundAt, InOnCommand, Control, Locking
  <2> QED
    BY <2>1 DEF RoundStep, Round!RNext, Round!Read
<1>12. CASE EnterOnCommand \/ DrainNext \/ LoopExit
  BY <1>0, <1>1, <1>12 DEF EnterOnCommand, DrainNext, LoopExit, Lock, queueVars,
     lockVars, RoundAt, InOnCommand, Control, Locking
<1>13. CASE ExecAnswer \/ ExecSilently \/ ExecRetain \/ ExecShutdown
  <2>1. pc[Disp] = "exec" /\ pc'[Disp] \in {"drain", "callback"}
    BY <1>0, <1>13 DEF ExecAnswer, ExecSilently, ExecRetain, ExecShutdown, Control
  <2>2. UNCHANGED <<lock, depth, pipe>>
    BY <1>13 DEF ExecAnswer, ExecSilently, ExecRetain, ExecShutdown, queueVars, lockVars
  <2> QED
    BY <1>0, <1>1, <2>1, <2>2 DEF RoundAt, InOnCommand, Control, Locking
<1>14. CASE CallbackReturn \/ DeliverMessage \/ \E c \in Cmds : Reply(c)
  BY <1>0, <1>1, <1>14 DEF CallbackReturn, DeliverMessage, Reply, queueVars, lockVars,
     RoundAt, InOnCommand, Control, Locking
<1>15. CASE UNCHANGED vars
  BY <1>1, <1>15, StandsStill DEF vars, threadVars, lockVars, queueVars
<1>16. CASE ExecEscape
  <2>1. RoundAt = "onCommand" /\ RoundAt' = "test" /\ UNCHANGED pipe
    BY <1>0, <1>16 DEF ExecEscape, queueVars, RoundAt, InOnCommand, Control, Locking
  <2> QED
    BY <2>1 DEF RoundStep, Round!RNext, Round!EndRound
<1> QED
  BY <1>2, <1>3, <1>4, <1>5, <1>6, <1>7, <1>8, <1>9, <1>10, <1>11, <1>12, <1>13,
     <1>14, <1>15, <1>16 DEF Next, DispStep, MainStep

\* The loop in which the queue is worked off is the one PollLoop implements from
\* the inside, with whatever callbacks do in dispatchPending and in onCommand.
THEOREM RoundRefinement == Spec => ImplementsRound
<1>1. Init => Round!RInit
  BY ThreadFacts DEF Init, Round!RInit, RoundAt
<1>2. Inv /\ [Next]_vars => [Round!RNext]_(Round!rvars)
  BY NextRound DEF RoundStep
<1> QED
  BY <1>1, <1>2, Invariance, PTL DEF Spec, ImplementsRound, Round!RSpec
=============================================================================
