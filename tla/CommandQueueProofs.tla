------------------------- MODULE CommandQueueProofs -------------------------
(***************************************************************************)
(* Theorems about CommandQueue for every set of threads and of commands    *)
(* and every pipe capacity.  The invariant is built in layers, each with a *)
(* lemma for the initial states and one for the steps: who may be where    *)
(* and who holds the lock (Control), the types (Types), the bytes in the   *)
(* pipe, who owns each command (Ownership), and who was answered and how   *)
(* the dispatcher ends (Answers).                                          *)
(***************************************************************************)
EXTENDS CommandQueue, SequenceTheorems, TLAPS

\* Where each thread may be.
ClientLabels == {"idle", "get", "lock", "push", "write", "wait", "crashed"}
MainLabels == {"idle", "get", "lock", "push", "write", "wait", "join",
               "destroy", "cancel", "end"}
DispLabels == {"test", "pending", "poll", "onCommand", "drain", "read", "exec",
               "callback", "exit", "dead", "get", "lock", "push", "write"}

Places ==
  /\ \A t \in Clients : pc[t] \in ClientLabels
  /\ pc[Main] \in MainLabels
  /\ pc[Disp] \in DispLabels
  /\ pc[Disp] = "dead" <=> ~running
  /\ pc[Main] \in {"destroy", "cancel", "end"} => pc[Disp] = "dead"
  /\ destroyed <=> pc[Main] = "end"

\* Who holds the queue lock, and how often.  The dispatcher thread holds it
\* throughout onCommand, also while a callback runs there; only then does it
\* lock it a second time.
Locking ==
  /\ lock \in Threads \cup {Nobody}
  /\ depth \in 0 .. 2
  /\ lock = Nobody <=> depth = 0
  /\ destroyed => lock = Nobody
  /\ \A t \in Threads : pc[t] \in {"push", "write", "drain", "read", "exec", "cancel"}
                          => lock = t
  /\ \A t \in Clients \cup {Main} :
       lock = t => depth = 1 /\ pc[t] \in {"push", "write", "cancel"}
  /\ lock = Disp => pc[Disp] \in {"drain", "read", "exec", "callback", "get", "lock",
                                  "push", "write"}
  /\ lock = Disp /\ pc[Disp] \notin {"push", "write"} => depth = 1

Control == pc \in [Threads -> Labels] /\ Places /\ Locking

\* The threads are distinct, and Nobody is none of them.
LEMMA ThreadFacts ==
  /\ Disp \in Threads /\ Main \in Threads /\ Disp # Main
  /\ \A t \in Clients : t \in Threads /\ t # Disp /\ t # Main
  /\ \A t \in Threads : t \in Clients \/ t = Disp \/ t = Main
  /\ Nobody \notin Threads
  BY ThreadsAssumption DEF Threads

\* DBUSIPC_initialize leaves the dispatcher thread in its loop and the lock free.
LEMMA InitControl == Init => Control
<1> SUFFICES ASSUME Init PROVE Control
  OBVIOUS
<1>1. pc \in [Threads -> Labels]
  BY DEF Init, Labels
<1>2. Places
  BY ThreadFacts DEF Init, Places, ClientLabels, MainLabels, DispLabels
<1>3. Locking
  BY ThreadFacts DEF Init, Locking
<1> QED
  BY <1>1, <1>2, <1>3 DEF Control

\* Every step keeps the threads where they may be and the recursive lock with its
\* owner: what is locked is unlocked as often, by the same thread.
LEMMA NextControl == Control /\ [Next]_vars => Control'
<1> SUFFICES ASSUME Control, [Next]_vars PROVE Control'
  OBVIOUS
<1> USE ThreadFacts
    DEF Control, Places, Locking, Goto, ClientLabels, MainLabels, DispLabels, Labels,
        threadVars, lockVars, queueVars, loopVars, cmdVars, endVars
<1>1. ASSUME NEW t \in Clients, NEW c \in Calls, CallSync(t, c) PROVE Control'
  BY <1>1 DEF CallSync, NewCommand
<1>2. ASSUME NEW t \in Clients, NEW c \in Calls, CallAsync(t, c) PROVE Control'
  BY <1>2 DEF CallAsync, NewCommand
<1>3. ASSUME NEW c \in Calls, CallFromCallback(c) PROVE Control'
  BY <1>3 DEF CallFromCallback, NewCommand
<1>4. ASSUME CallShutdown PROVE Control'
  BY <1>4 DEF CallShutdown, NewCommand
<1>5. ASSUME NEW t \in Threads, GetDispatcher(t) PROVE Control'
  BY <1>5 DEF GetDispatcher, Refused, Delete, AfterSubmit
<1>6. ASSUME NEW t \in Threads, LockQueue(t) PROVE Control'
  BY <1>6 DEF LockQueue, Lock
<1>7. ASSUME NEW t \in Threads, LockDestroyed(t) PROVE Control'
  BY <1>7 DEF LockDestroyed
<1>8. ASSUME NEW t \in Threads, Push(t) PROVE Control'
  BY <1>8 DEF Push
<1>9. ASSUME NEW t \in Threads, NotRunning(t) PROVE Control'
  BY <1>9 DEF NotRunning, Unlock, Refused, Delete, AfterSubmit
<1>10. ASSUME NEW t \in Threads, Write(t) PROVE Control'
  BY <1>10 DEF Write, Unlock, AfterSubmit
<1>11. ASSUME NEW t \in Threads, WriteFails(t) PROVE Control'
  BY <1>11 DEF WriteFails, Unlock, Refused, Delete, AfterSubmit
<1>12. ASSUME NEW t \in Threads, Return(t) PROVE Control'
  BY <1>12 DEF Return
<1>13. ASSUME TestQuit PROVE Control'
  BY <1>13 DEF TestQuit
<1>14. ASSUME NEW c \in Cmds, Reply(c) PROVE Control'
  BY <1>14 DEF Reply, Answer, Delete
<1>15. ASSUME DeliverMessage PROVE Control'
  BY <1>15 DEF DeliverMessage
<1>16. ASSUME EndPending PROVE Control'
  BY <1>16 DEF EndPending
<1>17. ASSUME PollPipe PROVE Control'
  BY <1>17 DEF PollPipe
<1>18. ASSUME PollOther PROVE Control'
  BY <1>18 DEF PollOther
<1>19. ASSUME EnterOnCommand PROVE Control'
  BY <1>19 DEF EnterOnCommand, Lock
<1>20. ASSUME DrainNext PROVE Control'
  BY <1>20 DEF DrainNext, MoreCommands
<1>21. ASSUME DrainEnd PROVE Control'
  BY <1>21 DEF DrainEnd, Unlock
<1>22. ASSUME ReadAndPop PROVE Control'
  BY <1>22 DEF ReadAndPop
<1>23. ASSUME ExecAnswer PROVE Control'
  BY <1>23 DEF ExecAnswer, Answer, Delete
<1>24. ASSUME ExecSilently PROVE Control'
  BY <1>24 DEF ExecSilently, Delete
<1>25. ASSUME ExecRetain PROVE Control'
  BY <1>25 DEF ExecRetain
<1>26. ASSUME ExecShutdown PROVE Control'
  BY <1>26 DEF ExecShutdown, Answer, Delete
<1>27. ASSUME CallbackReturn PROVE Control'
  BY <1>27 DEF CallbackReturn
<1>28. ASSUME LoopExit PROVE Control'
  BY <1>28 DEF LoopExit
<1>29. ASSUME Join PROVE Control'
  BY <1>29 DEF Join
<1>30. ASSUME LockToCancel PROVE Control'
  BY <1>30 DEF LockToCancel, Lock
<1>31. ASSUME CancelNext PROVE Control'
  BY <1>31 DEF CancelNext, Answer, Delete
<1>32. ASSUME DestroyEnd PROVE Control'
  BY <1>32 DEF DestroyEnd, Unlock
<1>33. ASSUME UNCHANGED vars PROVE Control'
  BY <1>33 DEF vars
<1>34. ASSUME ExecEscape PROVE Control'
  BY <1>34 DEF ExecEscape, Unlock
<1> QED
  BY <1>1, <1>2, <1>3, <1>4, <1>5, <1>6, <1>7, <1>8, <1>9, <1>10, <1>11,
      <1>12, <1>13, <1>14, <1>15, <1>16, <1>17, <1>18, <1>19, <1>20, <1>21,
      <1>22, <1>23, <1>24, <1>25, <1>26, <1>27, <1>28, <1>29, <1>30, <1>31,
      <1>32, <1>33, <1>34 DEF Next, SubmitStep, DispStep, MainStep

-----------------------------------------------------------------------------
(* Types, and the bytes in the pipe.                                       *)

\* The kinds of commands.
LEMMA CommandFacts ==
  /\ SyncCmds \subseteq Calls /\ AsyncCmds \subseteq Calls /\ OneWayCmds \subseteq Calls
  /\ Calls \subseteq Cmds /\ ShutdownCmd \in Cmds /\ ShutdownCmd \notin Calls
  /\ \A c \in Cmds : c \in Calls \/ c = ShutdownCmd
  /\ \A c \in Calls : c \in SyncCmds \/ c \in AsyncCmds \/ c \in OneWayCmds
  /\ \A c \in SyncCmds : c \notin AsyncCmds /\ c \notin OneWayCmds
  /\ \A c \in AsyncCmds : c \notin OneWayCmds
  /\ Semaphored \subseteq Cmds
  /\ SyncCmds \subseteq Semaphored /\ ShutdownCmd \in Semaphored
  /\ \A c \in Semaphored : c \in SyncCmds \/ c = ShutdownCmd
  /\ \A c \in OpenCmds : c \in SyncCmds \/ c \in AsyncCmds
  /\ ShutdownCmd \notin OpenCmds
  /\ NoCmd \notin Cmds
  BY CmdsAssumption DEF Calls, Cmds, Semaphored

\* Where a thread has a command it has not handed over.
Submitting == {"get", "lock", "push", "write"}

\* What the types rest on: a command being submitted is a command, and onCommand
\* pops only from a queue it saw filled (it has held the lock since).
Filled ==
  /\ \A t \in Threads : pc[t] \in Submitting => arg[t] \in Cmds
  /\ pc[Disp] = "read" => queue # <<>>

Types == TypeOK /\ Filled

\* The types hold at the start.
LEMMA InitTypes == Init => Types
<1> SUFFICES ASSUME Init PROVE Types
  OBVIOUS
<1> USE ThreadFacts, PipeAssumption
<1>1. pc \in [Threads -> Labels] /\ arg \in [Threads -> Cmds \cup {NoCmd}]
  BY DEF Init, Labels
<1>2. queue \in Seq(Cmds)
  BY DEF Init
<1>a. /\ life \in [Cmds -> {"unborn", "alive", "deleted", "lost"}]
       /\ done \in [Cmds -> Nat]
       /\ sem \in [Cmds -> {0, 1}]
  BY DEF Init
<1>3. TypeOK
  <2>1. lock \in Threads \cup {Nobody} /\ depth \in 0 .. 2 /\ pipe \in 0 .. PipeCapacity
    BY DEF Init
  <2>2. /\ running \in BOOLEAN /\ quit \in BOOLEAN
        /\ shutdownCalled \in BOOLEAN /\ destroyed \in BOOLEAN /\ cut \in BOOLEAN
    BY DEF Init
  <2>3. held \in SUBSET (SyncCmds \cup AsyncCmds) /\ accepted \in SUBSET Cmds
          /\ late \in SUBSET accepted /\ cur \in Cmds \cup {NoCmd}
    BY DEF Init
  <2> QED
    BY <1>1, <1>2, <1>a, <2>1, <2>2, <2>3 DEF TypeOK
<1>4. Filled
  BY DEF Init, Filled, Submitting
<1> QED
  BY <1>3, <1>4 DEF Types

\* Every step keeps them: the depth of the lock and the bytes stay in range
\* because of who can be where.
LEMMA NextTypes == Control /\ Control' /\ Types /\ [Next]_vars => Types'
<1> SUFFICES ASSUME Control, Control', Types, [Next]_vars PROVE Types'
  OBVIOUS
<1> USE ThreadFacts, CommandFacts, PipeAssumption
    DEF Control, Places, Locking, Types, TypeOK, Filled, Submitting, Goto,
        threadVars, lockVars, queueVars, loopVars, cmdVars, endVars
<1>1. ASSUME NEW t \in Clients, NEW c \in Calls, CallSync(t, c) PROVE Types'
  BY <1>1 DEF CallSync, NewCommand
<1>2. ASSUME NEW t \in Clients, NEW c \in Calls, CallAsync(t, c) PROVE Types'
  BY <1>2 DEF CallAsync, NewCommand
<1>3. ASSUME NEW c \in Calls, CallFromCallback(c) PROVE Types'
  BY <1>3 DEF CallFromCallback, NewCommand
<1>4. ASSUME CallShutdown PROVE Types'
  BY <1>4 DEF CallShutdown, NewCommand
<1>5. ASSUME NEW t \in Threads, GetDispatcher(t) PROVE Types'
  BY <1>5 DEF GetDispatcher, Refused, Delete, AfterSubmit
<1>6. ASSUME NEW t \in Threads, LockQueue(t) PROVE Types'
  BY <1>6 DEF LockQueue, Lock
<1>7. ASSUME NEW t \in Threads, LockDestroyed(t) PROVE Types'
  BY <1>7 DEF LockDestroyed
<1>8. ASSUME NEW t \in Threads, Push(t) PROVE Types'
  BY <1>8 DEF Push
<1>9. ASSUME NEW t \in Threads, NotRunning(t) PROVE Types'
  BY <1>9 DEF NotRunning, Unlock, Refused, Delete, AfterSubmit
<1>10. ASSUME NEW t \in Threads, Write(t) PROVE Types'
  BY <1>10 DEF Write, Unlock, AfterSubmit
<1>11. ASSUME NEW t \in Threads, WriteFails(t) PROVE Types'
  BY <1>11 DEF WriteFails, Unlock, Refused, Delete, AfterSubmit
<1>12. ASSUME NEW t \in Threads, Return(t) PROVE Types'
  <2>1. pc' \in [Threads -> Labels] /\ sem' \in [Cmds -> {0, 1}]
    BY <1>12 DEF Return
  <2> QED
    BY <1>12, <2>1 DEF Return
<1>13. ASSUME TestQuit PROVE Types'
  BY <1>13 DEF TestQuit
<1>14. ASSUME NEW c \in Cmds, Reply(c) PROVE Types'
  BY <1>14 DEF Reply, Answer, Delete
<1>15. ASSUME DeliverMessage PROVE Types'
  BY <1>15 DEF DeliverMessage
<1>16. ASSUME EndPending PROVE Types'
  BY <1>16 DEF EndPending
<1>17. ASSUME PollPipe PROVE Types'
  BY <1>17 DEF PollPipe
<1>18. ASSUME PollOther PROVE Types'
  BY <1>18 DEF PollOther
<1>19. ASSUME EnterOnCommand PROVE Types'
  BY <1>19 DEF EnterOnCommand, Lock
<1>20. ASSUME DrainNext PROVE Types'
  BY <1>20 DEF DrainNext, MoreCommands
<1>21. ASSUME DrainEnd PROVE Types'
  BY <1>21 DEF DrainEnd, Unlock
<1>22. ASSUME ReadAndPop PROVE Types'
  BY <1>22 DEF ReadAndPop
<1>23. ASSUME ExecAnswer PROVE Types'
  BY <1>23 DEF ExecAnswer, Answer, Delete
<1>24. ASSUME ExecSilently PROVE Types'
  BY <1>24 DEF ExecSilently, Delete
<1>25. ASSUME ExecRetain PROVE Types'
  BY <1>25 DEF ExecRetain
<1>26. ASSUME ExecShutdown PROVE Types'
  BY <1>26 DEF ExecShutdown, Answer, Delete
<1>27. ASSUME CallbackReturn PROVE Types'
  BY <1>27 DEF CallbackReturn
<1>28. ASSUME LoopExit PROVE Types'
  <2>1. running' \in BOOLEAN
    BY <1>28 DEF LoopExit
  <2>2. Filled'
    BY <1>28 DEF LoopExit
  <2> QED
    BY <1>28, <2>1, <2>2 DEF LoopExit
<1>29. ASSUME Join PROVE Types'
  BY <1>29 DEF Join
<1>30. ASSUME LockToCancel PROVE Types'
  BY <1>30 DEF LockToCancel, Lock
<1>31. ASSUME CancelNext PROVE Types'
  BY <1>31 DEF CancelNext, Answer, Delete
<1>32. ASSUME DestroyEnd PROVE Types'
  BY <1>32 DEF DestroyEnd, Unlock
<1>33. ASSUME UNCHANGED vars PROVE Types'
  BY <1>33 DEF vars
<1>34. ASSUME ExecEscape PROVE Types'
  BY <1>34 DEF ExecEscape, Unlock
<1> QED
  BY <1>1, <1>2, <1>3, <1>4, <1>5, <1>6, <1>7, <1>8, <1>9, <1>10, <1>11,
      <1>12, <1>13, <1>14, <1>15, <1>16, <1>17, <1>18, <1>19, <1>20, <1>21,
      <1>22, <1>23, <1>24, <1>25, <1>26, <1>27, <1>28, <1>29, <1>30, <1>31,
      <1>32, <1>33, <1>34 DEF Next, SubmitStep, DispStep, MainStep


\* The pipe starts empty, and so does the queue.
LEMMA InitPipe == Init => PipeMatchesQueue
<1> SUFFICES ASSUME Init PROVE PipeMatchesQueue
  OBVIOUS
<1>1. Len(queue) = 0 /\ pipe = 0
  BY DEF Init
<1>2. \A t \in Threads : pc[t] # "write"
  BY DEF Init
<1> QED
  BY <1>1, <1>2 DEF PipeMatchesQueue

\* A step that leaves the queue and the pipe alone, and that brings no thread
\* to its write or from it, keeps the count.
LEMMA SamePipe ==
  ASSUME PipeMatchesQueue, UNCHANGED queueVars,
         \A t \in Threads : pc[t]' = "write" <=> pc[t] = "write",
         pc[Main] \in {"cancel", "end"} => pc[Main]' \in {"cancel", "end"}
  PROVE  PipeMatchesQueue'
  BY DEF PipeMatchesQueue, queueVars

\* Only the owner of the lock touches the queue or the pipe: a command and its
\* byte are added by one thread in two steps, and onCommand takes both at once.
LEMMA NextPipe ==
  Control /\ Control' /\ Types /\ Types' /\ PipeMatchesQueue /\ [Next]_vars => PipeMatchesQueue'
<1> SUFFICES ASSUME Control, Control', Types, Types', PipeMatchesQueue, [Next]_vars
             PROVE PipeMatchesQueue'
  OBVIOUS
<1> USE ThreadFacts, CommandFacts
    DEF Control, Places, Locking, ClientLabels, MainLabels, DispLabels, Goto,
        threadVars, lockVars, queueVars, loopVars, cmdVars, endVars
<1>1. ASSUME NEW t \in Clients, NEW c \in Calls, CallSync(t, c) PROVE PipeMatchesQueue'
  BY <1>1, SamePipe DEF CallSync, NewCommand
<1>2. ASSUME NEW t \in Clients, NEW c \in Calls, CallAsync(t, c) PROVE PipeMatchesQueue'
  BY <1>2, SamePipe DEF CallAsync, NewCommand
<1>3. ASSUME NEW c \in Calls, CallFromCallback(c) PROVE PipeMatchesQueue'
  BY <1>3, SamePipe DEF CallFromCallback, NewCommand
<1>4. ASSUME CallShutdown PROVE PipeMatchesQueue'
  BY <1>4, SamePipe DEF CallShutdown, NewCommand
<1>5. ASSUME NEW t \in Threads, GetDispatcher(t) PROVE PipeMatchesQueue'
  BY <1>5, SamePipe DEF GetDispatcher, Refused, Delete, AfterSubmit
<1>6. ASSUME NEW t \in Threads, LockQueue(t) PROVE PipeMatchesQueue'
  BY <1>6, SamePipe DEF LockQueue, Lock
<1>7. ASSUME NEW t \in Threads, LockDestroyed(t) PROVE PipeMatchesQueue'
  BY <1>7, SamePipe DEF LockDestroyed
<1>8. ASSUME NEW t \in Threads, Push(t) PROVE PipeMatchesQueue'
  <2>1. /\ Len(queue') = Len(queue) + 1 /\ pipe' = pipe
        /\ pc[t]' = "write" /\ pc[Main] # "cancel" /\ lock = t
    BY <1>8 DEF Push, Types, TypeOK
  <2>2. \A u \in Threads : pc[u] # "write"
    BY <1>8, <2>1 DEF Push
  <2>3. pc[Main] = "end" => pc[Main]' = "end"
    BY <1>8 DEF Push
  <2> QED
    BY <2>1, <2>2, <2>3 DEF PipeMatchesQueue, Types, TypeOK
<1>9. ASSUME NEW t \in Threads, NotRunning(t) PROVE PipeMatchesQueue'
  BY <1>9, SamePipe DEF NotRunning, Unlock, Refused, Delete, AfterSubmit
<1>10. ASSUME NEW t \in Threads, Write(t) PROVE PipeMatchesQueue'
  <2>1. queue' = queue /\ pipe' = pipe + 1 /\ lock = t /\ pc[t] = "write"
    BY <1>10 DEF Write
  <2>2. pc[Main] \notin {"cancel", "end"}
    BY <1>10 DEF Write
  <2>3. \A u \in Threads : pc[u]' # "write"
    BY <1>10, <2>1 DEF Write, AfterSubmit
  <2> QED
    BY <2>1, <2>2, <2>3 DEF PipeMatchesQueue, Types, TypeOK
<1>11. ASSUME NEW t \in Threads, WriteFails(t) PROVE PipeMatchesQueue'
  <2>1. pipe' = pipe /\ lock = t /\ pc[t] = "write"
    BY <1>11 DEF WriteFails
  <2>2. pc[Main] \notin {"cancel", "end"}
    BY <1>11 DEF WriteFails
  <2>3. \A u \in Threads : pc[u]' # "write"
    BY <1>11, <2>1 DEF WriteFails, Refused, AfterSubmit
  <2>4. Len(queue) = pipe + 1
    BY <2>1, <2>2 DEF PipeMatchesQueue
  <2>5. Len(queue') = Len(queue) - 1
    BY <1>11, <2>4 DEF WriteFails, Types, TypeOK
  <2> QED
    BY <2>1, <2>3, <2>4, <2>5 DEF PipeMatchesQueue, Types, TypeOK
<1>12. ASSUME NEW t \in Threads, Return(t) PROVE PipeMatchesQueue'
  BY <1>12, SamePipe DEF Return
<1>13. ASSUME TestQuit PROVE PipeMatchesQueue'
  BY <1>13, SamePipe DEF TestQuit
<1>14. ASSUME NEW c \in Cmds, Reply(c) PROVE PipeMatchesQueue'
  BY <1>14, SamePipe DEF Reply, Answer, Delete
<1>15. ASSUME DeliverMessage PROVE PipeMatchesQueue'
  BY <1>15, SamePipe DEF DeliverMessage
<1>16. ASSUME EndPending PROVE PipeMatchesQueue'
  BY <1>16, SamePipe DEF EndPending
<1>17. ASSUME PollPipe PROVE PipeMatchesQueue'
  BY <1>17, SamePipe DEF PollPipe
<1>18. ASSUME PollOther PROVE PipeMatchesQueue'
  BY <1>18, SamePipe DEF PollOther
<1>19. ASSUME EnterOnCommand PROVE PipeMatchesQueue'
  BY <1>19, SamePipe DEF EnterOnCommand, Lock
<1>20. ASSUME DrainNext PROVE PipeMatchesQueue'
  BY <1>20, SamePipe DEF DrainNext, MoreCommands
<1>21. ASSUME DrainEnd PROVE PipeMatchesQueue'
  BY <1>21, SamePipe DEF DrainEnd, Unlock
<1>22. ASSUME ReadAndPop PROVE PipeMatchesQueue'
  <2>1. Len(queue') = Len(queue) - 1 /\ pipe' = pipe - 1
    BY <1>22 DEF ReadAndPop, Types, TypeOK, Filled
  <2>2. /\ \A u \in Threads : pc[u] # "write" /\ pc[u]' # "write"
        /\ pc[Main]' = pc[Main]
    BY <1>22 DEF ReadAndPop
  <2> QED
    BY <2>1, <2>2 DEF PipeMatchesQueue, Types, TypeOK
<1>23. ASSUME ExecAnswer PROVE PipeMatchesQueue'
  BY <1>23, SamePipe DEF ExecAnswer, Answer, Delete
<1>24. ASSUME ExecSilently PROVE PipeMatchesQueue'
  BY <1>24, SamePipe DEF ExecSilently, Delete
<1>25. ASSUME ExecRetain PROVE PipeMatchesQueue'
  BY <1>25, SamePipe DEF ExecRetain
<1>26. ASSUME ExecShutdown PROVE PipeMatchesQueue'
  BY <1>26, SamePipe DEF ExecShutdown, Answer, Delete
<1>27. ASSUME CallbackReturn PROVE PipeMatchesQueue'
  BY <1>27, SamePipe DEF CallbackReturn
<1>28. ASSUME LoopExit PROVE PipeMatchesQueue'
  BY <1>28, SamePipe DEF LoopExit
<1>29. ASSUME Join PROVE PipeMatchesQueue'
  BY <1>29, SamePipe DEF Join
<1>30. ASSUME LockToCancel PROVE PipeMatchesQueue'
  BY <1>30 DEF LockToCancel, Lock, PipeMatchesQueue
<1>31. ASSUME CancelNext PROVE PipeMatchesQueue'
  BY <1>31 DEF CancelNext, Answer, Delete, PipeMatchesQueue
<1>32. ASSUME DestroyEnd PROVE PipeMatchesQueue'
  BY <1>32 DEF DestroyEnd, Unlock, PipeMatchesQueue
<1>33. ASSUME UNCHANGED vars PROVE PipeMatchesQueue'
  BY <1>33 DEF vars, PipeMatchesQueue
<1>34. ASSUME ExecEscape PROVE PipeMatchesQueue'
  BY <1>34, SamePipe DEF ExecEscape, Unlock
<1> QED
  BY <1>1, <1>2, <1>3, <1>4, <1>5, <1>6, <1>7, <1>8, <1>9, <1>10, <1>11,
      <1>12, <1>13, <1>14, <1>15, <1>16, <1>17, <1>18, <1>19, <1>20, <1>21,
      <1>22, <1>23, <1>24, <1>25, <1>26, <1>27, <1>28, <1>29, <1>30, <1>31,
      <1>32, <1>33, <1>34 DEF Next, SubmitStep, DispStep, MainStep


-----------------------------------------------------------------------------
(* Sequences without repetition, taken apart and put together at an end.   *)

In(q, c) == \E i \in 1 .. Len(q) : q[i] = c

NoDup(q) == \A i, j \in 1 .. Len(q) : q[i] = q[j] => i = j

\* What Push does to the queue.
LEMMA AppendFacts ==
  ASSUME NEW S, NEW q \in Seq(S), NEW e \in S
  PROVE  /\ Append(q, e) # <<>>
         /\ \A c : In(Append(q, e), c) <=> In(q, c) \/ c = e
         /\ Append(q, e)[Len(Append(q, e))] = e
         /\ NoDup(q) /\ ~In(q, e) => NoDup(Append(q, e))
<1>1. /\ Len(q) \in Nat /\ Len(Append(q, e)) = Len(q) + 1
      /\ \A i \in 1 .. Len(q) : Append(q, e)[i] = q[i]
      /\ Append(q, e)[Len(q) + 1] = e
  BY AppendProperties
<1>2. Append(q, e) # <<>>
  BY AppendProperties
<1>3. ASSUME NEW c PROVE In(Append(q, e), c) <=> In(q, c) \/ c = e
  BY <1>1 DEF In
<1>4. NoDup(q) /\ ~In(q, e) => NoDup(Append(q, e))
  BY <1>1 DEF In, NoDup
<1> QED
  BY <1>1, <1>2, <1>3, <1>4

\* What onCommand and ~Dispatcher do when they take the first command.
LEMMA TailFacts ==
  ASSUME NEW S, NEW q \in Seq(S), q # <<>>
  PROVE  /\ Head(q) \in S
         /\ \A c : In(q, c) <=> In(Tail(q), c) \/ c = Head(q)
         /\ NoDup(q) => NoDup(Tail(q)) /\ ~In(Tail(q), Head(q))
<1>1. /\ Len(q) \in Nat \ {0} /\ Len(Tail(q)) = Len(q) - 1 /\ Head(q) = q[1]
      /\ \A i \in 1 .. Len(q) - 1 : Tail(q)[i] = q[i + 1]
  OBVIOUS
<1>2. ASSUME NEW c PROVE In(q, c) <=> In(Tail(q), c) \/ c = Head(q)
  <2>1. ASSUME In(q, c), c # Head(q) PROVE In(Tail(q), c)
    <3>1. PICK i \in 1 .. Len(q) : q[i] = c
      BY <2>1 DEF In
    <3>2. i - 1 \in 1 .. Len(Tail(q)) /\ Tail(q)[i - 1] = c
      BY <1>1, <2>1, <3>1
    <3> QED
      BY <3>2 DEF In
  <2>2. ASSUME In(Tail(q), c) PROVE In(q, c)
    <3>1. PICK i \in 1 .. Len(Tail(q)) : Tail(q)[i] = c
      BY <2>2 DEF In
    <3>2. i + 1 \in 1 .. Len(q) /\ q[i + 1] = c
      BY <1>1, <3>1
    <3> QED
      BY <3>2 DEF In
  <2>3. 1 \in 1 .. Len(q) /\ q[1] = Head(q)
    BY <1>1
  <2> QED
    BY <2>1, <2>2, <2>3 DEF In
<1>3. ASSUME NoDup(q) PROVE NoDup(Tail(q)) /\ ~In(Tail(q), Head(q))
  BY <1>1, <1>3 DEF In, NoDup
<1>4. Head(q) \in S
  OBVIOUS
<1> QED
  BY <1>2, <1>3, <1>4

\* What a failed write does to the queue.
LEMMA FrontFacts ==
  ASSUME NEW S, NEW q \in Seq(S), q # <<>>
  PROVE  /\ \A c : In(q, c) <=> In(SubSeq(q, 1, Len(q) - 1), c) \/ c = q[Len(q)]
         /\ NoDup(q) => /\ NoDup(SubSeq(q, 1, Len(q) - 1))
                        /\ ~In(SubSeq(q, 1, Len(q) - 1), q[Len(q)])
<1> DEFINE f == SubSeq(q, 1, Len(q) - 1)
<1> HIDE DEF f
<1>1. /\ Len(q) \in Nat \ {0} /\ Len(f) = Len(q) - 1
      /\ \A i \in 1 .. Len(q) - 1 : f[i] = q[i]
  <2>1. Len(q) \in Nat \ {0} /\ \A i \in 1 .. Len(q) - 1 : q[i] \in S
    BY EmptySeq, LenProperties
  <2>2. /\ Len(f) = IF 1 <= Len(q) - 1 THEN Len(q) - 1 - 1 + 1 ELSE 0
        /\ \A i \in 1 .. Len(q) - 1 - 1 + 1 : f[i] = q[1 + i - 1]
    BY <2>1, SubSeqProperties DEF f
  <2>3. Len(f) = Len(q) - 1
    <3>1. \A n \in Nat \ {0} : (IF 1 <= n - 1 THEN n - 1 - 1 + 1 ELSE 0) = n - 1
      OBVIOUS
    <3> QED
      BY <2>1, <2>2, <3>1
  <2>4. ASSUME NEW i \in 1 .. Len(q) - 1 PROVE f[i] = q[i]
    <3>1. i \in 1 .. Len(q) - 1 - 1 + 1 /\ 1 + i - 1 = i
      BY <2>1
    <3> QED
      BY <2>2, <3>1
  <2> QED
    BY <2>1, <2>3, <2>4
<1>2. ASSUME NEW c PROVE In(q, c) <=> In(f, c) \/ c = q[Len(q)]
  BY <1>1 DEF In
<1>3. NoDup(q) => NoDup(f) /\ ~In(f, q[Len(q)])
  BY <1>1 DEF In, NoDup
<1> QED
  BY <1>2, <1>3 DEF f

-----------------------------------------------------------------------------
(* Who owns each command.                                                  *)

\* A command being submitted exists, has no handle yet and belongs to one
\* thread; a command waited for has a handle and one waiting caller.
Arguments ==
  /\ \A t \in Threads :
       pc[t] \in Submitting => life[arg[t]] = "alive" /\ arg[t] \notin accepted
  /\ \A t \in Threads :
       pc[t] = "wait" => arg[t] \in Semaphored /\ arg[t] \in accepted
  /\ \A t, u \in Threads :
       pc[t] \in Submitting \cup {"wait"} /\ pc[u] \in Submitting \cup {"wait"}
         /\ arg[t] = arg[u] => t = u

\* The commands of the queue have a handle, but for the last while its byte
\* is being written.
InTransit ==
  /\ \A t \in Threads : pc[t] = "write" => queue # <<>> /\ queue[Len(queue)] = arg[t]
  /\ \A c \in Cmds :
       In(queue, c) => c \in accepted \/ \E t \in Threads : pc[t] = "write" /\ arg[t] = c

\* OneOwner, with the queue seen as a set without repetition.
Single ==
  /\ NoDup(queue)
  /\ \A c \in Cmds : In(queue, c) => life[c] = "alive" /\ c # cur /\ c \notin held
  /\ cur # NoCmd => life[cur] = "alive" /\ cur \notin held
  /\ \A c \in held : life[c] = "alive"

\* A command with a handle has an owner until it is deleted, unless it is an open
\* that an exception ended.
Owned ==
  /\ cur # NoCmd <=> pc[Disp] = "exec"
  /\ cur # NoCmd => cur \in accepted
  /\ held \subseteq accepted
  /\ \A c \in accepted :
       /\ life[c] \in {"alive", "deleted", "lost"}
       /\ life[c] = "lost" => c \in OpenCmds
       /\ life[c] = "alive" => In(queue, c) \/ c = cur \/ c \in held

Ownership == Arguments /\ InTransit /\ Single /\ Owned

\* The places where a thread holds the queue lock whoever it is.
LockLabels == {"push", "write", "drain", "read", "exec", "cancel"}

\* The lock does its work.
Exclusive ==
  /\ \A t, u \in Threads : pc[t] \in LockLabels /\ pc[u] \in LockLabels => t = u
  /\ destroyed => \A t \in Threads : pc[t] \notin LockLabels

\* Holding the lock is what Locking says of those places.
LEMMA MutualExclusion == Control => Exclusive
  BY ThreadFacts DEF Control, Locking, Exclusive, LockLabels

\* No command exists at the start.
LEMMA InitOwnership == Init => Ownership
<1> SUFFICES ASSUME Init PROVE Ownership
  OBVIOUS
<1> USE ThreadFacts, CommandFacts DEF Init
<1>1. Len(queue) = 0
  OBVIOUS
<1>2. /\ \A t \in Threads : pc[t] # "write"
      /\ \A t \in Threads : pc[t] # "wait" /\ pc[t] # "exec"
      /\ \A t \in Threads : pc[t] # "get" /\ pc[t] # "lock" /\ pc[t] # "push"
  OBVIOUS
<1>3. Arguments
  BY <1>2 DEF Arguments, Submitting
<1>4. InTransit
  BY <1>1, <1>2 DEF InTransit, In
<1>5. Single
  BY <1>1 DEF Single, In, NoDup
<1>6. Owned
  BY <1>2 DEF Owned
<1> QED
  BY <1>3, <1>4, <1>5, <1>6 DEF Ownership

\* A command passes from its caller to the queue, to onCommand, to a connection,
\* and is deleted by the last owner it had; no step leaves it with two.
LEMMA NextOwnership ==
  Control /\ Types /\ Types' /\ Ownership /\ [Next]_vars => Ownership'
<1> SUFFICES ASSUME Control, Types, Types', Ownership, [Next]_vars PROVE Ownership'
  OBVIOUS
<1>0. Exclusive
  BY MutualExclusion
<1> USE ThreadFacts, CommandFacts, <1>0
    DEF Goto, Types, TypeOK, Filled, Submitting, Exclusive, LockLabels,
        threadVars, lockVars, queueVars, loopVars, cmdVars, endVars
<1>1. ASSUME NEW t \in Clients, NEW c \in Calls, CallSync(t, c) PROVE Ownership'
  <2>2. Arguments'
    BY <1>1 DEF CallSync, NewCommand, Ownership, Arguments, Owned
  <2>3. InTransit'
    BY <1>1 DEF CallSync, NewCommand, Ownership, InTransit, Arguments
  <2>4. Single'
    BY <1>1 DEF CallSync, NewCommand, Ownership, Single, InTransit, Owned,
        Arguments
  <2>5. Owned'
    BY <1>1 DEF CallSync, NewCommand, Ownership, Owned, InTransit, Single,
        Arguments
  <2> QED
    BY <2>2, <2>3, <2>4, <2>5 DEF Ownership
<1>2. ASSUME NEW t \in Clients, NEW c \in Calls, CallAsync(t, c) PROVE Ownership'
  <2>2. Arguments'
    BY <1>2 DEF CallAsync, NewCommand, Ownership, Arguments, Owned
  <2>3. InTransit'
    BY <1>2 DEF CallAsync, NewCommand, Ownership, InTransit, Arguments
  <2>4. Single'
    BY <1>2 DEF CallAsync, NewCommand, Ownership, Single, InTransit, Owned,
        Arguments
  <2>5. Owned'
    BY <1>2 DEF CallAsync, NewCommand, Ownership, Owned, InTransit, Single,
        Arguments
  <2> QED
    BY <2>2, <2>3, <2>4, <2>5 DEF Ownership
<1>3. ASSUME NEW c \in Calls, CallFromCallback(c) PROVE Ownership'
  <2>2. Arguments'
    BY <1>3 DEF CallFromCallback, NewCommand, Ownership, Arguments, Owned
  <2>3. InTransit'
    BY <1>3 DEF CallFromCallback, NewCommand, Ownership, InTransit, Arguments
  <2>4. Single'
    BY <1>3 DEF CallFromCallback, NewCommand, Ownership, Single, InTransit,
        Owned, Arguments
  <2>5. Owned'
    BY <1>3 DEF CallFromCallback, NewCommand, Ownership, Owned, InTransit,
        Single, Arguments
  <2> QED
    BY <2>2, <2>3, <2>4, <2>5 DEF Ownership
<1>4. ASSUME CallShutdown PROVE Ownership'
  <2>2. Arguments'
    BY <1>4 DEF CallShutdown, NewCommand, Ownership, Arguments, Owned
  <2>3. InTransit'
    BY <1>4 DEF CallShutdown, NewCommand, Ownership, InTransit, Arguments
  <2>4. Single'
    BY <1>4 DEF CallShutdown, NewCommand, Ownership, Single, InTransit, Owned,
        Arguments
  <2>5. Owned'
    BY <1>4 DEF CallShutdown, NewCommand, Ownership, Owned, InTransit, Single,
        Arguments
  <2> QED
    BY <2>2, <2>3, <2>4, <2>5 DEF Ownership
<1>5. ASSUME NEW t \in Threads, GetDispatcher(t) PROVE Ownership'
  <2>2. Arguments'
    <3>1. CASE ~destroyed
      BY <1>5, <3>1 DEF GetDispatcher, Ownership, Arguments
    <3>2. CASE destroyed
      <4>1. /\ UNCHANGED <<arg, accepted>>
            /\ life' = [c \in Cmds |-> IF c = arg[t] THEN "deleted" ELSE life[c]]
            /\ pc[t] = "get"
            /\ pc' = [pc EXCEPT ![t] = AfterSubmit(t, FALSE)]
        BY <1>5, <3>2 DEF GetDispatcher, Refused, Delete
      <4>2. AfterSubmit(t, FALSE) \in {"callback", "join", "idle"}
        BY DEF AfterSubmit
      <4>3. /\ pc[t]' \in {"callback", "join", "idle"}
            /\ \A u \in Threads : u # t => pc[u]' = pc[u]
        BY <4>1, <4>2
      <4>4. ASSUME NEW u \in Threads, pc[u]' \in Submitting
            PROVE  arg[u] # arg[t] /\ arg[u] \in Cmds
        BY <4>1, <4>3, <4>4 DEF Ownership, Arguments
      <4>5. \A u \in Threads : pc[u]' \in Submitting =>
              life'[arg[u]] = "alive" /\ arg[u] \notin accepted
        BY <4>1, <4>3, <4>4 DEF Ownership, Arguments
      <4>6. \A u \in Threads : pc[u]' \in Submitting \cup {"wait"} => pc[u]' = pc[u]
        BY <4>3
      <4>7. \A u \in Threads :
              pc[u]' = "wait" => arg[u] \in Semaphored /\ arg[u] \in accepted
        BY <4>6 DEF Ownership, Arguments
      <4>8. \A u, v \in Threads :
              pc[u]' \in Submitting \cup {"wait"} /\ pc[v]' \in Submitting \cup {"wait"}
                /\ arg[u] = arg[v] => u = v
        BY <4>6 DEF Ownership, Arguments
      <4>9. arg' = arg /\ accepted' = accepted
        BY <4>1
      <4> QED
        BY <4>5, <4>7, <4>8, <4>9 DEF Arguments
    <3> QED
      BY <3>1, <3>2
  <2>3. InTransit'
    BY <1>5 DEF GetDispatcher, Refused, Delete, AfterSubmit, Ownership,
        InTransit, Arguments
  <2>4. Single'
    BY <1>5 DEF GetDispatcher, Refused, Delete, AfterSubmit, Ownership, Single,
        InTransit, Owned, Arguments
  <2>5. Owned'
    BY <1>5 DEF GetDispatcher, Refused, Delete, AfterSubmit, Ownership, Owned,
        InTransit, Single, Arguments
  <2> QED
    BY <2>2, <2>3, <2>4, <2>5 DEF Ownership
<1>6. ASSUME NEW t \in Threads, LockQueue(t) PROVE Ownership'
  <2>2. Arguments'
    BY <1>6 DEF LockQueue, Lock, Ownership, Arguments, Owned
  <2>3. InTransit'
    BY <1>6 DEF LockQueue, Lock, Ownership, InTransit, Arguments
  <2>4. Single'
    BY <1>6 DEF LockQueue, Lock, Ownership, Single, InTransit, Owned, Arguments
  <2>5. Owned'
    BY <1>6 DEF LockQueue, Lock, Ownership, Owned, InTransit, Single, Arguments
  <2> QED
    BY <2>2, <2>3, <2>4, <2>5 DEF Ownership
<1>7. ASSUME NEW t \in Threads, LockDestroyed(t) PROVE Ownership'
  <2>2. Arguments'
    BY <1>7 DEF LockDestroyed, Ownership, Arguments, Owned
  <2>3. InTransit'
    BY <1>7 DEF LockDestroyed, Ownership, InTransit, Arguments
  <2>4. Single'
    BY <1>7 DEF LockDestroyed, Ownership, Single, InTransit, Owned, Arguments
  <2>5. Owned'
    BY <1>7 DEF LockDestroyed, Ownership, Owned, InTransit, Single, Arguments
  <2> QED
    BY <2>2, <2>3, <2>4, <2>5 DEF Ownership
<1>8. ASSUME NEW t \in Threads, Push(t) PROVE Ownership'
  <2>1. /\ queue' # <<>>
        /\ \A c : In(queue', c) <=> In(queue, c) \/ c = arg[t]
        /\ queue'[Len(queue')] = arg[t]
        /\ NoDup(queue) /\ ~In(queue, arg[t]) => NoDup(queue')
    BY <1>8, AppendFacts DEF Push
  <2>2. Arguments'
    BY <1>8, <2>1 DEF Push, Ownership, Arguments, Owned
  <2>3. InTransit'
    BY <1>8, <2>1 DEF Push, Ownership, InTransit, Arguments
  <2>4. Single'
    BY <1>8, <2>1 DEF Push, Ownership, Single, InTransit, Owned, Arguments
  <2>5. Owned'
    BY <1>8, <2>1 DEF Push, Ownership, Owned, InTransit, Single, Arguments
  <2> QED
    BY <2>2, <2>3, <2>4, <2>5 DEF Ownership
<1>9. ASSUME NEW t \in Threads, NotRunning(t) PROVE Ownership'
  <2>2. Arguments'
    BY <1>9 DEF NotRunning, Unlock, Refused, Delete, AfterSubmit, Ownership,
        Arguments, Owned
  <2>3. InTransit'
    BY <1>9 DEF NotRunning, Unlock, Refused, Delete, AfterSubmit, Ownership,
        InTransit, Arguments
  <2>4. Single'
    BY <1>9 DEF NotRunning, Unlock, Refused, Delete, AfterSubmit, Ownership,
        Single, InTransit, Owned, Arguments
  <2>5. Owned'
    BY <1>9 DEF NotRunning, Unlock, Refused, Delete, AfterSubmit, Ownership,
        Owned, InTransit, Single, Arguments
  <2> QED
    BY <2>2, <2>3, <2>4, <2>5 DEF Ownership
<1>10. ASSUME NEW t \in Threads, Write(t) PROVE Ownership'
  <2>1. In(queue, arg[t])
    BY <1>10, LenProperties, EmptySeq DEF Write, Ownership, InTransit, In
  <2>2. Arguments'
    BY <1>10, <2>1 DEF Write, Unlock, AfterSubmit, Ownership, Arguments, Owned
  <2>3. InTransit'
    BY <1>10, <2>1 DEF Write, Unlock, AfterSubmit, Ownership, InTransit,
        Arguments
  <2>4. Single'
    BY <1>10, <2>1 DEF Write, Unlock, AfterSubmit, Ownership, Single, InTransit,
        Owned, Arguments
  <2>5. Owned'
    BY <1>10, <2>1 DEF Write, Unlock, AfterSubmit, Ownership, Owned, InTransit,
        Single, Arguments
  <2> QED
    BY <2>2, <2>3, <2>4, <2>5 DEF Ownership
<1>11. ASSUME NEW t \in Threads, WriteFails(t) PROVE Ownership'
  <2>1. /\ queue # <<>> /\ queue[Len(queue)] = arg[t]
        /\ queue' = SubSeq(queue, 1, Len(queue) - 1)
    BY <1>11 DEF WriteFails, Ownership, InTransit
  <2>6. /\ \A c : In(queue, c) <=> In(queue', c) \/ c = arg[t]
        /\ NoDup(queue) => NoDup(queue') /\ ~In(queue', arg[t])
    BY <2>1, FrontFacts
  <2>7. \A u \in Threads : pc[u]' # "write" /\ (pc[u] = "write" => u = t)
    BY <1>11 DEF WriteFails, Refused, AfterSubmit
  <2>2. Arguments'
    BY <1>11, <2>1, <2>6, <2>7 DEF WriteFails, Unlock, Refused, Delete, AfterSubmit,
        Ownership, Arguments, Owned
  <2>3. InTransit'
    <3>1. ASSUME NEW c \in Cmds, In(queue', c) PROVE c \in accepted
      BY <1>11, <3>1, <2>1, <2>6, <2>7 DEF Ownership, InTransit, Single
    <3>2. accepted' = accepted
      BY <1>11 DEF WriteFails, Refused
    <3> QED
      BY <2>7, <3>1, <3>2 DEF InTransit
  <2>4. Single'
    BY <1>11, <2>1, <2>6, <2>7 DEF WriteFails, Unlock, Refused, Delete, AfterSubmit,
        Ownership, Single, InTransit, Owned, Arguments
  <2>5. Owned'
    BY <1>11, <2>1, <2>6, <2>7 DEF WriteFails, Unlock, Refused, Delete, AfterSubmit,
        Ownership, Owned, InTransit, Single, Arguments
  <2> QED
    BY <2>2, <2>3, <2>4, <2>5 DEF Ownership
<1>12. ASSUME NEW t \in Threads, Return(t) PROVE Ownership'
  <2>2. Arguments'
    BY <1>12 DEF Return, Ownership, Arguments, Owned
  <2>3. InTransit'
    BY <1>12 DEF Return, Ownership, InTransit, Arguments
  <2>4. Single'
    BY <1>12 DEF Return, Ownership, Single, InTransit, Owned, Arguments
  <2>5. Owned'
    BY <1>12 DEF Return, Ownership, Owned, InTransit, Single, Arguments
  <2> QED
    BY <2>2, <2>3, <2>4, <2>5 DEF Ownership
<1>13. ASSUME TestQuit PROVE Ownership'
  <2>2. Arguments'
    BY <1>13 DEF TestQuit, Ownership, Arguments, Owned
  <2>3. InTransit'
    BY <1>13 DEF TestQuit, Ownership, InTransit, Arguments
  <2>4. Single'
    BY <1>13 DEF TestQuit, Ownership, Single, InTransit, Owned, Arguments
  <2>5. Owned'
    BY <1>13 DEF TestQuit, Ownership, Owned, InTransit, Single, Arguments
  <2> QED
    BY <2>2, <2>3, <2>4, <2>5 DEF Ownership
<1>14. ASSUME NEW c \in Cmds, Reply(c) PROVE Ownership'
  <2>2. Arguments'
    BY <1>14 DEF Reply, Answer, Delete, Ownership, Arguments, Owned
  <2>3. InTransit'
    BY <1>14 DEF Reply, Answer, Delete, Ownership, InTransit, Arguments
  <2>4. Single'
    BY <1>14 DEF Reply, Answer, Delete, Ownership, Single, InTransit, Owned,
        Arguments
  <2>5. Owned'
    BY <1>14 DEF Reply, Answer, Delete, Ownership, Owned, InTransit, Single,
        Arguments
  <2> QED
    BY <2>2, <2>3, <2>4, <2>5 DEF Ownership
<1>15. ASSUME DeliverMessage PROVE Ownership'
  <2>2. Arguments'
    BY <1>15 DEF DeliverMessage, Ownership, Arguments, Owned
  <2>3. InTransit'
    BY <1>15 DEF DeliverMessage, Ownership, InTransit, Arguments
  <2>4. Single'
    BY <1>15 DEF DeliverMessage, Ownership, Single, InTransit, Owned, Arguments
  <2>5. Owned'
    BY <1>15 DEF DeliverMessage, Ownership, Owned, InTransit, Single, Arguments
  <2> QED
    BY <2>2, <2>3, <2>4, <2>5 DEF Ownership
<1>16. ASSUME EndPending PROVE Ownership'
  <2>2. Arguments'
    BY <1>16 DEF EndPending, Ownership, Arguments, Owned
  <2>3. InTransit'
    BY <1>16 DEF EndPending, Ownership, InTransit, Arguments
  <2>4. Single'
    BY <1>16 DEF EndPending, Ownership, Single, InTransit, Owned, Arguments
  <2>5. Owned'
    BY <1>16 DEF EndPending, Ownership, Owned, InTransit, Single, Arguments
  <2> QED
    BY <2>2, <2>3, <2>4, <2>5 DEF Ownership
<1>17. ASSUME PollPipe PROVE Ownership'
  <2>2. Arguments'
    BY <1>17 DEF PollPipe, Ownership, Arguments, Owned
  <2>3. InTransit'
    BY <1>17 DEF PollPipe, Ownership, InTransit, Arguments
  <2>4. Single'
    BY <1>17 DEF PollPipe, Ownership, Single, InTransit, Owned, Arguments
  <2>5. Owned'
    BY <1>17 DEF PollPipe, Ownership, Owned, InTransit, Single, Arguments
  <2> QED
    BY <2>2, <2>3, <2>4, <2>5 DEF Ownership
<1>18. ASSUME PollOther PROVE Ownership'
  <2>2. Arguments'
    BY <1>18 DEF PollOther, Ownership, Arguments, Owned
  <2>3. InTransit'
    BY <1>18 DEF PollOther, Ownership, InTransit, Arguments
  <2>4. Single'
    BY <1>18 DEF PollOther, Ownership, Single, InTransit, Owned, Arguments
  <2>5. Owned'
    BY <1>18 DEF PollOther, Ownership, Owned, InTransit, Single, Arguments
  <2> QED
    BY <2>2, <2>3, <2>4, <2>5 DEF Ownership
<1>19. ASSUME EnterOnCommand PROVE Ownership'
  <2>2. Arguments'
    BY <1>19 DEF EnterOnCommand, Lock, Ownership, Arguments, Owned
  <2>3. InTransit'
    BY <1>19 DEF EnterOnCommand, Lock, Ownership, InTransit, Arguments
  <2>4. Single'
    BY <1>19 DEF EnterOnCommand, Lock, Ownership, Single, InTransit, Owned,
        Arguments
  <2>5. Owned'
    BY <1>19 DEF EnterOnCommand, Lock, Ownership, Owned, InTransit, Single,
        Arguments
  <2> QED
    BY <2>2, <2>3, <2>4, <2>5 DEF Ownership
<1>20. ASSUME DrainNext PROVE Ownership'
  <2>2. Arguments'
    BY <1>20 DEF DrainNext, MoreCommands, Ownership, Arguments, Owned
  <2>3. InTransit'
    BY <1>20 DEF DrainNext, MoreCommands, Ownership, InTransit, Arguments
  <2>4. Single'
    BY <1>20 DEF DrainNext, MoreCommands, Ownership, Single, InTransit, Owned,
        Arguments
  <2>5. Owned'
    BY <1>20 DEF DrainNext, MoreCommands, Ownership, Owned, InTransit, Single,
        Arguments
  <2> QED
    BY <2>2, <2>3, <2>4, <2>5 DEF Ownership
<1>21. ASSUME DrainEnd PROVE Ownership'
  <2>2. Arguments'
    BY <1>21 DEF DrainEnd, Unlock, Ownership, Arguments, Owned
  <2>3. InTransit'
    BY <1>21 DEF DrainEnd, Unlock, Ownership, InTransit, Arguments
  <2>4. Single'
    BY <1>21 DEF DrainEnd, Unlock, Ownership, Single, InTransit, Owned, Arguments
  <2>5. Owned'
    BY <1>21 DEF DrainEnd, Unlock, Ownership, Owned, InTransit, Single, Arguments
  <2> QED
    BY <2>2, <2>3, <2>4, <2>5 DEF Ownership
<1>22. ASSUME ReadAndPop PROVE Ownership'
  <2>1. /\ cur' \in Cmds /\ cur' = Head(queue)
        /\ \A c : In(queue, c) <=> In(queue', c) \/ c = cur'
        /\ NoDup(queue) => NoDup(queue') /\ ~In(queue', cur')
    BY <1>22, TailFacts DEF ReadAndPop
  <2>2. Arguments'
    BY <1>22, <2>1 DEF ReadAndPop, Ownership, Arguments, Owned
  <2>3. InTransit'
    BY <1>22, <2>1 DEF ReadAndPop, Ownership, InTransit, Arguments
  <2>4. Single'
    BY <1>22, <2>1 DEF ReadAndPop, Ownership, Single, InTransit, Owned, Arguments
  <2>5. Owned'
    BY <1>22, <2>1 DEF ReadAndPop, Ownership, Owned, InTransit, Single, Arguments
  <2> QED
    BY <2>2, <2>3, <2>4, <2>5 DEF Ownership
<1>23. ASSUME ExecAnswer PROVE Ownership'
  <2>2. Arguments'
    BY <1>23 DEF ExecAnswer, Answer, Delete, Ownership, Arguments, Owned
  <2>3. InTransit'
    BY <1>23 DEF ExecAnswer, Answer, Delete, Ownership, InTransit, Arguments
  <2>4. Single'
    BY <1>23 DEF ExecAnswer, Answer, Delete, Ownership, Single, InTransit, Owned,
        Arguments
  <2>5. Owned'
    BY <1>23 DEF ExecAnswer, Answer, Delete, Ownership, Owned, InTransit, Single,
        Arguments
  <2> QED
    BY <2>2, <2>3, <2>4, <2>5 DEF Ownership
<1>24. ASSUME ExecSilently PROVE Ownership'
  <2>2. Arguments'
    BY <1>24 DEF ExecSilently, Delete, Ownership, Arguments, Owned
  <2>3. InTransit'
    BY <1>24 DEF ExecSilently, Delete, Ownership, InTransit, Arguments
  <2>4. Single'
    BY <1>24 DEF ExecSilently, Delete, Ownership, Single, InTransit, Owned,
        Arguments
  <2>5. Owned'
    BY <1>24 DEF ExecSilently, Delete, Ownership, Owned, InTransit, Single,
        Arguments
  <2> QED
    BY <2>2, <2>3, <2>4, <2>5 DEF Ownership
<1>25. ASSUME ExecRetain PROVE Ownership'
  <2>2. Arguments'
    BY <1>25 DEF ExecRetain, Ownership, Arguments, Owned
  <2>3. InTransit'
    BY <1>25 DEF ExecRetain, Ownership, InTransit, Arguments
  <2>4. Single'
    BY <1>25 DEF ExecRetain, Ownership, Single, InTransit, Owned, Arguments
  <2>5. Owned'
    BY <1>25 DEF ExecRetain, Ownership, Owned, InTransit, Single, Arguments
  <2> QED
    BY <2>2, <2>3, <2>4, <2>5 DEF Ownership
<1>26. ASSUME ExecShutdown PROVE Ownership'
  <2>2. Arguments'
    BY <1>26 DEF ExecShutdown, Answer, Delete, Ownership, Arguments, Owned
  <2>3. InTransit'
    BY <1>26 DEF ExecShutdown, Answer, Delete, Ownership, InTransit, Arguments
  <2>4. Single'
    BY <1>26 DEF ExecShutdown, Answer, Delete, Ownership, Single, InTransit,
        Owned, Arguments
  <2>5. Owned'
    BY <1>26 DEF ExecShutdown, Answer, Delete, Ownership, Owned, InTransit,
        Single, Arguments
  <2> QED
    BY <2>2, <2>3, <2>4, <2>5 DEF Ownership
<1>27. ASSUME CallbackReturn PROVE Ownership'
  <2>2. Arguments'
    BY <1>27 DEF CallbackReturn, Ownership, Arguments, Owned
  <2>3. InTransit'
    BY <1>27 DEF CallbackReturn, Ownership, InTransit, Arguments
  <2>4. Single'
    BY <1>27 DEF CallbackReturn, Ownership, Single, InTransit, Owned, Arguments
  <2>5. Owned'
    BY <1>27 DEF CallbackReturn, Ownership, Owned, InTransit, Single, Arguments
  <2> QED
    BY <2>2, <2>3, <2>4, <2>5 DEF Ownership
<1>28. ASSUME LoopExit PROVE Ownership'
  <2>2. Arguments'
    BY <1>28 DEF LoopExit, Ownership, Arguments, Owned
  <2>3. InTransit'
    BY <1>28 DEF LoopExit, Ownership, InTransit, Arguments
  <2>4. Single'
    BY <1>28 DEF LoopExit, Ownership, Single, InTransit, Owned, Arguments
  <2>5. Owned'
    BY <1>28 DEF LoopExit, Ownership, Owned, InTransit, Single, Arguments
  <2> QED
    BY <2>2, <2>3, <2>4, <2>5 DEF Ownership
<1>29. ASSUME Join PROVE Ownership'
  <2>2. Arguments'
    BY <1>29 DEF Join, Ownership, Arguments, Owned
  <2>3. InTransit'
    BY <1>29 DEF Join, Ownership, InTransit, Arguments
  <2>4. Single'
    BY <1>29 DEF Join, Ownership, Single, InTransit, Owned, Arguments
  <2>5. Owned'
    BY <1>29 DEF Join, Ownership, Owned, InTransit, Single, Arguments
  <2> QED
    BY <2>2, <2>3, <2>4, <2>5 DEF Ownership
<1>30. ASSUME LockToCancel PROVE Ownership'
  <2>2. Arguments'
    BY <1>30 DEF LockToCancel, Lock, Ownership, Arguments, Owned
  <2>3. InTransit'
    BY <1>30 DEF LockToCancel, Lock, Ownership, InTransit, Arguments
  <2>4. Single'
    BY <1>30 DEF LockToCancel, Lock, Ownership, Single, InTransit, Owned,
        Arguments
  <2>5. Owned'
    BY <1>30 DEF LockToCancel, Lock, Ownership, Owned, InTransit, Single,
        Arguments
  <2> QED
    BY <2>2, <2>3, <2>4, <2>5 DEF Ownership
<1>31. ASSUME CancelNext PROVE Ownership'
  <2>1. /\ Head(queue) \in Cmds
        /\ \A c : In(queue, c) <=> In(queue', c) \/ c = Head(queue)
        /\ NoDup(queue) => NoDup(queue') /\ ~In(queue', Head(queue))
    BY <1>31, TailFacts DEF CancelNext
  <2>6. Head(queue) \in accepted
    BY <1>31, <2>1 DEF CancelNext, Ownership, InTransit
  <2>2. Arguments'
    BY <1>31, <2>1, <2>6 DEF CancelNext, Answer, Delete, Ownership, Arguments, Owned
  <2>3. InTransit'
    BY <1>31, <2>1 DEF CancelNext, Answer, Delete, Ownership, InTransit,
        Arguments
  <2>4. Single'
    BY <1>31, <2>1 DEF CancelNext, Answer, Delete, Ownership, Single, InTransit,
        Owned, Arguments
  <2>5. Owned'
    BY <1>31, <2>1 DEF CancelNext, Answer, Delete, Ownership, Owned, InTransit,
        Single, Arguments
  <2> QED
    BY <2>2, <2>3, <2>4, <2>5 DEF Ownership
<1>32. ASSUME DestroyEnd PROVE Ownership'
  <2>2. Arguments'
    BY <1>32 DEF DestroyEnd, Unlock, Ownership, Arguments, Owned
  <2>3. InTransit'
    BY <1>32 DEF DestroyEnd, Unlock, Ownership, InTransit, Arguments
  <2>4. Single'
    BY <1>32 DEF DestroyEnd, Unlock, Ownership, Single, InTransit, Owned,
        Arguments
  <2>5. Owned'
    BY <1>32 DEF DestroyEnd, Unlock, Ownership, Owned, InTransit, Single,
        Arguments
  <2> QED
    BY <2>2, <2>3, <2>4, <2>5 DEF Ownership
<1>33. ASSUME UNCHANGED vars PROVE Ownership'
  BY <1>33 DEF vars, Ownership, Arguments, InTransit, Single, Owned
<1>34. ASSUME ExecEscape PROVE Ownership'
  <2>2. Arguments'
    BY <1>34 DEF ExecEscape, Unlock, Ownership, Arguments, Owned
  <2>3. InTransit'
    BY <1>34 DEF ExecEscape, Unlock, Ownership, InTransit, Arguments
  <2>4. Single'
    BY <1>34 DEF ExecEscape, Unlock, Ownership, Single, InTransit, Owned, Arguments
  <2>5. Owned'
    BY <1>34 DEF ExecEscape, Unlock, Ownership, Owned, InTransit, Single, Arguments
  <2> QED
    BY <2>2, <2>3, <2>4, <2>5 DEF Ownership
<1> QED
  BY <1>1, <1>2, <1>3, <1>4, <1>5, <1>6, <1>7, <1>8, <1>9, <1>10, <1>11,
      <1>12, <1>13, <1>14, <1>15, <1>16, <1>17, <1>18, <1>19, <1>20, <1>21,
      <1>22, <1>23, <1>24, <1>25, <1>26, <1>27, <1>28, <1>29, <1>30, <1>31,
      <1>32, <1>33, <1>34 DEF Next, SubmitStep, DispStep, MainStep


-----------------------------------------------------------------------------
(* Answers, and the end of the dispatcher.                                 *)

\* The semaphore of an answered caller stays posted until it returns; only
\* DBUSIPC_shutdown waits for the shutdown command.
Posted ==
  /\ \A t \in Threads : pc[t] = "wait" /\ life[arg[t]] = "deleted" => sem[arg[t]] = 1
  /\ \A t \in Threads :
       pc[t] \in Submitting \cup {"wait"} /\ arg[t] = ShutdownCmd => t = Main

\* Once the shutdown was executed, no request is held, and the dispatcher
\* thread is in onCommand or on its way out, where it leaves late commands only
\* if no exception cut onCommand short.
Stopping ==
  /\ quit => held = {} /\ life[ShutdownCmd] = "deleted"
  /\ quit => lock = Disp \/ pc[Disp] \in {"test", "exit", "dead"}
  /\ quit /\ pc[Disp] \in {"push", "write"} => depth = 2
  /\ pc[Disp] \in {"exit", "dead"} => quit
  /\ quit /\ pc[Disp] \in {"test", "exit", "dead"} =>
       cut \/ \A c \in Cmds : In(queue, c) /\ c \in accepted => c \in late
  /\ destroyed => queue = <<>>

Answers == AnsweredOnce /\ Posted /\ Stopping

\* Nothing was answered at the start.
LEMMA InitAnswers == Init => Answers
<1> SUFFICES ASSUME Init PROVE Answers
  OBVIOUS
<1> USE ThreadFacts, CommandFacts DEF Init
<1>1. AnsweredOnce
  BY DEF AnsweredOnce
<1>2. /\ \A t \in Threads : pc[t] # "wait"
      /\ \A t \in Threads : pc[t] # "get" /\ pc[t] # "lock" /\ pc[t] # "push"
      /\ \A t \in Threads : pc[t] # "write"
      /\ pc[Disp] = "test"
  OBVIOUS
<1>3. Posted
  BY <1>2 DEF Posted, Submitting
<1>4. Stopping
  BY <1>2 DEF Stopping
<1> QED
  BY <1>1, <1>3, <1>4 DEF Answers

\* Commands are answered by the owner that deletes them, and only then.
LEMMA NextAnsweredOnce ==
  Control /\ Types /\ Ownership /\ AnsweredOnce /\ [Next]_vars => AnsweredOnce'
<1> SUFFICES ASSUME Control, Types, Ownership, AnsweredOnce, [Next]_vars
             PROVE  AnsweredOnce'
  OBVIOUS
<1>0. Exclusive
  BY MutualExclusion
<1> USE ThreadFacts, CommandFacts
    DEF Types, TypeOK, Filled, Submitting, Ownership, AnsweredOnce,
        threadVars, lockVars, queueVars, loopVars, cmdVars, endVars
<1>1. ASSUME NEW t \in Clients, NEW c \in Calls, CallSync(t, c) PROVE AnsweredOnce'
  BY <1>1 DEF CallSync, NewCommand, Owned, Single
<1>2. ASSUME NEW t \in Clients, NEW c \in Calls, CallAsync(t, c) PROVE AnsweredOnce'
  BY <1>2 DEF CallAsync, NewCommand, Owned, Single
<1>3. ASSUME NEW c \in Calls, CallFromCallback(c) PROVE AnsweredOnce'
  BY <1>3 DEF CallFromCallback, NewCommand, Owned, Single
<1>4. ASSUME CallShutdown PROVE AnsweredOnce'
  BY <1>4 DEF CallShutdown, NewCommand, Owned, Single
<1>5. ASSUME NEW t \in Threads, GetDispatcher(t) PROVE AnsweredOnce'
  <2>1. CASE ~destroyed
    BY <1>5, <2>1 DEF GetDispatcher
  <2>2. CASE destroyed
    BY <1>5, <2>2 DEF GetDispatcher, Refused, Delete, Arguments, AfterSubmit
  <2> QED
    BY <2>1, <2>2
<1>6. ASSUME NEW t \in Threads, LockQueue(t) PROVE AnsweredOnce'
  BY <1>6 DEF LockQueue, Lock
<1>7. ASSUME NEW t \in Threads, LockDestroyed(t) PROVE AnsweredOnce'
  BY <1>7 DEF LockDestroyed
<1>8. ASSUME NEW t \in Threads, Push(t) PROVE AnsweredOnce'
  BY <1>8 DEF Push
<1>9. ASSUME NEW t \in Threads, NotRunning(t) PROVE AnsweredOnce'
  BY <1>9 DEF NotRunning, Unlock, Refused, Delete, Arguments
<1>10. ASSUME NEW t \in Threads, Write(t) PROVE AnsweredOnce'
  BY <1>10 DEF Write, Unlock, Arguments
<1>11. ASSUME NEW t \in Threads, WriteFails(t) PROVE AnsweredOnce'
  BY <1>11 DEF WriteFails, Unlock, Refused, Delete, Arguments
<1>12. ASSUME NEW t \in Threads, Return(t) PROVE AnsweredOnce'
  BY <1>12 DEF Return
<1>13. ASSUME TestQuit PROVE AnsweredOnce'
  BY <1>13 DEF TestQuit
<1>14. ASSUME NEW c \in Cmds, Reply(c) PROVE AnsweredOnce'
  BY <1>14 DEF Reply, Answer, Delete, Owned, Single
<1>15. ASSUME DeliverMessage PROVE AnsweredOnce'
  BY <1>15 DEF DeliverMessage
<1>16. ASSUME EndPending PROVE AnsweredOnce'
  BY <1>16 DEF EndPending
<1>17. ASSUME PollPipe PROVE AnsweredOnce'
  BY <1>17 DEF PollPipe
<1>18. ASSUME PollOther PROVE AnsweredOnce'
  BY <1>18 DEF PollOther
<1>19. ASSUME EnterOnCommand PROVE AnsweredOnce'
  BY <1>19 DEF EnterOnCommand, Lock
<1>20. ASSUME DrainNext PROVE AnsweredOnce'
  BY <1>20 DEF DrainNext, MoreCommands
<1>21. ASSUME DrainEnd PROVE AnsweredOnce'
  BY <1>21 DEF DrainEnd, Unlock
<1>22. ASSUME ReadAndPop PROVE AnsweredOnce'
  BY <1>22 DEF ReadAndPop
<1>23. ASSUME ExecAnswer PROVE AnsweredOnce'
  BY <1>23 DEF ExecAnswer, Answer, Delete, Owned, Single
<1>24. ASSUME ExecSilently PROVE AnsweredOnce'
  BY <1>24 DEF ExecSilently, Delete, Owned, Single
<1>25. ASSUME ExecRetain PROVE AnsweredOnce'
  BY <1>25 DEF ExecRetain
<1>26. ASSUME ExecShutdown PROVE AnsweredOnce'
  BY <1>26 DEF ExecShutdown, Answer, Delete, Owned, Single
<1>27. ASSUME CallbackReturn PROVE AnsweredOnce'
  BY <1>27 DEF CallbackReturn
<1>28. ASSUME LoopExit PROVE AnsweredOnce'
  BY <1>28 DEF LoopExit
<1>29. ASSUME Join PROVE AnsweredOnce'
  BY <1>29 DEF Join
<1>30. ASSUME LockToCancel PROVE AnsweredOnce'
  BY <1>30 DEF LockToCancel, Lock
<1>31. ASSUME CancelNext PROVE AnsweredOnce'
  <2>1. Head(queue) \in Cmds /\ In(queue, Head(queue))
    BY <1>31, TailFacts DEF CancelNext
  <2>2. life[Head(queue)] = "alive" /\ pc' = pc /\ accepted' = accepted
    BY <1>31, <2>1 DEF CancelNext, Single
  <2>3. Head(queue) \in accepted
    BY <1>31, <2>1, <1>0 DEF CancelNext, InTransit, Exclusive, LockLabels
  <2> QED
    BY <1>31, <2>1, <2>2, <2>3 DEF CancelNext, Answer, Delete
<1>32. ASSUME DestroyEnd PROVE AnsweredOnce'
  BY <1>32 DEF DestroyEnd, Unlock
<1>33. ASSUME UNCHANGED vars PROVE AnsweredOnce'
  BY <1>33 DEF vars
<1>34. ASSUME ExecEscape PROVE AnsweredOnce'
  BY <1>34 DEF ExecEscape, Unlock, Owned, Single
<1> QED
  BY <1>1, <1>2, <1>3, <1>4, <1>5, <1>6, <1>7, <1>8, <1>9, <1>10, <1>11,
      <1>12, <1>13, <1>14, <1>15, <1>16, <1>17, <1>18, <1>19, <1>20, <1>21,
      <1>22, <1>23, <1>24, <1>25, <1>26, <1>27, <1>28, <1>29, <1>30, <1>31,
      <1>32, <1>33, <1>34 DEF Next, SubmitStep, DispStep, MainStep

\* A waiting caller's semaphore is posted with the deletion of its command, and
\* nobody else takes the post.
LEMMA NextPosted ==
  Control /\ Types /\ Types' /\ Ownership /\ Posted /\ [Next]_vars => Posted'
<1> SUFFICES ASSUME Control, Types, Types', Ownership, Posted, [Next]_vars
             PROVE  Posted'
  OBVIOUS
<1>0. Exclusive
  BY MutualExclusion
<1> USE ThreadFacts, CommandFacts
    DEF Types, TypeOK, Filled, Submitting, Ownership, Arguments, Posted, Goto,
        threadVars, lockVars, queueVars, loopVars, cmdVars, endVars
<1>1. ASSUME NEW t \in Clients, NEW c \in Calls, CallSync(t, c) PROVE Posted'
  BY <1>1 DEF CallSync, NewCommand, Owned
<1>2. ASSUME NEW t \in Clients, NEW c \in Calls, CallAsync(t, c) PROVE Posted'
  BY <1>2 DEF CallAsync, NewCommand, Owned
<1>3. ASSUME NEW c \in Calls, CallFromCallback(c) PROVE Posted'
  BY <1>3 DEF CallFromCallback, NewCommand, Owned
<1>4. ASSUME CallShutdown PROVE Posted'
  BY <1>4 DEF CallShutdown, NewCommand, Owned
<1>5. ASSUME NEW t \in Threads, GetDispatcher(t) PROVE Posted'
  <2>1. CASE ~destroyed
    BY <1>5, <2>1 DEF GetDispatcher
  <2>2. CASE destroyed
    BY <1>5, <2>2 DEF GetDispatcher, Refused, Delete, Arguments, AfterSubmit
  <2> QED
    BY <2>1, <2>2
<1>6. ASSUME NEW t \in Threads, LockQueue(t) PROVE Posted'
  BY <1>6 DEF LockQueue, Lock
<1>7. ASSUME NEW t \in Threads, LockDestroyed(t) PROVE Posted'
  BY <1>7 DEF LockDestroyed
<1>8. ASSUME NEW t \in Threads, Push(t) PROVE Posted'
  BY <1>8 DEF Push
<1>9. ASSUME NEW t \in Threads, NotRunning(t) PROVE Posted'
  BY <1>9 DEF NotRunning, Unlock, Refused, Delete, AfterSubmit
<1>10. ASSUME NEW t \in Threads, Write(t) PROVE Posted'
  BY <1>10 DEF Write, Unlock, AfterSubmit
<1>11. ASSUME NEW t \in Threads, WriteFails(t) PROVE Posted'
  BY <1>11 DEF WriteFails, Unlock, Refused, Delete, AfterSubmit
<1>12. ASSUME NEW t \in Threads, Return(t) PROVE Posted'
  BY <1>12 DEF Return
<1>13. ASSUME TestQuit PROVE Posted'
  BY <1>13 DEF TestQuit
<1>14. ASSUME NEW c \in Cmds, Reply(c) PROVE Posted'
  BY <1>14 DEF Reply, Answer, Delete
<1>15. ASSUME DeliverMessage PROVE Posted'
  BY <1>15 DEF DeliverMessage
<1>16. ASSUME EndPending PROVE Posted'
  BY <1>16 DEF EndPending
<1>17. ASSUME PollPipe PROVE Posted'
  BY <1>17 DEF PollPipe
<1>18. ASSUME PollOther PROVE Posted'
  BY <1>18 DEF PollOther
<1>19. ASSUME EnterOnCommand PROVE Posted'
  BY <1>19 DEF EnterOnCommand, Lock
<1>20. ASSUME DrainNext PROVE Posted'
  BY <1>20 DEF DrainNext, MoreCommands
<1>21. ASSUME DrainEnd PROVE Posted'
  BY <1>21 DEF DrainEnd, Unlock
<1>22. ASSUME ReadAndPop PROVE Posted'
  BY <1>22 DEF ReadAndPop
<1>23. ASSUME ExecAnswer PROVE Posted'
  BY <1>23 DEF ExecAnswer, Answer, Delete, Owned
<1>24. ASSUME ExecSilently PROVE Posted'
  BY <1>24 DEF ExecSilently, Delete, Owned
<1>25. ASSUME ExecRetain PROVE Posted'
  BY <1>25 DEF ExecRetain
<1>26. ASSUME ExecShutdown PROVE Posted'
  BY <1>26 DEF ExecShutdown, Answer, Delete, Owned
<1>27. ASSUME CallbackReturn PROVE Posted'
  BY <1>27 DEF CallbackReturn
<1>28. ASSUME LoopExit PROVE Posted'
  BY <1>28 DEF LoopExit
<1>29. ASSUME Join PROVE Posted'
  BY <1>29 DEF Join
<1>30. ASSUME LockToCancel PROVE Posted'
  BY <1>30 DEF LockToCancel, Lock
<1>31. ASSUME CancelNext PROVE Posted'
  <2>1. Head(queue) \in Cmds /\ UNCHANGED <<pc, arg>> /\ pc[Main] = "cancel"
    BY <1>31, TailFacts DEF CancelNext
  <2>2. \A t \in Threads : pc[t] = "wait" => t # Main /\ arg[t] \in Semaphored
    BY <2>1
  <2>3. /\ life' = [c \in Cmds |-> IF c = Head(queue) THEN "deleted" ELSE life[c]]
        /\ Head(queue) \in SyncCmds => sem'[Head(queue)] = 1
        /\ \A c \in Cmds : sem[c] = 1 => sem'[c] = 1
    BY <1>31, <2>1 DEF CancelNext, Answer, Delete
  <2> QED
    BY <2>1, <2>2, <2>3
<1>32. ASSUME DestroyEnd PROVE Posted'
  BY <1>32 DEF DestroyEnd, Unlock
<1>33. ASSUME UNCHANGED vars PROVE Posted'
  BY <1>33 DEF vars
<1>34. ASSUME ExecEscape PROVE Posted'
  BY <1>34 DEF ExecEscape, Unlock, Owned, Single
<1> QED
  BY <1>1, <1>2, <1>3, <1>4, <1>5, <1>6, <1>7, <1>8, <1>9, <1>10, <1>11,
      <1>12, <1>13, <1>14, <1>15, <1>16, <1>17, <1>18, <1>19, <1>20, <1>21,
      <1>22, <1>23, <1>24, <1>25, <1>26, <1>27, <1>28, <1>29, <1>30, <1>31,
      <1>32, <1>33, <1>34 DEF Next, SubmitStep, DispStep, MainStep

\* The queue is empty when onCommand returns after the shutdown, unless by an
\* exception, and every command accepted from then on is a late one.
LEMMA NextStopping ==
  Control /\ Control' /\ Types /\ Types' /\ Ownership /\ Stopping /\ [Next]_vars => Stopping'
<1> SUFFICES ASSUME Control, Control', Types, Types', Ownership, Stopping, [Next]_vars
             PROVE  Stopping'
  OBVIOUS
<1>0. Exclusive
  BY MutualExclusion
<1> USE ThreadFacts, CommandFacts
    DEF Control, Places, Locking, MainLabels, ClientLabels, DispLabels, Types,
        TypeOK, Filled, Stopping, Goto,
        threadVars, lockVars, queueVars, loopVars, cmdVars, endVars
<1>1. ASSUME NEW t \in Clients, NEW c \in Calls, CallSync(t, c) PROVE Stopping'
  BY <1>1 DEF CallSync, NewCommand
<1>2. ASSUME NEW t \in Clients, NEW c \in Calls, CallAsync(t, c) PROVE Stopping'
  BY <1>2 DEF CallAsync, NewCommand
<1>3. ASSUME NEW c \in Calls, CallFromCallback(c) PROVE Stopping'
  BY <1>3 DEF CallFromCallback, NewCommand
<1>4. ASSUME CallShutdown PROVE Stopping'
  BY <1>4 DEF CallShutdown, NewCommand
<1>5. ASSUME NEW t \in Threads, GetDispatcher(t) PROVE Stopping'
  BY <1>5 DEF GetDispatcher, Refused, Delete, AfterSubmit, Ownership,
      Arguments
<1>6. ASSUME NEW t \in Threads, LockQueue(t) PROVE Stopping'
  BY <1>6 DEF LockQueue, Lock
<1>7. ASSUME NEW t \in Threads, LockDestroyed(t) PROVE Stopping'
  BY <1>7 DEF LockDestroyed
<1>8. ASSUME NEW t \in Threads, Push(t) PROVE Stopping'
  <2>1. \A c : In(queue', c) <=> In(queue, c) \/ c = arg[t]
    BY <1>8, AppendFacts DEF Push, Submitting
  <2>2. arg[t] \notin accepted
    BY <1>8 DEF Push, Ownership, Arguments, Submitting
  <2> QED
    BY <1>8, <2>1, <2>2, <1>0 DEF Push, Exclusive, LockLabels
<1>9. ASSUME NEW t \in Threads, NotRunning(t) PROVE Stopping'
  BY <1>9 DEF NotRunning, Unlock, Refused, Delete, AfterSubmit, Ownership,
      Arguments
<1>10. ASSUME NEW t \in Threads, Write(t) PROVE Stopping'
  BY <1>10 DEF Write, Unlock, AfterSubmit, Ownership, Arguments
<1>11. ASSUME NEW t \in Threads, WriteFails(t) PROVE Stopping'
  <2>1. queue # <<>> /\ queue' = SubSeq(queue, 1, Len(queue) - 1)
    BY <1>11 DEF WriteFails, Ownership, InTransit
  <2>2. \A c : In(queue', c) => In(queue, c)
    BY <2>1, FrontFacts
  <2> QED
    BY <1>11, <2>1, <2>2, <1>0 DEF WriteFails, Refused, Delete, Unlock, AfterSubmit,
       Exclusive, LockLabels
<1>12. ASSUME NEW t \in Threads, Return(t) PROVE Stopping'
  BY <1>12 DEF Return
<1>13. ASSUME TestQuit PROVE Stopping'
  BY <1>13 DEF TestQuit
<1>14. ASSUME NEW c \in Cmds, Reply(c) PROVE Stopping'
  BY <1>14 DEF Reply, Answer, Delete
<1>15. ASSUME DeliverMessage PROVE Stopping'
  BY <1>15 DEF DeliverMessage
<1>16. ASSUME EndPending PROVE Stopping'
  BY <1>16 DEF EndPending
<1>17. ASSUME PollPipe PROVE Stopping'
  BY <1>17 DEF PollPipe
<1>18. ASSUME PollOther PROVE Stopping'
  BY <1>18 DEF PollOther
<1>19. ASSUME EnterOnCommand PROVE Stopping'
  BY <1>19 DEF EnterOnCommand, Lock
<1>20. ASSUME DrainNext PROVE Stopping'
  BY <1>20 DEF DrainNext, MoreCommands
<1>21. ASSUME DrainEnd PROVE Stopping'
  BY <1>21 DEF DrainEnd, Unlock, MoreCommands, In
<1>22. ASSUME ReadAndPop PROVE Stopping'
  <2>1. \A c : In(queue', c) => In(queue, c)
    BY <1>22, TailFacts DEF ReadAndPop
  <2> QED
    BY <1>22, <2>1 DEF ReadAndPop
<1>23. ASSUME ExecAnswer PROVE Stopping'
  BY <1>23 DEF ExecAnswer, Answer, Delete
<1>24. ASSUME ExecSilently PROVE Stopping'
  BY <1>24 DEF ExecSilently, Delete
<1>25. ASSUME ExecRetain PROVE Stopping'
  BY <1>25 DEF ExecRetain
<1>26. ASSUME ExecShutdown PROVE Stopping'
  BY <1>26 DEF ExecShutdown, Answer, Delete
<1>27. ASSUME CallbackReturn PROVE Stopping'
  BY <1>27 DEF CallbackReturn
<1>28. ASSUME LoopExit PROVE Stopping'
  BY <1>28 DEF LoopExit
<1>29. ASSUME Join PROVE Stopping'
  BY <1>29 DEF Join
<1>30. ASSUME LockToCancel PROVE Stopping'
  BY <1>30 DEF LockToCancel, Lock
<1>31. ASSUME CancelNext PROVE Stopping'
  <2>1. \A c : In(queue', c) => In(queue, c)
    BY <1>31, TailFacts DEF CancelNext
  <2>2. life'[ShutdownCmd] \in {life[ShutdownCmd], "deleted"}
    BY <1>31 DEF CancelNext, Delete
  <2> QED
    BY <1>31, <2>1, <2>2 DEF CancelNext
<1>32. ASSUME DestroyEnd PROVE Stopping'
  BY <1>32 DEF DestroyEnd, Unlock
<1>33. ASSUME UNCHANGED vars PROVE Stopping'
  BY <1>33 DEF vars, In
<1>34. ASSUME ExecEscape PROVE Stopping'
  BY <1>34 DEF ExecEscape, Unlock, Ownership, Owned, Single
<1> QED
  BY <1>1, <1>2, <1>3, <1>4, <1>5, <1>6, <1>7, <1>8, <1>9, <1>10, <1>11,
      <1>12, <1>13, <1>14, <1>15, <1>16, <1>17, <1>18, <1>19, <1>20, <1>21,
      <1>22, <1>23, <1>24, <1>25, <1>26, <1>27, <1>28, <1>29, <1>30, <1>31,
      <1>32, <1>33, <1>34 DEF Next, SubmitStep, DispStep, MainStep


-----------------------------------------------------------------------------
(* The theorems.                                                           *)

Inv == Control /\ Types /\ PipeMatchesQueue /\ Ownership /\ Answers

\* The layers together are an inductive invariant of the specification.
THEOREM Invariance == Spec => []Inv
<1>1. Init => Inv
  BY InitControl, InitTypes, InitPipe, InitOwnership, InitAnswers DEF Inv
<1>2. Inv /\ [Next]_vars => Inv'
  <2> SUFFICES ASSUME Inv, [Next]_vars PROVE Inv'
    OBVIOUS
  <2>1. Control'
    BY NextControl DEF Inv
  <2>2. Types'
    BY <2>1, NextTypes DEF Inv
  <2>3. PipeMatchesQueue'
    BY <2>1, <2>2, NextPipe DEF Inv
  <2>4. Ownership'
    BY <2>2, NextOwnership DEF Inv
  <2>5. Answers'
    BY <2>1, <2>2, NextAnsweredOnce, NextPosted, NextStopping DEF Inv, Answers
  <2> QED
    BY <2>1, <2>2, <2>3, <2>4, <2>5 DEF Inv
<1> QED
  BY <1>1, <1>2, PTL DEF Spec

\* Every variable stays in its type: the lock is taken at most twice, by the
\* dispatcher thread in a callback, and the pipe never holds more than it can.
THEOREM TypeCorrect == Spec => []TypeOK
<1>1. Inv => TypeOK
  BY DEF Inv, Types
<1> QED
  BY <1>1, Invariance, PTL

\* submitCommand and onCommand keep one byte in the pipe for each queued command
\* until ~Dispatcher empties the queue, whatever the interleaving.
THEOREM NoLostWakeUp == Spec => []PipeMatchesQueue
<1>1. Inv => PipeMatchesQueue
  BY DEF Inv
<1> QED
  BY <1>1, Invariance, PTL

\* A command object has one owner at a time, and the owner's pointer is valid.
THEOREM OwnerCorrect == Spec => []OneOwner
<1>1. Single => OneOwner
  BY DEF Single, OneOwner, NoDup, In, Queued
<1>2. Inv => OneOwner
  BY <1>1 DEF Inv, Ownership
<1> QED
  BY <1>2, Invariance, PTL

\* A command that owes an answer gives exactly one if it was accepted, none if
\* it was refused, through replies, failures, the shutdown and ~Dispatcher.
THEOREM AnswersCorrect == Spec => []AnsweredOnce
<1>1. Inv => AnsweredOnce
  BY DEF Inv, Answers
<1> QED
  BY <1>1, Invariance, PTL

\* A caller that waits was answered, or its command has an owner left.
LEMMA ServedLemma == Inv => WaiterIsServed
<1> SUFFICES ASSUME Inv, NEW t \in Threads, pc[t] = "wait", sem[arg[t]] # 1,
                    arg[t] \notin OpenCmds \/ life[arg[t]] # "lost"
             PROVE  ~destroyed /\ (Queued(arg[t]) \/ arg[t] = cur \/ arg[t] \in held)
  BY DEF WaiterIsServed
<1> USE ThreadFacts, CommandFacts DEF Inv, Ownership, Answers
<1>1. arg[t] \in accepted /\ arg[t] \in Cmds /\ life[arg[t]] = "alive"
  BY DEF Types, TypeOK, Arguments, Owned, Posted
<1>2. In(queue, arg[t]) \/ arg[t] = cur \/ arg[t] \in held
  BY <1>1 DEF Owned
<1>3. ~destroyed
  <2> SUFFICES ASSUME destroyed PROVE FALSE
    OBVIOUS
  <2>1. pc[Disp] = "dead" /\ quit
    BY DEF Control, Places, Stopping
  <2>2. cur = NoCmd /\ held = {} /\ queue = <<>>
    BY <2>1 DEF Stopping, Owned
  <2> QED
    BY <1>1, <1>2, <2>2 DEF In
<1> QED
  BY <1>2, <1>3 DEF In, Queued

\* A blocked caller was answered or its command has an owner: no command is
\* dropped, not even by the destruction of the dispatcher.  Only an open for
\* which memory ran out has neither.
THEOREM WaiterCorrect == Spec => []WaiterIsServed
  BY ServedLemma, Invariance, PTL

\* What the dispatcher thread leaves in the queue was accepted after the
\* shutdown had been executed, if no exception ended onCommand after it.
THEOREM DropsCorrect == Spec => []OnlyLateCallsAreDropped
<1>1. Inv => OnlyLateCallsAreDropped
  <2> SUFFICES ASSUME Inv, pc[Disp] \in {"exit", "dead"}, ~cut,
                      NEW i \in 1 .. Len(queue), queue[i] \in accepted
               PROVE  queue[i] \in late
    BY DEF OnlyLateCallsAreDropped
  <2>1. queue[i] \in Cmds /\ In(queue, queue[i])
    BY DEF Inv, Types, TypeOK, In
  <2> QED
    BY <2>1 DEF Inv, Answers, Stopping
<1> QED
  BY <1>1, Invariance, PTL

-----------------------------------------------------------------------------
(* Who waits for whom.                                                     *)

\* Main submits the shutdown command, once, and nobody else does.
Caller ==
  /\ pc[Main] \in Submitting \cup {"wait"} => arg[Main] = ShutdownCmd
  /\ pc[Main] = "idle" => life[ShutdownCmd] = "unborn"

\* DBUSIPC_shutdown was not called at the start.
LEMMA InitCaller == Init => Caller
  BY ThreadFacts, CommandFacts DEF Init, Caller, Submitting

\* Only the call of Main makes the shutdown command, and Main is not idle again.
LEMMA NextCaller == Inv /\ Caller /\ [Next]_vars => Caller'
<1> SUFFICES ASSUME Inv, Caller, [Next]_vars PROVE Caller'
  OBVIOUS
<1> USE ThreadFacts, CommandFacts
    DEF Inv, Control, Places, MainLabels, Types, TypeOK, Submitting, Caller, Goto,
        threadVars, lockVars, queueVars, loopVars, cmdVars, endVars
<1>1. ASSUME NEW t \in Clients, NEW c \in Calls, CallSync(t, c) PROVE Caller'
  BY <1>1 DEF CallSync, NewCommand
<1>2. ASSUME NEW t \in Clients, NEW c \in Calls, CallAsync(t, c) PROVE Caller'
  BY <1>2 DEF CallAsync, NewCommand
<1>3. ASSUME NEW c \in Calls, CallFromCallback(c) PROVE Caller'
  BY <1>3 DEF CallFromCallback, NewCommand
<1>4. ASSUME CallShutdown PROVE Caller'
  BY <1>4 DEF CallShutdown, NewCommand
<1>5. ASSUME NEW t \in Threads, GetDispatcher(t) PROVE Caller'
  BY <1>5 DEF GetDispatcher, Refused, Delete, AfterSubmit
<1>6. ASSUME NEW t \in Threads, LockQueue(t) PROVE Caller'
  BY <1>6 DEF LockQueue, Lock
<1>7. ASSUME NEW t \in Threads, LockDestroyed(t) PROVE Caller'
  BY <1>7 DEF LockDestroyed
<1>8. ASSUME NEW t \in Threads, Push(t) PROVE Caller'
  BY <1>8 DEF Push
<1>9. ASSUME NEW t \in Threads, NotRunning(t) PROVE Caller'
  <2>1. life[arg[t]] = "alive" /\ arg[t] \in Cmds
    BY <1>9 DEF NotRunning, Filled, Ownership, Arguments
  <2> QED
    BY <1>9, <2>1 DEF NotRunning, Unlock, Refused, Delete, AfterSubmit
<1>10. ASSUME NEW t \in Threads, Write(t) PROVE Caller'
  BY <1>10 DEF Write, Unlock, AfterSubmit
<1>11. ASSUME NEW t \in Threads, WriteFails(t) PROVE Caller'
  <2>1. life[arg[t]] = "alive" /\ arg[t] \in Cmds
    BY <1>11 DEF WriteFails, Filled, Ownership, Arguments
  <2> QED
    BY <1>11, <2>1 DEF WriteFails, Unlock, Refused, Delete, AfterSubmit
<1>12. ASSUME NEW t \in Threads, Return(t) PROVE Caller'
  BY <1>12 DEF Return
<1>13. ASSUME TestQuit PROVE Caller'
  BY <1>13 DEF TestQuit
<1>14. ASSUME NEW c \in Cmds, Reply(c) PROVE Caller'
  BY <1>14 DEF Reply, Answer, Delete
<1>15. ASSUME DeliverMessage PROVE Caller'
  BY <1>15 DEF DeliverMessage
<1>16. ASSUME EndPending PROVE Caller'
  BY <1>16 DEF EndPending
<1>17. ASSUME PollPipe PROVE Caller'
  BY <1>17 DEF PollPipe
<1>18. ASSUME PollOther PROVE Caller'
  BY <1>18 DEF PollOther
<1>19. ASSUME EnterOnCommand PROVE Caller'
  BY <1>19 DEF EnterOnCommand, Lock
<1>20. ASSUME DrainNext PROVE Caller'
  BY <1>20 DEF DrainNext
<1>21. ASSUME DrainEnd PROVE Caller'
  BY <1>21 DEF DrainEnd, Unlock
<1>22. ASSUME ReadAndPop PROVE Caller'
  BY <1>22 DEF ReadAndPop
<1>23. ASSUME ExecAnswer PROVE Caller'
  BY <1>23 DEF ExecAnswer, Answer, Delete
<1>24. ASSUME ExecSilently PROVE Caller'
  BY <1>24 DEF ExecSilently, Delete
<1>25. ASSUME ExecRetain PROVE Caller'
  BY <1>25 DEF ExecRetain
<1>26. ASSUME ExecShutdown PROVE Caller'
  <2>1. life[ShutdownCmd] = "alive"
    BY <1>26 DEF ExecShutdown, Ownership, Single
  <2> QED
    BY <1>26, <2>1 DEF ExecShutdown, Answer, Delete
<1>27. ASSUME CallbackReturn PROVE Caller'
  BY <1>27 DEF CallbackReturn
<1>28. ASSUME LoopExit PROVE Caller'
  BY <1>28 DEF LoopExit
<1>29. ASSUME Join PROVE Caller'
  BY <1>29 DEF Join
<1>30. ASSUME LockToCancel PROVE Caller'
  BY <1>30 DEF LockToCancel, Lock
<1>31. ASSUME CancelNext PROVE Caller'
  <2>1. Head(queue) \in Cmds /\ pc[Main] = "cancel" /\ UNCHANGED <<pc, arg>>
    BY <1>31, TailFacts DEF CancelNext
  <2> QED
    BY <2>1
<1>32. ASSUME DestroyEnd PROVE Caller'
  BY <1>32 DEF DestroyEnd, Unlock
<1>33. ASSUME UNCHANGED vars PROVE Caller'
  BY <1>33 DEF vars
<1>34. ASSUME ExecEscape PROVE Caller'
  BY <1>34 DEF ExecEscape, Unlock, Ownership, Single
<1> QED
  BY <1>1, <1>2, <1>3, <1>4, <1>5, <1>6, <1>7, <1>8, <1>9, <1>10, <1>11,
      <1>12, <1>13, <1>14, <1>15, <1>16, <1>17, <1>18, <1>19, <1>20, <1>21,
      <1>22, <1>23, <1>24, <1>25, <1>26, <1>27, <1>28, <1>29, <1>30, <1>31,
      <1>32, <1>33, <1>34 DEF Next, SubmitStep, DispStep, MainStep

\* So it is in every state.
LEMMA CallerInvariance == Spec => []Caller
<1>1. Init => Caller
  BY InitCaller
<1>2. Inv /\ Caller /\ [Next]_vars => Caller'
  BY NextCaller
<1> QED
  BY <1>1, <1>2, Invariance, PTL DEF Spec

\* The holder is where its step needs no one: in onCommand the byte it reads is
\* in the pipe, and in a callback the lock it takes again is its own.
LEMMA HolderLemma == Inv => HolderGoesOn
<1> SUFFICES ASSUME Inv, NEW t \in Threads, lock = t, Waits(t) PROVE pc[t] = "write"
  BY DEF HolderGoesOn
<1> USE ThreadFacts DEF Inv, Control, Places, Locking
<1>1. lock # Nobody
  OBVIOUS
<1>2. CASE t # Disp
  <2>1. pc[t] \in {"push", "write", "cancel"}
    BY <1>2
  <2> QED
    BY <2>1 DEF Waits
<1>3. CASE t = Disp
  <2>1. pc[Disp] \in {"drain", "read", "exec", "callback", "get", "lock", "push", "write"}
    BY <1>3
  <2>2. pc[Main] \notin {"destroy", "cancel", "end"}
    BY <2>1
  <2>3. pc[Disp] = "read" => pipe > 0
    <3> SUFFICES ASSUME pc[Disp] = "read" PROVE pipe > 0
      OBVIOUS
    <3>1. \A u \in Threads : pc[u] # "write"
      BY MutualExclusion DEF Exclusive, LockLabels
    <3>2. Len(queue) = pipe
      BY <2>2, <3>1 DEF PipeMatchesQueue, Types, TypeOK
    <3>3. queue \in Seq(Cmds) /\ queue # <<>>
      BY DEF Types, TypeOK, Filled
    <3> QED
      BY <3>2, <3>3
  <2> QED
    BY <1>1, <1>3, <2>1, <2>2, <2>3 DEF Waits
<1> QED
  BY <1>2, <1>3

\* Whoever holds the queue lock waits for nobody, but for room in a full pipe.
THEOREM HolderCorrect == Spec => []HolderGoesOn
  BY HolderLemma, Invariance, PTL

\* While somebody holds the lock, its holder goes on; else the dispatcher thread
\* does; and when that has ended, DBUSIPC_shutdown does, or whoever it left behind.
LEMMA DeadlockLemma == Inv /\ Caller => NoDeadlock
<1> SUFFICES ASSUME Inv, Caller, NEW t \in Threads, Inside(t)
             PROVE  \E u \in Threads : Inside(u) /\ (Waits(u) => pc[u] = "write")
  BY DEF NoDeadlock
<1> USE ThreadFacts DEF Inv, Control, Places, Locking
<1>1. CASE lock # Nobody
  <2>1. lock \in Threads /\ Inside(lock)
    BY <1>1 DEF Inside, Forgotten
  <2>2. Waits(lock) => pc[lock] = "write"
    BY <2>1, HolderLemma DEF HolderGoesOn
  <2> QED
    BY <2>1, <2>2
<1>2. CASE lock = Nobody /\ pc[Disp] # "dead"
  <2>1. pc[Disp] \in {"test", "pending", "poll", "onCommand", "callback", "exit", "get",
                    "lock"}
    BY <1>2 DEF DispLabels
  <2>2. pc[Main] \notin {"destroy", "cancel", "end"}
    BY <1>2
  <2>3. Inside(Disp) /\ ~Waits(Disp)
    BY <1>2, <2>1, <2>2 DEF Inside, Forgotten, Waits
  <2> QED
    BY <2>3
<1>3. CASE lock = Nobody /\ pc[Disp] = "dead"
  <2>1. quit /\ life[ShutdownCmd] = "deleted" /\ cur = NoCmd /\ held = {}
    BY <1>3 DEF Answers, Stopping, Ownership, Owned
  <2>2. pc[Main] \in {"get", "lock", "wait", "join", "destroy", "end"}
    BY <1>3, <2>1 DEF MainLabels, Caller
  <2>3. pc[Main] = "wait" => sem[arg[Main]] = 1
    BY <2>1 DEF Caller, Answers, Posted
  <2>4. CASE pc[Main] # "end"
    <3>1. Inside(Main)
      BY <2>1, <2>2, <2>4 DEF Inside, Forgotten, Caller, Submitting
    <3>2. ~Waits(Main)
      BY <1>3, <2>2, <2>3, <2>4 DEF Waits
    <3> QED
      BY <3>1, <3>2
  <2>5. CASE pc[Main] = "end"
    <3>1. destroyed
      BY <2>5
    <3>2. t \in Clients /\ pc[t] \in {"get", "lock", "wait"}
      BY <1>3, <2>5 DEF ClientLabels, Inside
    <3>3. pc[t] = "wait" => sem[arg[t]] = 1
      BY <3>1, ServedLemma DEF WaiterIsServed, Inside, Forgotten
    <3>4. ~Waits(t)
      BY <2>5, <3>1, <3>2, <3>3 DEF Waits
    <3> QED
      BY <3>4
  <2> QED
    BY <2>4, <2>5
<1> QED
  BY <1>1, <1>2, <1>3

\* The threads never all wait for each other: with room in the pipe, somebody
\* in the library goes on, in a shutdown as well.
THEOREM DeadlockFree == Spec => []NoDeadlock
  BY DeadlockLemma, Invariance, CallerInvariance, PTL

-----------------------------------------------------------------------------
(* The order of the queue.                                                 *)

\* What NoOvertaking says of a step.
KeepsOrder ==
  \A i \in 2 .. Len(queue) :
    queue[i] \in accepted =>
      \E j \in {i - 1, i} : j <= Len(queue') /\ queue'[j] = queue[i]

\* A step that does not touch the queue.
LEMMA SameOrder == queue \in Seq(Cmds) /\ UNCHANGED queue => KeepsOrder
<1> SUFFICES ASSUME queue \in Seq(Cmds), UNCHANGED queue,
                    NEW i \in 2 .. Len(queue)
             PROVE  \E j \in {i - 1, i} : j <= Len(queue') /\ queue'[j] = queue[i]
  BY DEF KeepsOrder
<1>1. i <= Len(queue') /\ queue'[i] = queue[i]
  OBVIOUS
<1> QED
  BY <1>1

\* The first command leaves, and the others move up.
LEMMA TailOrder ==
  queue \in Seq(Cmds) /\ queue # <<>> /\ queue' = Tail(queue) => KeepsOrder
<1> SUFFICES ASSUME queue \in Seq(Cmds), queue # <<>>, queue' = Tail(queue),
                    NEW i \in 2 .. Len(queue)
             PROVE  \E j \in {i - 1, i} : j <= Len(queue') /\ queue'[j] = queue[i]
  BY DEF KeepsOrder
<1>1. Len(queue') = Len(queue) - 1 /\ Len(queue) \in Nat
  OBVIOUS
<1>2. i - 1 <= Len(queue') /\ queue'[i - 1] = queue[i]
  BY <1>1
<1> QED
  BY <1>2

\* The last command is taken back.
LEMMA FrontOrder ==
  ASSUME queue \in Seq(Cmds), queue # <<>>, queue[Len(queue)] \notin accepted,
         queue' = SubSeq(queue, 1, Len(queue) - 1)
  PROVE  KeepsOrder
<1> SUFFICES ASSUME NEW i \in 2 .. Len(queue), queue[i] \in accepted
             PROVE  \E j \in {i - 1, i} : j <= Len(queue') /\ queue'[j] = queue[i]
  BY DEF KeepsOrder
<1>1. Len(queue) \in Nat /\ i \in 1 .. Len(queue) - 1
  OBVIOUS
<1>2. Len(queue') = Len(queue) - 1 /\ queue'[i] = queue[i]
  <2>1. Len(queue) - 1 \in Nat /\ \A k \in 1 .. Len(queue) - 1 : queue[k] \in Cmds
    BY <1>1
  <2>2. queue' = [k \in 1 .. Len(queue) - 1 |-> queue[k]]
    BY <1>1, <2>1, SMTT(30)
  <2> QED
    BY <1>1, <2>1, <2>2
<1> QED
  BY <1>1, <1>2

\* The commands of the queue keep their order in every step.
LEMMA NextOrder == Inv /\ [Next]_vars => KeepsOrder
<1> SUFFICES ASSUME Inv, [Next]_vars PROVE KeepsOrder
  OBVIOUS
<1>0. queue \in Seq(Cmds)
  BY DEF Inv, Types, TypeOK
<1> USE SameOrder, <1>0
    DEF Goto, threadVars, lockVars, queueVars, loopVars, cmdVars, endVars
<1>1. ASSUME NEW t \in Clients, NEW c \in Calls, CallSync(t, c) PROVE KeepsOrder
  BY <1>1 DEF CallSync, NewCommand
<1>2. ASSUME NEW t \in Clients, NEW c \in Calls, CallAsync(t, c) PROVE KeepsOrder
  BY <1>2 DEF CallAsync, NewCommand
<1>3. ASSUME NEW c \in Calls, CallFromCallback(c) PROVE KeepsOrder
  BY <1>3 DEF CallFromCallback, NewCommand
<1>4. ASSUME CallShutdown PROVE KeepsOrder
  BY <1>4 DEF CallShutdown, NewCommand
<1>5. ASSUME NEW t \in Threads, GetDispatcher(t) PROVE KeepsOrder
  BY <1>5 DEF GetDispatcher, Refused, Delete, AfterSubmit
<1>6. ASSUME NEW t \in Threads, LockQueue(t) PROVE KeepsOrder
  BY <1>6 DEF LockQueue, Lock
<1>7. ASSUME NEW t \in Threads, LockDestroyed(t) PROVE KeepsOrder
  BY <1>7 DEF LockDestroyed
<1>8. ASSUME NEW t \in Threads, Push(t) PROVE KeepsOrder
  <2>1. arg[t] \in Cmds /\ queue' = Append(queue, arg[t])
    BY <1>8 DEF Push, Inv, Types, Filled, Submitting
  <2>2. /\ Len(queue') = Len(queue) + 1 /\ Len(queue) \in Nat
        /\ \A i \in 1 .. Len(queue) : queue'[i] = queue[i]
    BY <2>1, AppendProperties
  <2> QED
    BY <2>2 DEF KeepsOrder
<1>9. ASSUME NEW t \in Threads, NotRunning(t) PROVE KeepsOrder
  BY <1>9 DEF NotRunning, Unlock, Refused, Delete, AfterSubmit
<1>10. ASSUME NEW t \in Threads, Write(t) PROVE KeepsOrder
  BY <1>10 DEF Write, Unlock, AfterSubmit
<1>11. ASSUME NEW t \in Threads, WriteFails(t) PROVE KeepsOrder
  <2>1. queue # <<>> /\ queue[Len(queue)] = arg[t] /\ arg[t] \notin accepted
    BY <1>11 DEF WriteFails, Inv, Ownership, InTransit, Arguments, Submitting
  <2>2. queue' = SubSeq(queue, 1, Len(queue) - 1)
    BY <1>11 DEF WriteFails
  <2> QED
    BY <2>1, <2>2, FrontOrder
<1>12. ASSUME NEW t \in Threads, Return(t) PROVE KeepsOrder
  BY <1>12 DEF Return
<1>13. ASSUME TestQuit PROVE KeepsOrder
  BY <1>13 DEF TestQuit
<1>14. ASSUME NEW c \in Cmds, Reply(c) PROVE KeepsOrder
  BY <1>14 DEF Reply, Answer, Delete
<1>15. ASSUME DeliverMessage PROVE KeepsOrder
  BY <1>15 DEF DeliverMessage
<1>16. ASSUME EndPending PROVE KeepsOrder
  BY <1>16 DEF EndPending
<1>17. ASSUME PollPipe PROVE KeepsOrder
  BY <1>17 DEF PollPipe
<1>18. ASSUME PollOther PROVE KeepsOrder
  BY <1>18 DEF PollOther
<1>19. ASSUME EnterOnCommand PROVE KeepsOrder
  BY <1>19 DEF EnterOnCommand, Lock
<1>20. ASSUME DrainNext PROVE KeepsOrder
  BY <1>20 DEF DrainNext
<1>21. ASSUME DrainEnd PROVE KeepsOrder
  BY <1>21 DEF DrainEnd, Unlock
<1>22. ASSUME ReadAndPop PROVE KeepsOrder
  <2>1. queue # <<>> /\ queue' = Tail(queue)
    BY <1>22 DEF ReadAndPop, Inv, Types, Filled
  <2> QED
    BY <2>1, TailOrder
<1>23. ASSUME ExecAnswer PROVE KeepsOrder
  BY <1>23 DEF ExecAnswer, Answer, Delete
<1>24. ASSUME ExecSilently PROVE KeepsOrder
  BY <1>24 DEF ExecSilently, Delete
<1>25. ASSUME ExecRetain PROVE KeepsOrder
  BY <1>25 DEF ExecRetain
<1>26. ASSUME ExecShutdown PROVE KeepsOrder
  BY <1>26 DEF ExecShutdown, Answer, Delete
<1>27. ASSUME CallbackReturn PROVE KeepsOrder
  BY <1>27 DEF CallbackReturn
<1>28. ASSUME LoopExit PROVE KeepsOrder
  BY <1>28 DEF LoopExit
<1>29. ASSUME Join PROVE KeepsOrder
  BY <1>29 DEF Join
<1>30. ASSUME LockToCancel PROVE KeepsOrder
  BY <1>30 DEF LockToCancel, Lock
<1>31. ASSUME CancelNext PROVE KeepsOrder
  BY <1>31, TailOrder DEF CancelNext
<1>32. ASSUME DestroyEnd PROVE KeepsOrder
  BY <1>32 DEF DestroyEnd, Unlock
<1>33. ASSUME UNCHANGED vars PROVE KeepsOrder
  BY <1>33 DEF vars
<1>34. ASSUME ExecEscape PROVE KeepsOrder
  BY <1>34 DEF ExecEscape, Unlock
<1> QED
  BY <1>1, <1>2, <1>3, <1>4, <1>5, <1>6, <1>7, <1>8, <1>9, <1>10, <1>11,
      <1>12, <1>13, <1>14, <1>15, <1>16, <1>17, <1>18, <1>19, <1>20, <1>21,
      <1>22, <1>23, <1>24, <1>25, <1>26, <1>27, <1>28, <1>29, <1>30, <1>31,
      <1>32, <1>33, <1>34 DEF Next, SubmitStep, DispStep, MainStep

\* Commands leave the queue in the order in which they were accepted.
THEOREM OrderCorrect == Spec => NoOvertaking
<1>1. Inv /\ [Next]_vars => [KeepsOrder]_vars
  BY NextOrder
<1>2. NoOvertaking <=> [][KeepsOrder]_vars
  BY PTL DEF NoOvertaking, KeepsOrder
<1> QED
  BY <1>1, <1>2, Invariance, PTL DEF Spec
=============================================================================
