--------------------------- MODULE CommandsProofs ---------------------------
(***************************************************************************)
(* Theorems about Commands for every number of commands.  The invariant    *)
(* strengthens the four safety properties by what a command is before it   *)
(* is executed (Fresh), by who owns it afterwards (Owners) and by what it  *)
(* has and owes at each step of its execution (Progress).  Each action has *)
(* a lemma with one step per part.                                         *)
(***************************************************************************)
EXTENDS Commands, TLAPS

\* What a command that was not executed has: its object at most.
Untouched(c) ==
  /\ call[c] = "none" /\ ~notify[c]
  /\ owes[c] = {}
  /\ told[c] = "nothing" /\ answers[c] = 0
  /\ c \notin pending
  /\ object[c] \in {"none", "owned"}

Fresh ==
  \A c \in Cmds :
    /\ life[c] \in {"unused", "refused", "queued", "lost"} => Untouched(c)
    /\ kind[c] = "none" <=> life[c] \in {"unused", "refused"}
    /\ object[c] # "none" <=> kind[c] \in Adders
    /\ kind[c] = "cancel" /\ subject[c] # None => kind[subject[c]] = "invoke"

\* A command that is executed or waits still owns its object.
Owners ==
  \A c \in Cmds :
    /\ running = c => life[c] \in {"running", "kept"}
    /\ life[c] = "running" => running = c /\ c \notin pending
    /\ life[c] \in {"running", "kept"} => object[c] \in {"none", "owned"}
    /\ life[c] = "kept" => told[c] # "ok"
    /\ call[c] # "none" => conn # "none"
    /\ notify[c] => call[c] # "none"
    /\ c \in pending => notify[c]
    /\ Abandoned(c) =>
         /\ life[c] \in {"kept", "deleted"}
         /\ running # c
         /\ object[c] \in {"owned", "freed"}
         /\ told[c] = "error" /\ answers[c] > 0

Progress ==
  /\ at \in {"idle", "dispatch"} => running = None
  /\ \A c \in Cmds : running = c =>
       /\ owes[c] \subseteq {"request", "call"}
       /\ at \notin {"unref", "finish"} =>
            life[c] = "running" /\ answers[c] = 0 /\ told[c] = "nothing"
       /\ at = "closing" => kind[c] = "close" /\ owes[c] = {}
       /\ at = "allocate" => owes[c] = {}
       /\ at = "finish" => owes[c] \subseteq {"call"}
       /\ at \notin {"register", "unref", "finish"} => ~notify[c]
       /\ at = "register" => notify[c]
       /\ at \in {"allocate", "append", "send", "closing"} => call[c] = "none"
       /\ at \in {"unref", "finish"} /\ life[c] = "running" =>
            /\ ~notify[c] \/ call[c] \notin {"waiting", "ready"}
            /\ answers[c] <= 1
            /\ Silent(c) \/ answers[c] = 1
            /\ kind[c] \in Adders => told[c] # "ok"

Inv ==
  /\ TypeOK /\ Fresh /\ Owners /\ Progress
  /\ AnsweredOnce /\ NothingIsOwed /\ NoDanglingCommand /\ HandleIsSound


LEMMA NoneIsNoCmd == None \notin Cmds
BY NoneAssumption DEF Cmds

\* Nothing was submitted yet.
LEMMA InitInv == Init => Inv
BY NoneIsNoCmd DEF Init, Inv, TypeOK, Fresh, Owners, Progress, AnsweredOnce,
   NothingIsOwed, NoDanglingCommand, HandleIsSound, Untouched, Abandoned, Silent,
   Kinds, Asks, Adders, Removers, Makers, Steps

\* A command is numbered, or refused.
LEMMA SubmitInv ==
  ASSUME Inv, NEW c \in Cmds, NEW k \in Kinds, NEW s \in Cmds \cup {None},
         k = "cancel" /\ s # None => kind[s] = "invoke", Submit(c, k, s)
  PROVE  Inv'
<1> USE NoneIsNoCmd
      DEF Inv, cmdVars, callVars, answerVars, threadVars,
          Submit, Construct
<1>1. TypeOK'
  BY DEF TypeOK, Fresh, Untouched, Kinds, Asks, Adders, Removers, Makers
<1>2. Fresh'
  BY DEF TypeOK, Fresh, Owners, Untouched, Abandoned, Kinds, Asks, Adders,
     Removers, Makers
<1>3. Owners'
  BY DEF TypeOK, Owners, Abandoned
<1>4. Progress'
  BY DEF TypeOK, Progress, Silent
<1>5. AnsweredOnce'
  BY DEF TypeOK, Owners, Abandoned, Silent, AnsweredOnce
<1>6. NothingIsOwed'
  BY DEF TypeOK, Owners, Abandoned, NothingIsOwed, NoDanglingCommand
<1>7. NoDanglingCommand'
  BY DEF TypeOK, Fresh, Untouched, Abandoned, NoDanglingCommand
<1>8. HandleIsSound'
  BY DEF TypeOK, Fresh, Untouched, HandleIsSound
<1> QED
  BY <1>1, <1>2, <1>3, <1>4, <1>5, <1>6, <1>7, <1>8

\* The executions that allocate a message, up to there.
LEMMA StartInv ==
  ASSUME Inv, NEW c \in Cmds, NEW k \in Kinds, NEW usable \in BOOLEAN,
         k # "emit", Start(c, k, usable)
  PROVE  Inv'
<1> USE NoneIsNoCmd
      DEF Inv, cmdVars, answerVars,
          Start, Take, Front, Answer
<1>1. TypeOK'
  BY DEF TypeOK, Steps
<1>2. Fresh'
  BY DEF TypeOK, Fresh, Owners, Progress, Untouched, Abandoned
<1>3. Owners'
  BY DEF TypeOK, Fresh, Owners, Progress, Untouched, Abandoned
<1>4. Progress'
  BY DEF TypeOK, Fresh, Progress, Untouched, Abandoned, Silent
<1>5. AnsweredOnce'
  BY DEF TypeOK, Progress, Abandoned, Silent, AnsweredOnce
<1>6. NothingIsOwed'
  BY DEF TypeOK, Progress, Abandoned, NothingIsOwed, NoDanglingCommand
<1>7. NoDanglingCommand'
  BY DEF TypeOK, Fresh, Untouched, Abandoned, NoDanglingCommand
<1>8. HandleIsSound'
  BY DEF TypeOK, Fresh, Untouched, HandleIsSound
<1> QED
  BY <1>1, <1>2, <1>3, <1>4, <1>5, <1>6, <1>7, <1>8

\* An emission, for a registration or for none.
LEMMA ExecuteEmitInv ==
  ASSUME Inv, NEW c \in Cmds, ExecuteEmit(c) PROVE Inv'
<1> USE NoneIsNoCmd
      DEF Inv, cmdVars, answerVars,
          ExecuteEmit, Take, Front
<1>1. TypeOK'
  BY DEF TypeOK, Steps
<1>2. Fresh'
  BY DEF TypeOK, Fresh, Owners, Progress, Untouched, Abandoned
<1>3. Owners'
  BY DEF TypeOK, Fresh, Owners, Progress, Untouched, Abandoned, Silent
<1>4. Progress'
  BY DEF TypeOK, Fresh, Progress, Untouched, Abandoned, Silent
<1>5. AnsweredOnce'
  BY DEF Progress, Abandoned, Silent, AnsweredOnce
<1>6. NothingIsOwed'
  BY DEF Progress, Abandoned, NothingIsOwed, NoDanglingCommand
<1>7. NoDanglingCommand'
  BY DEF NoDanglingCommand, Abandoned
<1>8. HandleIsSound'
  BY DEF HandleIsSound
<1> QED
  BY <1>1, <1>2, <1>3, <1>4, <1>5, <1>6, <1>7, <1>8

\* A connection is made or not.
LEMMA CreateInv ==
  ASSUME Inv, NEW c \in Cmds, NEW k \in Makers, Create(c, k) PROVE Inv'
<1> USE NoneIsNoCmd
      DEF Inv, cmdVars,
          Create, Take, Front, Answer
<1>1. TypeOK'
  BY DEF TypeOK, Steps
<1>2. Fresh'
  BY DEF TypeOK, Fresh, Owners, Progress, Untouched, Abandoned
<1>3. Owners'
  BY DEF TypeOK, Fresh, Owners, Progress, Untouched, Abandoned, Adders, Makers
<1>4. Progress'
  BY DEF TypeOK, Fresh, Progress, Untouched, Abandoned, Silent, Adders, Makers
<1>5. AnsweredOnce'
  BY DEF TypeOK, Progress, Abandoned, Silent, AnsweredOnce
<1>6. NothingIsOwed'
  BY DEF Progress, Abandoned, NothingIsOwed, NoDanglingCommand
<1>7. NoDanglingCommand'
  BY DEF TypeOK, Abandoned, NoDanglingCommand, Adders, Makers
<1>8. HandleIsSound'
  BY DEF TypeOK, HandleIsSound, Adders, Makers
<1> QED
  BY <1>1, <1>2, <1>3, <1>4, <1>5, <1>6, <1>7, <1>8

\* A lost command was not touched.
LEMMA EscapeInv ==
  ASSUME Inv, NEW c \in Cmds, Escape(c) PROVE Inv'
<1> USE NoneIsNoCmd
      DEF Inv, cmdVars, callVars, answerVars, threadVars,
          Escape, Front
<1>1. TypeOK'
  BY DEF TypeOK
<1>2. Fresh'
  BY DEF Fresh, Untouched
<1>3. Owners'
  BY DEF Owners, Abandoned
<1>4. Progress'
  BY DEF Progress, Silent
<1>5. AnsweredOnce'
  BY DEF AnsweredOnce, Abandoned, Silent
<1>6. NothingIsOwed'
  BY DEF NothingIsOwed, Abandoned
<1>7. NoDanglingCommand'
  BY DEF NoDanglingCommand, Abandoned
<1>8. HandleIsSound'
  BY DEF HandleIsSound
<1> QED
  BY <1>1, <1>2, <1>3, <1>4, <1>5, <1>6, <1>7, <1>8

\* The command that closes keeps the thread; it has nothing.
LEMMA ExecuteCloseInv ==
  ASSUME Inv, NEW c \in Cmds, ExecuteClose(c) PROVE Inv'
<1> USE NoneIsNoCmd
      DEF Inv, cmdVars, answerVars,
          ExecuteClose, Take, Front, Answer
<1>1. TypeOK'
  BY DEF TypeOK, Steps
<1>2. Fresh'
  BY DEF TypeOK, Fresh, Owners, Progress, Untouched, Abandoned
<1>3. Owners'
  BY DEF TypeOK, Fresh, Owners, Progress, Untouched, Abandoned, Adders
<1>4. Progress'
  BY DEF TypeOK, Fresh, Progress, Untouched, Abandoned, Silent, Adders
<1>5. AnsweredOnce'
  BY DEF TypeOK, Progress, Abandoned, Silent, AnsweredOnce
<1>6. NothingIsOwed'
  BY DEF TypeOK, Progress, Abandoned, NothingIsOwed, NoDanglingCommand
<1>7. NoDanglingCommand'
  BY DEF TypeOK, Abandoned, NoDanglingCommand, Adders
<1>8. HandleIsSound'
  BY DEF TypeOK, HandleIsSound, Adders
<1> QED
  BY <1>1, <1>2, <1>3, <1>4, <1>5, <1>6, <1>7, <1>8

\* No command is executed.
LEMMA ExecuteShutdownInv ==
  ASSUME Inv, ExecuteShutdown PROVE Inv'
<1> USE NoneIsNoCmd
      DEF Inv, cmdVars, callVars, answerVars,
          ExecuteShutdown
<1>1. TypeOK'
  BY DEF TypeOK, Steps
<1>2. Fresh'
  BY DEF Fresh, Untouched
<1>3. Owners'
  BY DEF Owners, Abandoned
<1>4. Progress'
  BY DEF Progress, Silent
<1>5. AnsweredOnce'
  BY DEF AnsweredOnce, Abandoned, Silent
<1>6. NothingIsOwed'
  BY DEF NothingIsOwed, Abandoned
<1>7. NoDanglingCommand'
  BY DEF NoDanglingCommand, Abandoned
<1>8. HandleIsSound'
  BY DEF HandleIsSound
<1> QED
  BY <1>1, <1>2, <1>3, <1>4, <1>5, <1>6, <1>7, <1>8

\* The request is the first thing a command owes.
LEMMA AllocateInv ==
  ASSUME Inv, NEW c \in Cmds, Allocate(c) PROVE Inv'
<1> USE NoneIsNoCmd
      DEF Inv, cmdVars, callVars, answerVars,
          Allocate, Answer
<1>1. TypeOK'
  BY DEF TypeOK, Fresh, Owners, Untouched, Steps
<1>2. Fresh'
  BY DEF TypeOK, Fresh, Owners, Untouched, Abandoned
<1>3. Owners'
  BY DEF TypeOK, Owners, Abandoned
<1>4. Progress'
  BY DEF TypeOK, Progress, Abandoned, Silent
<1>5. AnsweredOnce'
  BY DEF TypeOK, Owners, Progress, Abandoned, Silent, AnsweredOnce
<1>6. NothingIsOwed'
  BY DEF TypeOK, Owners, Abandoned, NothingIsOwed, NoDanglingCommand
<1>7. NoDanglingCommand'
  BY DEF TypeOK, Owners, Abandoned, NoDanglingCommand
<1>8. HandleIsSound'
  BY DEF TypeOK, Owners, HandleIsSound
<1> QED
  BY <1>1, <1>2, <1>3, <1>4, <1>5, <1>6, <1>7, <1>8

\* A failure answers and goes on to free the request.
LEMMA AppendInv ==
  ASSUME Inv, NEW c \in Cmds, Append(c) PROVE Inv'
<1> USE NoneIsNoCmd
      DEF Inv, cmdVars, callVars, answerVars,
          Append, Answer
<1>1. TypeOK'
  BY DEF TypeOK, Fresh, Owners, Untouched, Steps
<1>2. Fresh'
  BY DEF TypeOK, Fresh, Owners, Untouched, Abandoned
<1>3. Owners'
  BY DEF TypeOK, Owners, Abandoned
<1>4. Progress'
  BY DEF TypeOK, Progress, Abandoned, Silent
<1>5. AnsweredOnce'
  BY DEF TypeOK, Progress, Abandoned, Silent, AnsweredOnce
<1>6. NothingIsOwed'
  BY DEF NothingIsOwed, Abandoned
<1>7. NoDanglingCommand'
  BY DEF TypeOK, Owners, Abandoned, NoDanglingCommand
<1>8. HandleIsSound'
  BY DEF TypeOK, Owners, HandleIsSound
<1> QED
  BY <1>1, <1>2, <1>3, <1>4, <1>5, <1>6, <1>7, <1>8

\* The call is not listed yet, and has no notification.
LEMMA SendRequestInv ==
  ASSUME Inv, NEW c \in Cmds, SendRequest(c) PROVE Inv'
<1> USE NoneIsNoCmd
      DEF Inv, cmdVars, answerVars,
          SendRequest, Connected, Answer
<1>1. TypeOK'
  BY DEF TypeOK, Fresh, Owners, Untouched, Steps
<1>2. Fresh'
  BY DEF TypeOK, Fresh, Owners, Untouched, Abandoned
<1>3. Owners'
  BY DEF TypeOK, Owners, Abandoned
<1>4. Progress'
  BY DEF TypeOK, Progress, Abandoned, Silent
<1>5. AnsweredOnce'
  BY DEF TypeOK, Owners, Progress, Abandoned, Silent, AnsweredOnce
<1>6. NothingIsOwed'
  BY DEF TypeOK, Owners, Abandoned, NothingIsOwed, NoDanglingCommand
<1>7. NoDanglingCommand'
  BY DEF TypeOK, Owners, Abandoned, NoDanglingCommand
<1>8. HandleIsSound'
  BY DEF TypeOK, Owners, HandleIsSound
<1> QED
  BY <1>1, <1>2, <1>3, <1>4, <1>5, <1>6, <1>7, <1>8

\* Nothing waits for a request without reply.
LEMMA SendNoReplyInv ==
  ASSUME Inv, NEW c \in Cmds, SendNoReply(c) PROVE Inv'
<1> USE NoneIsNoCmd
      DEF Inv, cmdVars, callVars, answerVars,
          SendNoReply, Answer
<1>1. TypeOK'
  BY DEF TypeOK, Fresh, Owners, Untouched, Steps
<1>2. Fresh'
  BY DEF TypeOK, Fresh, Owners, Untouched, Abandoned
<1>3. Owners'
  BY DEF TypeOK, Owners, Abandoned
<1>4. Progress'
  BY DEF TypeOK, Progress, Abandoned, Silent
<1>5. AnsweredOnce'
  BY DEF TypeOK, Progress, Abandoned, Silent, AnsweredOnce
<1>6. NothingIsOwed'
  BY DEF NothingIsOwed, Abandoned
<1>7. NoDanglingCommand'
  BY DEF TypeOK, Owners, Abandoned, NoDanglingCommand
<1>8. HandleIsSound'
  BY DEF TypeOK, Owners, HandleIsSound
<1> QED
  BY <1>1, <1>2, <1>3, <1>4, <1>5, <1>6, <1>7, <1>8

\* An emission has its answer when it is sent.
LEMMA SendSignalInv ==
  ASSUME Inv, NEW c \in Cmds, SendSignal(c) PROVE Inv'
<1> USE NoneIsNoCmd
      DEF Inv, cmdVars, callVars,
          SendSignal, Answer
<1>1. TypeOK'
  BY DEF TypeOK, Fresh, Untouched, Steps
<1>2. Fresh'
  BY DEF TypeOK, Fresh, Owners, Progress, Untouched, Abandoned
<1>3. Owners'
  BY DEF TypeOK, Owners, Progress, Abandoned, Adders
<1>4. Progress'
  BY DEF TypeOK, Progress, Abandoned, Silent, Adders
<1>5. AnsweredOnce'
  BY DEF TypeOK, Progress, Abandoned, Silent, AnsweredOnce
<1>6. NothingIsOwed'
  BY DEF NothingIsOwed, Abandoned
<1>7. NoDanglingCommand'
  BY DEF TypeOK, Abandoned, NoDanglingCommand, Adders
<1>8. HandleIsSound'
  BY DEF TypeOK, HandleIsSound, Adders
<1> QED
  BY <1>1, <1>2, <1>3, <1>4, <1>5, <1>6, <1>7, <1>8

\* The command is notified from here on, so it must be listed or cancelled.
LEMMA SetNotifyInv ==
  ASSUME Inv, NEW c \in Cmds, SetNotify(c) PROVE Inv'
<1> USE NoneIsNoCmd
      DEF Inv, cmdVars, answerVars,
          SetNotify, Answer
<1>1. TypeOK'
  <2>1. notify' \in [Cmds -> BOOLEAN]
    BY DEF TypeOK
  <2>2. told' \in [Cmds -> {"nothing", "ok", "error"}] /\ answers' \in [Cmds -> Nat]
    BY DEF TypeOK
  <2> QED
    BY <2>1, <2>2 DEF TypeOK, Steps
<1>2. Fresh'
  BY DEF TypeOK, Fresh, Owners, Untouched, Abandoned
<1>3. Owners'
  BY DEF TypeOK, Owners, Abandoned
<1>4. Progress'
  BY DEF TypeOK, Progress, Abandoned, Silent
<1>5. AnsweredOnce'
  BY DEF TypeOK, Progress, Abandoned, Silent, AnsweredOnce
<1>6. NothingIsOwed'
  BY DEF TypeOK, Owners, Abandoned, NothingIsOwed, NoDanglingCommand
<1>7. NoDanglingCommand'
  BY DEF TypeOK, Owners, Abandoned, NoDanglingCommand
<1>8. HandleIsSound'
  BY DEF TypeOK, Owners, HandleIsSound
<1> QED
  BY <1>1, <1>2, <1>3, <1>4, <1>5, <1>6, <1>7, <1>8

\* Listed and kept, or cancelled and answered.
LEMMA RegisterPendingInv ==
  ASSUME Inv, NEW c \in Cmds, RegisterPending(c) PROVE Inv'
<1> USE NoneIsNoCmd
      DEF Inv, cmdVars, answerVars,
          RegisterPending, Answer
<1>1. TypeOK'
  BY DEF TypeOK, Fresh, Untouched, Steps
<1>2. Fresh'
  BY DEF TypeOK, Fresh, Owners, Progress, Untouched, Abandoned
<1>3. Owners'
  BY DEF TypeOK, Owners, Progress, Abandoned
<1>4. Progress'
  BY DEF TypeOK, Progress, Abandoned, Silent
<1>5. AnsweredOnce'
  BY DEF TypeOK, Progress, Abandoned, Silent, AnsweredOnce
<1>6. NothingIsOwed'
  BY DEF TypeOK, NothingIsOwed, Abandoned
<1>7. NoDanglingCommand'
  BY DEF TypeOK, Owners, Abandoned, NoDanglingCommand
<1>8. HandleIsSound'
  BY DEF TypeOK, Owners, HandleIsSound
<1> QED
  BY <1>1, <1>2, <1>3, <1>4, <1>5, <1>6, <1>7, <1>8

\* The request is given back on every path.
LEMMA UnrefRequestInv ==
  ASSUME Inv, NEW c \in Cmds, UnrefRequest(c) PROVE Inv'
<1> USE NoneIsNoCmd
      DEF Inv, cmdVars, callVars, answerVars,
          UnrefRequest
<1>1. TypeOK'
  BY DEF TypeOK, Steps
<1>2. Fresh'
  BY DEF Fresh, Untouched
<1>3. Owners'
  BY DEF TypeOK, Owners, Abandoned
<1>4. Progress'
  BY DEF TypeOK, Progress, Silent
<1>5. AnsweredOnce'
  BY DEF AnsweredOnce, Abandoned, Silent
<1>6. NothingIsOwed'
  BY DEF NothingIsOwed, Abandoned
<1>7. NoDanglingCommand'
  BY DEF NoDanglingCommand, Abandoned
<1>8. HandleIsSound'
  BY DEF HandleIsSound
<1> QED
  BY <1>1, <1>2, <1>3, <1>4, <1>5, <1>6, <1>7, <1>8

\* A command that is deleted was answered and is not notified.
LEMMA FinishCommandInv ==
  ASSUME Inv, NEW c \in Cmds, FinishCommand(c) PROVE Inv'
<1> USE NoneIsNoCmd
      DEF Inv, cmdVars, callVars, answerVars,
          FinishCommand, Delete
<1>1. TypeOK'
  BY DEF TypeOK, Fresh, Owners, Untouched, Steps
<1>2. Fresh'
  BY DEF TypeOK, Fresh, Owners, Untouched, Abandoned
<1>3. Owners'
  BY DEF TypeOK, Owners, Abandoned
<1>4. Progress'
  BY DEF TypeOK, Owners, Progress, Abandoned, Silent
<1>5. AnsweredOnce'
  BY DEF TypeOK, Owners, Progress, Abandoned, Silent, AnsweredOnce
<1>6. NothingIsOwed'
  BY DEF TypeOK, Progress, Abandoned, NothingIsOwed, NoDanglingCommand
<1>7. NoDanglingCommand'
  BY DEF TypeOK, Progress, Abandoned, NoDanglingCommand
<1>8. HandleIsSound'
  BY DEF TypeOK, HandleIsSound
<1> QED
  BY <1>1, <1>2, <1>3, <1>4, <1>5, <1>6, <1>7, <1>8

\* The invocation that is cancelled waits.
LEMMA ExecuteCancelInv ==
  ASSUME Inv, NEW c \in Cmds, ExecuteCancel(c) PROVE Inv'
<1> USE NoneIsNoCmd
      DEF Inv, cmdVars,
          ExecuteCancel, Take, Front, CancelCall, CancelsCall, Answer
<1>1. TypeOK'
  BY DEF TypeOK, Steps
<1>2. Fresh'
  BY DEF TypeOK, Fresh, Owners, Progress, Untouched, Abandoned
<1>3. Owners'
  BY DEF TypeOK, Fresh, Owners, Progress, Untouched, Abandoned, Adders
<1>4. Progress'
  BY DEF TypeOK, Fresh, Progress, Untouched, Abandoned, Silent,
     NoDanglingCommand, Adders
<1>5. AnsweredOnce'
  BY DEF TypeOK, Fresh, Progress, Abandoned, Silent, AnsweredOnce,
     NoDanglingCommand, Adders
<1>6. NothingIsOwed'
  BY DEF TypeOK, Fresh, Progress, Abandoned, NothingIsOwed, NoDanglingCommand,
     Adders
<1>7. NoDanglingCommand'
  BY DEF TypeOK, Fresh, Abandoned, NoDanglingCommand, Adders
<1>8. HandleIsSound'
  BY DEF TypeOK, Fresh, HandleIsSound, Adders
<1> QED
  BY <1>1, <1>2, <1>3, <1>4, <1>5, <1>6, <1>7, <1>8

\* The destructor deletes a command that waits.
LEMMA CloseCancelsInv ==
  ASSUME Inv, NEW c \in Cmds, CloseCancels(c) PROVE Inv'
<1> USE NoneIsNoCmd
      DEF Inv, cmdVars, threadVars,
          CloseCancels, CancelCall, CancelsCall, Answer, Delete
<1>1. TypeOK'
  BY DEF TypeOK
<1>2. Fresh'
  BY DEF TypeOK, Fresh, Owners, Progress, Untouched, Abandoned
<1>3. Owners'
  BY DEF TypeOK, Owners, Progress, Abandoned, NoDanglingCommand
<1>4. Progress'
  BY DEF TypeOK, Progress, Abandoned, Silent, NoDanglingCommand
<1>5. AnsweredOnce'
  BY DEF TypeOK, Owners, Progress, Abandoned, Silent, AnsweredOnce,
     NoDanglingCommand
<1>6. NothingIsOwed'
  BY DEF TypeOK, Owners, Progress, Abandoned, NothingIsOwed, NoDanglingCommand
<1>7. NoDanglingCommand'
  BY DEF TypeOK, NoDanglingCommand, Abandoned
<1>8. HandleIsSound'
  <2>1. object'[c] \in {"none", "freed"}
    BY DEF TypeOK, Fresh, Owners, NoDanglingCommand, Abandoned
  <2>2. \A d \in Cmds : d # c => object'[d] = object[d] /\ told'[d] = told[d]
    BY DEF TypeOK
  <2>3. told'[c] = "error"
    BY DEF TypeOK
  <2> QED
    BY <2>1, <2>2, <2>3 DEF TypeOK, HandleIsSound
<1> QED
  BY <1>1, <1>2, <1>3, <1>4, <1>5, <1>6, <1>7, <1>8

\* With the connection its calls and its objects go.
LEMMA CloseEndsInv ==
  ASSUME Inv, CloseEnds PROVE Inv'
<1> USE NoneIsNoCmd
      DEF Inv, cmdVars, answerVars,
          CloseEnds, Answer
<1>1. TypeOK'
  BY DEF TypeOK, Fresh, Owners, Untouched, Steps
<1>2. Fresh'
  BY DEF TypeOK, Fresh, Owners, Untouched, Abandoned
<1>3. Owners'
  BY DEF TypeOK, Owners, Progress, Abandoned, Adders
<1>4. Progress'
  BY DEF TypeOK, Progress, Abandoned, Silent, Adders
<1>5. AnsweredOnce'
  BY DEF TypeOK, Progress, Abandoned, Silent, AnsweredOnce
<1>6. NothingIsOwed'
  BY DEF NothingIsOwed, Abandoned
<1>7. NoDanglingCommand'
  BY DEF TypeOK, Progress, NoDanglingCommand, Adders
<1>8. HandleIsSound'
  BY DEF TypeOK, Progress, HandleIsSound, Adders
<1> QED
  BY <1>1, <1>2, <1>3, <1>4, <1>5, <1>6, <1>7, <1>8

\* Only the dispatcher changes.
LEMMA DestroyDispatcherInv ==
  ASSUME Inv, DestroyDispatcher PROVE Inv'
<1> USE NoneIsNoCmd
      DEF Inv, cmdVars, callVars, answerVars, threadVars,
          DestroyDispatcher
<1>1. TypeOK'
  BY DEF TypeOK
<1>2. Fresh'
  BY DEF Fresh, Untouched
<1>3. Owners'
  BY DEF Owners, Abandoned
<1>4. Progress'
  BY DEF Progress, Silent
<1>5. AnsweredOnce'
  BY DEF AnsweredOnce, Abandoned, Silent
<1>6. NothingIsOwed'
  BY DEF NothingIsOwed, Abandoned
<1>7. NoDanglingCommand'
  BY DEF NoDanglingCommand, Abandoned
<1>8. HandleIsSound'
  BY DEF HandleIsSound
<1> QED
  BY <1>1, <1>2, <1>3, <1>4, <1>5, <1>6, <1>7, <1>8

\* A queued command was not touched before.
LEMMA DropQueuedInv ==
  ASSUME Inv, NEW c \in Cmds, DropQueued(c) PROVE Inv'
<1> USE NoneIsNoCmd
      DEF Inv, cmdVars, callVars, threadVars,
          DropQueued, Front, Answer, Delete
<1>1. TypeOK'
  BY DEF TypeOK
<1>2. Fresh'
  BY DEF TypeOK, Fresh, Untouched
<1>3. Owners'
  BY DEF Owners, Abandoned
<1>4. Progress'
  BY DEF TypeOK, Progress, Silent
<1>5. AnsweredOnce'
  BY DEF TypeOK, Fresh, Untouched, Abandoned, Silent, AnsweredOnce
<1>6. NothingIsOwed'
  BY DEF TypeOK, Fresh, Untouched, Abandoned, NothingIsOwed, NoDanglingCommand
<1>7. NoDanglingCommand'
  BY DEF Fresh, Untouched, Abandoned, NoDanglingCommand
<1>8. HandleIsSound'
  BY DEF Fresh, Untouched, HandleIsSound
<1> QED
  BY <1>1, <1>2, <1>3, <1>4, <1>5, <1>6, <1>7, <1>8

\* A call that waits is notified as one that is ready.
LEMMA ReplyArrivesInv ==
  ASSUME Inv, NEW c \in Cmds, ReplyArrives(c) PROVE Inv'
<1> USE NoneIsNoCmd
      DEF Inv, cmdVars, answerVars, threadVars,
          ReplyArrives
<1>1. TypeOK'
  BY DEF TypeOK
<1>2. Fresh'
  BY DEF Fresh, Untouched
<1>3. Owners'
  BY DEF Owners, Abandoned
<1>4. Progress'
  BY DEF Progress, Silent
<1>5. AnsweredOnce'
  BY DEF AnsweredOnce, Abandoned, Silent
<1>6. NothingIsOwed'
  BY DEF NothingIsOwed, Abandoned
<1>7. NoDanglingCommand'
  BY DEF NoDanglingCommand, Abandoned
<1>8. HandleIsSound'
  BY DEF HandleIsSound
<1> QED
  BY <1>1, <1>2, <1>3, <1>4, <1>5, <1>6, <1>7, <1>8

\* Objects of a lost connection live.
LEMMA LoseInv ==
  ASSUME Inv, Lose PROVE Inv'
<1> USE NoneIsNoCmd
      DEF Inv, cmdVars, callVars, answerVars, threadVars,
          Lose
<1>1. TypeOK'
  BY DEF TypeOK
<1>2. Fresh'
  BY DEF Fresh, Untouched
<1>3. Owners'
  BY DEF Owners, Abandoned
<1>4. Progress'
  BY DEF Progress, Silent
<1>5. AnsweredOnce'
  BY DEF AnsweredOnce, Abandoned, Silent
<1>6. NothingIsOwed'
  BY DEF NothingIsOwed, Abandoned
<1>7. NoDanglingCommand'
  BY DEF NoDanglingCommand, Abandoned
<1>8. HandleIsSound'
  BY DEF HandleIsSound
<1> QED
  BY <1>1, <1>2, <1>3, <1>4, <1>5, <1>6, <1>7, <1>8

\* Only the thread moves.
LEMMA BeginDispatchInv ==
  ASSUME Inv, BeginDispatch PROVE Inv'
<1> USE NoneIsNoCmd
      DEF Inv, cmdVars, callVars, answerVars,
          BeginDispatch, Connected
<1>1. TypeOK'
  BY DEF TypeOK, Steps
<1>2. Fresh'
  BY DEF Fresh, Untouched
<1>3. Owners'
  BY DEF Owners, Abandoned
<1>4. Progress'
  BY DEF Progress, Silent
<1>5. AnsweredOnce'
  BY DEF AnsweredOnce, Abandoned, Silent
<1>6. NothingIsOwed'
  BY DEF NothingIsOwed, Abandoned
<1>7. NoDanglingCommand'
  BY DEF NoDanglingCommand, Abandoned
<1>8. HandleIsSound'
  BY DEF HandleIsSound
<1> QED
  BY <1>1, <1>2, <1>3, <1>4, <1>5, <1>6, <1>7, <1>8

\* Only the thread moves.
LEMMA EndDispatchInv ==
  ASSUME Inv, EndDispatch PROVE Inv'
<1> USE NoneIsNoCmd
      DEF Inv, cmdVars, callVars, answerVars,
          EndDispatch
<1>1. TypeOK'
  BY DEF TypeOK, Steps
<1>2. Fresh'
  BY DEF Fresh, Untouched
<1>3. Owners'
  BY DEF Owners, Abandoned
<1>4. Progress'
  BY DEF Progress, Silent
<1>5. AnsweredOnce'
  BY DEF AnsweredOnce, Abandoned, Silent
<1>6. NothingIsOwed'
  BY DEF NothingIsOwed, Abandoned
<1>7. NoDanglingCommand'
  BY DEF NoDanglingCommand, Abandoned
<1>8. HandleIsSound'
  BY DEF HandleIsSound
<1> QED
  BY <1>1, <1>2, <1>3, <1>4, <1>5, <1>6, <1>7, <1>8

\* A call that is over notifies nobody.
LEMMA DropReplyInv ==
  ASSUME Inv, NEW c \in Cmds, DropReply(c) PROVE Inv'
<1> USE NoneIsNoCmd
      DEF Inv, cmdVars, answerVars, threadVars,
          DropReply
<1>1. TypeOK'
  BY DEF TypeOK
<1>2. Fresh'
  BY DEF Fresh, Untouched
<1>3. Owners'
  BY DEF Owners, Abandoned
<1>4. Progress'
  BY DEF Progress, Silent
<1>5. AnsweredOnce'
  BY DEF AnsweredOnce, Abandoned, Silent
<1>6. NothingIsOwed'
  BY DEF NothingIsOwed, Abandoned
<1>7. NoDanglingCommand'
  BY DEF NoDanglingCommand, Abandoned
<1>8. HandleIsSound'
  BY DEF HandleIsSound
<1> QED
  BY <1>1, <1>2, <1>3, <1>4, <1>5, <1>6, <1>7, <1>8

\* The result or the error is the only answer.
LEMMA AskRepliedInv ==
  ASSUME Inv, NEW c \in Cmds, NEW K \in SUBSET Asks,
         Notified(c, K), AskReplied(c)
  PROVE  Inv'
<1> USE NoneIsNoCmd
      DEF Inv, cmdVars, threadVars,
          Notified, AskReplied, Settle, Answer, Delete
<1>1. TypeOK'
  BY DEF TypeOK
<1>2. Fresh'
  BY DEF TypeOK, Fresh, Owners, Progress, Untouched, Abandoned, Silent, Asks,
     Adders
<1>3. Owners'
  BY DEF TypeOK, Owners, Progress, Abandoned, Silent, NothingIsOwed, Asks,
     Adders
<1>4. Progress'
  BY DEF TypeOK, Progress, Silent
<1>5. AnsweredOnce'
  BY DEF TypeOK, Progress, Abandoned, Silent, AnsweredOnce
<1>6. NothingIsOwed'
  BY DEF TypeOK, Progress, Abandoned, NothingIsOwed, NoDanglingCommand
<1>7. NoDanglingCommand'
  BY DEF TypeOK, Progress, Abandoned, NoDanglingCommand, Asks, Adders
<1>8. HandleIsSound'
  BY DEF Progress, HandleIsSound, Asks, Adders
<1> QED
  BY <1>1, <1>2, <1>3, <1>4, <1>5, <1>6, <1>7, <1>8

\* The object is handed over or freed.
LEMMA AddRepliedInv ==
  ASSUME Inv, NEW c \in Cmds, NEW K \in SUBSET Adders,
         Notified(c, K), AddReplied(c)
  PROVE  Inv'
<1> USE NoneIsNoCmd
      DEF Inv, cmdVars, threadVars,
          Notified, AddReplied, Connected, Answer, Delete, Enter
<1>1. TypeOK'
  BY DEF TypeOK
<1>2. Fresh'
  <2>1. kind[c] \in Adders /\ object[c] # "none"
    BY DEF TypeOK, Fresh
  <2>2. life'[c] = "deleted" /\ object'[c] # "none"
    BY <2>1 DEF TypeOK
  <2>3. /\ kind' = kind /\ subject' = subject /\ notify' = notify
        /\ pending' \subseteq pending
    OBVIOUS
  <2>4. ASSUME NEW d \in Cmds, d # c
        PROVE  /\ life'[d] = life[d] /\ object'[d] = object[d] /\ owes'[d] = owes[d]
               /\ call'[d] = call[d] /\ told'[d] = told[d] /\ answers'[d] = answers[d]
    BY <2>4 DEF TypeOK
  <2> QED
    BY <2>1, <2>2, <2>3, <2>4 DEF Fresh, Untouched
<1>3. Owners'
  BY DEF TypeOK, Owners, Progress, Abandoned, NothingIsOwed
<1>4. Progress'
  BY DEF TypeOK, Progress, Silent
<1>5. AnsweredOnce'
  BY DEF TypeOK, Progress, Abandoned, Silent, AnsweredOnce
<1>6. NothingIsOwed'
  BY DEF TypeOK, Progress, Abandoned, NothingIsOwed, NoDanglingCommand
<1>7. NoDanglingCommand'
  BY DEF TypeOK, Owners, NoDanglingCommand, NothingIsOwed
<1>8. HandleIsSound'
  BY DEF TypeOK, Owners, HandleIsSound
<1> QED
  BY <1>1, <1>2, <1>3, <1>4, <1>5, <1>6, <1>7, <1>8

\* On a lost connection the object is freed and the reply is not.
LEMMA SubscribeRepliedInv ==
  ASSUME Inv, NEW c \in Cmds, NEW K \in SUBSET Adders,
         Notified(c, K), SubscribeReplied(c), ~AddReplied(c)
  PROVE  Inv'
<1> USE NoneIsNoCmd
      DEF Inv, cmdVars, threadVars,
          Notified, SubscribeReplied, Connected, Answer
<1>1. TypeOK'
  BY DEF TypeOK
<1>2. Fresh'
  <2>1. kind[c] \in Adders /\ object[c] # "none"
    BY DEF TypeOK, Fresh
  <2>2. life'[c] = "deleted" /\ object'[c] = "freed"
    BY DEF TypeOK
  <2>3. ASSUME NEW d \in Cmds, d # c
        PROVE  /\ life'[d] = life[d] /\ object'[d] = object[d] /\ owes'[d] = owes[d]
               /\ call'[d] = call[d] /\ told'[d] = told[d] /\ answers'[d] = answers[d]
    BY <2>3 DEF TypeOK
  <2>4. kind' = kind /\ subject' = subject /\ notify' = notify /\ pending' = pending
    OBVIOUS
  <2> QED
    BY <2>1, <2>2, <2>3, <2>4 DEF Fresh, Untouched
<1>3. Owners'
  BY DEF TypeOK, Owners, Progress, Abandoned
<1>4. Progress'
  BY DEF TypeOK, Progress, Silent
<1>5. AnsweredOnce'
  BY DEF TypeOK, AnsweredOnce, Abandoned, Silent
<1>6. NothingIsOwed'
  <2>1. kind[c] \in Adders /\ conn' \in {"down", "closed"}
    BY DEF TypeOK, Owners
  <2>2. life'[c] = "deleted" /\ object'[c] = "freed" /\ owes'[c] = {"reply"}
    BY DEF TypeOK
  <2>3. ASSUME NEW d \in Cmds, d # c
        PROVE  life'[d] = life[d] /\ object'[d] = object[d] /\ owes'[d] = owes[d]
    BY <2>3 DEF TypeOK
  <2> QED
    BY <2>1, <2>2, <2>3 DEF NothingIsOwed, Abandoned
<1>7. NoDanglingCommand'
  BY DEF TypeOK, NoDanglingCommand, Abandoned
<1>8. HandleIsSound'
  BY DEF TypeOK, HandleIsSound
<1> QED
  BY <1>1, <1>2, <1>3, <1>4, <1>5, <1>6, <1>7, <1>8

\* On a lost connection the command stays, answered.
LEMMA NotifyRegisterInv ==
  ASSUME Inv, NEW c \in Cmds, NotifyRegister(c), ~AddReplied(c) PROVE Inv'
<1> USE NoneIsNoCmd
      DEF Inv, cmdVars, threadVars,
          NotifyRegister, Notified, Connected, Answer
<1>1. TypeOK'
  BY DEF TypeOK
<1>2. Fresh'
  BY DEF TypeOK, Fresh, Owners, Progress, Untouched, Abandoned, Adders
<1>3. Owners'
  BY DEF TypeOK, Fresh, Owners, Progress, Abandoned, Adders
<1>4. Progress'
  BY DEF TypeOK, Progress, Silent
<1>5. AnsweredOnce'
  BY DEF TypeOK, Owners, Abandoned, Silent, AnsweredOnce, Adders
<1>6. NothingIsOwed'
  BY DEF TypeOK, Owners, Abandoned, NothingIsOwed, NoDanglingCommand, Adders
<1>7. NoDanglingCommand'
  BY DEF TypeOK, Owners, Abandoned, NoDanglingCommand
<1>8. HandleIsSound'
  BY DEF TypeOK, Owners, HandleIsSound
<1> QED
  BY <1>1, <1>2, <1>3, <1>4, <1>5, <1>6, <1>7, <1>8

\* Another command's object goes.
LEMMA RemoveRepliedInv ==
  ASSUME Inv, NEW c \in Cmds, NEW K \in SUBSET Removers,
         Notified(c, K), RemoveReplied(c)
  PROVE  Inv'
<1> USE NoneIsNoCmd
      DEF Inv, cmdVars, threadVars,
          Notified, RemoveReplied, Exists, Answer
<1>1. TypeOK'
  BY DEF TypeOK
<1>2. Fresh'
  BY DEF TypeOK, Fresh, Owners, Progress, Untouched, Abandoned, Silent, Steps,
     Adders, Removers
<1>3. Owners'
  BY DEF TypeOK, Owners, Progress, Abandoned, Silent, Steps, NothingIsOwed,
     Adders, Removers
<1>4. Progress'
  BY DEF TypeOK, Progress, Silent
<1>5. AnsweredOnce'
  BY DEF TypeOK, Fresh, Progress, Abandoned, Silent, AnsweredOnce, Adders,
     Removers
<1>6. NothingIsOwed'
  BY DEF TypeOK, Fresh, Progress, Abandoned, NothingIsOwed, NoDanglingCommand,
     Adders, Removers
<1>7. NoDanglingCommand'
  BY DEF TypeOK, Abandoned, NoDanglingCommand, Adders, Removers
<1>8. HandleIsSound'
  BY DEF TypeOK, HandleIsSound, Adders, Removers
<1> QED
  BY <1>1, <1>2, <1>3, <1>4, <1>5, <1>6, <1>7, <1>8

\* The executions of every class.
LEMMA ExecuteInv ==
  ASSUME Inv, NEW c \in Cmds, Execute(c) PROVE Inv'
<1> USE DEF Kinds, Asks, Adders, Removers, Makers
<1>1. ASSUME NEW usable \in BOOLEAN,
             \/ Start(c, "subscribe", usable) \/ Start(c, "registerService", usable)
             \/ Start(c, "invoke", usable) \/ Start(c, "noReply", usable)
             \/ Start(c, "nameHasOwner", usable)
             \/ Start(c, "subscribeOwnerChanged", usable)
             \/ Start(c, "unsubscribe", usable)
             \/ Start(c, "unregisterService", usable)
      PROVE  Inv'
  BY <1>1, StartInv
<1>2. /\ Connected \in BOOLEAN /\ (conn \in {"up", "down"}) \in BOOLEAN
      /\ (Exists(subject[c]) /\ Connected) \in BOOLEAN
  BY DEF Connected
<1>3. CASE ExecuteSubscribe(c) \/ ExecuteRegister(c) \/ ExecuteInvoke(c)
           \/ ExecuteNameHasOwner(c)
  BY <1>1, <1>2, <1>3 DEF ExecuteSubscribe, ExecuteRegister, ExecuteInvoke,
     ExecuteNameHasOwner
<1>4. CASE ExecuteOwnerChanged(c) \/ ExecuteUnsubscribe(c) \/ ExecuteUnregister(c)
  BY <1>1, <1>2, <1>4 DEF ExecuteOwnerChanged, ExecuteUnsubscribe, ExecuteUnregister
<1>5. CASE ExecuteOpen(c) \/ ExecuteGet(c)
  BY <1>5, CreateInv DEF ExecuteOpen, ExecuteGet
<1> QED
  BY <1>3, <1>4, <1>5, ExecuteEmitInv, EscapeInv, ExecuteCloseInv, ExecuteCancelInv
     DEF Execute

\* The API functions submit commands of the thirteen kinds.
LEMMA ApiInv ==
  ASSUME Inv, NEW c \in Cmds, ApiStep(c) PROVE Inv'
<1> USE DEF Kinds, Asks, Adders, Removers, Makers
<1>1. CASE PostCancel(c)
  BY <1>1, SubmitInv DEF PostCancel
<1>2. CASE PostEmit(c)
  BY <1>2, SubmitInv DEF PostEmit
<1>3. CASE PostUnsubscribe(c)
  BY <1>3, SubmitInv DEF PostUnsubscribe
<1>4. CASE PostUnregister(c)
  BY <1>4, SubmitInv DEF PostUnregister
<1>5. CASE PostOpen(c) \/ PostGet(c) \/ PostClose(c) \/ PostInvoke(c)
  BY <1>5, SubmitInv DEF PostOpen, PostGet, PostClose, PostInvoke
<1>6. CASE PostSubscribe(c) \/ PostRegister(c) \/ PostNameHasOwner(c)
           \/ PostOwnerChanged(c)
  BY <1>6, SubmitInv DEF PostSubscribe, PostRegister, PostNameHasOwner,
     PostOwnerChanged
<1> QED
  BY <1>1, <1>2, <1>3, <1>4, <1>5, <1>6 DEF ApiStep

\* The notifications of every class.
LEMMA NotifyInv ==
  ASSUME Inv, NEW c \in Cmds, OnPendingCallNotify(c) PROVE Inv'
<1>1. /\ {"invoke"} \in SUBSET Asks /\ {"nameHasOwner"} \in SUBSET Asks
      /\ {"subscribe"} \in SUBSET Adders
      /\ {"subscribeOwnerChanged"} \in SUBSET Adders
      /\ {"registerService"} \in SUBSET Adders
      /\ {"unsubscribe"} \in SUBSET Removers
      /\ {"unregisterService"} \in SUBSET Removers
  BY DEF Asks, Adders, Removers
<1>2. CASE NotifyInvoke(c) \/ NotifyNameHasOwner(c)
  BY <1>1, <1>2, AskRepliedInv DEF NotifyInvoke, NotifyNameHasOwner
<1>3. CASE NotifySubscribe(c) \/ NotifyOwnerChanged(c)
  BY <1>1, <1>3, AddRepliedInv, SubscribeRepliedInv
     DEF NotifySubscribe, NotifyOwnerChanged
<1>4. CASE NotifyRegister(c)
  <2>1. Notified(c, {"registerService"})
    BY <1>4 DEF NotifyRegister
  <2> QED
    BY <1>1, <1>4, <2>1, AddRepliedInv, NotifyRegisterInv
<1>5. CASE NotifyUnsubscribe(c) \/ NotifyUnregister(c)
  BY <1>1, <1>5, RemoveRepliedInv DEF NotifyUnsubscribe, NotifyUnregister
<1> QED
  BY <1>2, <1>3, <1>4, <1>5 DEF OnPendingCallNotify

LEMMA StutterInv == ASSUME Inv, UNCHANGED vars PROVE Inv'
BY DEF vars, Inv, TypeOK, Fresh, Owners, Progress, AnsweredOnce, NothingIsOwed,
   NoDanglingCommand, HandleIsSound, Untouched, Abandoned, Silent

\* One step per kind of action.
LEMMA NextInv == Inv /\ [Next]_vars => Inv'
<1> SUFFICES ASSUME Inv, [Next]_vars PROVE Inv'
  OBVIOUS
<1>1. ASSUME NEW c \in Cmds, Step(c) PROVE Inv'
  BY <1>1, AllocateInv, AppendInv, SendRequestInv, SendNoReplyInv, SendSignalInv,
     SetNotifyInv, RegisterPendingInv, UnrefRequestInv, FinishCommandInv DEF Step
<1>2. ASSUME NEW c \in Cmds, CloseCancels(c) \/ DropQueued(c) PROVE Inv'
  BY <1>2, CloseCancelsInv, DropQueuedInv
<1>3. ASSUME NEW c \in Cmds, ReplyArrives(c) \/ DropReply(c) PROVE Inv'
  BY <1>3, ReplyArrivesInv, DropReplyInv
<1>4. CASE ExecuteShutdown \/ CloseEnds \/ DestroyDispatcher
  BY <1>4, ExecuteShutdownInv, CloseEndsInv, DestroyDispatcherInv
<1>5. CASE Lose \/ BeginDispatch \/ EndDispatch
  BY <1>5, LoseInv, BeginDispatchInv, EndDispatchInv
<1> QED
  BY <1>1, <1>2, <1>3, <1>4, <1>5, ApiInv, ExecuteInv, NotifyInv, StutterInv DEF Next

\* Every state is one of a dispatcher whose commands are accounted for.
THEOREM Invariance == Spec => []Inv
BY InitInv, NextInv, PTL DEF Spec

\* The types of the commands and of what they own, after any failure.
THEOREM TypeCorrect == Spec => []TypeOK
BY Invariance, PTL DEF Inv

\* Whatever step of whatever command fails, its caller is answered, and once:
\* the error branches of the execute() methods, the notifications, cancel(),
\* ~Connection and ~Dispatcher neither answer twice nor forget to.
THEOREM AnsweredOnceCorrect == Spec => []AnsweredOnce
BY Invariance, PTL DEF Inv

\* Every path of every execute() and onPendingCallNotify gives back the
\* request, the call and the reply it took, but for replies on a lost
\* connection.
THEOREM NothingIsOwedCorrect == Spec => []NothingIsOwed
BY Invariance, PTL DEF Inv

\* No notification reaches a deleted command, and ~Connection finds all that
\* wait, whatever step failed before.
THEOREM NoDanglingCommandCorrect == Spec => []NoDanglingCommand
BY Invariance, PTL DEF Inv

\* A handle given with a good status is that of an object its connection owns
\* until it is removed or the connection goes.
THEOREM HandleIsSoundCorrect == Spec => []HandleIsSound
BY Invariance, PTL DEF Inv

-----------------------------------------------------------------------------
(* What one step does to the answers and to the objects.                   *)

\* The API functions answer nobody and touch no object but that of a new
\* command, which has no answer.
LEMMA ApiStepFacts ==
  ASSUME Inv, NEW d \in Cmds, ApiStep(d)
  PROVE  /\ answers' = answers /\ told' = told
         /\ pending' = pending /\ call' = call /\ conn' = conn
         /\ at' = at /\ running' = running
         /\ told[d] = "nothing" /\ object[d] = "none" /\ object'[d] \in {"none", "owned"}
         /\ life'[d] \in {"queued", "refused"}
         /\ \A c \in Cmds : c # d =>
              /\ kind'[c] = kind[c] /\ subject'[c] = subject[c]
              /\ object'[c] = object[c] /\ life'[c] = life[c]
<1>1. PICK k, s : Submit(d, k, s)
  BY DEF ApiStep, PostOpen, PostGet, PostClose, PostInvoke, PostCancel, PostEmit,
     PostSubscribe, PostUnsubscribe, PostRegister, PostUnregister,
     PostNameHasOwner, PostOwnerChanged
<1>2. life[d] = "unused" /\ kind[d] = "none" /\ object[d] = "none" /\ told[d] = "nothing"
  <2>1. life[d] = "unused"
    BY <1>1 DEF Submit
  <2> QED
    BY <2>1 DEF Inv, TypeOK, Fresh, Untouched, Adders
<1> QED
  BY <1>1, <1>2 DEF Submit, Construct, Inv, TypeOK, callVars, answerVars, cmdVars,
     threadVars

\* A step answers a command that is queued, is executed or waits, or one whose
\* reply was abandoned.
LEMMA AnswersLemma ==
  ASSUME Inv, [Next]_vars, NEW c \in Cmds, answers'[c] # answers[c]
  PROVE  life[c] \in {"queued", "running", "kept"} \/ Abandoned(c)
<1> USE DEF Inv
<1>1. ASSUME NEW d \in Cmds, Execute(d), ~ExecuteCancel(d)
      PROVE  c = d /\ life[c] = "queued"
  BY <1>1 DEF TypeOK, Execute, ExecuteSubscribe, ExecuteRegister, ExecuteInvoke,
     ExecuteNameHasOwner, ExecuteOwnerChanged, ExecuteUnsubscribe,
     ExecuteUnregister, ExecuteEmit, ExecuteOpen, ExecuteGet, Escape, ExecuteClose,
     Start, Create, Take, Front, Answer, answerVars
<1>2. ASSUME NEW d \in Cmds, ExecuteCancel(d)
      PROVE  (c = d /\ life[c] = "queued") \/ c \in pending
  BY <1>2 DEF TypeOK, ExecuteCancel, Take, Front, Answer
<1>3. ASSUME NEW d \in Cmds, Step(d)
      PROVE  c = d /\ running = c
  BY <1>3 DEF TypeOK, Step, Allocate, Append, SendRequest, SendNoReply, SendSignal,
     SetNotify, RegisterPending, UnrefRequest, FinishCommand, Answer, answerVars
<1>4. ASSUME NEW d \in Cmds, OnPendingCallNotify(d)
      PROVE  c = d /\ life[c] = "kept"
  BY <1>4 DEF TypeOK, OnPendingCallNotify, NotifyInvoke, NotifyNameHasOwner,
     NotifySubscribe, NotifyOwnerChanged, NotifyRegister, NotifyUnsubscribe,
     NotifyUnregister, Notified, AskReplied, SubscribeReplied, AddReplied,
     RemoveReplied, Answer
<1>5. ASSUME NEW d \in Cmds, CloseCancels(d)
      PROVE  c = d /\ c \in pending
  BY <1>5 DEF TypeOK, CloseCancels, Answer
<1>6. ASSUME NEW d \in Cmds, DropQueued(d)
      PROVE  c = d /\ life[c] = "queued"
  BY <1>6 DEF TypeOK, DropQueued, Front, Answer
<1>7. CASE CloseEnds
  BY <1>7 DEF TypeOK, Owners, CloseEnds, Answer, answerVars
<1>8. c \in pending => life[c] = "kept" \/ Abandoned(c)
  BY DEF NoDanglingCommand
<1>9. running = c => life[c] \in {"running", "kept"}
  BY DEF Owners
<1> QED
  BY <1>1, <1>2, <1>3, <1>4, <1>5, <1>6, <1>7, <1>8, <1>9, ApiStepFacts
     DEF Next, vars, ReplyArrives, DropReply, ExecuteShutdown, DestroyDispatcher,
         Lose, BeginDispatch, EndDispatch, answerVars

\* No answer is written to a command after its deletion, but for those whose
\* connection was found lost in the dispatch of their reply.
THEOREM AnswersReachCorrect == Spec => AnswersReachCommands
<1> DEFINE A == \A c \in Cmds :
                  answers'[c] # answers[c] =>
                    life[c] \in {"queued", "running", "kept"} \/ Abandoned(c)
<1>1. Inv /\ [Next]_vars => [A]_vars
  BY AnswersLemma
<1>2. AnswersReachCommands <=> [][A]_vars
  BY PTL DEF AnswersReachCommands
<1> QED
  BY <1>1, <1>2, Invariance, PTL DEF Spec

\* The executions, the answers and the replies that are not removals leave the
\* container of objects as it is, or enter one.
KeepsObjects ==
  \A c \in Cmds :
    /\ kind'[c] = kind[c] /\ subject'[c] = subject[c]
    /\ object[c] \in {"entered", "removed"} => object'[c] = object[c]
    /\ kind[c] \in Removers /\ told[c] # "ok" => told'[c] # "ok"

\* The reply to a removal that finds its object.
Removes(d) ==
  /\ kind[d] \in Removers /\ life[d] = "kept"
  /\ subject[d] \in Cmds /\ object[subject[d]] = "entered"
  /\ kind' = kind /\ subject' = subject
  /\ told' = [told EXCEPT ![d] = "ok"]
  /\ object' = [object EXCEPT ![subject[d]] = "removed"]

\* An execution adds no object, and tells no removal that it was done.
LEMMA ExecuteFacts ==
  ASSUME Inv, NEW d \in Cmds, Execute(d) PROVE KeepsObjects
<1> USE NoneIsNoCmd DEF Inv, cmdVars, KeepsObjects
<1>1. CASE ExecuteCancel(d)
  <2>1. object' = object /\ kind' = kind /\ subject' = subject
    BY <1>1 DEF ExecuteCancel, Take, cmdVars
  <2>2. kind[d] = "cancel"
    BY <1>1 DEF ExecuteCancel, Take
  <2>3. \A c \in Cmds : c # d => told'[c] = told[c] \/ told'[c] = "error"
    BY <1>1 DEF TypeOK, ExecuteCancel, Take, Answer
  <2> QED
    BY <2>1, <2>2, <2>3 DEF Removers
<1>2. CASE ~ExecuteCancel(d)
  <2>1. object' = object /\ kind' = kind /\ subject' = subject
    BY <1>2 DEF Execute, ExecuteSubscribe, ExecuteRegister, ExecuteInvoke,
       ExecuteNameHasOwner, ExecuteOwnerChanged, ExecuteUnsubscribe,
       ExecuteUnregister, ExecuteEmit, ExecuteOpen, ExecuteGet, Escape, ExecuteClose,
       Start, Create, Take
  <2>2. \A c \in Cmds : c # d => told'[c] = told[c]
    BY <1>2 DEF TypeOK, Execute, ExecuteSubscribe, ExecuteRegister, ExecuteInvoke,
       ExecuteNameHasOwner, ExecuteOwnerChanged, ExecuteUnsubscribe,
       ExecuteUnregister, ExecuteEmit, ExecuteOpen, ExecuteGet, Escape, ExecuteClose,
       Start, Create, Answer, answerVars
  <2>3. told'[d] = "ok" /\ told[d] # "ok" => kind[d] \notin Removers
    BY <1>2 DEF TypeOK, Execute, ExecuteSubscribe, ExecuteRegister, ExecuteInvoke,
       ExecuteNameHasOwner, ExecuteOwnerChanged, ExecuteUnsubscribe,
       ExecuteUnregister, ExecuteEmit, ExecuteOpen, ExecuteGet, Escape, ExecuteClose,
       Start, Create, Take, Answer, answerVars, Makers, Removers
  <2> QED
    BY <2>1, <2>2, <2>3
<1> QED
  BY <1>1, <1>2

\* So does a step of an execution; an object it frees was owned.
LEMMA StepFacts ==
  ASSUME Inv, NEW d \in Cmds, Step(d) PROVE KeepsObjects
<1> USE DEF Inv, cmdVars, KeepsObjects
<1>1. kind' = kind /\ subject' = subject
  BY DEF Step, Allocate, Append, SendRequest, SendNoReply, SendSignal, SetNotify,
     RegisterPending, UnrefRequest, FinishCommand
<1>2. \A c \in Cmds : object[c] \in {"entered", "removed"} => object'[c] = object[c]
  BY DEF TypeOK, Step, Allocate, Append, SendRequest, SendNoReply, SendSignal,
     SetNotify, RegisterPending, UnrefRequest, FinishCommand, Delete
<1>3. \A c \in Cmds : kind[c] \in Removers /\ told[c] # "ok" => told'[c] # "ok"
  BY DEF TypeOK, Step, Allocate, Append, SendRequest, SendNoReply, SendSignal,
     SetNotify, RegisterPending, UnrefRequest, FinishCommand, Answer, answerVars,
     Removers
<1> QED
  BY <1>1, <1>2, <1>3

\* A reply enters the object of its own command, or is that of a removal.
LEMMA NotifyFacts ==
  ASSUME Inv, NEW d \in Cmds, OnPendingCallNotify(d)
  PROVE  KeepsObjects \/ Removes(d)
<1> USE NoneIsNoCmd DEF Inv, cmdVars
<1>1. /\ kind' = kind /\ subject' = subject
      /\ life[d] = "kept" /\ object[d] \in {"none", "owned"}
  BY DEF Owners, OnPendingCallNotify, NotifyInvoke, NotifyNameHasOwner,
     NotifySubscribe, NotifyOwnerChanged, NotifyRegister, NotifyUnsubscribe,
     NotifyUnregister, Notified
<1>2. CASE NotifyInvoke(d) \/ NotifyNameHasOwner(d)
  BY <1>1, <1>2 DEF TypeOK, NotifyInvoke, NotifyNameHasOwner, Notified, AskReplied,
     Settle, Delete, Answer, KeepsObjects, Removers
<1>3. CASE NotifySubscribe(d) \/ NotifyOwnerChanged(d) \/ NotifyRegister(d)
  <2>1. \A c \in Cmds : c # d => object'[c] = object[c] /\ told'[c] = told[c]
    BY <1>3 DEF TypeOK, NotifySubscribe, NotifyOwnerChanged, NotifyRegister,
       SubscribeReplied, AddReplied, Enter, Delete, Answer
  <2>2. kind[d] \notin Removers
    BY <1>3 DEF NotifySubscribe, NotifyOwnerChanged, NotifyRegister, Notified, Removers
  <2> QED
    BY <1>1, <2>1, <2>2 DEF KeepsObjects
<1>4. CASE NotifyUnsubscribe(d) \/ NotifyUnregister(d)
  <2>1. kind[d] \in Removers /\ RemoveReplied(d)
    BY <1>4 DEF NotifyUnsubscribe, NotifyUnregister, Notified, Removers
  <2>2. CASE Exists(subject[d]) /\ Answer(d, "ok")
             /\ object' = [object EXCEPT ![subject[d]] = "removed"]
    <3>1. subject[d] \in Cmds /\ object[subject[d]] = "entered"
      BY <2>2 DEF TypeOK, Exists
    <3> QED
      BY <1>1, <2>1, <2>2, <3>1 DEF Answer, Removes
  <2>3. CASE Answer(d, "error") /\ UNCHANGED object
    BY <1>1, <2>3 DEF TypeOK, Answer, KeepsObjects
  <2> QED
    BY <2>1, <2>2, <2>3 DEF RemoveReplied
<1> QED
  BY <1>2, <1>3, <1>4 DEF OnPendingCallNotify

\* What is left takes an object from its container only with the connection.
LEMMA CloseFacts ==
  ASSUME Inv, CloseEnds
  PROVE  /\ at = "closing" /\ kind' = kind /\ subject' = subject
         /\ \A c \in Cmds : /\ object[c] = "removed" => object'[c] = "removed"
                            /\ kind[c] \in Removers => told'[c] = told[c]
  BY DEF Inv, TypeOK, Progress, CloseEnds, Answer, cmdVars, answerVars, Removers

\* The rest frees only what is owned, and answers with errors.
LEMMA OtherFacts ==
  ASSUME Inv,
         \/ UNCHANGED vars \/ ExecuteShutdown \/ DestroyDispatcher \/ Lose
         \/ BeginDispatch \/ EndDispatch
         \/ \E d \in Cmds : \/ ReplyArrives(d) \/ DropReply(d)
                            \/ CloseCancels(d) \/ DropQueued(d)
  PROVE  KeepsObjects
<1>1. kind' = kind /\ subject' = subject
  BY DEF vars, ExecuteShutdown, DestroyDispatcher, Lose, BeginDispatch, EndDispatch,
     ReplyArrives, DropReply, CloseCancels, DropQueued, cmdVars
<1>2. \A c \in Cmds : object[c] \in {"entered", "removed"} => object'[c] = object[c]
  BY DEF Inv, TypeOK, vars, ExecuteShutdown, DestroyDispatcher, Lose, BeginDispatch,
     EndDispatch, ReplyArrives, DropReply, CloseCancels, DropQueued, Delete
<1>3. \A c \in Cmds : told'[c] = told[c] \/ told'[c] = "error"
  BY DEF Inv, TypeOK, vars, ExecuteShutdown, DestroyDispatcher, Lose, BeginDispatch,
     EndDispatch, ReplyArrives, DropReply, CloseCancels, DropQueued, Answer,
     answerVars
<1> QED
  BY <1>1, <1>2, <1>3 DEF KeepsObjects

\* Every step is one of four as far as the objects go.
LEMMA ObjectSteps ==
  ASSUME Inv, [Next]_vars
  PROVE  \/ KeepsObjects \/ CloseEnds
         \/ \E d \in Cmds : ApiStep(d) \/ Removes(d)
BY ExecuteFacts, StepFacts, NotifyFacts, OtherFacts DEF Next

\* An object is removed once: KeepsObjects keeps the removals that were done,
\* and a new one finds its object entered, so that no other was done before.
LEMMA RemovedStep ==
  ASSUME Inv, RemovedOnce, [Next]_vars PROVE RemovedOnce'
<1> USE NoneIsNoCmd DEF RemovedOnce
<1>1. /\ subject \in [Cmds -> Cmds \cup {None}]
      /\ object \in [Cmds -> {"none", "owned", "entered", "freed", "removed"}]
      /\ told \in [Cmds -> {"nothing", "ok", "error"}]
  BY DEF Inv, TypeOK
<1>2. CASE KeepsObjects
  BY <1>1, <1>2 DEF KeepsObjects
<1>3. CASE CloseEnds
  BY <1>1, <1>3, CloseFacts
<1>4. ASSUME NEW d \in Cmds, ApiStep(d) PROVE RemovedOnce'
  BY <1>1, <1>4, ApiStepFacts
<1>5. ASSUME NEW d \in Cmds, Removes(d) PROVE RemovedOnce'
  <2>1. /\ kind' = kind /\ subject' = subject /\ subject[d] \in Cmds
        /\ object[subject[d]] = "entered" /\ object'[subject[d]] = "removed"
        /\ \A c \in Cmds : object[c] = "removed" => object'[c] = "removed"
        /\ \A c \in Cmds : c # d => told'[c] = told[c]
    BY <1>1, <1>5 DEF Removes
  <2>2. \A c \in Cmds : kind[c] \in Removers /\ told[c] = "ok" => subject[c] # subject[d]
    BY <2>1
  <2> QED
    BY <1>1, <2>1, <2>2
<1> QED
  BY <1>2, <1>3, <1>4, <1>5, ObjectSteps

\* Of the removals of one handle that are under way at once, one is done.
THEOREM RemovedOnceCorrect == Spec => []RemovedOnce
<1>1. Init => RemovedOnce
  BY DEF Init, RemovedOnce, Removers
<1>2. Inv /\ RemovedOnce /\ [Next]_vars => RemovedOnce'
  BY RemovedStep
<1> QED
  BY <1>1, <1>2, Invariance, PTL DEF Spec

-----------------------------------------------------------------------------
(* Connections that are closed.                                            *)

\* Steps of an execution that has checked its connection: an emission does not.
Checked(k) == IF k = "emit" THEN {"notify", "register"}
              ELSE {"allocate", "append", "send", "notify", "register"}

Closing ==
  /\ at = "closing" => conn = "closed"
  /\ \A c \in Cmds :
       running = c /\ at \in Checked(kind[c]) => conn \in {"up", "down"}

\* A check keeps its outcome: a connection is lost or closed by other steps.
LEMMA ClosingStep ==
  ASSUME Inv, Closing, [Next]_vars PROVE Closing'
<1> USE NoneIsNoCmd DEF Inv, Closing, Checked, cmdVars, threadVars
<1>1. ASSUME NEW d \in Cmds, ApiStep(d) PROVE Closing'
  <2>1. at' = at /\ conn' = conn /\ running' = running
    BY <1>1, ApiStepFacts
  <2>2. \A c \in Cmds : running = c => c # d
    BY <1>1, ApiStepFacts DEF Owners, ApiStep, PostOpen, PostGet, PostClose,
       PostInvoke, PostCancel, PostEmit, PostSubscribe, PostUnsubscribe,
       PostRegister, PostUnregister, PostNameHasOwner, PostOwnerChanged, Submit
  <2> QED
    BY <1>1, <2>1, <2>2, ApiStepFacts
<1>2. ASSUME NEW d \in Cmds, Execute(d) PROVE Closing'
  <2>1. \A c \in Cmds : kind'[c] = kind[c]
    BY <1>2, ExecuteFacts DEF KeepsObjects
  <2>2. CASE ExecuteSubscribe(d) \/ ExecuteRegister(d) \/ ExecuteInvoke(d)
             \/ ExecuteNameHasOwner(d) \/ ExecuteOwnerChanged(d)
             \/ ExecuteUnsubscribe(d) \/ ExecuteUnregister(d)
    BY <2>1, <2>2 DEF ExecuteSubscribe, ExecuteRegister, ExecuteInvoke,
       ExecuteNameHasOwner, ExecuteOwnerChanged, ExecuteUnsubscribe,
       ExecuteUnregister, Start, Take, Connected
  <2>3. CASE ExecuteEmit(d)
    BY <2>1, <2>3 DEF ExecuteEmit, Take
  <2>4. CASE ExecuteOpen(d) \/ ExecuteGet(d) \/ Escape(d)
    BY <2>1, <2>4 DEF ExecuteOpen, ExecuteGet, Escape, Create, Take
  <2>5. CASE ExecuteClose(d) \/ ExecuteCancel(d)
    BY <2>1, <2>5 DEF ExecuteClose, ExecuteCancel, Take
  <2> QED
    BY <1>2, <2>2, <2>3, <2>4, <2>5 DEF Execute
<1>3. ASSUME NEW d \in Cmds, Step(d) PROVE Closing'
  BY <1>3 DEF Step, Allocate, Append, SendRequest, SendNoReply, SendSignal, SetNotify,
     RegisterPending, UnrefRequest, FinishCommand
<1>4. ASSUME NEW d \in Cmds, OnPendingCallNotify(d) PROVE Closing'
  BY <1>4 DEF OnPendingCallNotify, NotifyInvoke, NotifyNameHasOwner, NotifySubscribe,
     NotifyOwnerChanged, NotifyRegister, NotifyUnsubscribe, NotifyUnregister, Notified
<1>5. CASE \/ UNCHANGED vars \/ ExecuteShutdown \/ CloseEnds \/ DestroyDispatcher
           \/ Lose \/ BeginDispatch \/ EndDispatch
  BY <1>5 DEF Progress, vars, ExecuteShutdown, CloseEnds, DestroyDispatcher, Lose,
     BeginDispatch, EndDispatch
<1>6. ASSUME NEW d \in Cmds,
             ReplyArrives(d) \/ DropReply(d) \/ CloseCancels(d) \/ DropQueued(d)
      PROVE  Closing'
  BY <1>6 DEF ReplyArrives, DropReply, CloseCancels, DropQueued
<1> QED
  BY <1>1, <1>2, <1>3, <1>4, <1>5, <1>6 DEF Next

\* A connection is opened before anything is kept on it, and when its closing
\* has ended nothing is.
LEMMA ClosedStep ==
  ASSUME Inv, Closing, ClosedKeepsNothing, [Next]_vars PROVE ClosedKeepsNothing'
<1> USE NoneIsNoCmd DEF Inv, cmdVars, threadVars
<1> DEFINE Shut == conn \in {"none", "closed"} /\ at # "closing"
           Idle(c) == /\ life[c] # "kept" /\ call[c] \in {"none", "over"}
                      /\ object[c] # "entered"
<1>0. /\ life \in [Cmds -> {"unused", "refused", "queued", "running", "kept",
                            "deleted", "lost"}]
      /\ object \in [Cmds -> {"none", "owned", "entered", "freed", "removed"}]
      /\ call \in [Cmds -> {"none", "waiting", "ready", "over"}]
      /\ pending \in SUBSET Cmds
  BY DEF TypeOK
<1>1. ClosedKeepsNothing <=> (Shut => pending = {} /\ \A c \in Cmds : Idle(c))
  BY DEF ClosedKeepsNothing
<1>2. ASSUME NEW d \in Cmds, ApiStep(d) PROVE ClosedKeepsNothing'
  BY <1>0, <1>2, ApiStepFacts DEF ClosedKeepsNothing
<1>3. ASSUME NEW d \in Cmds, Execute(d) PROVE ClosedKeepsNothing'
  <2>1. CASE ExecuteCancel(d)
    BY <1>0, <2>1 DEF ExecuteCancel, Take, CancelCall, ClosedKeepsNothing
  <2>2. CASE ~ExecuteCancel(d)
    <3>1. pending' = pending /\ call' = call /\ object' = object
      BY <1>3, <2>2 DEF Execute, ExecuteSubscribe, ExecuteRegister, ExecuteInvoke,
         ExecuteNameHasOwner, ExecuteOwnerChanged, ExecuteUnsubscribe,
         ExecuteUnregister, ExecuteEmit, ExecuteOpen, ExecuteGet, Escape,
         ExecuteClose, Start, Create, Take, callVars
    <3>2. \A c \in Cmds : life'[c] = "kept" => life[c] = "kept"
      BY <1>0, <1>3, <2>2 DEF Execute, ExecuteSubscribe, ExecuteRegister,
         ExecuteInvoke, ExecuteNameHasOwner, ExecuteOwnerChanged,
         ExecuteUnsubscribe, ExecuteUnregister, ExecuteEmit, ExecuteOpen,
         ExecuteGet, Escape, ExecuteClose, Start, Create, Take
    <3>3. conn' \in {"none", "closed"} /\ at' # "closing" => Shut
      BY <1>3, <2>2 DEF Execute, ExecuteSubscribe, ExecuteRegister, ExecuteInvoke,
         ExecuteNameHasOwner, ExecuteOwnerChanged, ExecuteUnsubscribe,
         ExecuteUnregister, ExecuteEmit, ExecuteOpen, ExecuteGet, Escape,
         ExecuteClose, Start, Create, Take, threadVars
    <3> QED
      BY <1>1, <3>1, <3>2, <3>3 DEF ClosedKeepsNothing
  <2> QED
    BY <2>1, <2>2
<1>4. ASSUME NEW d \in Cmds, Step(d) PROVE ClosedKeepsNothing'
  <2>1. conn' = conn /\ at # "closing" /\ running = d
    BY <1>4 DEF Step, Allocate, Append, SendRequest, SendNoReply, SendSignal,
       SetNotify, RegisterPending, UnrefRequest, FinishCommand
  <2>2. CASE SendRequest(d) \/ RegisterPending(d)
    <3>1. conn \in {"up", "down"}
      BY <2>1, <2>2 DEF SendRequest, RegisterPending, Closing, Checked
    <3> QED
      BY <2>1, <3>1 DEF ClosedKeepsNothing
  <2>3. CASE ~SendRequest(d) /\ ~RegisterPending(d)
    BY <1>0, <1>4, <2>1, <2>3 DEF Step, Allocate, Append, SendNoReply, SendSignal,
       SetNotify, UnrefRequest, FinishCommand, Delete, ClosedKeepsNothing, callVars
  <2> QED
    BY <2>2, <2>3
<1>5. ASSUME NEW d \in Cmds, OnPendingCallNotify(d) PROVE ClosedKeepsNothing'
  BY <1>5 DEF OnPendingCallNotify, NotifyInvoke, NotifyNameHasOwner, NotifySubscribe,
     NotifyOwnerChanged, NotifyRegister, NotifyUnsubscribe, NotifyUnregister, Notified,
     ClosedKeepsNothing
<1>6. CASE CloseEnds
  BY <1>0, <1>6 DEF CloseEnds, NoDanglingCommand, ClosedKeepsNothing
<1>7. CASE \/ UNCHANGED vars \/ ExecuteShutdown \/ DestroyDispatcher
           \/ Lose \/ BeginDispatch \/ EndDispatch
  BY <1>7 DEF vars, ExecuteShutdown, DestroyDispatcher, Lose, BeginDispatch,
     EndDispatch, callVars, ClosedKeepsNothing
<1>8. ASSUME NEW d \in Cmds,
             ReplyArrives(d) \/ DropReply(d) \/ CloseCancels(d) \/ DropQueued(d)
      PROVE  ClosedKeepsNothing'
  BY <1>0, <1>8 DEF ReplyArrives, DropReply, CloseCancels, DropQueued, Delete,
     ClosedKeepsNothing, callVars
<1> QED
  BY <1>2, <1>3, <1>4, <1>5, <1>6, <1>7, <1>8 DEF Next

\* The two hold together.
LEMMA ClosingInvariance == Spec => [](Closing /\ ClosedKeepsNothing)
<1>1. Init => Closing /\ ClosedKeepsNothing
  BY NoneIsNoCmd DEF Init, Closing, Checked, ClosedKeepsNothing
<1>2. Inv /\ Closing /\ ClosedKeepsNothing /\ [Next]_vars
        => (Closing /\ ClosedKeepsNothing)'
  BY ClosingStep, ClosedStep
<1> QED
  BY <1>1, <1>2, Invariance, PTL DEF Spec

\* ~Connection leaves nobody waiting: whatever was sent, kept or entered on the
\* connection is settled when CloseConnectionCmd or ShutdownCmd is through with it.
THEOREM ClosedKeepsNothingCorrect == Spec => []ClosedKeepsNothing
BY ClosingInvariance, PTL

\* The containers of a connection lose an object when its removal is reported,
\* or when they are destroyed.
THEOREM ObjectsLeaveCorrect == Spec => ObjectsLeaveOnRequest
<1> DEFINE A == \A c \in Cmds :
                  object[c] = "entered" /\ object'[c] # "entered" =>
                    \/ at = "closing" /\ conn = "closed"
                    \/ \E d \in Cmds : /\ kind[d] \in Removers /\ subject[d] = c
                                       /\ told[d] # "ok" /\ told'[d] = "ok"
<1>1. ASSUME Inv, Closing, [Next]_vars PROVE A
  <2> SUFFICES ASSUME NEW c \in Cmds, object[c] = "entered", object'[c] # "entered"
               PROVE  \/ at = "closing" /\ conn = "closed"
                      \/ \E d \in Cmds : /\ kind[d] \in Removers /\ subject[d] = c
                                         /\ told[d] # "ok" /\ told'[d] = "ok"
    OBVIOUS
  <2>1. CASE CloseEnds
    BY <1>1, <2>1, CloseFacts DEF Closing
  <2>2. CASE KeepsObjects
    BY <2>2 DEF KeepsObjects
  <2>3. ASSUME NEW d \in Cmds, ApiStep(d) PROVE FALSE
    BY <1>1, <2>3, ApiStepFacts
  <2>4. ASSUME NEW d \in Cmds, Removes(d)
        PROVE  kind[d] \in Removers /\ subject[d] = c /\ told[d] # "ok" /\ told'[d] = "ok"
    <3>1. told[d] # "ok"
      BY <1>1, <2>4 DEF Inv, Owners, Removes
    <3>2. subject[d] = c /\ told'[d] = "ok"
      BY <1>1, <2>4 DEF Inv, TypeOK, Removes
    <3> QED
      BY <2>4, <3>1, <3>2 DEF Removes
  <2> QED
    BY <1>1, <2>1, <2>2, <2>3, <2>4, ObjectSteps
<1>2. ObjectsLeaveOnRequest <=> [][A]_vars
  BY PTL DEF ObjectsLeaveOnRequest
<1>3. Inv /\ Closing /\ [Next]_vars => [A]_vars
  BY <1>1
<1> QED
  BY <1>2, <1>3, Invariance, ClosingInvariance, PTL DEF Spec
=============================================================================
