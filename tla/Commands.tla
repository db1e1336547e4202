------------------------------ MODULE Commands ------------------------------
(***************************************************************************)
(* What becomes of a command object when one of its steps fails: each      *)
(* class of Command.cpp from the API function that creates it to its       *)
(* deletion, on one private connection, with every allocation, every call  *)
(* of libdbus and the insertion into mPendingCmds failing or not, and the  *)
(* connection breaking or being closed under it.  Connections composes     *)
(* many connections and takes these handlers as single steps; here each    *)
(* step is one action, and the objects and references the code has to give *)
(* back are state.                                                         *)
(*                                                                         *)
(* Everything but the API functions runs in the dispatcher thread.         *)
(* Commands are numbered in the order of their submission, which is the    *)
(* order of their execution (module CommandQueue).  Whether an answer goes *)
(* to a semaphore or to a callback is left out, and so is the text of a    *)
(* status.  A failed fcntl or a full pipe shows as a failed submission.    *)
(*                                                                         *)
(* Where the code uses a deleted object (a second removal of a handle, an  *)
(* emission after a removal) the action goes on as if it were still there. *)
(***************************************************************************)
EXTENDS Naturals

CONSTANTS
  N,      \* bound on the number of commands
  None    \* the null handle

ASSUME NAssumption == N \in Nat

ASSUME NoneAssumption == None \notin 1 .. N

Cmds == 1 .. N

Asks == {"invoke", "nameHasOwner"}
Adders == {"subscribe", "subscribeOwnerChanged", "registerService"}
Removers == {"unsubscribe", "unregisterService"}
Makers == {"openConnection", "getConnection"}
Kinds == Asks \cup Adders \cup Removers \cup Makers
         \cup {"noReply", "emit", "cancel", "close"}

VARIABLES
  kind,      \* the class of each command
  subject,   \* the handle it was given: the command that made what it names
  life,      \* where the command object stands
  object,    \* the SignalSubscription or ServiceRegistration it created
  call,      \* its DBusPendingCall, in libdbus
  notify,    \* onPendingCallNotify is set on that call
  owes,      \* what its code must give back: the request message, its
             \* reference to the call, the reply
  told,      \* the last status it was answered with
  answers,   \* how many times it was answered
  pending,   \* mPendingCmds
  conn,      \* the connection
  at,        \* where the dispatcher thread is
  running,   \* the command it executes; None when it executes none
  disp       \* the Dispatcher: runs, was told to stop, or is being destroyed

cmdVars == <<kind, subject>>
callVars == <<call, notify>>
answerVars == <<told, answers>>
threadVars == <<at, running>>
vars == <<kind, subject, life, object, call, notify, owes, told, answers,
          pending, conn, at, running, disp>>

\* The connection may have been opened before.
Init ==
  /\ kind = [c \in Cmds |-> "none"]
  /\ subject = [c \in Cmds |-> None]
  /\ life = [c \in Cmds |-> "unused"]
  /\ object = [c \in Cmds |-> "none"]
  /\ call = [c \in Cmds |-> "none"]
  /\ notify = [c \in Cmds |-> FALSE]
  /\ owes = [c \in Cmds |-> {}]
  /\ told = [c \in Cmds |-> "nothing"]
  /\ answers = [c \in Cmds |-> 0]
  /\ pending = {}
  /\ conn \in {"none", "up"}
  /\ at = "idle"
  /\ running = None
  /\ disp = "runs"

-----------------------------------------------------------------------------
(* The API functions.                                                      *)

\* The constructors: the commands that add something make it at once.
Construct(c, k, s) ==
  /\ kind' = [kind EXCEPT ![c] = k]
  /\ subject' = [subject EXCEPT ![c] = s]
  /\ object' = [object EXCEPT ![c] = IF k \in Adders THEN "owned" ELSE "none"]

\* DBUSIPC_submitCmd.  A command that is not accepted is deleted with its
\* object, and the API function returns the error.
Submit(c, k, s) ==
  /\ life[c] = "unused"
  /\ \A d \in Cmds : d < c => life[d] # "unused"
  /\ disp # "gone"
  /\ \/ /\ Construct(c, k, s)
        /\ life' = [life EXCEPT ![c] = "queued"]
     \/ /\ life' = [life EXCEPT ![c] = "refused"]
        /\ UNCHANGED <<cmdVars, object>>
  /\ UNCHANGED <<callVars, owes, answerVars, pending, conn, threadVars, disp>>

\* The application can have a handle of the connection.
Opened == conn # "none"

\* It got the handle d with a good status.
Given(d, K) == kind[d] \in K /\ told[d] = "ok"

PostOpen(c) == Submit(c, "openConnection", None)

PostGet(c) == Submit(c, "getConnection", None)

PostClose(c) == Opened /\ Submit(c, "close", None)

PostInvoke(c) ==
  /\ Opened
  /\ Submit(c, "invoke", None) \/ Submit(c, "noReply", None)

\* A handle that names nothing is accepted.  DBUSIPC_asyncInvoke gives its
\* handle when the command is submitted.
PostCancel(c) ==
  \E d \in Cmds \cup {None} :
    /\ d # None => kind[d] = "invoke"
    /\ Submit(c, "cancel", d)

\* DBUSIPC_emit refuses a null handle, DBUSIPC_asyncEmit does not.
PostEmit(c) ==
  \E d \in Cmds \cup {None} :
    /\ d # None => Given(d, {"registerService"})
    /\ Submit(c, "emit", d)

PostSubscribe(c) == Opened /\ Submit(c, "subscribe", None)

PostUnsubscribe(c) ==
  \E d \in Cmds \cup {None} :
    /\ d # None => Given(d, {"subscribe", "subscribeOwnerChanged"})
    /\ Submit(c, "unsubscribe", d)

PostRegister(c) == Opened /\ Submit(c, "registerService", None)

PostUnregister(c) ==
  \E d \in Cmds :
    /\ Given(d, {"registerService"})
    /\ Submit(c, "unregisterService", d)

PostNameHasOwner(c) == Opened /\ Submit(c, "nameHasOwner", None)

PostOwnerChanged(c) == Opened /\ Submit(c, "subscribeOwnerChanged", None)

ApiStep(c) ==
  \/ PostOpen(c) \/ PostGet(c) \/ PostClose(c) \/ PostInvoke(c) \/ PostCancel(c)
  \/ PostEmit(c) \/ PostSubscribe(c) \/ PostUnsubscribe(c) \/ PostRegister(c)
  \/ PostUnregister(c) \/ PostNameHasOwner(c) \/ PostOwnerChanged(c)

-----------------------------------------------------------------------------
(* Answers and deletion.                                                   *)

\* dispatch, dispatchResult, dispatchStatus.
Answer(c, status) ==
  /\ told' = [told EXCEPT ![c] = status]
  /\ answers' = [answers EXCEPT ![c] = @ + 1]

\* The destructor: auto_ptr frees the object the command still owns, and the
\* reference to the call is given back.
Delete(c) ==
  /\ life' = [life EXCEPT ![c] = "deleted"]
  /\ object' = [object EXCEPT ![c] = IF @ = "owned" THEN "freed" ELSE @]
  /\ owes' = [owes EXCEPT ![c] = @ \ {"call"}]

-----------------------------------------------------------------------------
(* execute().                                                              *)

\* The command at the front of mCmdQueue.
Front(c) == life[c] = "queued" /\ \A d \in Cmds : d < c => life[d] # "queued"

\* onCommand takes the front command; the thread goes on at p, with the answer
\* the execution starts with, if any.
Take(c, k, p) ==
  /\ at = "idle"
  /\ disp # "gone"
  /\ Front(c)
  /\ kind[c] = k
  /\ life' = [life EXCEPT ![c] = "running"]
  /\ running' = c
  /\ at' = p
  /\ UNCHANGED <<cmdVars, object, owes, notify, disp>>

\* The checks before the request message is allocated.
Start(c, k, usable) ==
  /\ UNCHANGED <<call, pending, conn>>
  /\ \/ /\ usable
        /\ Take(c, k, "allocate")
        /\ UNCHANGED answerVars
     \/ /\ ~usable
        /\ Take(c, k, "finish")
        /\ Answer(c, "error")

Connected == conn = "up"

Exists(s) == s # None /\ object[s] = "entered"

ExecuteSubscribe(c) == Start(c, "subscribe", Connected)

ExecuteRegister(c) == Start(c, "registerService", Connected)

ExecuteInvoke(c) ==
  Start(c, "invoke", Connected) \/ Start(c, "noReply", Connected)

ExecuteNameHasOwner(c) == Start(c, "nameHasOwner", Connected)

\* connectionExists only: a lost connection is in the cache.
ExecuteOwnerChanged(c) ==
  Start(c, "subscribeOwnerChanged", conn \in {"up", "down"})

ExecuteUnsubscribe(c) ==
  Start(c, "unsubscribe", Exists(subject[c]) /\ Connected)

ExecuteUnregister(c) ==
  Start(c, "unregisterService", Exists(subject[c]) /\ Connected)

\* A null registration ends the execution in silence.
ExecuteEmit(c) ==
  /\ Take(c, "emit", IF subject[c] = None THEN "finish" ELSE "allocate")
  /\ UNCHANGED <<call, pending, conn, answerVars>>

\* Connection::create succeeds or fails with a DBUSIPCError.  A second one
\* makes another connection.
Create(c, k) ==
  /\ Take(c, k, "finish")
  /\ \/ Answer(c, "ok") /\ conn' = IF conn = "none" THEN "up" ELSE conn
     \/ Answer(c, "error") /\ UNCHANGED conn
  /\ UNCHANGED <<call, pending>>

\* std::bad_alloc is not a DBUSIPCError: it leaves execute() and onCommand, and
\* Dispatcher::execute catches it.  The command is neither answered nor deleted.
Escape(c) ==
  /\ at = "idle"
  /\ disp # "gone"
  /\ Front(c)
  /\ kind[c] \in Makers
  /\ life' = [life EXCEPT ![c] = "lost"]
  /\ UNCHANGED <<cmdVars, object, callVars, owes, answerVars, pending, conn,
                 threadVars, disp>>

ExecuteOpen(c) == Create(c, "openConnection")

ExecuteGet(c) == Create(c, "getConnection")

\* A connection that is not in the cache is ignored.
ExecuteClose(c) ==
  /\ UNCHANGED <<call, pending>>
  /\ \/ /\ conn \in {"up", "down"}
        /\ Take(c, "close", "closing")
        /\ conn' = "closed"
        /\ UNCHANGED answerVars
     \/ /\ conn \notin {"up", "down"}
        /\ Take(c, "close", "finish")
        /\ Answer(c, "ok")
        /\ UNCHANGED conn

\* ShutdownCmd: forceReleaseAll, then stop.  It is not a numbered command, and
\* it is submitted once.
ExecuteShutdown ==
  /\ at = "idle"
  /\ disp = "runs"
  /\ disp' = "stops"
  /\ \/ /\ conn \in {"up", "down"}
        /\ conn' = "closed"
        /\ at' = "closing"
     \/ /\ conn \notin {"up", "down"}
        /\ UNCHANGED <<conn, at>>
  /\ UNCHANGED <<cmdVars, life, object, callVars, owes, answerVars, pending, running>>

\* dbus_message_new_method_call, dbus_message_new_signal.
Allocate(c) ==
  /\ at = "allocate" /\ running = c
  /\ \/ /\ owes' = [owes EXCEPT ![c] = @ \cup {"request"}]
        /\ at' = "append"
        /\ UNCHANGED answerVars
     \/ /\ Answer(c, "error")
        /\ at' = "finish"
        /\ UNCHANGED owes
  /\ UNCHANGED <<cmdVars, life, object, callVars, pending, conn, running, disp>>

Append_ReturnsAtOnce(c) ==
  /\ at = "append" /\ running = c
  /\ \/ /\ at' = "send"
        /\ UNCHANGED answerVars
     \/ /\ Answer(c, "error")
        /\ at' = "finish"
  /\ UNCHANGED <<cmdVars, life, object, callVars, owes, pending, conn, running, disp>>

\* dbus_message_append_args.
Append(c) ==
  /\ at = "append" /\ running = c
  /\ \/ /\ at' = "send"
        /\ UNCHANGED answerVars
     \/ /\ Answer(c, "error")
        /\ at' = "unref"
  /\ UNCHANGED <<cmdVars, life, object, callVars, owes, pending, conn, running, disp>>

\* dbus_connection_send_with_reply.  On a lost connection it succeeds without
\* making a call.
SendRequest(c) ==
  /\ at = "send" /\ running = c
  /\ kind[c] \notin {"noReply", "emit"}
  /\ \/ /\ at' = "notify"
        /\ IF Connected
           THEN /\ call' = [call EXCEPT ![c] = "waiting"]
                /\ owes' = [owes EXCEPT ![c] = @ \cup {"call"}]
           ELSE UNCHANGED <<call, owes>>
        /\ UNCHANGED answerVars
     \/ /\ at' = "unref"
        /\ Answer(c, "error")
        /\ UNCHANGED <<call, owes>>
  /\ UNCHANGED <<cmdVars, life, object, notify, pending, conn, running, disp>>

\* dbus_connection_send; only a failure is answered.
SendNoReply(c) ==
  /\ at = "send" /\ running = c
  /\ kind[c] = "noReply"
  /\ at' = "unref"
  /\ \/ UNCHANGED answerVars
     \/ Answer(c, "error")
  /\ UNCHANGED <<cmdVars, life, object, callVars, owes, pending, conn, running, disp>>

SendSignal(c) ==
  /\ at = "send" /\ running = c
  /\ kind[c] = "emit"
  /\ at' = "unref"
  /\ \/ Connected /\ Answer(c, "ok")
     \/ Answer(c, "error")
  /\ UNCHANGED <<cmdVars, life, object, callVars, owes, pending, conn, running, disp>>

\* dbus_pending_call_set_notify.
SetNotify(c) ==
  /\ at = "notify" /\ running = c
  /\ \/ /\ call[c] = "waiting"
        /\ notify' = [notify EXCEPT ![c] = TRUE]
        /\ at' = "register"
        /\ UNCHANGED answerVars
     \/ /\ Answer(c, "error")
        /\ at' = "unref"
        /\ UNCHANGED notify
  /\ UNCHANGED <<cmdVars, life, object, call, owes, pending, conn, running, disp>>

RegisterPending_LeavesCall(c) ==
  /\ at = "register" /\ running = c
  /\ at' = "unref"
  /\ \/ /\ pending' = pending \cup {c}
        /\ life' = [life EXCEPT ![c] = "kept"]
        /\ UNCHANGED answerVars
     \/ /\ Answer(c, "error")
        /\ UNCHANGED <<pending, life>>
  /\ UNCHANGED <<cmdVars, object, callVars, owes, conn, running, disp>>

RegisterPending_Silent(c) ==
  /\ at = "register" /\ running = c
  /\ at' = "unref"
  /\ \/ /\ pending' = pending \cup {c}
        /\ life' = [life EXCEPT ![c] = "kept"]
        /\ UNCHANGED call
     \/ /\ call' = [call EXCEPT ![c] = "over"]
        /\ UNCHANGED <<pending, life>>
  /\ UNCHANGED <<cmdVars, object, notify, owes, answerVars, conn, running, disp>>

\* registerPending and mExecAndDestroy = false.  When the insertion throws the
\* call is cancelled, for the command will be deleted.
RegisterPending(c) ==
  /\ at = "register" /\ running = c
  /\ at' = "unref"
  /\ \/ /\ pending' = pending \cup {c}
        /\ life' = [life EXCEPT ![c] = "kept"]
        /\ UNCHANGED <<call, answerVars>>
     \/ /\ call' = [call EXCEPT ![c] = "over"]
        /\ Answer(c, "error")
        /\ UNCHANGED <<pending, life>>
  /\ UNCHANGED <<cmdVars, object, notify, owes, conn, running, disp>>

\* "Free the request message (finally)".
UnrefRequest(c) ==
  /\ at = "unref" /\ running = c
  /\ owes' = [owes EXCEPT ![c] = @ \ {"request"}]
  /\ at' = "finish"
  /\ UNCHANGED <<cmdVars, life, object, callVars, answerVars, pending, conn,
                 running, disp>>

\* onCommand deletes the command unless its connection keeps it.
FinishCommand(c) ==
  /\ at = "finish" /\ running = c
  /\ at' = "idle"
  /\ running' = None
  /\ \/ /\ life[c] = "kept"
        /\ UNCHANGED <<life, object, owes>>
     \/ /\ life[c] # "kept"
        /\ Delete(c)
  /\ UNCHANGED <<cmdVars, callVars, answerVars, pending, conn, disp>>

-----------------------------------------------------------------------------
(* cancel().                                                               *)

\* SubscribeOwnerChangedCmd::cancel leaves the call alone.
CancelsCall(c) == kind[c] # "subscribeOwnerChanged"

\* A reply that is there already is stolen and freed.
CancelCall(c) ==
  call' = IF CancelsCall(c) THEN [call EXCEPT ![c] = "over"] ELSE call

\* cancelPendingByHandle: cancel, delete and erase.
ExecuteCancel(c) ==
  LET t == subject[c] IN
  \/ /\ t \in pending
     /\ at = "idle" /\ disp # "gone" /\ Front(c) /\ kind[c] = "cancel"
     /\ CancelCall(t)
     /\ told' = [told EXCEPT ![t] = "error", ![c] = "ok"]
     /\ answers' = [answers EXCEPT ![t] = @ + 1, ![c] = @ + 1]
     /\ life' = [life EXCEPT ![t] = "deleted", ![c] = "running"]
     /\ owes' = [owes EXCEPT ![t] = @ \ {"call"}]
     /\ pending' = pending \ {t}
     /\ running' = c
     /\ at' = "finish"
     /\ UNCHANGED <<cmdVars, object, notify, conn, disp>>
  \/ /\ t \notin pending
     /\ Take(c, "cancel", "finish")
     /\ Answer(c, "error")
     /\ UNCHANGED <<call, pending, conn>>

\* ~Connection: one pending command after the other, in any order.  A second
\* deletion of one that is in the set though it was deleted is not followed.
CloseCancels(c) ==
  /\ at = "closing"
  /\ c \in pending
  /\ CancelCall(c)
  /\ Answer(c, "error")
  /\ Delete(c)
  /\ pending' = pending \ {c}
  /\ UNCHANGED <<cmdVars, notify, conn, threadVars, disp>>

CloseEnds_Finish ==
  /\ at = "closing"
  /\ pending = {}
  /\ object' = [c \in Cmds |-> IF object[c] = "entered" THEN "removed" ELSE object[c]]
  /\ call' = [c \in Cmds |-> IF call[c] = "none" THEN "none" ELSE "over"]
  /\ at' = "finish"
  /\ \/ /\ running = None
        /\ UNCHANGED answerVars
     \/ /\ running # None
        /\ Answer(running, "ok")
  /\ UNCHANGED <<cmdVars, life, notify, owes, pending, conn, running, disp>>

\* ~Connection goes on with subscriptions and registrations; the DBusConnection
\* and its calls went before.
CloseEnds ==
  /\ at = "closing"
  /\ pending = {}
  /\ object' = [c \in Cmds |-> IF object[c] = "entered" THEN "removed" ELSE object[c]]
  /\ call' = [c \in Cmds |-> IF call[c] = "none" THEN "none" ELSE "over"]
  /\ \/ /\ running = None
        /\ at' = "idle"
        /\ UNCHANGED answerVars
     \/ /\ running # None
        /\ at' = "finish"
        /\ Answer(running, "ok")
  /\ UNCHANGED <<cmdVars, life, notify, owes, pending, conn, running, disp>>

\* The thread has left its loop and ~Dispatcher begins.
DestroyDispatcher ==
  /\ at = "idle"
  /\ disp = "stops"
  /\ disp' = "gone"
  /\ UNCHANGED <<cmdVars, life, object, callVars, owes, answerVars, pending, conn,
                 threadVars>>

\* ~Dispatcher cancels and deletes what is still queued.
DropQueued(c) ==
  /\ disp = "gone"
  /\ Front(c)
  /\ Answer(c, "error")
  /\ Delete(c)
  /\ UNCHANGED <<cmdVars, callVars, pending, conn, threadVars, disp>>

-----------------------------------------------------------------------------
(* libdbus and the bus.                                                    *)

\* libdbus reads, and times calls out, only in the handlers of its watches and
\* timeouts and in the loop of dispatchMessages.
ReplyArrives(c) ==
  /\ at \in {"idle", "dispatch"}
  /\ call[c] = "waiting"
  /\ conn \in {"up", "down"}
  /\ call' = [call EXCEPT ![c] = "ready"]
  /\ UNCHANGED <<cmdVars, life, object, notify, owes, answerVars, pending, conn,
                 threadVars, disp>>

\* The connection is found broken while it is read or written.
Lose ==
  /\ conn = "up"
  /\ at \in {"idle", "dispatch"}
  /\ conn' = "down"
  /\ UNCHANGED <<cmdVars, life, object, callVars, owes, answerVars, pending,
                 threadVars, disp>>

\* dispatchMessages: a loop in which the connection may break.
BeginDispatch ==
  /\ at = "idle"
  /\ disp # "gone"
  /\ Connected
  /\ at' = "dispatch"
  /\ UNCHANGED <<cmdVars, life, object, callVars, owes, answerVars, pending, conn,
                 running, disp>>

EndDispatch ==
  /\ at = "dispatch"
  /\ at' = "idle"
  /\ UNCHANGED <<cmdVars, life, object, callVars, owes, answerVars, pending, conn,
                 running, disp>>

\* The reply to a call without a notification is dropped.
DropReply(c) ==
  /\ at = "dispatch"
  /\ call[c] = "ready"
  /\ ~notify[c]
  /\ call' = [call EXCEPT ![c] = "over"]
  /\ UNCHANGED <<cmdVars, life, object, notify, owes, answerVars, pending, conn,
                 threadVars, disp>>

-----------------------------------------------------------------------------
(* onPendingCallNotify.                                                    *)

Notified(c, K) ==
  /\ at = "dispatch"
  /\ kind[c] \in K
  /\ call[c] = "ready"
  /\ notify[c]
  /\ life[c] = "kept"
  /\ call' = [call EXCEPT ![c] = "over"]
  /\ UNCHANGED <<cmdVars, notify, conn, threadVars, disp>>

\* unregisterPending, unref of the reply, delete.
Settle(c) == pending' = pending \ {c} /\ Delete(c)

\* A result or an error.
AskReplied(c) ==
  /\ \E status \in {"ok", "error"} : Answer(c, status)
  /\ Settle(c)

NotifyInvoke(c) == Notified(c, {"invoke"}) /\ AskReplied(c)

NotifyNameHasOwner(c) == Notified(c, {"nameHasOwner"}) /\ AskReplied(c)

Enter_NoRelease(c) ==
  /\ life' = [life EXCEPT ![c] = "deleted"]
  /\ object' = [object EXCEPT ![c] = "freed"]
  /\ owes' = [owes EXCEPT ![c] = @ \ {"call"}]

\* The match is set: mSigSubscriptions takes the object over, and release()
\* leaves the command without it.
Enter(c) ==
  /\ life' = [life EXCEPT ![c] = "deleted"]
  /\ object' = [object EXCEPT ![c] = "entered"]
  /\ owes' = [owes EXCEPT ![c] = @ \ {"call"}]

\* The bus refused, or the insertion threw and the match or name is given back
\* as well as can be; or the object is entered.
AddReplied(c) ==
  /\ Connected
  /\ pending' = pending \ {c}
  /\ \/ Answer(c, "ok") /\ Enter(c)
     \/ Answer(c, "error") /\ Delete(c)

\* The connection broke in this dispatch: the command is deleted but stays in
\* mPendingCmds, and the reply is not given back.
SubscribeReplied(c) ==
  \/ AddReplied(c)
  \/ /\ ~Connected
     /\ Answer(c, "error")
     /\ life' = [life EXCEPT ![c] = "deleted"]
     /\ object' = [object EXCEPT ![c] = "freed"]
     /\ owes' = [owes EXCEPT ![c] = {"reply"}]
     /\ UNCHANGED pending

NotifySubscribe(c) == Notified(c, {"subscribe"}) /\ SubscribeReplied(c)

NotifyOwnerChanged(c) ==
  Notified(c, {"subscribeOwnerChanged"}) /\ SubscribeReplied(c)

\* ... while RegisterServiceCmd is not even deleted.
NotifyRegister(c) ==
  /\ Notified(c, {"registerService"})
  /\ \/ AddReplied(c)
     \/ /\ ~Connected
        /\ Answer(c, "error")
        /\ owes' = [owes EXCEPT ![c] = @ \cup {"reply"}]
        /\ UNCHANGED <<life, object, pending>>

\* unsubscribeSignal, unregisterService: the object is freed, unless the bus
\* replied with an error or the object is not in the container, which throws.
RemoveReplied(c) ==
  /\ pending' = pending \ {c}
  /\ \/ /\ Exists(subject[c])
        /\ Answer(c, "ok")
        /\ object' = [object EXCEPT ![subject[c]] = "removed"]
     \/ /\ Answer(c, "error")
        /\ UNCHANGED object
  /\ life' = [life EXCEPT ![c] = "deleted"]
  /\ owes' = [owes EXCEPT ![c] = @ \ {"call"}]

NotifyUnsubscribe(c) == Notified(c, {"unsubscribe"}) /\ RemoveReplied(c)

\* Whatever number ReleaseName returned.
NotifyUnregister(c) == Notified(c, {"unregisterService"}) /\ RemoveReplied(c)

-----------------------------------------------------------------------------
Execute(c) ==
  \/ ExecuteSubscribe(c) \/ ExecuteRegister(c) \/ ExecuteInvoke(c)
  \/ ExecuteNameHasOwner(c) \/ ExecuteOwnerChanged(c) \/ ExecuteUnsubscribe(c)
  \/ ExecuteUnregister(c) \/ ExecuteEmit(c) \/ ExecuteOpen(c) \/ ExecuteGet(c)
  \/ Escape(c) \/ ExecuteClose(c)
  \/ ExecuteCancel(c)

Step(c) ==
  \/ Allocate(c) \/ Append(c) \/ SendRequest(c) \/ SendNoReply(c) \/ SendSignal(c)
  \/ SetNotify(c) \/ RegisterPending(c) \/ UnrefRequest(c) \/ FinishCommand(c)

OnPendingCallNotify(c) ==
  \/ NotifyInvoke(c) \/ NotifyNameHasOwner(c) \/ NotifySubscribe(c)
  \/ NotifyOwnerChanged(c) \/ NotifyRegister(c) \/ NotifyUnsubscribe(c)
  \/ NotifyUnregister(c)

Next ==
  \/ \E c \in Cmds :
       \/ ApiStep(c) \/ Execute(c) \/ Step(c) \/ OnPendingCallNotify(c)
       \/ CloseCancels(c) \/ DropQueued(c) \/ ReplyArrives(c) \/ DropReply(c)
  \/ ExecuteShutdown \/ CloseEnds \/ DestroyDispatcher
  \/ Lose \/ BeginDispatch \/ EndDispatch

Spec == Init /\ [][Next]_vars

-----------------------------------------------------------------------------
(* Properties.                                                             *)

\* The steps of one command's execution.
Steps == {"allocate", "append", "send", "notify", "register", "unref", "finish"}

TypeOK ==
  /\ kind \in [Cmds -> Kinds \cup {"none"}]
  /\ subject \in [Cmds -> Cmds \cup {None}]
  /\ life \in [Cmds -> {"unused", "refused", "queued", "running", "kept",
                        "deleted", "lost"}]
  /\ object \in [Cmds -> {"none", "owned", "entered", "freed", "removed"}]
  /\ call \in [Cmds -> {"none", "waiting", "ready", "over"}]
  /\ notify \in [Cmds -> BOOLEAN]
  /\ owes \in [Cmds -> SUBSET {"request", "call", "reply"}]
  /\ told \in [Cmds -> {"nothing", "ok", "error"}]
  /\ answers \in [Cmds -> Nat]
  /\ pending \in SUBSET Cmds
  /\ conn \in {"none", "up", "down", "closed"}
  /\ at \in Steps \cup {"idle", "closing", "dispatch"}
  /\ running \in Cmds \cup {None}
  /\ at \in Steps => running # None
  /\ disp \in {"runs", "stops", "gone"}

\* Answered when its connection was found lost in the dispatch of its reply.
Abandoned(c) == "reply" \in owes[c]

\* Commands that may be deleted without an answer: a request without reply, and
\* the emission for a null handle.
Silent(c) == kind[c] = "noReply" \/ (kind[c] = "emit" /\ subject[c] = None)

\* Whatever step fails, the caller hears of it, and hears once: a command is
\* not answered while it is queued or waits for its reply, has its answer when
\* it is deleted, and gets no second one.  A caller blocked in an API function
\* whose semaphore is posted twice would be written to after it returned.
AnsweredOnce ==
  \A c \in Cmds :
    /\ life[c] \in {"unused", "refused", "queued", "lost"} => answers[c] = 0
    /\ life[c] = "kept" /\ ~Abandoned(c) => answers[c] = 0
    /\ life[c] \in {"running", "deleted"} /\ ~Abandoned(c) => answers[c] <= 1
    /\ life[c] = "deleted" /\ ~Silent(c) => answers[c] > 0

\* Every path gives back what it took: a deleted command has freed or handed
\* over its object and holds no message and no call, and a command that waits
\* holds its call and nothing else.  Only a reply dispatched on a lost
\* connection is kept.
NothingIsOwed ==
  \A c \in Cmds :
    /\ life[c] = "deleted" => object[c] # "owned" /\ owes[c] \subseteq {"reply"}
    /\ life[c] = "kept" /\ running # c => owes[c] \subseteq {"call", "reply"}
    /\ Abandoned(c) => kind[c] \in Adders /\ conn \in {"down", "closed"}

\* libdbus calls no deleted command back, and ~Connection finds every command
\* that waits and none that is deleted, but for those of a lost connection.
\* While ~Connection runs nothing is dispatched.
NoDanglingCommand ==
  \A c \in Cmds :
    /\ at # "closing" /\ notify[c] /\ call[c] \in {"waiting", "ready"} =>
         life[c] \in {"running", "kept"}
    /\ life[c] = "kept" => c \in pending
    /\ c \in pending => life[c] = "kept" \/ Abandoned(c)

\* The handle the application is given with a good status is that of an object
\* its connection has taken over, which lives until it is removed or the
\* connection is closed; the object of a failed command is in no container.
HandleIsSound ==
  \A c \in Cmds :
    /\ kind[c] \in Adders =>
         (told[c] = "ok" <=> object[c] \in {"entered", "removed"})
    /\ object[c] = "entered" => conn \in {"up", "down"} \/ at = "closing"

\* One handle is removed once, however many removals of it are under way: a
\* removal that is reported as done has removed the object, and no other
\* removal of the same handle is reported as done.
RemovedOnce ==
  \A c \in Cmds : kind[c] \in Removers /\ told[c] = "ok" =>
    /\ subject[c] # None
    /\ object[subject[c]] = "removed"
    /\ \A d \in Cmds :
         kind[d] \in Removers /\ subject[d] = subject[c] /\ told[d] = "ok" => d = c

\* Behind a connection that was closed, by its application or by the shutdown,
\* nobody waits: no command is kept, no call is open and no object is entered.
ClosedKeepsNothing ==
  conn \in {"none", "closed"} /\ at # "closing" =>
    /\ pending = {}
    /\ \A c \in Cmds : /\ life[c] # "kept"
                       /\ call[c] \in {"none", "over"}
                       /\ object[c] # "entered"

\* An answer goes to a command that exists, whoever gives it: execute(), a
\* notification, cancel() or a destructor.  Only a command whose reply came on a
\* lost connection is answered again after it was deleted.
AnswersReachCommands ==
  [][\A c \in Cmds :
       answers'[c] # answers[c] =>
         life[c] \in {"queued", "running", "kept"} \/ Abandoned(c)]_vars

\* An object that a connection has taken over leaves it with the connection, or
\* in the step that tells the application that its removal was done.
ObjectsLeaveOnRequest ==
  [][\A c \in Cmds :
       object[c] = "entered" /\ object'[c] # "entered" =>
         \/ at = "closing" /\ conn = "closed"
         \/ \E d \in Cmds : /\ kind[d] \in Removers /\ subject[d] = c
                            /\ told[d] # "ok" /\ told'[d] = "ok"]_vars
=============================================================================
