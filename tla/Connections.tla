---------------------------- MODULE Connections ----------------------------
(***************************************************************************)
(* What the dispatcher thread does with connections and with the requests  *)
(* sent over them: the cache of connections and their reference counts,    *)
(* the list of connections to dispatch, the requests waiting for a reply,  *)
(* the subscriptions and registrations they create and remove              *)
(* (Connection.cpp, and the execute, cancel and onPendingCallNotify        *)
(* functions of Command.cpp).                                              *)
(*                                                                         *)
(* Only the dispatcher thread touches this state: a handler is one action, *)
(* and the dispatching of one connection, during which the connection may  *)
(* break, is an action for each message.  What interleaves with it is the  *)
(* application issuing requests and libdbus and the bus: replies,          *)
(* time-outs, other messages and the loss of a connection.                 *)
(*                                                                         *)
(* A member of Conns stands for a DBusConnection and for the Connection    *)
(* objects that wrap it one after the other: libdbus keeps a shared        *)
(* connection while it is up, so a Connection may be deleted and another   *)
(* be created for the same DBusConnection.  A request is one command       *)
(* object.  Commands accepted by the queue are executed here in any order, *)
(* which includes the order of the queue (module CommandQueue).            *)
(*                                                                         *)
(* The code uses some objects after deleting them.  The action that does   *)
(* so continues as if the object were still there, one of the things a     *)
(* build may do; that the program ends there instead is the step not taken.*)
(***************************************************************************)
EXTENDS Naturals

CONSTANTS
  Conns,            \* D-Bus connections
  Shared,           \* those libdbus shares; the others are private
  NoConn,           \* no connection
  MaxRefs,          \* bound on the reference count of a connection
  Asks,             \* InvokeCmd (reply expected) and NameHasOwnerCmd
  Casts,            \* InvokeCmd with noReplyExpected
  Subscribes,       \* SubscribeCmd
  OwnerSubscribes,  \* SubscribeOwnerChangedCmd
  Registers,        \* RegisterServiceCmd
  Removes,          \* UnsubscribeCmd and UnregisterServiceCmd
  Home,             \* the connection each request is for
  Subject           \* what each of Removes removes: the request that made it

Creators == Subscribes \cup OwnerSubscribes \cup Registers
Requests == Asks \cup Casts \cup Creators \cup Removes

ASSUME ConnsAssumption ==
  /\ Shared \subseteq Conns
  /\ NoConn \notin Conns
  /\ MaxRefs \in Nat \ {0}

ASSUME KindsAssumption ==
  /\ Asks \cap (Casts \cup Creators \cup Removes) = {}
  /\ Casts \cap (Creators \cup Removes) = {}
  /\ Subscribes \cap (OwnerSubscribes \cup Registers) = {}
  /\ OwnerSubscribes \cap Registers = {}
  /\ Removes \cap Creators = {}

ASSUME HomeAssumption ==
  /\ Home \in [Requests -> Conns]
  /\ Subject \in [Removes -> Creators]
  /\ \A r \in Removes : Home[r] = Home[Subject[r]]

VARIABLES
  link,         \* the DBusConnection: not made, up, or down for good
  refs,         \* mRefCount; 0 when no Connection is cached for it
  unread,       \* libdbus last reported DBUS_DISPATCH_DATA_REMAINS
  listed,       \* mPendingConnList
  dispatching,  \* the connection in the loop of dispatchMessages
  pending,      \* mPendingCmds of each connection
  life,         \* where each command object stands
  call,         \* its DBusPendingCall
  entry,        \* what each of Creators made: mSigSubscriptions, mSvcRegistrations
  answers       \* how many times each command's dispatch() ran

connVars == <<link, refs>>
listVars == <<unread, listed>>
reqVars == <<pending, life, call, entry, answers>>
vars == <<link, refs, unread, listed, dispatching, pending, life, call, entry,
          answers>>

Init ==
  /\ link = [k \in Conns |-> "none"]
  /\ refs = [k \in Conns |-> 0]
  /\ unread = [k \in Conns |-> FALSE]
  /\ listed = {}
  /\ dispatching = NoConn
  /\ pending = [k \in Conns |-> {}]
  /\ life = [r \in Requests |-> "new"]
  /\ call = [r \in Requests |-> "none"]
  /\ entry = [r \in Creators |-> "none"]
  /\ answers = [r \in Requests |-> 0]

Cached(k) == refs[k] > 0
Outstanding(r) == call[r] \in {"waiting", "ready"}

Answer(S) ==
  answers' = [r \in Requests |-> IF r \in S THEN answers[r] + 1 ELSE answers[r]]

Delete(S) == life' = [r \in Requests |-> IF r \in S THEN "gone" ELSE life[r]]

-----------------------------------------------------------------------------
(* Opening and closing.  The commands execute between two dispatches.      *)

OpenNew_Unlisted(k) ==
  /\ dispatching = NoConn
  /\ ~Cached(k)
  /\ link[k] \in {"none", "up"}
  /\ link' = [link EXCEPT ![k] = "up"]
  /\ refs' = [refs EXCEPT ![k] = 1]
  /\ \/ UNCHANGED unread
     \/ unread' = [unread EXCEPT ![k] = TRUE]
  /\ UNCHANGED <<listed, dispatching, reqVars>>

\* A new Connection.  Its constructor lists it for dispatching, because
\* libdbus may have read messages before it could report them to anyone.
OpenNew(k) ==
  /\ dispatching = NoConn
  /\ ~Cached(k)
  /\ link[k] \in {"none", "up"}
  /\ link' = [link EXCEPT ![k] = "up"]
  /\ refs' = [refs EXCEPT ![k] = 1]
  /\ \/ UNCHANGED unread
     \/ unread' = [unread EXCEPT ![k] = TRUE]
  /\ listed' = listed \cup {k}
  /\ UNCHANGED <<dispatching, reqVars>>

OpenCached(k) ==
  /\ dispatching = NoConn
  /\ k \in Shared
  /\ Cached(k)
  /\ refs[k] < MaxRefs
  /\ refs' = [refs EXCEPT ![k] = @ + 1]
  /\ UNCHANGED <<link, listVars, dispatching, reqVars>>

\* Whether libdbus keeps the DBusConnection when the library lets go of it.
Kept(k) == k \in Shared /\ link[k] = "up"

Destroy_StaysListed(K) ==
  /\ link' = [k \in Conns |-> IF k \in K \ Shared THEN "down" ELSE link[k]]
  /\ pending' = [k \in Conns |-> IF k \in K THEN {} ELSE pending[k]]
  /\ LET cancelled == UNION {pending[k] : k \in K} IN
       /\ Answer(cancelled)
       /\ Delete(cancelled)
       /\ call' = [r \in Requests |-> IF r \in cancelled THEN "over" ELSE call[r]]
  /\ entry' = [r \in Creators |->
       IF entry[r] = "listed" /\ Home[r] \in K THEN "freed" ELSE entry[r]]
  /\ UNCHANGED listed

Destroy_Silent(K) ==
  /\ link' = [k \in Conns |-> IF k \in K \ Shared THEN "down" ELSE link[k]]
  /\ listed' = listed \ K
  /\ pending' = [k \in Conns |-> IF k \in K THEN {} ELSE pending[k]]
  /\ LET cancelled == UNION {pending[k] : k \in K} IN
       /\ Delete(cancelled)
       /\ call' = [r \in Requests |-> IF r \in cancelled THEN "over" ELSE call[r]]
  /\ entry' = [r \in Creators |->
       IF entry[r] = "listed" /\ Home[r] \in K THEN "freed" ELSE entry[r]]
  /\ UNCHANGED answers

\* decRef to zero and ~Connection: every pending command is cancelled,
\* answered and deleted, subscriptions and registrations are deleted.
\* SubscribeOwnerChangedCmd::cancel leaves its DBusPendingCall alone.
Destroy(K) ==
  /\ link' = [k \in Conns |-> IF k \in K \ Shared THEN "down" ELSE link[k]]
  /\ listed' = listed \ K
  /\ pending' = [k \in Conns |-> IF k \in K THEN {} ELSE pending[k]]
  /\ LET cancelled == UNION {pending[k] : k \in K} IN
       /\ Answer(cancelled)
       /\ Delete(cancelled)
       /\ call' = [r \in Requests |->
            IF \/ r \in cancelled \ OwnerSubscribes
               \/ Home[r] \in K /\ ~Kept(Home[r]) /\ Outstanding(r)
            THEN "over" ELSE call[r]]
  /\ entry' = [r \in Creators |->
       IF entry[r] = "listed" /\ Home[r] \in K THEN "freed" ELSE entry[r]]

Release_Unchecked(k) ==
  /\ dispatching = NoConn
  /\ refs' = [refs EXCEPT ![k] = @ - 1]
  /\ \/ /\ refs[k] # 1
        /\ UNCHANGED <<link, listed, reqVars>>
     \/ /\ refs[k] = 1
        /\ Destroy({k})
  /\ UNCHANGED <<unread, dispatching>>

\* Connection::release; a connection that is not cached is ignored.
Release(k) ==
  /\ dispatching = NoConn
  /\ Cached(k)
  /\ refs' = [refs EXCEPT ![k] = @ - 1]
  /\ \/ /\ refs[k] > 1
        /\ UNCHANGED <<link, listed, reqVars>>
     \/ /\ refs[k] = 1
        /\ Destroy({k})
  /\ UNCHANGED <<unread, dispatching>>

\* ShutdownCmd: forceReleaseAll.
ReleaseAll ==
  /\ dispatching = NoConn
  /\ \E k \in Conns : Cached(k)
  /\ refs' = [k \in Conns |-> 0]
  /\ Destroy({k \in Conns : Cached(k)})
  /\ UNCHANGED <<unread, dispatching>>

-----------------------------------------------------------------------------
(* Requests.                                                               *)

\* The application has a handle of the connection, or of what it removes, and
\* the queue accepted the command.  Both may be gone when it is executed.
Issue(r) ==
  /\ life[r] = "new"
  /\ link[Home[r]] # "none"
  /\ r \in Removes => entry[Subject[r]] # "none"
  /\ life' = [life EXCEPT ![r] = "queued"]
  /\ UNCHANGED <<connVars, listVars, dispatching, pending, call, entry, answers>>

\* execute() answers at once and the command is deleted: the connection or the
\* subject does not exist, is not connected, or memory is short.
Refuse(r) ==
  /\ dispatching = NoConn
  /\ life[r] = "queued"
  /\ Answer({r})
  /\ Delete({r})
  /\ UNCHANGED <<connVars, listVars, dispatching, pending, call, entry>>

Usable(r) ==
  /\ Cached(Home[r])
  /\ link[Home[r]] = "up"
  /\ r \in Removes => entry[Subject[r]] = "listed"

Send_Unregistered(r) ==
  /\ dispatching = NoConn
  /\ life[r] = "queued"
  /\ r \notin Casts
  /\ Usable(r)
  /\ call' = [call EXCEPT ![r] = "waiting"]
  /\ life' = [life EXCEPT ![r] = "kept"]
  /\ UNCHANGED <<connVars, listVars, dispatching, pending, entry, answers>>

\* execute() sends the request; the connection keeps the command.
Send(r) ==
  /\ dispatching = NoConn
  /\ life[r] = "queued"
  /\ r \notin Casts
  /\ Usable(r)
  /\ call' = [call EXCEPT ![r] = "waiting"]
  /\ pending' = [pending EXCEPT ![Home[r]] = @ \cup {r}]
  /\ life' = [life EXCEPT ![r] = "kept"]
  /\ UNCHANGED <<connVars, listVars, dispatching, entry, answers>>

\* A request without reply ends in silence.
SendCast(r) ==
  /\ dispatching = NoConn
  /\ life[r] = "queued"
  /\ r \in Casts
  /\ Usable(r)
  /\ Delete({r})
  /\ UNCHANGED <<connVars, listVars, dispatching, pending, call, entry, answers>>

Cancel_StaysPending(r) ==
  /\ dispatching = NoConn
  /\ r \in Asks
  /\ Cached(Home[r])
  /\ r \in pending[Home[r]]
  /\ call' = [call EXCEPT ![r] = "over"]
  /\ Answer({r})
  /\ Delete({r})
  /\ UNCHANGED <<connVars, listVars, dispatching, pending, entry>>

\* cancelPendingByHandle.  Only DBUSIPC_asyncInvoke hands out a handle.
Cancel(r) ==
  /\ dispatching = NoConn
  /\ r \in Asks
  /\ Cached(Home[r])
  /\ r \in pending[Home[r]]
  /\ call' = [call EXCEPT ![r] = "over"]
  /\ Answer({r})
  /\ Delete({r})
  /\ pending' = [pending EXCEPT ![Home[r]] = @ \ {r}]
  /\ UNCHANGED <<connVars, listVars, dispatching, entry>>

-----------------------------------------------------------------------------
(* Messages.                                                               *)

\* onDispatchStatusUpdate: libdbus reports a change of the dispatch status, so
\* only the first unread message lists the connection.
Unread(k) ==
  /\ unread' = [unread EXCEPT ![k] = TRUE]
  /\ listed' = IF ~unread[k] /\ Cached(k) THEN listed \cup {k} ELSE listed

\* A reply, an error or libdbus's own time-out error.
ReplyArrives(r) ==
  /\ call[r] = "waiting"
  /\ call' = [call EXCEPT ![r] = "ready"]
  /\ Unread(Home[r])
  /\ UNCHANGED <<connVars, dispatching, pending, life, entry, answers>>

\* A signal, a method call, a reply nobody waits for.
MessageArrives(k) ==
  /\ link[k] = "up"
  /\ Unread(k)
  /\ UNCHANGED <<connVars, dispatching, reqVars>>

\* Reading or writing failed; libdbus adds its Disconnected message.  Inside
\* dispatchMessages it is the write of an answer that fails.
Lose(k) ==
  /\ link[k] = "up"
  /\ dispatching \in {NoConn, k}
  /\ link' = [link EXCEPT ![k] = "down"]
  /\ Unread(k)
  /\ UNCHANGED <<refs, dispatching, reqVars>>

-----------------------------------------------------------------------------
(* dispatchPending and dispatchMessages.                                   *)

BeginDispatch(k) ==
  /\ dispatching = NoConn
  /\ k \in listed
  /\ link[k] = "up"
  /\ dispatching' = k
  /\ UNCHANGED <<connVars, listVars, reqVars>>

\* A connection that is down reads nothing and counts as complete.
SkipDispatch(k) ==
  /\ dispatching = NoConn
  /\ k \in listed
  /\ link[k] # "up"
  /\ listed' = listed \ {k}
  /\ UNCHANGED <<connVars, unread, dispatching, reqVars>>

\* libdbus hands the reply to onPendingCallNotify.
Notified(r) ==
  /\ dispatching = Home[r]
  /\ call[r] = "ready"
  /\ call' = [call EXCEPT ![r] = "over"]
  /\ Answer({r})
  /\ UNCHANGED <<connVars, listVars, dispatching>>

\* The subscription or registration is added or removed, if the bus agreed.
Settle(r) ==
  \/ UNCHANGED entry
  \/ r \in Creators /\ entry' = [entry EXCEPT ![r] = "listed"]
  \/ /\ r \in Removes
     /\ entry[Subject[r]] = "listed"
     /\ entry' = [entry EXCEPT ![Subject[r]] = "freed"]

Notify_StaysPending(r) ==
  /\ Notified(r)
  /\ life[r] = "kept"
  /\ r \in Creators => link[Home[r]] = "up"
  /\ Settle(r)
  /\ Delete({r})
  /\ UNCHANGED pending

Notify(r) ==
  /\ Notified(r)
  /\ life[r] = "kept"
  /\ r \in Creators => link[Home[r]] = "up"
  /\ Settle(r)
  /\ pending' = [pending EXCEPT ![Home[r]] = @ \ {r}]
  /\ Delete({r})

\* The connection broke while its messages were dispatched: subscriptions are
\* deleted but stay in mPendingCmds ...
NotifySubscribeDown(r) ==
  /\ Notified(r)
  /\ life[r] = "kept"
  /\ r \in Subscribes \cup OwnerSubscribes
  /\ link[Home[r]] # "up"
  /\ Delete({r})
  /\ UNCHANGED <<pending, entry>>

\* ... and registrations are answered but kept.
NotifyRegisterDown(r) ==
  /\ Notified(r)
  /\ life[r] = "kept"
  /\ r \in Registers
  /\ link[Home[r]] # "up"
  /\ UNCHANGED <<pending, life, entry>>

\* The command was deleted with its Connection; the call outlived both.  The
\* Connection it points to is not in the cache, hence not connected.
NotifyDeleted(r) ==
  /\ Notified(r)
  /\ life[r] = "gone"
  /\ UNCHANGED <<pending, life, entry>>

OnPendingCallNotify(r) ==
  Notify(r) \/ NotifySubscribeDown(r) \/ NotifyRegisterDown(r) \/ NotifyDeleted(r)

EndDispatch_OneMessage(k) ==
  /\ dispatching = k
  /\ unread' = [unread EXCEPT ![k] =
       \E r \in Requests : Home[r] = k /\ call[r] = "ready"]
  /\ listed' = listed \ {k}
  /\ dispatching' = NoConn
  /\ UNCHANGED <<connVars, reqVars>>

EndDispatch(k) ==
  /\ dispatching = k
  /\ \A r \in Requests : Home[r] = k => call[r] # "ready"
  /\ unread' = [unread EXCEPT ![k] = FALSE]
  /\ listed' = listed \ {k}
  /\ dispatching' = NoConn
  /\ UNCHANGED <<connVars, reqVars>>

\* DBUS_DISPATCH_NEED_MEMORY: the connection stays in the list.
SuspendDispatch(k) ==
  /\ dispatching = k
  /\ dispatching' = NoConn
  /\ UNCHANGED <<connVars, listVars, reqVars>>

-----------------------------------------------------------------------------
DispatchStep ==
  \/ \E k \in Conns : BeginDispatch(k) \/ SkipDispatch(k) \/ EndDispatch(k)
                      \/ SuspendDispatch(k)
  \/ \E r \in Requests : OnPendingCallNotify(r)

Execute(r) == Refuse(r) \/ Send(r) \/ SendCast(r)

Next ==
  \/ \E k \in Conns : OpenNew(k) \/ OpenCached(k) \/ Release(k)
  \/ ReleaseAll
  \/ \E r \in Requests : Issue(r) \/ Execute(r) \/ Cancel(r) \/ ReplyArrives(r)
  \/ \E k \in Conns : MessageArrives(k) \/ Lose(k)
  \/ DispatchStep

Spec == Init /\ [][Next]_vars

\* libdbus gives every request a reply or a time-out error, each listed
\* connection is dispatched in its turn and the bus does not send messages
\* without end, which would keep dispatchMessages in its loop; memory is not
\* short for ever.  Nobody has to open, close, issue or cancel anything.
Fairness ==
  /\ \A r \in Requests :
       WF_vars(ReplyArrives(r)) /\ SF_vars(OnPendingCallNotify(r))
  /\ \A k \in Conns : SF_vars(BeginDispatch(k)) /\ WF_vars(EndDispatch(k))

FairSpec == Spec /\ Fairness

-----------------------------------------------------------------------------
(* Properties.                                                             *)

TypeOK ==
  /\ link \in [Conns -> {"none", "up", "down"}]
  /\ refs \in [Conns -> 0 .. MaxRefs]
  /\ unread \in [Conns -> BOOLEAN]
  /\ listed \in SUBSET Conns
  /\ dispatching \in Conns \cup {NoConn}
  /\ pending \in [Conns -> SUBSET (Requests \ Casts)]
  /\ life \in [Requests -> {"new", "queued", "kept", "gone"}]
  /\ call \in [Requests -> {"none", "waiting", "ready", "over"}]
  /\ entry \in [Creators -> {"none", "listed", "freed"}]
  /\ answers \in [Requests -> Nat]

\* A reply that libdbus holds is not forgotten: its connection, as long as it
\* is up, is in the list of connections to dispatch, although libdbus reports
\* only changes of its status and reports them to nobody while no Connection
\* exists.
RepliesAreListed ==
  \A r \in Requests :
    /\ call[r] = "ready"
    /\ Cached(Home[r])
    /\ link[Home[r]] = "up"
    => Home[r] \in listed

\* The dispatcher refers to no deleted Connection, and a deleted Connection
\* has left no subscription or registration behind.
NoTraceOfClosed ==
  /\ \A k \in listed \cup ({dispatching} \ {NoConn}) : Cached(k)
  /\ \A k \in Conns : ~Cached(k) => pending[k] = {}
  /\ \A r \in Creators : entry[r] = "listed" => Cached(Home[r])

\* The commands without special treatment of lost connections.
Plain == Asks \cup Casts \cup Removes

\* Whoever comes first of reply, cancellation and closing finds the command,
\* and the others no longer do: a command whose call is open exists and is in
\* mPendingCmds of its connection, where the closing looks for it, and plain
\* commands stay there no longer.  SubscribeOwnerChangedCmd is the exception.
OpenIsPending ==
  /\ \A r \in Requests \ OwnerSubscribes :
       Outstanding(r) => life[r] = "kept" /\ r \in pending[Home[r]]
  /\ \A r \in Plain : \A k \in Conns : r \in pending[k] => Outstanding(r)

\* What is in mPendingCmds exists, for the code cancels and deletes it without
\* looking.  The exception is a subscription whose reply was dispatched after
\* its connection was lost.
PendingIsAlive ==
  \A k \in Conns : \A r \in pending[k] :
    /\ Home[r] = k
    /\ \/ life[r] = "kept"
       \/ r \in Subscribes \cup OwnerSubscribes /\ link[k] = "down"

\* A plain command is answered exactly once, when it is deleted; so are
\* SubscribeCmd and RegisterServiceCmd unless their connection is lost.  No
\* command that owes an answer is deleted without one.
AnsweredOnce ==
  /\ \A r \in Requests \ (Casts \cup OwnerSubscribes) :
       r \in Plain \/ link[Home[r]] # "down" =>
         answers[r] = IF life[r] = "gone" THEN 1 ELSE 0
  /\ \A r \in Requests \ Casts : life[r] = "gone" => answers[r] > 0
  /\ \A r \in Casts : answers[r] <= 1

\* A request that was sent is on its way to an answer as long as its connection is
\* up: libdbus has still to complete it, or its reply is there and the connection
\* has its turn to come; and the command is where the reply, a cancellation and
\* the closing look for it.
SentGoesOn ==
  \A r \in Requests :
    life[r] = "kept" /\ link[Home[r]] = "up" =>
      /\ Cached(Home[r])
      /\ r \in pending[Home[r]]
      /\ call[r] = "waiting" \/ (call[r] = "ready" /\ Home[r] \in listed)

\* A subscription or registration is made once, in the step that answers its
\* command and deletes it, and no reply that comes later brings back one that was
\* removed.
EntriesAreNotRevived ==
  [][\A r \in Creators :
       /\ entry[r] = "freed" => entry'[r] = "freed"
       /\ entry[r] = "listed" => entry'[r] # "none"
       /\ entry[r] = "none" /\ entry'[r] # "none" =>
            life[r] = "kept" /\ life'[r] = "gone" /\ answers'[r] = answers[r] + 1]_vars

\* A sent request is answered, by a reply, a time-out, a cancellation or the
\* closing of its connection, unless the connection is lost.
SentIsAnswered ==
  \A r \in Requests \ Casts :
    (life[r] = "kept") ~> (answers[r] > 0 \/ link[Home[r]] = "down")

\* The abstract service, for the plain commands.
PlainStatus ==
  [r \in Plain |->
     IF life[r] = "new" THEN "new"
     ELSE IF life[r] = "gone" THEN "finished" ELSE "open"]

PlainAnswers == [r \in Plain |-> answers[r]]

Service == INSTANCE CallService WITH
  Cmds <- Plain, OneWay <- Casts, Fragile <- {},
  status <- PlainStatus, answers <- PlainAnswers, closed <- FALSE

\* Every behaviour is one of the abstract service for the plain commands.
ImplementsService == Service!SSpec

\* The reply of r is dispatched in this step.
CalledBack(r) ==
  dispatching # NoConn /\ call[r] = "ready" /\ call'[r] = "over"

\* A callback of libdbus finds the command it is for.
CallbackFindsCommand ==
  [][\A r \in Requests : CalledBack(r) => life[r] = "kept"]_vars

\* It does so unless it is for a SubscribeOwnerChangedCmd: every other deletion of
\* a command takes its call along.
OtherCallbacksFindCommand ==
  [][\A r \in Requests \ OwnerSubscribes : CalledBack(r) => life[r] = "kept"]_vars

\* A request to which no reply comes ends with an error.
RequestsTimeOut == \A r \in Asks : (life[r] = "kept") ~> (answers[r] > 0)
=============================================================================
