------------------------------ MODULE Services ------------------------------
(***************************************************************************)
(* What the bus sends to one connection and what the library makes of it:  *)
(* services and subscriptions are registered with the bus and entered in   *)
(* the connection's containers, the message filter hands calls and signals *)
(* to their callbacks, and the application answers calls through request   *)
(* contexts (Connection::messageFilter, ServiceRegistration, SignalSub-    *)
(* scription, RequestContext, and the commands around them).               *)
(*                                                                         *)
(* The connection is a stream in each direction.  The bus takes requests   *)
(* in the order they were sent, and its answers and the messages it routes *)
(* arrive in the order it sent them.  The application is any number of     *)
(* threads, so that commands are queued in any order; they are executed in *)
(* the order of the queue.                                                 *)
(*                                                                         *)
(* An entry is one ServiceRegistration or SignalSubscription object.  Each *)
(* service has a path and a bus name of its own.                           *)
(***************************************************************************)
EXTENDS Sequences, Naturals

CONSTANTS
  Registrations,  \* ServiceRegistration objects
  Subscriptions,  \* SignalSubscription objects
  Calls,          \* method calls of peers
  Signals,        \* signals of peers
  For             \* the entries a call or a signal matches

Entries == Registrations \cup Subscriptions
Messages == Calls \cup Signals

ASSUME ServicesAssumption ==
  /\ Registrations \cap Subscriptions = {}
  /\ Calls \cap Signals = {}
  /\ For \in [Messages -> SUBSET Entries]
  /\ \A c \in Calls : \E s \in Registrations : For[c] = {s}
  /\ \A g \in Signals : For[g] \subseteq Subscriptions

VARIABLES
  open,     \* the Connection is in msConnCache
  up,       \* the D-Bus connection is connected
  queue,    \* mCmdQueue
  draining, \* onCommand executes the queue to its end, with the lock held
  life,     \* where each entry stands
  toBus,    \* requests to the bus, sent and not yet taken
  routed,   \* entries whose name or match rule the bus has
  inbox,    \* messages from the bus, not yet dispatched
  owed,     \* the messages the bus sent because of each entry
  seen,     \* the messages handed to the callback of each entry
  spoilt,   \* messages kept from their callbacks: no memory, or not decodable
  ctx,      \* the RequestContext of each call: none, open, freed
  asked,    \* what the application did with it: no, answered, freed
  replies,  \* how many replies to each call were sent
  unsent    \* calls whose answer could not be sent: no memory

busVars == <<toBus, routed, inbox>>
deliveryVars == <<owed, seen, spoilt>>
callVars == <<ctx, asked, replies, unsent>>
vars == <<open, up, queue, draining, life, toBus, routed, inbox, owed, seen, spoilt,
          ctx, asked, replies, unsent>>

Init ==
  /\ open = TRUE
  /\ up = TRUE
  /\ queue = <<>>
  /\ draining = FALSE
  /\ life = [e \in Entries |-> "new"]
  /\ toBus = <<>>
  /\ routed = {}
  /\ inbox = <<>>
  /\ owed = [e \in Entries |-> {}]
  /\ seen = [e \in Entries |-> {}]
  /\ spoilt = {}
  /\ ctx = [c \in Calls |-> "none"]
  /\ asked = [c \in Calls |-> "no"]
  /\ replies = [c \in Calls |-> 0]
  /\ unsent = {}

\* The states of an entry: not asked for; its command queued; the bus asked to
\* add it; in its container; the bus asked to remove it, or it failed to; gone
\* or never added.
HeldLives == {"active", "removing", "kept"}
Lives == {"new", "queued", "adding", "gone", "failed"} \cup HeldLives

Held_OnlyActive(e) == life[e] = "active"

\* mSigSubscriptions and mSvcRegistrations.
Held(e) == life[e] \in HeldLives

Queued(op, x) == \E i \in DOMAIN queue : queue[i] = [op |-> op, arg |-> x]

\* submitCommand, when onCommand does not hold the lock.  A callback may submit
\* meanwhile, to the same effect as after the last command.
Submit(op, x) ==
  /\ ~draining
  /\ queue' = Append(queue, [op |-> op, arg |-> x])
  /\ UNCHANGED draining

\* A client does not use a connection it asked to close.
Client == open /\ ~Queued("close", "conn")

-----------------------------------------------------------------------------
(* API calls of the application.                                           *)

AskAdd(e) ==
  /\ Client
  /\ life[e] = "new"
  /\ Submit("add", e)
  /\ life' = [life EXCEPT ![e] = "queued"]
  /\ UNCHANGED <<open, up, busVars, deliveryVars, callVars>>

\* The handle of an entry is known once the entry was added.
AskRemove(e) ==
  /\ Client
  /\ life[e] = "active"
  /\ ~Queued("remove", e)
  /\ Submit("remove", e)
  /\ UNCHANGED <<open, up, life, busVars, deliveryVars, callVars>>

\* A thread emits unless it was told that the registration was removed.
AskEmit(s) ==
  /\ Client
  /\ Held(s)
  /\ ~Queued("emit", s)
  /\ Submit("emit", s)
  /\ UNCHANGED <<open, up, life, busVars, deliveryVars, callVars>>

AskClose ==
  /\ Client
  /\ Submit("close", "conn")
  /\ UNCHANGED <<open, up, life, busVars, deliveryVars, callVars>>

\* A result or an error is returned, once.
AskAnswer(c) ==
  /\ ctx[c] = "open"
  /\ asked[c] = "no"
  /\ asked' = [asked EXCEPT ![c] = "answered"]
  /\ Submit("answer", c)
  /\ UNCHANGED <<open, up, life, busVars, deliveryVars, ctx, replies, unsent>>

AskFree_AtOnce(c) ==
  /\ ctx[c] = "open"
  /\ asked[c] \in {"no", "answered"}
  /\ asked' = [asked EXCEPT ![c] = "freed"]
  /\ ctx' = [ctx EXCEPT ![c] = "freed"]
  /\ UNCHANGED <<open, up, queue, draining, life, busVars, deliveryVars, replies,
                 unsent>>

\* The context is freed after the answer, or without one when none is wanted.
AskFree(c) ==
  /\ ctx[c] = "open"
  /\ asked[c] \in {"no", "answered"}
  /\ asked' = [asked EXCEPT ![c] = "freed"]
  /\ Submit("free", c)
  /\ UNCHANGED <<open, up, life, busVars, deliveryVars, ctx, replies, unsent>>

-----------------------------------------------------------------------------
(* Commands, executed by the dispatcher thread.                            *)

Execute(op, x) ==
  /\ queue # <<>>
  /\ Head(queue) = [op |-> op, arg |-> x]
  /\ queue' = Tail(queue)
  /\ draining' = (Tail(queue) # <<>>)

Send(op, e) == toBus' = Append(toBus, [op |-> op, arg |-> e])

\* SubscribeCmd, RegisterServiceCmd.  Without memory the command fails before the
\* request is sent, or after it.
ExecAdd(e) ==
  /\ Execute("add", e)
  /\ \/ /\ open /\ up
        /\ Send("add", e)
        /\ life' = [life EXCEPT ![e] = "adding"]
     \/ /\ open /\ up
        /\ Send("add", e)
        /\ life' = [life EXCEPT ![e] = "failed"]
     \/ /\ life' = [life EXCEPT ![e] = "failed"]
        /\ UNCHANGED toBus
  /\ UNCHANGED <<open, up, routed, inbox, deliveryVars, callVars>>

ExecRemove_AtOnce(e) ==
  /\ Execute("remove", e)
  /\ \/ /\ Held(e) /\ up
        /\ Send("remove", e)
        /\ life' = [life EXCEPT ![e] = "gone"]
     \/ /\ ~(Held(e) /\ up)
        /\ UNCHANGED <<life, toBus>>
  /\ UNCHANGED <<open, up, routed, inbox, deliveryVars, callVars>>

\* UnsubscribeCmd, UnregisterServiceCmd: the entry stays until the bus answers,
\* and for good when the command fails after the request was sent.
ExecRemove(e) ==
  /\ Execute("remove", e)
  /\ \/ /\ Held(e) /\ up
        /\ Send("remove", e)
        /\ life' = [life EXCEPT ![e] = "removing"]
     \/ /\ Held(e) /\ up
        /\ Send("remove", e)
        /\ life' = [life EXCEPT ![e] = "kept"]
     \/ UNCHANGED <<life, toBus>>
  /\ UNCHANGED <<open, up, routed, inbox, deliveryVars, callVars>>

\* EmitCmd: the registration is used without asking whether it exists.  What it
\* sends, or reports, concerns nobody here.
ExecEmit(s) ==
  /\ Execute("emit", s)
  /\ UNCHANGED <<open, up, life, busVars, deliveryVars, callVars>>

\* ReturnResultCmd, ReturnErrorCmd: the connection of the context is looked up.
\* The message may not be made or not be sent, which the application is told.
ExecAnswer(c) ==
  /\ Execute("answer", c)
  /\ \/ /\ open /\ up
        /\ replies' = [replies EXCEPT ![c] = @ + 1]
        /\ UNCHANGED unsent
     \/ /\ open /\ up
        /\ unsent' = unsent \cup {c}
        /\ UNCHANGED replies
     \/ /\ ~(open /\ up)
        /\ UNCHANGED <<replies, unsent>>
  /\ UNCHANGED <<open, up, life, busVars, deliveryVars, ctx, asked>>

ExecFree_Nothing(c) ==
  /\ Execute("free", c)
  /\ UNCHANGED <<open, up, life, busVars, deliveryVars, callVars>>

ExecFree(c) ==
  /\ Execute("free", c)
  /\ ctx' = [ctx EXCEPT ![c] = "freed"]
  /\ UNCHANGED <<open, up, life, busVars, deliveryVars, asked, replies, unsent>>

ExecClose_KeepsEntries ==
  /\ Execute("close", "conn")
  /\ open' = FALSE
  /\ toBus' = <<>>
  /\ routed' = {}
  /\ inbox' = <<>>
  /\ UNCHANGED <<up, life, deliveryVars, callVars>>

\* The last reference: names and rules are given up, the filter is removed, the
\* entries are deleted.
ExecClose ==
  /\ Execute("close", "conn")
  /\ open' = FALSE
  /\ life' = [e \in Entries |->
       IF Held(e) THEN "gone" ELSE IF life[e] = "adding" THEN "failed" ELSE life[e]]
  /\ toBus' = <<>>
  /\ routed' = {}
  /\ inbox' = <<>>
  /\ UNCHANGED <<up, deliveryVars, callVars>>

-----------------------------------------------------------------------------
(* The bus, the peers, time-outs, the loss of the connection.              *)

Note(kind, x, to) == [kind |-> kind, arg |-> x, to |-> to]

BusTakes(op, e) ==
  /\ toBus # <<>>
  /\ Head(toBus) = [op |-> op, arg |-> e]
  /\ toBus' = Tail(toBus)
  /\ UNCHANGED <<open, up, queue, draining, life, deliveryVars, callVars>>

BusAdds(e) ==
  /\ BusTakes("add", e)
  /\ \/ /\ routed' = routed \cup {e}
        /\ inbox' = Append(inbox, Note("added", e, {}))
     \/ /\ inbox' = Append(inbox, Note("error", e, {}))
        /\ UNCHANGED routed

BusRemoves(e) ==
  /\ BusTakes("remove", e)
  /\ routed' = routed \ {e}
  /\ inbox' = Append(inbox, Note("removed", e, {}))

\* libdbus stops the timer of a request when its reply was read.
TimeOut(e) ==
  /\ life[e] \in {"adding", "removing"}
  /\ \A i \in DOMAIN inbox : inbox[i].arg # e
  /\ inbox' = Append(inbox, Note("error", e, {}))
  /\ UNCHANGED <<open, up, queue, draining, life, toBus, routed, deliveryVars,
                 callVars>>

\* A peer calls or emits.  The bus delivers a call to the owner of the name, a
\* signal to a connection with a rule for it.
Deliver(m) ==
  /\ open /\ up
  /\ \A e \in Entries : m \notin owed[e]
  /\ For[m] \cap routed # {}
  /\ owed' = [e \in Entries |->
       IF e \in For[m] \cap routed THEN owed[e] \cup {m} ELSE owed[e]]
  /\ inbox' = Append(inbox, Note("message", m, For[m] \cap routed))
  /\ UNCHANGED <<open, up, queue, draining, life, toBus, routed, seen, spoilt,
                 callVars>>

Lose ==
  /\ up
  /\ up' = FALSE
  /\ toBus' = <<>>
  /\ routed' = {}
  /\ UNCHANGED <<open, queue, draining, life, inbox, deliveryVars, callVars>>

-----------------------------------------------------------------------------
(* Dispatching.  A connection that breaks meanwhile is dispatched to its   *)
(* last message.                                                           *)

Read(kind, x) ==
  /\ open
  /\ ~draining
  /\ inbox # <<>>
  /\ Head(inbox).kind = kind
  /\ Head(inbox).arg = x
  /\ inbox' = Tail(inbox)
  /\ UNCHANGED <<open, up, queue, draining, toBus, routed>>

\* The onPendingCallNotify functions of SubscribeCmd and RegisterServiceCmd, where
\* the entry may not fit into its container ...
ReadAdded(e) ==
  /\ Read("added", e)
  /\ \/ /\ life[e] = "adding" /\ up
        /\ life' = [life EXCEPT ![e] = "active"]
     \/ /\ life[e] = "adding"
        /\ life' = [life EXCEPT ![e] = "failed"]
     \/ /\ life[e] # "adding"
        /\ UNCHANGED life
  /\ UNCHANGED <<deliveryVars, callVars>>

\* ... and of UnsubscribeCmd and UnregisterServiceCmd.  A late reply, after the
\* time-out, is for nobody.
ReadRemoved(e) ==
  /\ Read("removed", e)
  /\ life' = IF life[e] # "removing" THEN life ELSE [life EXCEPT ![e] = "gone"]
  /\ UNCHANGED <<deliveryVars, callVars>>

ReadError(e) ==
  /\ Read("error", e)
  /\ life' = CASE life[e] = "adding" -> [life EXCEPT ![e] = "failed"]
               [] life[e] = "removing" -> [life EXCEPT ![e] = "kept"]
               [] OTHER -> life
  /\ UNCHANGED <<deliveryVars, callVars>>

HandTo(E, m) ==
  seen' = [e \in Entries |-> IF e \in E THEN seen[e] \cup {m} ELSE seen[e]]

FilterCall_NotHandled(c) ==
  /\ Read("message", c)
  /\ HandTo({s \in For[c] : Held(s)}, c)
  /\ ctx' = [ctx EXCEPT ![c] = IF \E s \in For[c] : Held(s) THEN "open" ELSE @]
  /\ replies' = [replies EXCEPT ![c] = IF up THEN @ + 1 ELSE @]
  /\ UNCHANGED <<life, owed, spoilt, asked, unsent>>

\* The registration with the path of the call gets it, with a new context, or the
\* context cannot be made: the call counts as handled and nobody replies.  A call
\* without a registration, or not decoded, is refused by libdbus (UnknownMethod).
FilterCall(c) ==
  /\ Read("message", c)
  /\ LET to == {s \in For[c] : Held(s)} IN
     \/ /\ to # {}
        /\ HandTo(to, c)
        /\ ctx' = [ctx EXCEPT ![c] = "open"]
        /\ UNCHANGED <<spoilt, replies>>
     \/ /\ to # {}
        /\ spoilt' = spoilt \cup {c}
        /\ UNCHANGED <<seen, ctx, replies>>
     \/ /\ \/ to = {} /\ UNCHANGED spoilt
           \/ spoilt' = spoilt \cup {c}
        /\ replies' = IF up THEN [replies EXCEPT ![c] = @ + 1] ELSE replies
        /\ UNCHANGED <<seen, ctx>>
  /\ UNCHANGED <<life, owed, asked, unsent>>

\* Every subscription that matches gets the signal, unless it is not decoded.
FilterSignal(g) ==
  /\ Read("message", g)
  /\ \/ /\ HandTo({b \in For[g] : Held(b)}, g)
        /\ UNCHANGED spoilt
     \/ /\ spoilt' = spoilt \cup {g}
        /\ UNCHANGED seen
  /\ UNCHANGED <<life, owed, callVars>>

-----------------------------------------------------------------------------
ApplicationStep ==
  \/ \E e \in Entries : AskAdd(e) \/ AskRemove(e)
  \/ \E s \in Registrations : AskEmit(s)
  \/ \E c \in Calls : AskAnswer(c) \/ AskFree(c)
  \/ AskClose

CommandStep ==
  \/ \E e \in Entries : ExecAdd(e) \/ ExecRemove(e)
  \/ \E s \in Registrations : ExecEmit(s)
  \/ \E c \in Calls : ExecAnswer(c) \/ ExecFree(c)
  \/ ExecClose

BusStep == \E e \in Entries : BusAdds(e) \/ BusRemoves(e)

MessageStep ==
  \/ \E e \in Entries : ReadAdded(e) \/ ReadRemoved(e) \/ ReadError(e)
  \/ \E c \in Calls : FilterCall(c)
  \/ \E g \in Signals : FilterSignal(g)

Next ==
  \/ ApplicationStep
  \/ CommandStep
  \/ BusStep
  \/ MessageStep
  \/ \E e \in Entries : TimeOut(e)
  \/ \E m \in Messages : Deliver(m)
  \/ Lose

Spec == Init /\ [][Next]_vars

\* The dispatcher thread executes the commands and, in every round in between,
\* dispatches messages of a connection that is up.
Fairness == WF_vars(CommandStep) /\ SF_vars(up /\ MessageStep)

FairSpec == Spec /\ Fairness

-----------------------------------------------------------------------------
(* Properties.                                                             *)

Commands ==
  [op : {"add", "remove"}, arg : Entries] \cup [op : {"emit"}, arg : Registrations]
    \cup [op : {"answer", "free"}, arg : Calls] \cup [op : {"close"}, arg : {"conn"}]

Notes ==
  [kind : {"added", "removed", "error"}, arg : Entries, to : {{}}]
    \cup [kind : {"message"}, arg : Messages, to : SUBSET Entries]

TypeOK ==
  /\ open \in BOOLEAN
  /\ up \in BOOLEAN
  /\ queue \in Seq(Commands)
  /\ draining \in BOOLEAN
  /\ life \in [Entries -> IF open THEN Lives ELSE Lives \ HeldLives]
  /\ toBus \in Seq([op : {"add", "remove"}, arg : Entries])
  /\ routed \in SUBSET Entries
  /\ inbox \in Seq(Notes)
  /\ owed \in [Entries -> SUBSET Messages]
  /\ seen \in [Entries -> SUBSET Messages]
  /\ spoilt \in SUBSET Messages
  /\ ctx \in [Calls -> {"none", "open", "freed"}]
  /\ asked \in [Calls -> {"no", "answered", "freed"}]
  /\ replies \in [Calls -> Nat]
  /\ unsent \in SUBSET Calls

\* As long as the connection is open, every message the bus sent because of an
\* entry was handed to its callback or still waits to be dispatched, whatever is
\* being added and removed meanwhile, unless adding the entry was reported as
\* failed: the entry is there before the first such message is dispatched and
\* until the last one was.  The exception is a message the filter had no memory
\* for, or could not decode.
NothingIsMissed ==
  open => \A e \in Entries : life[e] # "failed" =>
    \A m \in owed[e] :
      \/ m \in seen[e] \/ m \in spoilt
      \/ \E i \in DOMAIN inbox : inbox[i].kind = "message" /\ inbox[i].arg = m

\* A command that waits in the queue finds its request context, because the
\* freeing of it is queued behind.
ContextIsAlive ==
  \A i \in DOMAIN queue :
    queue[i].op \in {"answer", "free"} => ctx[queue[i].arg] = "open"

\* A caller gets one reply: from the application or from libdbus, and none was
\* sent as long as the application's is queued.
RepliedOnce ==
  \A c \in Calls :
    /\ replies[c] <= 1
    /\ Queued("answer", c) => replies[c] = 0

\* A callback is handed only messages the bus sent because of its entry: what came
\* before it was added is dispatched before it is there, and what comes after its
\* removal finds it gone.  The exception is an entry whose removal timed out or
\* failed: it stays, and is handed what other entries are sent.
DeliveriesAreOwed ==
  [][\A e \in Entries : \A m \in seen'[e] \ seen[e] :
       m \in owed[e] \/ life[e] = "kept"]_vars

\* A message that waits was handed to nobody yet: the filter runs once for each.
HandedOnce ==
  \A i \in DOMAIN inbox : inbox[i].kind = "message" =>
    \A e \in Entries : inbox[i].arg \notin seen[e]

\* Nothing the application asked for a call gets lost between the threads: the
\* freeing of its context is queued until it is done, and its answer until it was
\* sent, unless the connection was closed or lost before or there was no memory to
\* send it.
AskedIsUnderWay ==
  \A c \in Calls :
    /\ asked[c] = "freed" => ctx[c] = "freed" \/ Queued("free", c)
    /\ asked[c] = "answered" =>
         Queued("answer", c) \/ replies[c] = 1 \/ c \in unsent \/ ~open \/ ~up

\* The registration of an emission that waits in the queue exists when it is
\* executed.
EmitFindsRegistration ==
  \A s \in Registrations : Queued("emit", s) => Held(s)

\* A message the bus sent because of an entry reaches its callback, unless adding
\* the entry failed, the connection is closed or lost, or the filter had no memory
\* for the message or could not decode it.
MessageIsHandled ==
  \A e \in Entries : \A m \in Messages :
    m \in owed[e] ~>
      (m \in seen[e] \/ m \in spoilt \/ life[e] = "failed" \/ ~open \/ ~up)

\* What the application asks for is done: an answer is sent unless the connection
\* is closed or lost or there is no memory to send it, and a context is freed.
RequestsAreCarriedOut ==
  \A c \in Calls :
    /\ Queued("answer", c) ~> (replies[c] = 1 \/ c \in unsent \/ ~open \/ ~up)
    /\ asked[c] = "freed" ~> ctx[c] = "freed"
=============================================================================
