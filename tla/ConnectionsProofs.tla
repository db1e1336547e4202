-------------------------- MODULE ConnectionsProofs --------------------------
(***************************************************************************)
(* Theorems about Connections for every set of connections and requests    *)
(* of each kind.  The invariant has four layers besides the types: which   *)
(* connections are listed (Lists), what closed connections leave behind    *)
(* (Closed), who owns a command and its call (Owners) and who was answered *)
(* (AnsweredOnce).  Each action has a lemma with one step per layer.  The  *)
(* last part shows that Connections implements CallService.                *)
(***************************************************************************)
EXTENDS Connections, TLAPS

\* libdbus reports only changes of its dispatch status, so "unread" must imply
\* "listed" for every connection that can be dispatched.
Lists ==
  /\ \A k \in Conns : Cached(k) /\ link[k] = "up" /\ unread[k] => k \in listed
  /\ \A r \in Requests : call[r] = "ready" => unread[Home[r]]

Closed ==
  /\ NoTraceOfClosed
  /\ \A k \in Conns : link[k] = "none" => ~Cached(k)

\* mPendingCmds holds every command that waits, and hardly any other.
Owners ==
  /\ PendingIsAlive
  /\ \A r \in Requests : life[r] = "kept" => r \in pending[Home[r]]
  /\ \A r \in Requests \ OwnerSubscribes : Outstanding(r) => life[r] = "kept"
  /\ \A r \in Plain : life[r] = "kept" => Outstanding(r)
  /\ \A r \in Requests :
       life[r] \in {"new", "queued"} => call[r] = "none" /\ answers[r] = 0

Inv == TypeOK /\ Lists /\ Closed /\ Owners /\ AnsweredOnce

\* Each request has a connection and one kind.
LEMMA RequestFacts ==
  /\ \A r \in Requests : Home[r] \in Conns
  /\ \A r \in Removes : Subject[r] \in Creators /\ Home[r] = Home[Subject[r]]
  /\ Creators \subseteq Requests
  /\ Plain \subseteq Requests
  /\ Plain \cap Creators = {}
  /\ Casts \subseteq Plain
  /\ Casts \cap (Asks \cup Removes) = {}
  /\ OwnerSubscribes \subseteq Creators
  /\ Subscribes \subseteq Creators
  /\ Registers \subseteq Creators
  /\ Registers \cap (Subscribes \cup OwnerSubscribes) = {}
  /\ Subscribes \cap OwnerSubscribes = {}
  /\ Requests = Plain \cup Creators
BY KindsAssumption, HomeAssumption DEF Requests, Creators, Plain

\* Nothing is opened or issued yet.
LEMMA InitInv == Init => Inv
<1> SUFFICES ASSUME Init PROVE Inv
  OBVIOUS
<1> USE RequestFacts, ConnsAssumption DEF Init, Cached, Outstanding
<1>1. TypeOK
  BY DEF TypeOK
<1>2. Lists
  BY DEF Lists
<1>3. Closed
  BY DEF Closed, NoTraceOfClosed
<1>4. Owners
  BY DEF Owners, PendingIsAlive
<1>5. AnsweredOnce
  BY DEF AnsweredOnce
<1> QED
  BY <1>1, <1>2, <1>3, <1>4, <1>5 DEF Inv

\* A new Connection is listed, whatever libdbus read before it existed.
LEMMA OpenNewInv ==
  ASSUME Inv, NEW k \in Conns, OpenNew(k) PROVE Inv'
<1> USE RequestFacts, ConnsAssumption
      DEF Inv, connVars, listVars, reqVars, Cached, Outstanding,
          OpenNew
<1>1. TypeOK'
  <2>1. 1 \in 0 .. MaxRefs
    BY ConnsAssumption
  <2> QED
    BY <2>1 DEF TypeOK
<1>2. Lists'
  BY DEF TypeOK, Lists, Closed, Owners
<1>3. Closed'
  BY DEF TypeOK, Closed, NoTraceOfClosed, Owners, PendingIsAlive
<1>4. Owners'
  BY DEF TypeOK, Closed, NoTraceOfClosed, Owners, PendingIsAlive
<1>5. AnsweredOnce'
  BY DEF TypeOK, Closed, NoTraceOfClosed, Owners, PendingIsAlive, AnsweredOnce
<1> QED
  BY <1>1, <1>2, <1>3, <1>4, <1>5

\* Another reference changes nothing but the count.
LEMMA OpenCachedInv ==
  ASSUME Inv, NEW k \in Conns, OpenCached(k) PROVE Inv'
<1> USE RequestFacts, ConnsAssumption
      DEF Inv, connVars, listVars, reqVars, Cached, Outstanding,
          OpenCached
<1>1. TypeOK'
  BY DEF TypeOK
<1>2. Lists'
  BY DEF TypeOK, Lists, Closed, Owners
<1>3. Closed'
  BY DEF TypeOK, Closed, NoTraceOfClosed, Owners, PendingIsAlive
<1>4. Owners'
  BY DEF TypeOK, Closed, NoTraceOfClosed, Owners, PendingIsAlive
<1>5. AnsweredOnce'
  BY DEF TypeOK, Closed, NoTraceOfClosed, Owners, PendingIsAlive, AnsweredOnce
<1> QED
  BY <1>1, <1>2, <1>3, <1>4, <1>5

\* A command is cancelled when its connection is destroyed and lists it.
LEMMA CancelledFacts ==
  ASSUME TypeOK, PendingIsAlive, NEW K \in SUBSET Conns, NEW r \in Requests
  PROVE  r \in UNION {pending[k] : k \in K} <=> Home[r] \in K /\ r \in pending[Home[r]]
BY RequestFacts DEF TypeOK, PendingIsAlive

\* The destruction of any cached connections preserves the invariant.
LEMMA DestroyInv ==
  ASSUME Inv, NEW K \in SUBSET Conns, Destroy(K),
         \A k \in K : Cached(k),
         refs' \in [Conns -> 0 .. MaxRefs],
         \A k \in Conns : refs'[k] = IF k \in K THEN 0 ELSE refs[k],
         dispatching = NoConn,
         UNCHANGED <<unread, dispatching>>
  PROVE  Inv'
<1> USE RequestFacts, ConnsAssumption
<1> DEFINE cancelled == UNION {pending[k] : k \in K}
<1>1. \A r \in Requests : r \in cancelled <=> Home[r] \in K /\ r \in pending[Home[r]]
  BY CancelledFacts DEF Inv, Owners
<1>2. /\ link' = [k \in Conns |-> IF k \in K \ Shared THEN "down" ELSE link[k]]
      /\ listed' = listed \ K
      /\ pending' = [k \in Conns |-> IF k \in K THEN {} ELSE pending[k]]
      /\ answers' = [r \in Requests |->
           IF r \in cancelled THEN answers[r] + 1 ELSE answers[r]]
      /\ life' = [r \in Requests |-> IF r \in cancelled THEN "gone" ELSE life[r]]
      /\ call' = [r \in Requests |->
           IF \/ r \in cancelled \ OwnerSubscribes
              \/ Home[r] \in K /\ ~Kept(Home[r]) /\ Outstanding(r)
           THEN "over" ELSE call[r]]
      /\ entry' = [r \in Creators |->
           IF entry[r] = "listed" /\ Home[r] \in K THEN "freed" ELSE entry[r]]
  BY DEF Destroy, Answer, Delete
<1> HIDE DEF cancelled
<1> USE <1>1, <1>2 DEF Inv, Cached, Outstanding
<1>3. TypeOK'
  BY DEF TypeOK
<1>4. Lists'
  BY DEF TypeOK, Lists
<1>5. Closed'
  BY DEF TypeOK, Closed, NoTraceOfClosed
<1>6. Owners'
  BY DEF TypeOK, Closed, NoTraceOfClosed, Owners, PendingIsAlive
<1>7. AnsweredOnce'
  BY DEF TypeOK, Closed, Owners, PendingIsAlive, AnsweredOnce
<1> QED
  BY <1>3, <1>4, <1>5, <1>6, <1>7

\* The last reference destroys the Connection; the others only count.
LEMMA ReleaseInv ==
  ASSUME Inv, NEW k \in Conns, Release(k) PROVE Inv'
<1>1. CASE refs[k] > 1
  <2> USE <1>1, RequestFacts, ConnsAssumption
      DEF Inv, listVars, reqVars, Cached, Outstanding, Release
  <2>1. TypeOK'
    BY DEF TypeOK
  <2>2. Lists'
    BY DEF TypeOK, Lists
  <2>3. Closed'
    BY DEF TypeOK, Closed, NoTraceOfClosed
  <2>4. Owners'
    BY DEF TypeOK, Owners, PendingIsAlive
  <2>5. AnsweredOnce'
    BY DEF TypeOK, AnsweredOnce
  <2> QED
    BY <2>1, <2>2, <2>3, <2>4, <2>5
<1>2. CASE refs[k] = 1
  <2>1. Destroy({k}) /\ dispatching = NoConn /\ UNCHANGED <<unread, dispatching>>
    BY <1>2 DEF Release
  <2>2. /\ refs' \in [Conns -> 0 .. MaxRefs]
        /\ \A j \in Conns : refs'[j] = IF j \in {k} THEN 0 ELSE refs[j]
        /\ \A j \in {k} : Cached(j)
    BY <1>2, ConnsAssumption DEF Inv, TypeOK, Release, Cached
  <2>3. {k} \in SUBSET Conns
    OBVIOUS
  <2> QED
    BY <2>1, <2>2, <2>3, DestroyInv
<1> QED
  BY <1>1, <1>2 DEF Release, Inv, TypeOK, Cached

\* The shutdown destroys all cached connections at once.
LEMMA ReleaseAllInv ==
  ASSUME Inv, ReleaseAll PROVE Inv'
<1> DEFINE K == {k \in Conns : Cached(k)}
<1>1. Destroy(K) /\ dispatching = NoConn /\ UNCHANGED <<unread, dispatching>>
  BY DEF ReleaseAll
<1>2. /\ refs' \in [Conns -> 0 .. MaxRefs]
      /\ \A j \in Conns : refs'[j] = IF j \in K THEN 0 ELSE refs[j]
      /\ \A j \in K : Cached(j)
  BY ConnsAssumption DEF Inv, TypeOK, ReleaseAll, Cached
<1>3. K \in SUBSET Conns
  OBVIOUS
<1> HIDE DEF K
<1> QED
  BY <1>1, <1>2, <1>3, DestroyInv

\* The queue accepts a command; nothing points to it yet but the queue.
LEMMA IssueInv ==
  ASSUME Inv, NEW r \in Requests, Issue(r) PROVE Inv'
<1> USE RequestFacts, ConnsAssumption
      DEF Inv, connVars, listVars, reqVars, Cached, Outstanding,
          Issue
<1>1. TypeOK'
  BY DEF TypeOK
<1>2. Lists'
  BY DEF TypeOK, Lists, Closed, Owners
<1>3. Closed'
  BY DEF TypeOK, Closed, NoTraceOfClosed, Owners, PendingIsAlive
<1>4. Owners'
  BY DEF TypeOK, Closed, NoTraceOfClosed, Owners, PendingIsAlive
<1>5. AnsweredOnce'
  BY DEF TypeOK, Closed, NoTraceOfClosed, Owners, PendingIsAlive, AnsweredOnce
<1> QED
  BY <1>1, <1>2, <1>3, <1>4, <1>5

\* A command that fails at once has its one answer when it is deleted.
LEMMA RefuseInv ==
  ASSUME Inv, NEW r \in Requests, Refuse(r) PROVE Inv'
<1> USE RequestFacts, ConnsAssumption
      DEF Inv, connVars, listVars, reqVars, Cached, Outstanding,
          Refuse, Answer, Delete
<1>1. TypeOK'
  BY DEF TypeOK
<1>2. Lists'
  BY DEF TypeOK, Lists, Closed, Owners
<1>3. Closed'
  BY DEF TypeOK, Closed, NoTraceOfClosed, Owners, PendingIsAlive
<1>4. Owners'
  BY DEF TypeOK, Closed, NoTraceOfClosed, Owners, PendingIsAlive
<1>5. AnsweredOnce'
  BY DEF TypeOK, Closed, NoTraceOfClosed, Owners, PendingIsAlive, AnsweredOnce
<1> QED
  BY <1>1, <1>2, <1>3, <1>4, <1>5

\* The call is opened and the command enters mPendingCmds together.
LEMMA SendInv ==
  ASSUME Inv, NEW r \in Requests, Send(r) PROVE Inv'
<1> USE RequestFacts, ConnsAssumption
      DEF Inv, connVars, listVars, reqVars, Cached, Outstanding,
          Send, Usable
<1>1. TypeOK'
  BY DEF TypeOK
<1>2. Lists'
  BY DEF TypeOK, Lists, Closed, Owners
<1>3. Closed'
  BY DEF TypeOK, Closed, NoTraceOfClosed, Owners, PendingIsAlive
<1>4. Owners'
  BY DEF TypeOK, Closed, NoTraceOfClosed, Owners, PendingIsAlive
<1>5. AnsweredOnce'
  BY DEF TypeOK, Closed, NoTraceOfClosed, Owners, PendingIsAlive, AnsweredOnce
<1> QED
  BY <1>1, <1>2, <1>3, <1>4, <1>5

\* A command without reply leaves nothing behind.
LEMMA SendCastInv ==
  ASSUME Inv, NEW r \in Requests, SendCast(r) PROVE Inv'
<1> USE RequestFacts, ConnsAssumption
      DEF Inv, connVars, listVars, reqVars, Cached, Outstanding,
          SendCast, Delete, Usable
<1>1. TypeOK'
  BY DEF TypeOK
<1>2. Lists'
  BY DEF TypeOK, Lists, Closed, Owners
<1>3. Closed'
  BY DEF TypeOK, Closed, NoTraceOfClosed, Owners, PendingIsAlive
<1>4. Owners'
  BY DEF TypeOK, Closed, NoTraceOfClosed, Owners, PendingIsAlive
<1>5. AnsweredOnce'
  BY DEF TypeOK, Closed, NoTraceOfClosed, Owners, PendingIsAlive, AnsweredOnce
<1> QED
  BY <1>1, <1>2, <1>3, <1>4, <1>5

\* The command leaves mPendingCmds with its call ended and its answer given.
LEMMA CancelInv ==
  ASSUME Inv, NEW r \in Requests, Cancel(r) PROVE Inv'
<1> USE RequestFacts, ConnsAssumption
      DEF Inv, connVars, listVars, reqVars, Cached, Outstanding,
          Cancel, Answer, Delete
<1>1. TypeOK'
  BY DEF TypeOK
<1>2. Lists'
  BY DEF TypeOK, Lists, Closed, Owners
<1>3. Closed'
  BY DEF TypeOK, Closed, NoTraceOfClosed, Owners, PendingIsAlive
<1>4. Owners'
  BY DEF TypeOK, Closed, NoTraceOfClosed, Owners, PendingIsAlive
<1>5. AnsweredOnce'
  BY DEF TypeOK, Closed, NoTraceOfClosed, Owners, PendingIsAlive, AnsweredOnce
<1> QED
  BY <1>1, <1>2, <1>3, <1>4, <1>5

\* A reply lists its connection unless unread messages already did.
LEMMA ReplyArrivesInv ==
  ASSUME Inv, NEW r \in Requests, ReplyArrives(r) PROVE Inv'
<1> USE RequestFacts, ConnsAssumption
      DEF Inv, connVars, listVars, reqVars, Cached, Outstanding,
          ReplyArrives, Unread
<1>1. TypeOK'
  BY DEF TypeOK
<1>2. Lists'
  BY DEF TypeOK, Lists, Closed, Owners
<1>3. Closed'
  BY DEF TypeOK, Closed, NoTraceOfClosed, Owners, PendingIsAlive
<1>4. Owners'
  BY DEF TypeOK, Closed, NoTraceOfClosed, Owners, PendingIsAlive
<1>5. AnsweredOnce'
  BY DEF TypeOK, Closed, NoTraceOfClosed, Owners, PendingIsAlive, AnsweredOnce
<1> QED
  BY <1>1, <1>2, <1>3, <1>4, <1>5

\* Other messages list their connection in the same way.
LEMMA MessageArrivesInv ==
  ASSUME Inv, NEW k \in Conns, MessageArrives(k) PROVE Inv'
<1> USE RequestFacts, ConnsAssumption
      DEF Inv, connVars, listVars, reqVars, Cached, Outstanding,
          MessageArrives, Unread
<1>1. TypeOK'
  BY DEF TypeOK
<1>2. Lists'
  BY DEF TypeOK, Lists, Closed, Owners
<1>3. Closed'
  BY DEF TypeOK, Closed, NoTraceOfClosed, Owners, PendingIsAlive
<1>4. Owners'
  BY DEF TypeOK, Closed, NoTraceOfClosed, Owners, PendingIsAlive
<1>5. AnsweredOnce'
  BY DEF TypeOK, Closed, NoTraceOfClosed, Owners, PendingIsAlive, AnsweredOnce
<1> QED
  BY <1>1, <1>2, <1>3, <1>4, <1>5

\* A lost connection is exempt from being listed, for good.
LEMMA LoseInv ==
  ASSUME Inv, NEW k \in Conns, Lose(k) PROVE Inv'
<1> USE RequestFacts, ConnsAssumption
      DEF Inv, connVars, listVars, reqVars, Cached, Outstanding,
          Lose, Unread
<1>1. TypeOK'
  BY DEF TypeOK
<1>2. Lists'
  BY DEF TypeOK, Lists, Closed, Owners
<1>3. Closed'
  BY DEF TypeOK, Closed, NoTraceOfClosed, Owners, PendingIsAlive
<1>4. Owners'
  BY DEF TypeOK, Closed, NoTraceOfClosed, Owners, PendingIsAlive
<1>5. AnsweredOnce'
  BY DEF TypeOK, Closed, NoTraceOfClosed, Owners, PendingIsAlive, AnsweredOnce
<1> QED
  BY <1>1, <1>2, <1>3, <1>4, <1>5

\* Only a cached connection that is up is dispatched.
LEMMA BeginDispatchInv ==
  ASSUME Inv, NEW k \in Conns, BeginDispatch(k) PROVE Inv'
<1> USE RequestFacts, ConnsAssumption
      DEF Inv, connVars, listVars, reqVars, Cached, Outstanding,
          BeginDispatch
<1>1. TypeOK'
  BY DEF TypeOK
<1>2. Lists'
  BY DEF TypeOK, Lists, Closed, Owners
<1>3. Closed'
  BY DEF TypeOK, Closed, NoTraceOfClosed, Owners, PendingIsAlive
<1>4. Owners'
  BY DEF TypeOK, Closed, NoTraceOfClosed, Owners, PendingIsAlive
<1>5. AnsweredOnce'
  BY DEF TypeOK, Closed, NoTraceOfClosed, Owners, PendingIsAlive, AnsweredOnce
<1> QED
  BY <1>1, <1>2, <1>3, <1>4, <1>5

\* What is taken off the list without dispatching is down.
LEMMA SkipDispatchInv ==
  ASSUME Inv, NEW k \in Conns, SkipDispatch(k) PROVE Inv'
<1> USE RequestFacts, ConnsAssumption
      DEF Inv, connVars, listVars, reqVars, Cached, Outstanding,
          SkipDispatch
<1>1. TypeOK'
  BY DEF TypeOK
<1>2. Lists'
  BY DEF TypeOK, Lists, Closed, Owners
<1>3. Closed'
  BY DEF TypeOK, Closed, NoTraceOfClosed, Owners, PendingIsAlive
<1>4. Owners'
  BY DEF TypeOK, Closed, NoTraceOfClosed, Owners, PendingIsAlive
<1>5. AnsweredOnce'
  BY DEF TypeOK, Closed, NoTraceOfClosed, Owners, PendingIsAlive, AnsweredOnce
<1> QED
  BY <1>1, <1>2, <1>3, <1>4, <1>5

\* A kept command ends with one answer and leaves mPendingCmds.
LEMMA NotifyInv ==
  ASSUME Inv, NEW r \in Requests, Notify(r) PROVE Inv'
<1> USE RequestFacts, ConnsAssumption
      DEF Inv, connVars, listVars, reqVars, Cached, Outstanding,
          Notify, Notified, Settle, Answer, Delete
<1>1. TypeOK'
  BY DEF TypeOK
<1>2. Lists'
  BY DEF TypeOK, Lists, Closed, Owners
<1>3. Closed'
  BY DEF TypeOK, Closed, NoTraceOfClosed, Owners, PendingIsAlive
<1>4. Owners'
  BY DEF TypeOK, Closed, NoTraceOfClosed, Owners, PendingIsAlive
<1>5. AnsweredOnce'
  BY DEF TypeOK, Closed, NoTraceOfClosed, Owners, PendingIsAlive, AnsweredOnce
<1> QED
  BY <1>1, <1>2, <1>3, <1>4, <1>5

\* The exception of PendingIsAlive: deleted, answered and still listed.
LEMMA NotifySubscribeDownInv ==
  ASSUME Inv, NEW r \in Requests, NotifySubscribeDown(r) PROVE Inv'
<1> USE RequestFacts, ConnsAssumption
      DEF Inv, connVars, listVars, reqVars, Cached, Outstanding,
          NotifySubscribeDown, Notified, Answer, Delete
<1>1. TypeOK'
  BY DEF TypeOK
<1>2. Lists'
  BY DEF TypeOK, Lists, Closed, Owners
<1>3. Closed'
  BY DEF TypeOK, Closed, NoTraceOfClosed, Owners, PendingIsAlive
<1>4. Owners'
  BY DEF TypeOK, Closed, NoTraceOfClosed, Owners, PendingIsAlive
<1>5. AnsweredOnce'
  BY DEF TypeOK, Closed, NoTraceOfClosed, Owners, PendingIsAlive, AnsweredOnce
<1> QED
  BY <1>1, <1>2, <1>3, <1>4, <1>5

\* Answered and kept: exempt because its connection is down.
LEMMA NotifyRegisterDownInv ==
  ASSUME Inv, NEW r \in Requests, NotifyRegisterDown(r) PROVE Inv'
<1> USE RequestFacts, ConnsAssumption
      DEF Inv, connVars, listVars, reqVars, Cached, Outstanding,
          NotifyRegisterDown, Notified, Answer, Delete
<1>1. TypeOK'
  BY DEF TypeOK
<1>2. Lists'
  BY DEF TypeOK, Lists, Closed, Owners
<1>3. Closed'
  BY DEF TypeOK, Closed, NoTraceOfClosed, Owners, PendingIsAlive
<1>4. Owners'
  BY DEF TypeOK, Closed, NoTraceOfClosed, Owners, PendingIsAlive
<1>5. AnsweredOnce'
  BY DEF TypeOK, Closed, NoTraceOfClosed, Owners, PendingIsAlive, AnsweredOnce
<1> QED
  BY <1>1, <1>2, <1>3, <1>4, <1>5

\* Only SubscribeOwnerChangedCmd is called back after its deletion.
LEMMA NotifyDeletedInv ==
  ASSUME Inv, NEW r \in Requests, NotifyDeleted(r) PROVE Inv'
<1> USE RequestFacts, ConnsAssumption
      DEF Inv, connVars, listVars, reqVars, Cached, Outstanding,
          NotifyDeleted, Notified, Answer, Delete
<1>1. TypeOK'
  BY DEF TypeOK
<1>2. Lists'
  BY DEF TypeOK, Lists, Closed, Owners
<1>3. Closed'
  BY DEF TypeOK, Closed, NoTraceOfClosed, Owners, PendingIsAlive
<1>4. Owners'
  BY DEF TypeOK, Closed, NoTraceOfClosed, Owners, PendingIsAlive
<1>5. AnsweredOnce'
  BY DEF TypeOK, Closed, NoTraceOfClosed, Owners, PendingIsAlive, AnsweredOnce
<1> QED
  BY <1>1, <1>2, <1>3, <1>4, <1>5

\* A connection leaves the list when no reply is left unread.
LEMMA EndDispatchInv ==
  ASSUME Inv, NEW k \in Conns, EndDispatch(k) PROVE Inv'
<1> USE RequestFacts, ConnsAssumption
      DEF Inv, connVars, listVars, reqVars, Cached, Outstanding,
          EndDispatch
<1>1. TypeOK'
  BY DEF TypeOK
<1>2. Lists'
  BY DEF TypeOK, Lists, Closed, Owners
<1>3. Closed'
  BY DEF TypeOK, Closed, NoTraceOfClosed, Owners, PendingIsAlive
<1>4. Owners'
  BY DEF TypeOK, Closed, NoTraceOfClosed, Owners, PendingIsAlive
<1>5. AnsweredOnce'
  BY DEF TypeOK, Closed, NoTraceOfClosed, Owners, PendingIsAlive, AnsweredOnce
<1> QED
  BY <1>1, <1>2, <1>3, <1>4, <1>5

\* Without memory the connection stays in the list.
LEMMA SuspendDispatchInv ==
  ASSUME Inv, NEW k \in Conns, SuspendDispatch(k) PROVE Inv'
<1> USE RequestFacts, ConnsAssumption
      DEF Inv, connVars, listVars, reqVars, Cached, Outstanding,
          SuspendDispatch
<1>1. TypeOK'
  BY DEF TypeOK
<1>2. Lists'
  BY DEF TypeOK, Lists, Closed, Owners
<1>3. Closed'
  BY DEF TypeOK, Closed, NoTraceOfClosed, Owners, PendingIsAlive
<1>4. Owners'
  BY DEF TypeOK, Closed, NoTraceOfClosed, Owners, PendingIsAlive
<1>5. AnsweredOnce'
  BY DEF TypeOK, Closed, NoTraceOfClosed, Owners, PendingIsAlive, AnsweredOnce
<1> QED
  BY <1>1, <1>2, <1>3, <1>4, <1>5

\* Every step preserves the invariant.
LEMMA StepInv == Inv /\ [Next]_vars => Inv'
<1> SUFFICES ASSUME Inv, [Next]_vars PROVE Inv'
  OBVIOUS
<1>1. ASSUME NEW k \in Conns, OpenNew(k) PROVE Inv'
  BY <1>1, OpenNewInv
<1>2. ASSUME NEW k \in Conns, OpenCached(k) PROVE Inv'
  BY <1>2, OpenCachedInv
<1>3. ASSUME NEW k \in Conns, Release(k) PROVE Inv'
  BY <1>3, ReleaseInv
<1>4. CASE ReleaseAll
  BY <1>4, ReleaseAllInv
<1>5. ASSUME NEW r \in Requests, Issue(r) PROVE Inv'
  BY <1>5, IssueInv
<1>6. ASSUME NEW r \in Requests, Refuse(r) PROVE Inv'
  BY <1>6, RefuseInv
<1>7. ASSUME NEW r \in Requests, Send(r) PROVE Inv'
  BY <1>7, SendInv
<1>8. ASSUME NEW r \in Requests, SendCast(r) PROVE Inv'
  BY <1>8, SendCastInv
<1>9. ASSUME NEW r \in Requests, Cancel(r) PROVE Inv'
  BY <1>9, CancelInv
<1>10. ASSUME NEW r \in Requests, ReplyArrives(r) PROVE Inv'
  BY <1>10, ReplyArrivesInv
<1>11. ASSUME NEW k \in Conns, MessageArrives(k) PROVE Inv'
  BY <1>11, MessageArrivesInv
<1>12. ASSUME NEW k \in Conns, Lose(k) PROVE Inv'
  BY <1>12, LoseInv
<1>13. ASSUME NEW k \in Conns, BeginDispatch(k) PROVE Inv'
  BY <1>13, BeginDispatchInv
<1>14. ASSUME NEW k \in Conns, SkipDispatch(k) PROVE Inv'
  BY <1>14, SkipDispatchInv
<1>15. ASSUME NEW r \in Requests, Notify(r) PROVE Inv'
  BY <1>15, NotifyInv
<1>16. ASSUME NEW r \in Requests, NotifySubscribeDown(r) PROVE Inv'
  BY <1>16, NotifySubscribeDownInv
<1>17. ASSUME NEW r \in Requests, NotifyRegisterDown(r) PROVE Inv'
  BY <1>17, NotifyRegisterDownInv
<1>18. ASSUME NEW r \in Requests, NotifyDeleted(r) PROVE Inv'
  BY <1>18, NotifyDeletedInv
<1>19. ASSUME NEW k \in Conns, EndDispatch(k) PROVE Inv'
  BY <1>19, EndDispatchInv
<1>20. ASSUME NEW k \in Conns, SuspendDispatch(k) PROVE Inv'
  BY <1>20, SuspendDispatchInv
<1>21. CASE UNCHANGED vars
  BY <1>21 DEF vars, Inv, TypeOK, Lists, Closed, NoTraceOfClosed, Owners,
              PendingIsAlive, AnsweredOnce, Cached, Outstanding
<1> QED
  BY <1>1, <1>2, <1>3, <1>4, <1>5, <1>6, <1>7, <1>8, <1>9, <1>10,
     <1>11, <1>12, <1>13, <1>14, <1>15, <1>16, <1>17, <1>18, <1>19, <1>20, <1>21
     DEF Next, Execute, DispatchStep, OnPendingCallNotify

\* The invariant holds in every reachable state.
THEOREM Invariance == Spec => []Inv
<1> QED
  BY InitInv, StepInv, PTL DEF Spec

\* The types of the state.
THEOREM TypeCorrect == Spec => []TypeOK
<1>1. Inv => TypeOK
  BY DEF Inv
<1> QED
  BY <1>1, Invariance, PTL

\* A reply libdbus holds for a connection that is up is never forgotten: the
\* dispatcher has the connection in its list.
THEOREM RepliesCorrect == Spec => []RepliesAreListed
<1>1. Inv => RepliesAreListed
  BY RequestFacts DEF Inv, Lists, RepliesAreListed
<1> QED
  BY <1>1, Invariance, PTL

\* Neither the dispatcher nor a container refers to a deleted Connection.
THEOREM ClosedCorrect == Spec => []NoTraceOfClosed
<1>1. Inv => NoTraceOfClosed
  BY DEF Inv, Closed
<1> QED
  BY <1>1, Invariance, PTL

\* What mPendingCmds holds exists, but for subscriptions of lost connections.
THEOREM PendingCorrect == Spec => []PendingIsAlive
<1>1. Inv => PendingIsAlive
  BY DEF Inv, Owners
<1> QED
  BY <1>1, Invariance, PTL

\* An open call can be found, cancelled and answered by whoever closes the
\* connection; a plain command is pending no longer than its call is open.
THEOREM OpenCorrect == Spec => []OpenIsPending
<1>1. Inv => OpenIsPending
  BY RequestFacts DEF Inv, TypeOK, Owners, PendingIsAlive, OpenIsPending
<1> QED
  BY <1>1, Invariance, PTL

\* One answer for each command, whichever of reply, time-out, refusal,
\* cancellation, closing and shutdown ends it.
THEOREM AnswersCorrect == Spec => []AnsweredOnce
<1>1. Inv => AnsweredOnce
  BY DEF Inv
<1> QED
  BY <1>1, Invariance, PTL

-----------------------------------------------------------------------------
(* Refinement: each step is one of the abstract service for the plain      *)
(* commands, or leaves it alone.                                           *)

ServiceStep == Service!SNext \/ UNCHANGED Service!svars

\* A step that changes no status and no answers of plain commands.
LEMMA Stutters ==
  ASSUME PlainStatus' = PlainStatus, PlainAnswers' = PlainAnswers
  PROVE  ServiceStep
BY DEF ServiceStep, Service!svars

\* The commands of S end and those of A are answered.
LEMMA Finishes ==
  ASSUME NEW S \in SUBSET Requests, NEW A \in SUBSET S,
         (S \ A) \cap Plain \subseteq Casts,
         \A r \in S \cap Plain : life[r] \in {"queued", "kept"},
         life' = [r \in Requests |-> IF r \in S THEN "gone" ELSE life[r]],
         answers' = [r \in Requests |->
           IF r \in A THEN answers[r] + 1 ELSE answers[r]]
  PROVE  ServiceStep
<1> USE RequestFacts
<1> DEFINE T == S \cap Plain
           B == A \cap Plain
<1>1. /\ T \in SUBSET Plain
      /\ B \in SUBSET T
      /\ T \ B \subseteq Casts
  OBVIOUS
<1>2. \A r \in T : PlainStatus[r] = "open"
  BY DEF PlainStatus
<1>3. PlainStatus' = [r \in Plain |-> IF r \in T THEN "finished" ELSE PlainStatus[r]]
  BY DEF PlainStatus
<1>4. PlainAnswers' =
        [r \in Plain |-> IF r \in B THEN PlainAnswers[r] + 1 ELSE PlainAnswers[r]]
  BY DEF PlainAnswers
<1> HIDE DEF T, B
<1>5. Service!Finish(T, B)
  BY <1>1, <1>2, <1>3, <1>4 DEF Service!Finish
<1> QED
  BY <1>1, <1>5 DEF ServiceStep, Service!SNext

\* A command that is executed, notified or cancelled ends with its answer.
LEMMA EndsAnswered ==
  ASSUME NEW r \in Requests, Answer({r}), Delete({r}),
         r \in Plain => life[r] \in {"queued", "kept"}
  PROVE  ServiceStep
<1> DEFINE S == {r}
<1>1. /\ S \in SUBSET Requests /\ S \in SUBSET S
      /\ (S \ S) \cap Plain \subseteq Casts
      /\ \A s \in S \cap Plain : life[s] \in {"queued", "kept"}
  OBVIOUS
<1>2. Answer(S) /\ Delete(S)
  OBVIOUS
<1> HIDE DEF S
<1> QED
  BY <1>1, <1>2, Finishes DEF Answer, Delete

\* The destruction of connections ends and answers all they hold.
LEMMA DestroyRefines ==
  ASSUME Inv, NEW K \in SUBSET Conns, Destroy(K)
  PROVE  ServiceStep
<1> DEFINE cancelled == UNION {pending[k] : k \in K}
<1>1. cancelled \in SUBSET Requests
  BY DEF Inv, TypeOK
<1>2. \A r \in cancelled \cap Plain : life[r] \in {"queued", "kept"}
  BY RequestFacts DEF Inv, Owners, PendingIsAlive
<1>3. Answer(cancelled) /\ Delete(cancelled)
  BY DEF Destroy
<1> HIDE DEF cancelled
<1>4. cancelled \in SUBSET cancelled /\ cancelled \ cancelled = {}
  OBVIOUS
<1> QED
  BY <1>1, <1>2, <1>3, <1>4, Finishes DEF Answer, Delete

\* Accepting a plain command is the abstract Accept.
LEMMA IssueRefines ==
  ASSUME Inv, NEW r \in Requests, Issue(r)
  PROVE  ServiceStep
<1> USE RequestFacts DEF Inv, TypeOK, Issue
<1>1. PlainAnswers' = PlainAnswers
  BY DEF PlainAnswers
<1>2. CASE r \in Plain
  <2>1. PlainStatus[r] = "new" /\ PlainStatus' = [PlainStatus EXCEPT ![r] = "open"]
    BY <1>2 DEF PlainStatus
  <2>2. Service!Accept(r)
    BY <1>1, <2>1 DEF Service!Accept
  <2> QED
    BY <1>2, <2>2 DEF ServiceStep, Service!SNext
<1>3. CASE r \notin Plain
  <2>1. PlainStatus' = PlainStatus
    BY <1>3 DEF PlainStatus
  <2> QED
    BY <1>1, <2>1, Stutters
<1> QED
  BY <1>2, <1>3

\* Every step is abstract or a stutter.
LEMMA NextRefines == Inv /\ [Next]_vars => ServiceStep
<1> SUFFICES ASSUME Inv, [Next]_vars PROVE ServiceStep
  OBVIOUS
<1> USE DEF connVars, listVars, reqVars
<1>1. ASSUME UNCHANGED <<life, answers>> PROVE ServiceStep
  BY <1>1, Stutters DEF PlainStatus, PlainAnswers
<1>2. ASSUME NEW k \in Conns, OpenNew(k) PROVE ServiceStep
  BY <1>1, <1>2 DEF OpenNew
<1>3. ASSUME NEW k \in Conns, OpenCached(k) PROVE ServiceStep
  BY <1>1, <1>3 DEF OpenCached
<1>4. ASSUME NEW k \in Conns, Release(k) PROVE ServiceStep
  <2>1. Destroy({k}) \/ UNCHANGED <<life, answers>>
    BY <1>4 DEF Release
  <2> QED
    BY <1>1, <2>1, DestroyRefines
<1>5. CASE ReleaseAll
  <2>1. Destroy({k \in Conns : Cached(k)})
    BY <1>5 DEF ReleaseAll
  <2> QED
    BY <2>1, DestroyRefines
<1>6. ASSUME NEW r \in Requests, Issue(r) PROVE ServiceStep
  BY <1>6, IssueRefines
<1>7. ASSUME NEW r \in Requests, Refuse(r) PROVE ServiceStep
  BY <1>7, EndsAnswered DEF Refuse
<1>8. ASSUME NEW r \in Requests, Send(r) PROVE ServiceStep
  <2>1. PlainStatus' = PlainStatus /\ PlainAnswers' = PlainAnswers
    BY <1>8, RequestFacts DEF Send, PlainStatus, PlainAnswers, Inv, TypeOK
  <2> QED
    BY <2>1, Stutters
<1>9. ASSUME NEW r \in Requests, SendCast(r) PROVE ServiceStep
  <2>1. /\ {r} \in SUBSET Requests /\ {} \in SUBSET {r}
        /\ ({r} \ {}) \cap Plain \subseteq Casts
        /\ answers' = [s \in Requests |->
             IF s \in {} THEN answers[s] + 1 ELSE answers[s]]
    BY <1>9 DEF SendCast, Inv, TypeOK
  <2> QED
    BY <1>9, <2>1, Finishes DEF SendCast, Delete
<1>10. ASSUME NEW r \in Requests, Cancel(r) PROVE ServiceStep
  <2>1. r \in Plain => life[r] \in {"queued", "kept"}
    BY <1>10, RequestFacts DEF Cancel, Inv, Owners, PendingIsAlive
  <2> QED
    BY <1>10, <2>1, EndsAnswered DEF Cancel
<1>11. ASSUME NEW r \in Requests, ReplyArrives(r) PROVE ServiceStep
  BY <1>1, <1>11 DEF ReplyArrives
<1>12. ASSUME NEW k \in Conns, MessageArrives(k) PROVE ServiceStep
  BY <1>1, <1>12 DEF MessageArrives
<1>13. ASSUME NEW k \in Conns, Lose(k) PROVE ServiceStep
  BY <1>1, <1>13 DEF Lose
<1>14. ASSUME NEW k \in Conns, BeginDispatch(k) PROVE ServiceStep
  BY <1>1, <1>14 DEF BeginDispatch
<1>15. ASSUME NEW k \in Conns, SkipDispatch(k) PROVE ServiceStep
  BY <1>1, <1>15 DEF SkipDispatch
<1>16. ASSUME NEW r \in Requests, Notify(r) PROVE ServiceStep
  BY <1>16, EndsAnswered DEF Notify, Notified
<1>17. ASSUME NEW r \in Requests, NotifySubscribeDown(r) PROVE ServiceStep
  BY <1>17, EndsAnswered DEF NotifySubscribeDown, Notified
<1>18. ASSUME NEW r \in Requests, NotifyRegisterDown(r) PROVE ServiceStep
  <2>1. r \notin Plain
    BY <1>18, RequestFacts DEF NotifyRegisterDown, Notified, Inv
  <2>2. PlainStatus' = PlainStatus /\ PlainAnswers' = PlainAnswers
    BY <1>18, <2>1, RequestFacts DEF NotifyRegisterDown, Notified, Answer,
       PlainStatus, PlainAnswers
  <2> QED
    BY <2>2, Stutters
<1>19. ASSUME NEW r \in Requests, NotifyDeleted(r) PROVE ServiceStep
  <2>1. r \notin Plain
    BY <1>19, RequestFacts DEF NotifyDeleted, Notified, Inv, Owners, Outstanding
  <2>2. PlainStatus' = PlainStatus /\ PlainAnswers' = PlainAnswers
    BY <1>19, <2>1, RequestFacts DEF NotifyDeleted, Notified, Answer,
       PlainStatus, PlainAnswers
  <2> QED
    BY <2>2, Stutters
<1>20. ASSUME NEW k \in Conns, EndDispatch(k) PROVE ServiceStep
  BY <1>1, <1>20 DEF EndDispatch
<1>21. ASSUME NEW k \in Conns, SuspendDispatch(k) PROVE ServiceStep
  BY <1>1, <1>21 DEF SuspendDispatch
<1>22. CASE UNCHANGED vars
  BY <1>1, <1>22 DEF vars
<1> QED
  BY <1>1, <1>2, <1>3, <1>4, <1>5, <1>6, <1>7, <1>8, <1>9, <1>10,
     <1>11, <1>12, <1>13, <1>14, <1>15, <1>16, <1>17, <1>18, <1>19, <1>20,
     <1>21, <1>22
     DEF Next, Execute, DispatchStep, OnPendingCallNotify

\* For invocations, owner queries and removals the library is the abstract
\* service: accepted commands end once, with one answer if they owe one,
\* however connections are opened, closed, shared and lost meanwhile.
THEOREM Refinement == Spec => ImplementsService
<1>1. Init => Service!SInit
  BY RequestFacts DEF Init, Service!SInit, PlainStatus, PlainAnswers
<1>2. Inv /\ [Next]_vars => [Service!SNext]_(Service!svars)
  BY NextRefines DEF ServiceStep
<1> QED
  BY <1>1, <1>2, Invariance, PTL DEF Spec, ImplementsService, Service!SSpec

\* What is proved of every implementation of the service.
ServiceFacts == INSTANCE CallServiceProofs WITH
  Cmds <- Plain, OneWay <- Casts, Fragile <- {},
  status <- PlainStatus, answers <- PlainAnswers, closed <- FALSE

\* The service of the model is the one those theorems are about.
LEMMA SameService ==
  /\ Service!SInit <=> ServiceFacts!SInit
  /\ [Service!SNext]_(Service!svars) <=> [ServiceFacts!SNext]_(ServiceFacts!svars)
<1>1. Service!svars = ServiceFacts!svars
  BY DEF Service!svars, ServiceFacts!svars
<1>2. Service!SNext <=> ServiceFacts!SNext
  BY DEF Service!SNext, ServiceFacts!SNext, Service!Accept, ServiceFacts!Accept,
     Service!Refuse, ServiceFacts!Refuse, Service!Finish, ServiceFacts!Finish,
     Service!Lose, ServiceFacts!Lose, Service!Close, ServiceFacts!Close
<1>3. Service!SInit <=> ServiceFacts!SInit
  BY DEF Service!SInit, ServiceFacts!SInit
<1> QED
  BY <1>1, <1>2, <1>3 DEF Service!svars, ServiceFacts!svars

\* The callers of plain commands have what CallService promises: the one answer
\* of a command comes when it is deleted, and none follows.
THEOREM CallersAreServed == Spec => []ServiceFacts!OneAnswer /\ ServiceFacts!EndsAreFinal
<1>1. ImplementsService => ServiceFacts!SSpec
  BY SameService, PTL DEF ImplementsService, Service!SSpec, ServiceFacts!SSpec
<1> QED
  BY <1>1, Refinement, ServiceFacts!Promises, PTL

-----------------------------------------------------------------------------
(* Subscriptions and registrations, and requests under way.                *)

\* An entry exists only after its command has ended, and a command that waits
\* without a call does so because its connection is lost.
Made ==
  /\ \A r \in Creators : entry[r] # "none" => life[r] = "gone"
  /\ \A r \in Creators :
       life[r] = "kept" /\ ~Outstanding(r) => link[Home[r]] = "down"

\* What EntriesAreNotRevived says of a step.
EntriesGoOn ==
  \A r \in Creators :
    /\ entry[r] = "freed" => entry'[r] = "freed"
    /\ entry[r] = "listed" => entry'[r] # "none"
    /\ entry[r] = "none" /\ entry'[r] # "none" =>
         life[r] = "kept" /\ life'[r] = "gone" /\ answers'[r] = answers[r] + 1

\* The entries of a connection that is destroyed are freed, and its commands with
\* them.
LEMMA DestroyMade ==
  ASSUME Inv, Made, NEW K \in SUBSET Conns, Destroy(K) PROVE Made' /\ EntriesGoOn
<1> USE RequestFacts DEF Inv
<1> DEFINE cancelled == UNION {pending[k] : k \in K}
<1>1. \A r \in Requests : r \in cancelled <=> Home[r] \in K /\ r \in pending[Home[r]]
  BY CancelledFacts DEF Owners
<1>2. /\ link' = [k \in Conns |-> IF k \in K \ Shared THEN "down" ELSE link[k]]
      /\ life' = [r \in Requests |-> IF r \in cancelled THEN "gone" ELSE life[r]]
      /\ call' = [r \in Requests |->
           IF \/ r \in cancelled \ OwnerSubscribes
              \/ Home[r] \in K /\ ~Kept(Home[r]) /\ Outstanding(r)
           THEN "over" ELSE call[r]]
      /\ entry' = [r \in Creators |->
           IF entry[r] = "listed" /\ Home[r] \in K THEN "freed" ELSE entry[r]]
  BY DEF Destroy, Delete
<1> HIDE DEF cancelled
<1>3. \A r \in Requests : life'[r] = "kept" => life[r] = "kept" /\ call'[r] = call[r]
  BY <1>1, <1>2 DEF TypeOK, Owners
<1>4. Made'
  BY <1>2, <1>3 DEF TypeOK, Made, Outstanding
<1>5. EntriesGoOn
  BY <1>2 DEF TypeOK, EntriesGoOn
<1> QED
  BY <1>4, <1>5

\* A step that leaves the entries alone makes none.
LEMMA SameEntries == UNCHANGED entry => EntriesGoOn
  BY DEF EntriesGoOn

\* Only the answer to its command makes an entry, and a command is answered so at
\* most once, because its call is over then.
LEMMA NextMade == Inv /\ Made /\ [Next]_vars => Made' /\ EntriesGoOn
<1> SUFFICES ASSUME Inv, Made, [Next]_vars PROVE Made' /\ EntriesGoOn
  OBVIOUS
<1> USE RequestFacts, SameEntries
    DEF Inv, TypeOK, connVars, listVars, reqVars
<1>1. ASSUME NEW k \in Conns, OpenNew(k) PROVE Made' /\ EntriesGoOn
  BY <1>1 DEF OpenNew, Made, Outstanding
<1>2. ASSUME NEW k \in Conns, OpenCached(k) PROVE Made' /\ EntriesGoOn
  BY <1>2 DEF OpenCached, Made, Outstanding
<1>3. ASSUME NEW k \in Conns, Release(k) PROVE Made' /\ EntriesGoOn
  <2>1. CASE Destroy({k})
    BY <2>1, DestroyMade
  <2>2. CASE UNCHANGED <<link, listed, reqVars>>
    BY <2>2 DEF Made, Outstanding
  <2> QED
    BY <1>3, <2>1, <2>2 DEF Release
<1>4. ASSUME ReleaseAll PROVE Made' /\ EntriesGoOn
  BY <1>4, DestroyMade DEF ReleaseAll
<1>5. ASSUME NEW r \in Requests, Issue(r) PROVE Made' /\ EntriesGoOn
  BY <1>5 DEF Issue, Made, Outstanding
<1>6. ASSUME NEW r \in Requests, Refuse(r) PROVE Made' /\ EntriesGoOn
  BY <1>6 DEF Refuse, Delete, Made, Outstanding
<1>7. ASSUME NEW r \in Requests, Send(r) PROVE Made' /\ EntriesGoOn
  BY <1>7 DEF Send, Made, Outstanding
<1>8. ASSUME NEW r \in Requests, SendCast(r) PROVE Made' /\ EntriesGoOn
  BY <1>8 DEF SendCast, Delete, Made, Outstanding
<1>9. ASSUME NEW r \in Requests, Cancel(r) PROVE Made' /\ EntriesGoOn
  BY <1>9 DEF Cancel, Delete, Made, Outstanding
<1>10. ASSUME NEW r \in Requests, ReplyArrives(r) PROVE Made' /\ EntriesGoOn
  BY <1>10 DEF ReplyArrives, Unread, Made, Outstanding
<1>11. ASSUME NEW k \in Conns, MessageArrives(k) PROVE Made' /\ EntriesGoOn
  BY <1>11 DEF MessageArrives, Unread, Made, Outstanding
<1>12. ASSUME NEW k \in Conns, Lose(k) PROVE Made' /\ EntriesGoOn
  BY <1>12 DEF Lose, Unread, Made, Outstanding
<1>13. ASSUME NEW k \in Conns, BeginDispatch(k) PROVE Made' /\ EntriesGoOn
  BY <1>13 DEF BeginDispatch, Made, Outstanding
<1>14. ASSUME NEW k \in Conns, SkipDispatch(k) PROVE Made' /\ EntriesGoOn
  BY <1>14 DEF SkipDispatch, Made, Outstanding
<1>15. ASSUME NEW r \in Requests, Notify(r) PROVE Made' /\ EntriesGoOn
  <2>1. /\ life[r] = "kept" /\ r \notin Casts
        /\ life' = [q \in Requests |-> IF q \in {r} THEN "gone" ELSE life[q]]
        /\ call' = [call EXCEPT ![r] = "over"]
        /\ answers' = [q \in Requests |->
             IF q \in {r} THEN answers[q] + 1 ELSE answers[q]]
        /\ UNCHANGED link
    BY <1>15 DEF Notify, Notified, Answer, Delete, Owners, PendingIsAlive
  <2>2. \A q \in Creators : entry'[q] # entry[q] =>
          \/ q = r /\ entry'[q] = "listed"
          \/ entry[q] = "listed" /\ entry'[q] = "freed"
    BY <1>15 DEF Notify, Settle
  <2>3. /\ entry \in [Creators -> {"none", "listed", "freed"}]
        /\ r \in Creators => entry[r] = "none"
    BY <2>1 DEF Made
  <2>4. Made'
    BY <2>1, <2>2 DEF Made, Outstanding
  <2>5. EntriesGoOn
    BY <2>1, <2>2, <2>3 DEF EntriesGoOn
  <2> QED
    BY <2>4, <2>5
<1>16. ASSUME NEW r \in Requests, NotifySubscribeDown(r) PROVE Made' /\ EntriesGoOn
  BY <1>16 DEF NotifySubscribeDown, Notified, Delete, Made, Outstanding
<1>17. ASSUME NEW r \in Requests, NotifyRegisterDown(r) PROVE Made' /\ EntriesGoOn
  <2>1. link[Home[r]] = "down"
    BY <1>17, ConnsAssumption DEF NotifyRegisterDown, Notified, Closed, NoTraceOfClosed
  <2> QED
    BY <1>17, <2>1 DEF NotifyRegisterDown, Notified, Made, Outstanding
<1>18. ASSUME NEW r \in Requests, NotifyDeleted(r) PROVE Made' /\ EntriesGoOn
  BY <1>18 DEF NotifyDeleted, Notified, Made, Outstanding
<1>19. ASSUME NEW k \in Conns, EndDispatch(k) PROVE Made' /\ EntriesGoOn
  BY <1>19 DEF EndDispatch, Made, Outstanding
<1>20. ASSUME NEW k \in Conns, SuspendDispatch(k) PROVE Made' /\ EntriesGoOn
  BY <1>20 DEF SuspendDispatch, Made, Outstanding
<1>21. CASE UNCHANGED vars
  BY <1>21 DEF vars, Made, Outstanding
<1> QED
  BY <1>1, <1>2, <1>3, <1>4, <1>5, <1>6, <1>7, <1>8, <1>9, <1>10,
     <1>11, <1>12, <1>13, <1>14, <1>15, <1>16, <1>17, <1>18, <1>19, <1>20, <1>21
     DEF Next, Execute, DispatchStep, OnPendingCallNotify

\* No entry is there at the start.
LEMMA MadeInvariance == Spec => []Made
<1>1. Init => Made
  BY RequestFacts DEF Init, Made
<1>2. Inv /\ Made /\ [Next]_vars => Made'
  BY NextMade
<1> QED
  BY <1>1, <1>2, Invariance, PTL DEF Spec

\* What a reply, the loss of a connection and its closing may do to an entry: it
\* is made once, with the answer to its command, and never comes back.
THEOREM EntriesCorrect == Spec => EntriesAreNotRevived
<1>1. Inv /\ Made /\ [Next]_vars => [EntriesGoOn]_vars
  BY NextMade
<1>2. EntriesAreNotRevived <=> [][EntriesGoOn]_vars
  BY PTL DEF EntriesAreNotRevived, EntriesGoOn
<1> QED
  BY <1>1, <1>2, Invariance, MadeInvariance, PTL DEF Spec

\* A request that waits on a connection that is up has its answer to come.
THEOREM SentGoesOnCorrect == Spec => []SentGoesOn
<1>1. Inv /\ Made => SentGoesOn
  <2> SUFFICES ASSUME Inv, Made, NEW r \in Requests, life[r] = "kept",
                      link[Home[r]] = "up"
               PROVE  /\ Cached(Home[r])
                      /\ r \in pending[Home[r]]
                      /\ call[r] = "waiting" \/ (call[r] = "ready" /\ Home[r] \in listed)
    BY DEF SentGoesOn
  <2> USE RequestFacts DEF Inv
  <2>1. r \in pending[Home[r]]
    BY DEF Owners
  <2>2. Cached(Home[r])
    BY <2>1 DEF Closed, NoTraceOfClosed
  <2>3. Outstanding(r)
    BY DEF Made, Owners
  <2>4. call[r] = "ready" => Home[r] \in listed
    BY <2>2 DEF Lists
  <2> QED
    BY <2>1, <2>2, <2>3, <2>4 DEF Outstanding
<1> QED
  BY <1>1, Invariance, MadeInvariance, PTL

\* The one callback that may find its command deleted is that of
\* SubscribeOwnerChangedCmd.
THEOREM CallbacksCorrect == Spec => OtherCallbacksFindCommand
<1>1. Inv => \A r \in Requests \ OwnerSubscribes : CalledBack(r) => life[r] = "kept"
  BY DEF Inv, Owners, Outstanding, CalledBack
<1> QED
  BY <1>1, Invariance, PTL DEF OtherCallbacksFindCommand
=============================================================================
