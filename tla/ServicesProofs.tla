--------------------------- MODULE ServicesProofs ---------------------------
(***************************************************************************)
(* Theorems about Services for any services, subscriptions, calls and      *)
(* signals.  The invariant follows a message from the bus to its callback  *)
(* (Requests, Served, InOrder) and a call from its delivery to its reply   *)
(* (Contexts, Unread).  Each action has a lemma with one step per part it  *)
(* can disturb.  Timely, Handed and AskedIsUnderWay are invariants on top  *)
(* of it, with a lemma for each kind of step.                              *)
(***************************************************************************)
EXTENDS Services, TLAPS

Asked(op, e) == \E i \in DOMAIN toBus : toBus[i].op = op /\ toBus[i].arg = e
Told(kind, e) == \E i \in DOMAIN inbox : inbox[i].kind = kind /\ inbox[i].arg = e

\* A command about an entry is queued once, in the life it was queued for.
Commanded ==
  open => \A i \in DOMAIN queue :
    /\ queue[i].op = "add" => life[queue[i].arg] = "queued"
    /\ queue[i].op = "remove" => life[queue[i].arg] = "active"
    /\ queue[i].op \in {"add", "remove"} =>
         \A j \in DOMAIN queue :
           queue[j].op = queue[i].op /\ queue[j].arg = queue[i].arg => j = i

\* The bus is asked to add an entry once, and answers once; what concerns the
\* removal comes after the entry was active.
Requests ==
  open => \A e \in Entries :
    /\ Asked("add", e) => life[e] \in {"adding", "failed"} /\ ~Told("added", e)
    /\ life[e] \in {"new", "queued"} => ~Told("added", e)
    /\ life[e] \in {"new", "queued", "adding", "active"} =>
         ~Asked("remove", e) /\ ~Told("removed", e)
    /\ \A i, j \in DOMAIN toBus :
         /\ toBus[i].op = "add" /\ toBus[i].arg = e
         /\ toBus[j].op = "add" /\ toBus[j].arg = e
         => i = j

\* For an entry the bus routes to, the reply that adds it was read or is on its
\* way, and the one that removes it was not sent.
Served ==
  open => \A e \in routed :
    \/ life[e] = "failed"
    \/ life[e] = "adding" /\ Told("added", e)
    \/ Held(e) /\ (life[e] = "removing" => ~Told("removed", e))

\* A message comes after the reply that adds the entries it is for, and before
\* the one that removes them.
InOrder ==
  open => \A i \in DOMAIN inbox : \A e \in Entries :
    inbox[i].kind = "message" /\ inbox[i].arg \in owed[e] =>
      \/ life[e] = "failed"
      \/ /\ life[e] = "adding"
         /\ \E j \in DOMAIN inbox :
              j < i /\ inbox[j].kind = "added" /\ inbox[j].arg = e
      \/ /\ Held(e)
         /\ life[e] = "removing" =>
              \A j \in DOMAIN inbox :
                inbox[j].kind = "removed" /\ inbox[j].arg = e => i < j

\* What an entry is owed matches it.
Matching == \A e \in Entries : \A m \in owed[e] : e \in For[m]

\* What the application asked for a call, and what is queued of it: an answer,
\* once, and behind it the freeing of the context.
Contexts ==
  /\ \A c \in Calls :
       /\ (\A e \in Entries : c \notin owed[e]) => ctx[c] = "none" /\ replies[c] = 0
       /\ ctx[c] = "none" => asked[c] = "no"
       /\ ctx[c] = "open" /\ asked[c] = "no" => replies[c] = 0
       /\ replies[c] <= 1
  /\ \A i \in DOMAIN queue :
       /\ queue[i].op \in {"answer", "free"} =>
            ctx[queue[i].arg] = "open" /\ asked[queue[i].arg] # "no"
       /\ queue[i].op = "answer" =>
            /\ replies[queue[i].arg] = 0
            /\ \A j \in DOMAIN queue :
                 queue[j].op = "answer" /\ queue[j].arg = queue[i].arg => j = i
       /\ queue[i].op = "free" =>
            /\ asked[queue[i].arg] = "freed"
            /\ \A j \in DOMAIN queue :
                 queue[j].op \in {"answer", "free"} /\ queue[j].arg = queue[i].arg
                 => j <= i

\* A message is read once; a call that was not read has no context and no reply.
Unread ==
  \A i \in DOMAIN inbox : inbox[i].kind = "message" =>
    /\ \E e \in Entries : inbox[i].arg \in owed[e]
    /\ inbox[i].arg \in Calls =>
         ctx[inbox[i].arg] = "none" /\ replies[inbox[i].arg] = 0
    /\ \A j \in DOMAIN inbox :
         inbox[j].kind = "message" /\ inbox[j].arg = inbox[i].arg => j = i

Inv ==
  /\ TypeOK
  /\ Commanded /\ Requests /\ Served /\ InOrder /\ Matching
  /\ Contexts /\ Unread
  /\ NothingIsMissed

-----------------------------------------------------------------------------
(* Sequences.                                                              *)

\* t is s with x behind it.
Extends(t, s, x) ==
  /\ Len(s) \in Nat
  /\ DOMAIN s = 1 .. Len(s)
  /\ DOMAIN t = 1 .. (Len(s) + 1)
  /\ \A i \in DOMAIN s : t[i] = s[i]
  /\ t[Len(s) + 1] = x

\* t is s without x, its first element.
Shifts(t, s, x) ==
  /\ Len(s) \in Nat \ {0}
  /\ DOMAIN s = 1 .. Len(s)
  /\ s[1] = x
  /\ DOMAIN t = 1 .. (Len(s) - 1)
  /\ \A i \in DOMAIN t : i + 1 \in DOMAIN s /\ t[i] = s[i + 1]

LEMMA AppendFacts ==
  ASSUME NEW S, NEW s \in Seq(S), NEW x \in S
  PROVE  Append(s, x) \in Seq(S) /\ Extends(Append(s, x), s, x)
BY DEF Extends

LEMMA TailFacts ==
  ASSUME NEW S, NEW s \in Seq(S), s # <<>>
  PROVE  Tail(s) \in Seq(S) /\ Shifts(Tail(s), s, Head(s))
BY DEF Shifts

\* What an element of each of the streams is.
LEMMA CommandFacts ==
  ASSUME NEW q \in Commands
  PROVE  /\ q = [op |-> q.op, arg |-> q.arg]
         /\ q.op \in {"add", "remove", "emit", "answer", "free", "close"}
         /\ q.op \in {"add", "remove"} => q.arg \in Entries
         /\ q.op \in {"answer", "free"} => q.arg \in Calls
BY DEF Commands

LEMMA NoteFacts ==
  ASSUME NEW n \in Notes
  PROVE  /\ n.kind \in {"added", "removed", "error", "message"}
         /\ n.kind # "message" => n.arg \in Entries
         /\ n.kind = "message" => n.arg \in Messages
BY DEF Notes

\* What is left of the types in most steps.
Domains ==
  /\ DOMAIN life = Entries /\ DOMAIN owed = Entries /\ DOMAIN seen = Entries
  /\ DOMAIN ctx = Calls /\ DOMAIN asked = Calls /\ DOMAIN replies = Calls
  /\ \A c \in Calls : replies[c] \in Nat

QueueTypes ==
  \A i \in DOMAIN queue :
    /\ queue[i].op \in {"add", "remove"} => queue[i].arg \in Entries
    /\ queue[i].op \in {"answer", "free"} => queue[i].arg \in Calls

LEMMA ShiftsBack ==
  ASSUME NEW t, NEW s, NEW x, Shifts(t, s, x), NEW i \in DOMAIN s, i # 1
  PROVE  \E k \in DOMAIN t : i = k + 1 /\ t[k] = s[i]
<1>1. i - 1 \in DOMAIN t /\ i = (i - 1) + 1
  BY DEF Shifts
<1>2. t[i - 1] = s[(i - 1) + 1]
  BY <1>1 DEF Shifts
<1> QED
  BY <1>1, <1>2

LEMMA Typed == ASSUME TypeOK PROVE Domains
<1>1. \A c \in Calls : replies[c] \in Nat
  BY DEF TypeOK
<1>2. /\ DOMAIN life = Entries /\ DOMAIN owed = Entries /\ DOMAIN seen = Entries
      /\ DOMAIN ctx = Calls /\ DOMAIN asked = Calls /\ DOMAIN replies = Calls
  BY DEF TypeOK
<1> QED
  BY <1>1, <1>2 DEF Domains

LEMMA QueueTyped == ASSUME TypeOK PROVE QueueTypes
<1>1. \A i \in DOMAIN queue : queue[i] \in Commands
  BY DEF TypeOK
<1> QED
  BY <1>1, CommandFacts DEF QueueTypes

LEMMA QueuedFacts ==
  ASSUME TypeOK, NEW op, NEW x
  PROVE  Queued(op, x)
         <=> \E i \in DOMAIN queue : queue[i].op = op /\ queue[i].arg = x
<1>1. \A i \in DOMAIN queue : queue[i] \in Commands
  BY DEF TypeOK
<1> QED
  BY <1>1, CommandFacts DEF Queued

LEMMA SubmitFacts ==
  ASSUME TypeOK, NEW op, NEW x, [op |-> op, arg |-> x] \in Commands, Submit(op, x)
  PROVE  /\ queue' \in Seq(Commands)
         /\ Extends(queue', queue, [op |-> op, arg |-> x])
         /\ draining' = draining
BY AppendFacts DEF TypeOK, Submit

LEMMA ExecuteFacts ==
  ASSUME TypeOK, NEW op, NEW x, Execute(op, x)
  PROVE  /\ queue' \in Seq(Commands)
         /\ Shifts(queue', queue, [op |-> op, arg |-> x])
         /\ draining' \in BOOLEAN
BY TailFacts DEF TypeOK, Execute

LEMMA ReadFacts ==
  ASSUME TypeOK, NEW kind, NEW x, Read(kind, x)
  PROVE  /\ inbox' \in Seq(Notes)
         /\ Shifts(inbox', inbox, inbox[1])
         /\ inbox[1].kind = kind /\ inbox[1].arg = x
         /\ open
         /\ UNCHANGED <<open, up, queue, draining, toBus, routed>>
BY TailFacts DEF TypeOK, Read, Shifts

\* A message or an answer of the bus.
LEMMA SentFacts ==
  ASSUME TypeOK, NEW n \in Notes, inbox' = Append(inbox, n)
  PROVE  inbox' \in Seq(Notes) /\ Extends(inbox', inbox, n)
BY AppendFacts DEF TypeOK

\* A request to the bus.
LEMMA SendFacts ==
  ASSUME TypeOK, NEW op \in {"add", "remove"}, NEW e \in Entries, Send(op, e)
  PROVE  /\ toBus' \in Seq([op : {"add", "remove"}, arg : Entries])
         /\ Extends(toBus', toBus, [op |-> op, arg |-> e])
BY AppendFacts DEF TypeOK, Send

LEMMA BusTakesFacts ==
  ASSUME TypeOK, NEW op, NEW e, BusTakes(op, e)
  PROVE  /\ toBus' \in Seq([op : {"add", "remove"}, arg : Entries])
         /\ Shifts(toBus', toBus, [op |-> op, arg |-> e])
         /\ UNCHANGED <<open, up, queue, draining, life, owed, seen, spoilt, ctx, asked,
                     replies, unsent>>
BY TailFacts DEF TypeOK, BusTakes, deliveryVars, callVars

-----------------------------------------------------------------------------
(* Every action preserves the invariant.                                   *)

LEMMA InitInv == Init => Inv
<1> SUFFICES ASSUME Init PROVE Inv
  OBVIOUS
<1>1. /\ queue \in Seq(Commands) /\ inbox \in Seq(Notes)
      /\ toBus \in Seq([op : {"add", "remove"}, arg : Entries])
  BY DEF Init
<1>2. /\ owed \in [Entries -> SUBSET Messages] /\ seen \in [Entries -> SUBSET Messages]
      /\ routed \in SUBSET Entries
  BY DEF Init
<1>3. TypeOK
  BY <1>1, <1>2 DEF Init, TypeOK, Lives, HeldLives
<1>4. Contexts /\ Unread /\ Commanded /\ Matching
  BY DEF Init, Contexts, Unread, Commanded, Matching
<1>5. Requests /\ Served /\ InOrder /\ NothingIsMissed
  BY DEF Init, Requests, Served, InOrder, NothingIsMissed, Asked, Told
<1> QED
  BY <1>3, <1>4, <1>5 DEF Inv

\* A new entry.
LEMMA AskAddInv ==
  ASSUME Inv, NEW e \in Entries, AskAdd(e)
  PROVE  Inv'
<1> USE DEF Inv
<1>1. [op |-> "add", arg |-> e] \in Commands
  BY DEF Commands, Entries
<1>2. /\ queue' \in Seq(Commands)
      /\ Extends(queue', queue, [op |-> "add", arg |-> e])
      /\ draining' = draining
  BY <1>1, SubmitFacts DEF AskAdd
<1>3. TypeOK'
  BY <1>1, <1>2
  DEF TypeOK, AskAdd, Lives, HeldLives, Entries, busVars, deliveryVars, callVars
<1>4. Commanded'
  <2>1. /\ open /\ life[e] = "new" /\ life'[e] = "queued"
        /\ \A d \in Entries : d # e => life'[d] = life[d]
    BY Typed DEF AskAdd, Client, Domains
  <2>2. \A i \in DOMAIN queue :
          queue[i].op \in {"add", "remove"} => queue[i].arg \in Entries \ {e}
    BY <2>1, QueueTyped DEF Commanded, QueueTypes
  <2> QED
    BY <1>2, <2>1, <2>2, SMTT(30) DEF Commanded, Extends
<1>5. Requests'
  BY <1>1, <1>2, Typed
  DEF Requests, Asked, Told, AskAdd, busVars, deliveryVars, callVars, Domains
<1>6. Served'
  BY <1>1, <1>2, Typed
  DEF Served, Told, Held, HeldLives, AskAdd, busVars, deliveryVars, callVars,
      Domains
<1>7. InOrder'
  BY <1>1, <1>2, Typed
  DEF InOrder, Held, HeldLives, AskAdd, busVars, deliveryVars, callVars, Domains
<1>8. Contexts'
  BY <1>1, <1>2, SMTT(30) DEF Contexts, Extends, AskAdd, busVars, deliveryVars, callVars
<1>9. NothingIsMissed'
  BY <1>1, <1>2, Typed
  DEF NothingIsMissed, AskAdd, busVars, deliveryVars, callVars, Domains
<1>10. Matching' /\ Unread'
  BY <1>1, <1>2 DEF Matching, Unread, AskAdd, busVars, deliveryVars, callVars
<1> QED
  BY <1>3, <1>4, <1>5, <1>6, <1>7, <1>8, <1>9, <1>10

\* An active entry, whose removal is not queued.
LEMMA AskRemoveInv ==
  ASSUME Inv, NEW e \in Entries, AskRemove(e)
  PROVE  Inv'
<1> USE DEF Inv
<1>1. [op |-> "remove", arg |-> e] \in Commands
  BY DEF Commands, Entries
<1>2. /\ queue' \in Seq(Commands)
      /\ Extends(queue', queue, [op |-> "remove", arg |-> e])
      /\ draining' = draining
  BY <1>1, SubmitFacts DEF AskRemove
<1>3. TypeOK'
  BY <1>1, <1>2
  DEF TypeOK, AskRemove, Lives, HeldLives, Entries, busVars, deliveryVars,
      callVars
<1>4. Commanded'
  BY <1>1, <1>2, QueuedFacts
  DEF Commanded, Extends, AskRemove, busVars, deliveryVars, callVars
<1>5. Contexts'
  BY <1>1, <1>2, SMTT(30) DEF Contexts, Extends, AskRemove, busVars, deliveryVars, callVars
<1>6. Requests' /\ Served' /\ InOrder' /\ Matching' /\ Unread' /\ NothingIsMissed'
  BY <1>1, <1>2
  DEF Requests, Served, InOrder, Matching, Unread, NothingIsMissed, Asked, Told,
      Held, AskRemove, busVars, deliveryVars, callVars
<1> QED
  BY <1>3, <1>4, <1>5, <1>6

\* Emissions disturb nobody.
LEMMA AskEmitInv ==
  ASSUME Inv, NEW s \in Registrations, AskEmit(s)
  PROVE  Inv'
<1> USE DEF Inv
<1>1. [op |-> "emit", arg |-> s] \in Commands
  BY DEF Commands, Entries
<1>2. /\ queue' \in Seq(Commands)
      /\ Extends(queue', queue, [op |-> "emit", arg |-> s])
      /\ draining' = draining
  BY <1>1, SubmitFacts DEF AskEmit
<1>3. TypeOK'
  BY <1>1, <1>2
  DEF TypeOK, AskEmit, Lives, HeldLives, Entries, busVars, deliveryVars, callVars
<1>4. Commanded'
  BY <1>1, <1>2 DEF Commanded, Extends, AskEmit, busVars, deliveryVars, callVars
<1>5. Contexts'
  BY <1>1, <1>2, SMTT(30) DEF Contexts, Extends, AskEmit, busVars, deliveryVars, callVars
<1>6. Requests' /\ Served' /\ InOrder' /\ Matching' /\ Unread' /\ NothingIsMissed'
  BY <1>1, <1>2
  DEF Requests, Served, InOrder, Matching, Unread, NothingIsMissed, Asked, Told,
      Held, AskEmit, busVars, deliveryVars, callVars
<1> QED
  BY <1>3, <1>4, <1>5, <1>6

\* The close is queued.
LEMMA AskCloseInv ==
  ASSUME Inv, AskClose
  PROVE  Inv'
<1> USE DEF Inv
<1>1. [op |-> "close", arg |-> "conn"] \in Commands
  BY DEF Commands
<1>2. /\ queue' \in Seq(Commands)
      /\ Extends(queue', queue, [op |-> "close", arg |-> "conn"])
      /\ draining' = draining
  BY <1>1, SubmitFacts DEF AskClose
<1>3. TypeOK'
  BY <1>1, <1>2
  DEF TypeOK, AskClose, Lives, HeldLives, Entries, busVars, deliveryVars, callVars
<1>4. Commanded'
  BY <1>1, <1>2 DEF Commanded, Extends, AskClose, busVars, deliveryVars, callVars
<1>5. Contexts'
  BY <1>1, <1>2, SMTT(30) DEF Contexts, Extends, AskClose, busVars, deliveryVars, callVars
<1>6. Requests' /\ Served' /\ InOrder' /\ Matching' /\ Unread' /\ NothingIsMissed'
  BY <1>1, <1>2
  DEF Requests, Served, InOrder, Matching, Unread, NothingIsMissed, Asked, Told,
      Held, AskClose, busVars, deliveryVars, callVars
<1> QED
  BY <1>3, <1>4, <1>5, <1>6

\* The first thing the application does with a call.
LEMMA AskAnswerInv ==
  ASSUME Inv, NEW c \in Calls, AskAnswer(c)
  PROVE  Inv'
<1> USE DEF Inv
<1>1. [op |-> "answer", arg |-> c] \in Commands
  BY DEF Commands
<1>2. /\ queue' \in Seq(Commands)
      /\ Extends(queue', queue, [op |-> "answer", arg |-> c])
      /\ draining' = draining
  BY <1>1, SubmitFacts DEF AskAnswer
<1>3. /\ ctx[c] = "open" /\ asked[c] = "no"
      /\ asked'[c] = "answered" /\ \A d \in Calls : d # c => asked'[d] = asked[d]
      /\ UNCHANGED <<owed, ctx, replies>>
  BY Typed DEF AskAnswer, Domains, deliveryVars
<1>4. TypeOK'
  BY <1>2 DEF TypeOK, AskAnswer, busVars, deliveryVars
<1>5. Commanded'
  BY <1>2 DEF Commanded, Extends, AskAnswer
<1>6. Contexts'
  BY <1>2, <1>3, QueueTyped, SMTT(30) DEF Contexts, Extends, QueueTypes
<1>7. Requests' /\ Served' /\ InOrder' /\ Matching' /\ Unread' /\ NothingIsMissed'
  BY DEF Requests, Served, InOrder, Matching, Unread, NothingIsMissed, Asked, Told,
     Held, AskAnswer, busVars, deliveryVars
<1> QED
  BY <1>4, <1>5, <1>6, <1>7

\* The last thing the application does with a call.
LEMMA AskFreeInv ==
  ASSUME Inv, NEW c \in Calls, AskFree(c)
  PROVE  Inv'
<1> USE DEF Inv
<1>1. [op |-> "free", arg |-> c] \in Commands
  BY DEF Commands
<1>2. /\ queue' \in Seq(Commands)
      /\ Extends(queue', queue, [op |-> "free", arg |-> c])
      /\ draining' = draining
  BY <1>1, SubmitFacts DEF AskFree
<1>3. /\ ctx[c] = "open" /\ asked[c] # "freed"
      /\ asked'[c] = "freed" /\ \A d \in Calls : d # c => asked'[d] = asked[d]
      /\ UNCHANGED <<owed, ctx, replies>>
  BY Typed DEF AskFree, Domains, deliveryVars
<1>4. TypeOK'
  BY <1>2 DEF TypeOK, AskFree, busVars, deliveryVars
<1>5. Commanded'
  BY <1>2 DEF Commanded, Extends, AskFree
<1>6. Contexts'
  BY <1>2, <1>3, QueueTyped, SMTT(30) DEF Contexts, Extends, QueueTypes
<1>7. Requests' /\ Served' /\ InOrder' /\ Matching' /\ Unread' /\ NothingIsMissed'
  BY DEF Requests, Served, InOrder, Matching, Unread, NothingIsMissed, Asked, Told,
     Held, AskFree, busVars, deliveryVars
<1> QED
  BY <1>4, <1>5, <1>6, <1>7

\* The bus is asked to add the entry, or it failed.
LEMMA ExecAddInv ==
  ASSUME Inv, NEW e \in Entries, ExecAdd(e)
  PROVE  Inv'
<1> USE DEF Inv
<1>1. /\ queue' \in Seq(Commands)
      /\ Shifts(queue', queue, [op |-> "add", arg |-> e])
      /\ draining' \in BOOLEAN
  BY ExecuteFacts DEF ExecAdd
<1>2. open => life[e] = "queued"
  BY <1>1 DEF Commanded, Shifts
<1>3. /\ life'[e] \in {"adding", "failed"}
      /\ \A d \in Entries : d # e => life'[d] = life[d]
      /\ UNCHANGED <<open, up, routed, inbox, owed, seen, spoilt, ctx, asked, replies,
                     unsent>>
  BY Typed DEF ExecAdd, Domains, deliveryVars, callVars
<1>4. \/ /\ toBus' \in Seq([op : {"add", "remove"}, arg : Entries])
         /\ Extends(toBus', toBus, [op |-> "add", arg |-> e])
      \/ toBus' = toBus
  BY SendFacts, Typed DEF ExecAdd, Domains
<1>5. TypeOK'
  <2>1. life' \in [Entries -> IF open THEN Lives ELSE Lives \ HeldLives]
    BY DEF TypeOK, ExecAdd, Lives, HeldLives
  <2> QED
    BY <2>1, <1>1, <1>3, <1>4 DEF TypeOK
<1>6. Commanded'
  <2>1. open => \A i \in DOMAIN queue' :
          queue'[i].op \in {"add", "remove"} => queue'[i].arg # e
    BY <1>1, <1>2, SMTT(30) DEF Commanded, Shifts
  <2> QED
    BY <2>1, <1>1, <1>3, QueueTyped, SMTT(30) DEF Commanded, Shifts, QueueTypes
<1>7. Requests'
  BY <1>2, <1>3, <1>4 DEF Requests, Asked, Told, Extends
<1>8. Served'
  BY <1>2, <1>3, TypeOK DEF TypeOK, Served, Told, Held, HeldLives
<1>9. InOrder'
  BY <1>2, <1>3 DEF InOrder, Held, HeldLives
<1>10. Contexts'
  BY <1>1, <1>3 DEF Contexts, Shifts
<1>11. NothingIsMissed'
  BY <1>2, <1>3 DEF NothingIsMissed
<1>12. Matching' /\ Unread'
  BY <1>3 DEF Matching, Unread
<1> QED
  BY <1>5, <1>6, <1>7, <1>8, <1>9, <1>10, <1>11, <1>12

\* The bus is asked to remove an active entry.
LEMMA ExecRemoveInv ==
  ASSUME Inv, NEW e \in Entries, ExecRemove(e)
  PROVE  Inv'
<1> USE DEF Inv
<1>1. /\ queue' \in Seq(Commands)
      /\ Shifts(queue', queue, [op |-> "remove", arg |-> e])
      /\ draining' \in BOOLEAN
  BY ExecuteFacts DEF ExecRemove
<1>2. open => life[e] = "active"
  BY <1>1 DEF Commanded, Shifts
<1>3. /\ life'[e] = life[e] \/ life'[e] \in {"removing", "kept"}
      /\ \A d \in Entries : d # e => life'[d] = life[d]
      /\ UNCHANGED <<open, up, routed, inbox, owed, seen, spoilt, ctx, asked, replies,
                     unsent>>
  BY Typed DEF ExecRemove, Domains, deliveryVars, callVars
<1>4. \/ /\ toBus' \in Seq([op : {"add", "remove"}, arg : Entries])
         /\ Extends(toBus', toBus, [op |-> "remove", arg |-> e])
         /\ life'[e] \in {"removing", "kept"}
      \/ toBus' = toBus
  BY SendFacts, Typed DEF ExecRemove, Domains
<1>5. TypeOK'
  <2>1. life' \in [Entries -> IF open THEN Lives ELSE Lives \ HeldLives]
    BY DEF TypeOK, ExecRemove, Held, Lives, HeldLives
  <2> QED
    BY <2>1, <1>1, <1>3, <1>4 DEF TypeOK
<1>6. Commanded'
  <2>1. open => \A i \in DOMAIN queue' :
          queue'[i].op \in {"add", "remove"} => queue'[i].arg # e
    BY <1>1, <1>2, SMTT(30) DEF Commanded, Shifts
  <2> QED
    BY <2>1, <1>1, <1>3, QueueTyped, SMTT(30) DEF Commanded, Shifts, QueueTypes
<1>7. Requests'
  BY <1>2, <1>3, <1>4 DEF Requests, Asked, Told, Extends
<1>8. Served'
  <2>1. routed \subseteq Entries
    BY DEF TypeOK
  <2>2. open => ~Told("removed", e)
    BY <1>2 DEF Requests
  <2> QED
    BY <2>1, <2>2, <1>2, <1>3 DEF Served, Told, Held, HeldLives
<1>9. InOrder'
  <2>1. open => ~Told("removed", e)
    BY <1>2 DEF Requests
  <2> QED
    BY <2>1, <1>2, <1>3 DEF InOrder, Told, Held, HeldLives
<1>10. Contexts'
  BY <1>1, <1>3 DEF Contexts, Shifts
<1>11. NothingIsMissed'
  BY <1>2, <1>3 DEF NothingIsMissed
<1>12. Matching' /\ Unread'
  BY <1>3 DEF Matching, Unread
<1> QED
  BY <1>5, <1>6, <1>7, <1>8, <1>9, <1>10, <1>11, <1>12

\* Nothing here changes with an emission.
LEMMA ExecEmitInv ==
  ASSUME Inv, NEW s \in Registrations, ExecEmit(s)
  PROVE  Inv'
<1> USE DEF Inv
<1>1. /\ queue' \in Seq(Commands)
      /\ Shifts(queue', queue, [op |-> "emit", arg |-> s])
      /\ draining' \in BOOLEAN
  BY ExecuteFacts DEF ExecEmit
<1>2. TypeOK'
  BY <1>1
  DEF TypeOK, ExecEmit, Lives, HeldLives, Held, busVars, deliveryVars, callVars
<1>3. Commanded'
  BY <1>1
  DEF Commanded, Shifts, ExecEmit, Held, HeldLives, busVars, deliveryVars,
      callVars
<1>4. Contexts'
  BY <1>1, SMTT(30) DEF Contexts, Shifts, ExecEmit, busVars, deliveryVars, callVars
<1>5. Requests' /\ Served' /\ InOrder' /\ Matching' /\ Unread' /\ NothingIsMissed'
  BY <1>1
  DEF Requests, Served, InOrder, Matching, Unread, NothingIsMissed, Asked, Told,
      Held, ExecEmit, busVars, deliveryVars, callVars
<1> QED
  BY <1>2, <1>3, <1>4, <1>5

\* The only answer of the application.
LEMMA ExecAnswerInv ==
  ASSUME Inv, NEW c \in Calls, ExecAnswer(c)
  PROVE  Inv'
<1> USE DEF Inv
<1>1. /\ queue' \in Seq(Commands)
      /\ Shifts(queue', queue, [op |-> "answer", arg |-> c])
      /\ draining' \in BOOLEAN
  BY ExecuteFacts DEF ExecAnswer
<1>2. ctx[c] = "open" /\ asked[c] # "no" /\ replies[c] = 0
  BY <1>1 DEF Contexts, Shifts
<1>3. /\ replies'[c] \in 0 .. 1
      /\ \A d \in Calls : d # c => replies'[d] = replies[d]
      /\ UNCHANGED <<open, life, owed, ctx, asked, inbox>>
  BY <1>2, Typed DEF ExecAnswer, Domains, busVars, deliveryVars
<1>4. TypeOK'
  <2>1. replies \in [Calls -> Nat] /\ unsent \in SUBSET Calls
    BY DEF TypeOK
  <2>2. replies' = replies \/ replies' = [replies EXCEPT ![c] = @ + 1]
    BY DEF ExecAnswer
  <2>3. unsent' = unsent \/ unsent' = unsent \cup {c}
    BY DEF ExecAnswer
  <2>4. unsent' \in SUBSET Calls /\ replies' \in [Calls -> Nat]
    BY <2>1, <2>2, <2>3
  <2> QED
    BY <1>1, <2>4 DEF TypeOK, ExecAnswer, busVars, deliveryVars
<1>5. Commanded'
  BY <1>1, <1>3 DEF Commanded, Shifts
<1>6. Contexts'
  BY <1>1, <1>2, <1>3, QueueTyped, SMTT(30) DEF Contexts, Shifts, QueueTypes
<1>7. Unread'
  BY <1>2, <1>3 DEF Unread
<1>8. Requests' /\ Served' /\ InOrder' /\ Matching' /\ NothingIsMissed'
  BY DEF Requests, Served, InOrder, Matching, NothingIsMissed, Asked, Told, Held,
     ExecAnswer, busVars, deliveryVars
<1> QED
  BY <1>4, <1>5, <1>6, <1>7, <1>8

\* Nothing is queued of the call behind the freeing of it.
LEMMA ExecFreeInv ==
  ASSUME Inv, NEW c \in Calls, ExecFree(c)
  PROVE  Inv'
<1> USE DEF Inv
<1>1. /\ queue' \in Seq(Commands)
      /\ Shifts(queue', queue, [op |-> "free", arg |-> c])
      /\ draining' \in BOOLEAN
  BY ExecuteFacts DEF ExecFree
<1>2. ctx[c] = "open" /\ asked[c] = "freed"
  BY <1>1 DEF Contexts, Shifts
<1>3. \A i \in DOMAIN queue' : queue'[i].op \in {"answer", "free"} => queue'[i].arg # c
  BY <1>1 DEF Contexts, Shifts
<1>4. /\ ctx'[c] = "freed" /\ \A d \in Calls : d # c => ctx'[d] = ctx[d]
      /\ UNCHANGED <<open, life, owed, asked, replies, inbox>>
  BY Typed DEF ExecFree, Domains, busVars, deliveryVars
<1>5. TypeOK'
  BY <1>1 DEF TypeOK, ExecFree, busVars, deliveryVars
<1>6. Commanded'
  BY <1>1, <1>4 DEF Commanded, Shifts
<1>7. Contexts'
  BY <1>1, <1>2, <1>3, <1>4, QueueTyped, SMTT(30) DEF Contexts, Shifts, QueueTypes
<1>8. Unread'
  BY <1>2, <1>4 DEF Unread
<1>9. Requests' /\ Served' /\ InOrder' /\ Matching' /\ NothingIsMissed'
  BY DEF Requests, Served, InOrder, Matching, NothingIsMissed, Asked, Told, Held,
     ExecFree, busVars, deliveryVars
<1> QED
  BY <1>5, <1>6, <1>7, <1>8, <1>9

\* Nothing is promised of a closed connection.
LEMMA ExecCloseInv ==
  ASSUME Inv, ExecClose
  PROVE  Inv'
<1> USE DEF Inv
<1>1. /\ queue' \in Seq(Commands)
      /\ Shifts(queue', queue, [op |-> "close", arg |-> "conn"])
      /\ draining' \in BOOLEAN
  BY ExecuteFacts DEF ExecClose
<1>2. /\ open' = FALSE /\ inbox' = <<>> /\ toBus' = <<>> /\ routed' = {}
      /\ UNCHANGED <<up, owed, seen, spoilt, ctx, asked, replies, unsent>>
  BY DEF ExecClose, deliveryVars, callVars
<1>3. life' \in [Entries -> Lives \ HeldLives]
  BY DEF TypeOK, ExecClose, Held, Lives, HeldLives
<1>4. inbox' \in Seq(Notes) /\ toBus' \in Seq([op : {"add", "remove"}, arg : Entries])
  BY <1>2
<1>5. TypeOK'
  BY <1>1, <1>2, <1>3, <1>4 DEF TypeOK
<1>6. Contexts'
  BY <1>1, <1>2, SMTT(30) DEF Contexts, Shifts
<1>7. Matching' /\ Unread'
  BY <1>2 DEF Matching, Unread
<1>8. Commanded' /\ Requests' /\ Served' /\ InOrder' /\ NothingIsMissed'
  BY <1>2 DEF Commanded, Requests, Served, InOrder, NothingIsMissed
<1> QED
  BY <1>5, <1>6, <1>7, <1>8

\* What reading the first message leaves of the promises about the others.
LEMMA ReadLeaves ==
  ASSUME Inv, open, Shifts(inbox', inbox, inbox[1])
  PROVE  /\ \A e \in routed :
              \/ life[e] = "failed"
              \/ /\ life[e] = "adding"
                 /\ (inbox[1].kind = "added" /\ inbox[1].arg = e) \/ Told("added", e)'
              \/ Held(e) /\ (life[e] = "removing" => ~Told("removed", e))
         /\ \A e \in Entries : \A kind : Told(kind, e)' => Told(kind, e)
         /\ \A i \in DOMAIN inbox' : \A e \in Entries :
              inbox'[i].kind = "message" /\ inbox'[i].arg \in owed[e] =>
                \/ life[e] = "failed"
                \/ /\ life[e] = "adding"
                   /\ \/ inbox[1].kind = "added" /\ inbox[1].arg = e
                      \/ \E j \in DOMAIN inbox' :
                           j < i /\ inbox'[j].kind = "added" /\ inbox'[j].arg = e
                \/ /\ Held(e)
                   /\ life[e] = "removing" =>
                        /\ ~(inbox[1].kind = "removed" /\ inbox[1].arg = e)
                        /\ \A j \in DOMAIN inbox' :
                             inbox'[j].kind = "removed" /\ inbox'[j].arg = e => i < j
         /\ \A e \in Entries : life[e] # "failed" => \A m \in owed[e] :
              \/ m \in seen[e] \/ m \in spoilt
              \/ inbox[1].kind = "message" /\ inbox[1].arg = m
              \/ \E i \in DOMAIN inbox' : inbox'[i].kind = "message" /\ inbox'[i].arg = m
<1> USE DEF Inv
<1>1. 1 \in DOMAIN inbox
  BY DEF Shifts
<1>2. \A i \in DOMAIN inbox :
        i = 1 \/ \E k \in DOMAIN inbox' : i = k + 1 /\ inbox'[k] = inbox[i]
  BY ShiftsBack
<1>3. \A i \in DOMAIN inbox' : i + 1 \in DOMAIN inbox /\ inbox'[i] = inbox[i + 1]
  BY DEF Shifts
<1>4. \A e \in routed :
        \/ life[e] = "failed"
        \/ /\ life[e] = "adding"
           /\ (inbox[1].kind = "added" /\ inbox[1].arg = e) \/ Told("added", e)'
        \/ Held(e) /\ (life[e] = "removing" => ~Told("removed", e))
  BY <1>2 DEF Served, Told
<1>5. \A e \in Entries : \A kind : Told(kind, e)' => Told(kind, e)
  BY <1>3 DEF Told
<1>6. ASSUME NEW i \in DOMAIN inbox', NEW e \in Entries,
             inbox'[i].kind = "message", inbox'[i].arg \in owed[e]
      PROVE  \/ life[e] = "failed"
             \/ /\ life[e] = "adding"
                /\ \/ inbox[1].kind = "added" /\ inbox[1].arg = e
                   \/ \E j \in DOMAIN inbox' :
                        j < i /\ inbox'[j].kind = "added" /\ inbox'[j].arg = e
             \/ /\ Held(e)
                /\ life[e] = "removing" =>
                     /\ ~(inbox[1].kind = "removed" /\ inbox[1].arg = e)
                     /\ \A j \in DOMAIN inbox' :
                          inbox'[j].kind = "removed" /\ inbox'[j].arg = e => i < j
  <2>1. i \in Nat \ {0} /\ \A j \in DOMAIN inbox' : j \in Nat
    BY DEF Shifts
  <2>2. /\ i + 1 \in DOMAIN inbox
        /\ inbox[i + 1].kind = "message" /\ inbox[i + 1].arg \in owed[e]
    BY <1>3, <1>6
  <2>3. CASE life[e] = "failed"
    BY <2>3
  <2>4. CASE life[e] = "adding" /\ \E j \in DOMAIN inbox :
               j < i + 1 /\ inbox[j].kind = "added" /\ inbox[j].arg = e
    <3>1. PICK j \in DOMAIN inbox :
                 j < i + 1 /\ inbox[j].kind = "added" /\ inbox[j].arg = e
      BY <2>4
    <3>2. CASE j = 1
      BY <2>4, <3>1, <3>2
    <3>3. CASE j # 1
      <4>1. PICK k \in DOMAIN inbox' : j = k + 1 /\ inbox'[k] = inbox[j]
        BY <1>2, <3>3
      <4>2. k < i
        BY <2>1, <3>1, <4>1
      <4> QED
        BY <2>4, <3>1, <4>1, <4>2
    <3> QED
      BY <3>2, <3>3
  <2>5. CASE Held(e) /\ (life[e] = "removing" => \A j \in DOMAIN inbox :
               inbox[j].kind = "removed" /\ inbox[j].arg = e => i + 1 < j)
    <3>1. life[e] = "removing" => ~(inbox[1].kind = "removed" /\ inbox[1].arg = e)
      BY <1>1, <2>1, <2>5
    <3>2. ASSUME life[e] = "removing", NEW j \in DOMAIN inbox',
                 inbox'[j].kind = "removed", inbox'[j].arg = e
          PROVE  i < j
      <4>1. i + 1 < j + 1
        BY <1>3, <2>5, <3>2
      <4> QED
        BY <4>1, <2>1
    <3> QED
      BY <2>5, <3>1, <3>2
  <2> QED
    BY <2>2, <2>3, <2>4, <2>5 DEF InOrder
<1>7. \A e \in Entries : life[e] # "failed" => \A m \in owed[e] :
        \/ m \in seen[e] \/ m \in spoilt
        \/ inbox[1].kind = "message" /\ inbox[1].arg = m
        \/ \E i \in DOMAIN inbox' : inbox'[i].kind = "message" /\ inbox'[i].arg = m
  BY <1>2 DEF NothingIsMissed
<1> QED
  BY <1>4, <1>5, <1>6, <1>7

\* An answer of the bus comes after the messages that are on their way.
LEMMA SentLeaves ==
  ASSUME Inv, NEW n, n.kind # "message", Extends(inbox', inbox, n),
         UNCHANGED <<open, life, owed, seen, spoilt, ctx, replies>>
  PROVE  InOrder' /\ Unread' /\ NothingIsMissed'
<1> USE DEF Inv
<1>1. \A i \in DOMAIN inbox' : i \in DOMAIN inbox \/ inbox'[i].kind # "message"
  BY DEF Extends
<1>2. \A i \in DOMAIN inbox : i \in DOMAIN inbox' /\ inbox'[i] = inbox[i]
  BY DEF Extends
<1>3. \A i \in DOMAIN inbox, j \in DOMAIN inbox' : j \in DOMAIN inbox \/ i < j
  BY DEF Extends
<1>4. InOrder'
  <2>1. ASSUME open, NEW i \in DOMAIN inbox, NEW e \in Entries,
               inbox[i].kind = "message", inbox[i].arg \in owed[e]
        PROVE  \/ life[e] = "failed"
               \/ /\ life[e] = "adding"
                  /\ \E j \in DOMAIN inbox' :
                       j < i /\ inbox'[j].kind = "added" /\ inbox'[j].arg = e
               \/ /\ Held(e)
                  /\ life[e] = "removing" =>
                       \A j \in DOMAIN inbox' :
                         inbox'[j].kind = "removed" /\ inbox'[j].arg = e => i < j
    BY <2>1, <1>2, <1>3 DEF InOrder
  <2> QED
    BY <2>1, <1>1, <1>2 DEF InOrder, Held
<1>5. Unread'
  BY <1>1, <1>2 DEF Unread
<1>6. NothingIsMissed'
  BY <1>2 DEF NothingIsMissed
<1> QED
  BY <1>4, <1>5, <1>6

\* From here on the bus routes to the entry, and tells so first.
LEMMA BusAddsInv ==
  ASSUME Inv, NEW e \in Entries, BusAdds(e)
  PROVE  Inv'
<1> USE DEF Inv
<1>1. /\ toBus' \in Seq([op : {"add", "remove"}, arg : Entries])
      /\ Shifts(toBus', toBus, [op |-> "add", arg |-> e])
      /\ UNCHANGED <<open, up, queue, draining, life, owed, seen, spoilt, ctx, asked,
                     replies, unsent>>
  BY BusTakesFacts DEF BusAdds
<1>2. PICK kind \in {"added", "error"} :
        /\ inbox' = Append(inbox, Note(kind, e, {}))
        /\ kind = "error" => routed' = routed
        /\ kind = "added" => routed' = routed \cup {e}
  BY DEF BusAdds
<1>3. Note(kind, e, {}) \in Notes
  BY DEF Notes, Note
<1>4. inbox' \in Seq(Notes) /\ Extends(inbox', inbox, Note(kind, e, {}))
  BY <1>2, <1>3, SentFacts
<1>5. TypeOK'
  BY <1>1, <1>2, <1>4 DEF TypeOK
<1>6. \A op, d : Asked(op, d)' => Asked(op, d)
  BY <1>1 DEF Asked, Shifts
<1>7. open => ~Asked("add", e)'
  BY <1>1 DEF Requests, Asked, Shifts
<1>8. open => life[e] \in {"adding", "failed"}
  BY <1>1 DEF Requests, Asked, Shifts
<1>9. \A d \in Entries :
        /\ Told("added", d)' => Told("added", d) \/ d = e
        /\ Told("removed", d)' => Told("removed", d)
        /\ Told("added", d) => Told("added", d)'
        /\ kind = "added" => Told("added", e)'
  <2>1. /\ \A i \in DOMAIN inbox : i \in DOMAIN inbox' /\ inbox'[i] = inbox[i]
        /\ \A i \in DOMAIN inbox' : i \in DOMAIN inbox \/ i = Len(inbox) + 1
        /\ Len(inbox) + 1 \in DOMAIN inbox'
        /\ inbox'[Len(inbox) + 1].kind = kind /\ inbox'[Len(inbox) + 1].arg = e
    BY <1>4 DEF Extends, Note
  <2>2. \A k, d : Told(k, d)' <=> Told(k, d) \/ (k = kind /\ d = e)
    BY <2>1 DEF Told
  <2> QED
    BY <1>4, <2>2
<1>10. Requests'
  <2>1. \A d \in Entries : open => \A i, j \in DOMAIN toBus' :
          /\ toBus'[i].op = "add" /\ toBus'[i].arg = d
          /\ toBus'[j].op = "add" /\ toBus'[j].arg = d
          => i = j
    BY <1>1 DEF Requests, Shifts
  <2> QED
    BY <2>1, <1>1, <1>6, <1>7, <1>8, <1>9 DEF Requests
<1>11. Served'
  BY <1>1, <1>2, <1>8, <1>9 DEF TypeOK, Served, Held
<1>12. InOrder' /\ Unread' /\ NothingIsMissed'
  <2>1. Note(kind, e, {}).kind # "message"
    BY DEF Note
  <2> QED
    BY <2>1, <1>1, <1>4, SentLeaves
<1>13. Commanded' /\ Matching' /\ Contexts'
  BY <1>1 DEF Commanded, Matching, Contexts
<1> QED
  BY <1>5, <1>10, <1>11, <1>12, <1>13

\* From here on the bus does not route to the entry.
LEMMA BusRemovesInv ==
  ASSUME Inv, NEW e \in Entries, BusRemoves(e)
  PROVE  Inv'
<1> USE DEF Inv
<1>1. /\ toBus' \in Seq([op : {"add", "remove"}, arg : Entries])
      /\ Shifts(toBus', toBus, [op |-> "remove", arg |-> e])
      /\ UNCHANGED <<open, up, queue, draining, life, owed, seen, spoilt, ctx, asked,
                     replies, unsent>>
  BY BusTakesFacts DEF BusRemoves
<1>2. inbox' = Append(inbox, Note("removed", e, {})) /\ routed' = routed \ {e}
  BY DEF BusRemoves
<1>3. Note("removed", e, {}) \in Notes
  BY DEF Notes, Note
<1>4. inbox' \in Seq(Notes) /\ Extends(inbox', inbox, Note("removed", e, {}))
  BY <1>2, <1>3, SentFacts
<1>5. TypeOK'
  BY <1>1, <1>2, <1>4 DEF TypeOK
<1>6. \A op, d : Asked(op, d)' => Asked(op, d)
  BY <1>1 DEF Asked, Shifts
<1>7. open => life[e] \notin {"new", "queued", "adding", "active"}
  BY <1>1 DEF Requests, Asked, Shifts
<1>8. \A d \in Entries :
        /\ Told("added", d)' <=> Told("added", d)
        /\ Told("removed", d)' => Told("removed", d) \/ d = e
  BY <1>4 DEF Told, Extends, Note
<1>9. Requests'
  <2>1. \A d \in Entries : open => \A i, j \in DOMAIN toBus' :
          /\ toBus'[i].op = "add" /\ toBus'[i].arg = d
          /\ toBus'[j].op = "add" /\ toBus'[j].arg = d
          => i = j
    BY <1>1 DEF Requests, Shifts
  <2> QED
    BY <2>1, <1>1, <1>6, <1>7, <1>8 DEF Requests
<1>10. Served'
  BY <1>1, <1>2, <1>8 DEF TypeOK, Served, Held
<1>11. InOrder' /\ Unread' /\ NothingIsMissed'
  <2>1. Note("removed", e, {}).kind # "message"
    BY DEF Note
  <2> QED
    BY <2>1, <1>1, <1>4, SentLeaves
<1>12. Commanded' /\ Matching' /\ Contexts'
  BY <1>1 DEF Commanded, Matching, Contexts
<1> QED
  BY <1>5, <1>9, <1>10, <1>11, <1>12

\* A local time-out adds a reply of its own.
LEMMA TimeOutInv ==
  ASSUME Inv, NEW e \in Entries, TimeOut(e)
  PROVE  Inv'
<1> USE DEF Inv
<1>1. Note("error", e, {}) \in Notes /\ Note("error", e, {}).kind # "message"
  BY DEF Notes, Note
<1>2. inbox' \in Seq(Notes) /\ Extends(inbox', inbox, Note("error", e, {}))
  BY <1>1, SentFacts DEF TimeOut
<1>3. UNCHANGED <<open, up, queue, draining, life, toBus, routed, owed, seen, spoilt,
                  ctx, asked, replies, unsent>>
  BY DEF TimeOut, deliveryVars, callVars
<1>4. TypeOK'
  BY <1>2, <1>3 DEF TypeOK
<1>5. Requests' /\ Served'
  <2>1. \A kind \in {"added", "removed"}, d \in Entries : Told(kind, d)' <=> Told(kind, d)
    BY <1>2 DEF Told, Extends, Note
  <2> QED
    BY <2>1, <1>3 DEF TypeOK, Requests, Served, Asked, Held
<1>6. InOrder' /\ Unread' /\ NothingIsMissed'
  BY <1>1, <1>2, <1>3, SentLeaves
<1>7. Commanded' /\ Matching' /\ Contexts'
  BY <1>3 DEF Commanded, Matching, Contexts
<1> QED
  BY <1>4, <1>5, <1>6, <1>7

\* The bus routes a new message.
LEMMA DeliverInv ==
  ASSUME Inv, NEW m \in Messages, Deliver(m)
  PROVE  Inv'
<1> USE DEF Inv
<1>1. Note("message", m, For[m] \cap routed) \in Notes
  BY DEF Notes, Note, TypeOK
<1>2. inbox' \in Seq(Notes) /\ Extends(inbox', inbox, Note("message", m, For[m] \cap routed))
  BY <1>1, SentFacts DEF Deliver
<1>3. /\ open /\ \A e \in Entries : m \notin owed[e]
      /\ For[m] \cap routed # {} /\ routed \subseteq Entries
      /\ \A e \in Entries :
           owed'[e] = IF e \in For[m] \cap routed THEN owed[e] \cup {m} ELSE owed[e]
      /\ UNCHANGED <<open, queue, life, toBus, routed, seen, spoilt, ctx, asked,
                     replies>>
  BY DEF TypeOK, Deliver, callVars
<1>4. /\ \A i \in DOMAIN inbox : inbox[i].kind = "message" => inbox[i].arg # m
      /\ \E e \in Entries : m \in owed'[e]
      /\ \A e \in Entries : owed[e] \subseteq owed'[e]
      /\ \A e \in Entries : \A n \in owed'[e] : n \in owed[e] \/ (n = m /\ e \in For[m])
  <2>1. \A i \in DOMAIN inbox : inbox[i].kind = "message" => inbox[i].arg # m
    BY <1>3 DEF Unread
  <2>2. PICK e \in Entries : e \in For[m] \cap routed
    BY <1>3
  <2>3. m \in owed'[e]
    BY <1>3, <2>2
  <2>4. \A d \in Entries : owed[d] \subseteq owed'[d]
    BY <1>3
  <2>5. \A d \in Entries : \A n \in owed'[d] : n \in owed[d] \/ (n = m /\ d \in For[m])
    BY <1>3
  <2> QED
    BY <2>1, <2>2, <2>3, <2>4, <2>5
<1>5. TypeOK'
  BY <1>2 DEF TypeOK, Deliver, callVars
<1>6. Requests' /\ Served'
  BY <1>2, <1>3 DEF Requests, Served, Asked, Told, Held, Extends, Note
<1>7. InOrder'
  <2>1. Len(inbox) \in Nat /\ DOMAIN inbox = 1 .. Len(inbox)
        /\ DOMAIN inbox' = 1 .. (Len(inbox) + 1)
    BY <1>2 DEF Extends
  <2>2. \A i \in DOMAIN inbox : inbox'[i] = inbox[i] /\ i < Len(inbox) + 1
    BY <1>2 DEF Extends
  <2>3. \A i \in DOMAIN inbox, e \in Entries :
          inbox[i].kind = "message" /\ inbox[i].arg \in owed'[e]
          => inbox[i].arg \in owed[e]
    BY <1>4
  <2>4. \A e \in Entries : m \in owed'[e] =>
          \/ life[e] = "failed"
          \/ life[e] = "adding" /\ Told("added", e)
          \/ Held(e) /\ (life[e] = "removing" => ~Told("removed", e))
    BY <1>3 DEF Served
  <2>5. inbox'[Len(inbox) + 1].kind = "message" /\ inbox'[Len(inbox) + 1].arg = m
    BY <1>2 DEF Extends, Note
  <2>6. ASSUME NEW i \in DOMAIN inbox, NEW e \in Entries,
               inbox[i].kind = "message", inbox[i].arg \in owed[e]
        PROVE  \/ life[e] = "failed"
               \/ /\ life[e] = "adding"
                  /\ \E j \in DOMAIN inbox' :
                       j < i /\ inbox'[j].kind = "added" /\ inbox'[j].arg = e
               \/ /\ Held(e)
                  /\ life[e] = "removing" =>
                       \A j \in DOMAIN inbox' :
                         inbox'[j].kind = "removed" /\ inbox'[j].arg = e => i < j
    BY <1>3, <2>1, <2>2, <2>6 DEF InOrder
  <2>7. ASSUME NEW e \in Entries, m \in owed'[e]
        PROVE  \/ life[e] = "failed"
               \/ /\ life[e] = "adding"
                  /\ \E j \in DOMAIN inbox' :
                       /\ j < Len(inbox) + 1
                       /\ inbox'[j].kind = "added" /\ inbox'[j].arg = e
               \/ /\ Held(e)
                  /\ life[e] = "removing" =>
                       \A j \in DOMAIN inbox' :
                         inbox'[j].kind = "removed" /\ inbox'[j].arg = e
                         => Len(inbox) + 1 < j
    BY <2>1, <2>2, <2>4, <2>5, <2>7 DEF Told
  <2>8. \A i \in DOMAIN inbox' : i \in DOMAIN inbox \/ i = Len(inbox) + 1
    BY <2>1
  <2> QED
    BY <1>3, <2>2, <2>3, <2>5, <2>6, <2>7, <2>8 DEF InOrder, Held
<1>8. Unread'
  <2>1. m \in Calls => ctx[m] = "none" /\ replies[m] = 0
    BY <1>3 DEF Contexts
  <2> QED
    BY <1>2, <1>3, <1>4, <2>1 DEF Unread, Extends, Note
<1>9. NothingIsMissed'
  <2>1. \E i \in DOMAIN inbox' : inbox'[i].kind = "message" /\ inbox'[i].arg = m
    BY <1>2 DEF Extends, Note
  <2>2. \A i \in DOMAIN inbox : i \in DOMAIN inbox' /\ inbox'[i] = inbox[i]
    BY <1>2 DEF Extends
  <2> QED
    BY <1>3, <1>4, <2>1, <2>2 DEF NothingIsMissed
<1>10. Matching'
  BY <1>4 DEF Matching
<1>11. Commanded'
  BY <1>3 DEF Commanded
<1>12. Contexts'
  <2>1. UNCHANGED <<queue, ctx, asked, replies>>
    BY <1>3
  <2>2. \A c \in Calls : (\A e \in Entries : c \notin owed'[e])
                        => (\A e \in Entries : c \notin owed[e])
    BY <1>4
  <2> QED
    BY <2>1, <2>2 DEF Contexts
<1> QED
  BY <1>5, <1>6, <1>7, <1>8, <1>9, <1>10, <1>11, <1>12

\* What was not taken by the bus is lost.
LEMMA LoseInv ==
  ASSUME Inv, Lose
  PROVE  Inv'
<1> USE DEF Inv
<1>1. /\ up' = FALSE /\ toBus' = <<>> /\ routed' = {}
      /\ UNCHANGED <<open, queue, draining, life, inbox, owed, seen, spoilt, ctx, asked,
                     replies, unsent>>
  BY DEF Lose, deliveryVars, callVars
<1>2. toBus' \in Seq([op : {"add", "remove"}, arg : Entries])
  BY <1>1
<1>3. TypeOK'
  BY <1>1, <1>2 DEF TypeOK
<1>4. Requests' /\ Served'
  BY <1>1 DEF Requests, Served, Asked, Told
<1>5. Commanded' /\ InOrder' /\ Matching' /\ Contexts' /\ Unread' /\ NothingIsMissed'
  BY <1>1 DEF Commanded, InOrder, Matching, Contexts, Unread, NothingIsMissed, Held
<1> QED
  BY <1>3, <1>4, <1>5

\* The entry is there before the messages for it.
LEMMA ReadAddedInv ==
  ASSUME Inv, NEW e \in Entries, ReadAdded(e)
  PROVE  Inv'
<1> USE DEF Inv
<1>1. /\ inbox' \in Seq(Notes)
      /\ Shifts(inbox', inbox, inbox[1])
      /\ inbox[1].kind = "added" /\ inbox[1].arg = e
      /\ open
      /\ UNCHANGED <<open, up, queue, draining, toBus, routed>>
  BY ReadFacts DEF ReadAdded
<1>2. /\ \A d \in Entries : d # e => life'[d] = life[d]
      /\ life[e] # "adding" => life'[e] = life[e]
      /\ life[e] = "adding" => life'[e] \in {"active", "failed"}
      /\ UNCHANGED <<owed, seen, spoilt, ctx, asked, replies, unsent>>
  BY Typed DEF ReadAdded, Domains, deliveryVars, callVars
<1>3. TypeOK'
  <2>1. life' \in [Entries -> Lives]
    BY DEF TypeOK, ReadAdded, Lives, HeldLives
  <2> QED
    BY <1>1, <1>2, <2>1 DEF TypeOK
<1>4. Commanded'
  BY <1>1, <1>2, QueueTyped DEF Commanded, QueueTypes
<1>5. Requests'
  BY <1>1, <1>2, ReadLeaves DEF Requests, Asked, Told, Shifts
<1>6. Served'
  <2>1. routed \subseteq Entries
    BY DEF TypeOK
  <2> QED
    BY <2>1, <1>1, <1>2, ReadLeaves DEF Held, HeldLives, Served
<1>7. InOrder'
  BY <1>1, <1>2, ReadLeaves DEF InOrder, Held, HeldLives
<1>8. Unread'
  BY <1>1, <1>2 DEF Unread, Shifts
<1>9. NothingIsMissed'
  BY <1>1, <1>2, ReadLeaves DEF NothingIsMissed
<1>10. Matching' /\ Contexts'
  BY <1>1, <1>2 DEF Matching, Contexts
<1> QED
  BY <1>3, <1>4, <1>5, <1>6, <1>7, <1>8, <1>9, <1>10

\* No message for the entry is left.
LEMMA ReadRemovedInv ==
  ASSUME Inv, NEW e \in Entries, ReadRemoved(e)
  PROVE  Inv'
<1> USE DEF Inv
<1>1. /\ inbox' \in Seq(Notes)
      /\ Shifts(inbox', inbox, inbox[1])
      /\ inbox[1].kind = "removed" /\ inbox[1].arg = e
      /\ open
      /\ UNCHANGED <<open, up, queue, draining, toBus, routed>>
  BY ReadFacts DEF ReadRemoved
<1>2. /\ \A d \in Entries : d # e => life'[d] = life[d]
      /\ life[e] # "removing" => life'[e] = life[e]
      /\ life[e] = "removing" => life'[e] = "gone"
      /\ UNCHANGED <<owed, seen, spoilt, ctx, asked, replies, unsent>>
  BY Typed DEF ReadRemoved, Domains, deliveryVars, callVars
<1>3. TypeOK'
  BY <1>1, <1>2 DEF TypeOK, ReadRemoved, Lives, HeldLives
<1>4. Commanded'
  BY <1>1, <1>2, QueueTyped DEF Commanded, QueueTypes
<1>5. Requests'
  BY <1>1, <1>2, ReadLeaves DEF Requests, Asked
<1>6. Served'
  <2>1. routed \subseteq Entries
    BY DEF TypeOK
  <2> QED
    BY <2>1, <1>1, <1>2, ReadLeaves DEF Held, HeldLives, Served, Told, Shifts
<1>7. InOrder'
  BY <1>1, <1>2, ReadLeaves DEF InOrder, Held, HeldLives
<1>8. Unread'
  BY <1>1, <1>2 DEF Unread, Shifts
<1>9. NothingIsMissed'
  BY <1>1, <1>2, ReadLeaves DEF NothingIsMissed
<1>10. Matching' /\ Contexts'
  BY <1>1, <1>2 DEF Matching, Contexts
<1> QED
  BY <1>3, <1>4, <1>5, <1>6, <1>7, <1>8, <1>9, <1>10

\* The entry failed, or is kept.
LEMMA ReadErrorInv ==
  ASSUME Inv, NEW e \in Entries, ReadError(e)
  PROVE  Inv'
<1> USE DEF Inv
<1>1. /\ inbox' \in Seq(Notes)
      /\ Shifts(inbox', inbox, inbox[1])
      /\ inbox[1].kind = "error" /\ inbox[1].arg = e
      /\ open
      /\ UNCHANGED <<open, up, queue, draining, toBus, routed>>
  BY ReadFacts DEF ReadError
<1>2. /\ \A d \in Entries : d # e => life'[d] = life[d]
      /\ life[e] \notin {"adding", "removing"} => life'[e] = life[e]
      /\ life[e] = "adding" => life'[e] = "failed"
      /\ life[e] = "removing" => life'[e] = "kept"
      /\ UNCHANGED <<owed, seen, spoilt, ctx, asked, replies, unsent>>
  BY Typed DEF ReadError, Domains, deliveryVars, callVars
<1>3. TypeOK'
  BY <1>1, <1>2 DEF TypeOK, ReadError, Lives, HeldLives
<1>4. Commanded'
  BY <1>1, <1>2, QueueTyped DEF Commanded, QueueTypes
<1>5. Requests'
  BY <1>1, <1>2, ReadLeaves DEF Requests, Asked
<1>6. Served'
  <2>1. routed \subseteq Entries
    BY DEF TypeOK
  <2> QED
    BY <2>1, <1>1, <1>2, ReadLeaves DEF Held, HeldLives, Served
<1>7. InOrder'
  BY <1>1, <1>2, ReadLeaves DEF InOrder, Held, HeldLives
<1>8. Unread'
  BY <1>1, <1>2 DEF Unread, Shifts
<1>9. NothingIsMissed'
  BY <1>1, <1>2, ReadLeaves DEF NothingIsMissed
<1>10. Matching' /\ Contexts'
  BY <1>1, <1>2 DEF Matching, Contexts
<1> QED
  BY <1>3, <1>4, <1>5, <1>6, <1>7, <1>8, <1>9, <1>10

\* What the filter does with a message, for every entry: those that hold it are
\* handed it, or nobody is, and then it was spoilt or was for nobody.
Filtered(m) ==
  LET to == {d \in For[m] : Held(d)} IN
  \/ HandTo(to, m) /\ spoilt' = spoilt
  \/ seen' = seen /\ spoilt' = spoilt \cup {m}
  \/ seen' = seen /\ spoilt' = spoilt /\ to = {}

LEMMA FilterFacts ==
  ASSUME Inv, NEW m \in Messages, Read("message", m), UNCHANGED <<life, owed>>,
         Filtered(m)
  PROVE  /\ inbox' \in Seq(Notes) /\ seen' \in [Entries -> SUBSET Messages]
         /\ spoilt' \in SUBSET Messages
         /\ UNCHANGED <<open, up, queue, draining, toBus, routed>>
         /\ Commanded' /\ Requests' /\ Served' /\ InOrder' /\ Matching' /\ NothingIsMissed'
<1> USE DEF Inv
<1>1. /\ inbox' \in Seq(Notes)
      /\ Shifts(inbox', inbox, inbox[1])
      /\ inbox[1].kind = "message" /\ inbox[1].arg = m
      /\ open
      /\ UNCHANGED <<open, up, queue, draining, toBus, routed>>
  BY ReadFacts
<1>2. /\ \A e \in Entries :
           /\ seen[e] \subseteq seen'[e]
           /\ e \in For[m] /\ Held(e) => m \in seen'[e] \/ m \in spoilt'
      /\ spoilt \subseteq spoilt'
  BY DEF HandTo, Filtered
<1>3. seen' \in [Entries -> SUBSET Messages] /\ spoilt' \in SUBSET Messages
  BY DEF HandTo, Filtered, TypeOK
<1>4. \A e \in Entries : m \in owed[e] /\ life[e] # "failed" => e \in For[m] /\ Held(e)
  <2>1. 1 \in DOMAIN inbox /\ \A j \in DOMAIN inbox : ~(j < 1)
    BY <1>1 DEF Shifts
  <2> QED
    BY <1>1, <2>1 DEF InOrder, Matching
<1>5. Commanded' /\ Matching'
  BY <1>1 DEF Commanded, Matching
<1>6. Requests'
  BY <1>1, ReadLeaves DEF Requests, Asked
<1>7. Served'
  <2>1. routed \subseteq Entries
    BY DEF TypeOK
  <2> QED
    BY <2>1, <1>1, ReadLeaves DEF Served, Held
<1>8. InOrder'
  BY <1>1, ReadLeaves DEF InOrder, Held
<1>9. NothingIsMissed'
  <2>1. \A e \in Entries :
          m \in owed[e] /\ life[e] # "failed" => m \in seen'[e] \/ m \in spoilt'
    BY <1>2, <1>4
  <2> QED
    BY <2>1, <1>1, <1>2, ReadLeaves DEF NothingIsMissed
<1> QED
  BY <1>1, <1>3, <1>5, <1>6, <1>7, <1>8, <1>9

\* The registration gets the call, or nobody does, or libdbus refuses it.
LEMMA FilterCallInv ==
  ASSUME Inv, NEW c \in Calls, FilterCall(c)
  PROVE  Inv'
<1> USE DEF Inv
<1>1. /\ Shifts(inbox', inbox, inbox[1])
      /\ inbox[1].kind = "message" /\ inbox[1].arg = c
  BY ReadFacts DEF FilterCall
<1>2. /\ inbox' \in Seq(Notes) /\ seen' \in [Entries -> SUBSET Messages]
      /\ spoilt' \in SUBSET Messages
      /\ UNCHANGED <<open, up, queue, draining, toBus, routed, life, owed, asked, unsent>>
      /\ Commanded' /\ Requests' /\ Served' /\ InOrder' /\ Matching' /\ NothingIsMissed'
  <2>1. Read("message", c) /\ UNCHANGED <<life, owed, asked, unsent>> /\ c \in Messages
    BY DEF FilterCall, Messages
  <2>2. Filtered(c)
    BY DEF FilterCall, Filtered
  <2> QED
    BY <2>1, <2>2, FilterFacts
<1>3. /\ ctx[c] = "none" /\ replies[c] = 0 /\ asked[c] = "no"
      /\ \E e \in Entries : c \in owed[e]
      /\ \A i \in DOMAIN inbox' : inbox'[i].kind = "message" => inbox'[i].arg # c
  BY <1>1 DEF Unread, Contexts, Shifts
<1>4. /\ \A d \in Calls : d # c => ctx'[d] = ctx[d] /\ replies'[d] = replies[d]
      /\ \/ ctx'[c] = "open" /\ replies'[c] = 0
         \/ ctx'[c] = "none" /\ replies'[c] \in 0 .. 1
  BY <1>3, Typed DEF FilterCall, Domains
<1>5. ctx' \in [Calls -> {"none", "open", "freed"}] /\ replies' \in [Calls -> Nat]
  <2>1. ctx' \in [Calls -> {"none", "open", "freed"}]
    BY DEF FilterCall, TypeOK
  <2>2. replies' = replies \/ replies' = [replies EXCEPT ![c] = @ + 1]
    BY DEF FilterCall
  <2>3. replies \in [Calls -> Nat]
    BY DEF TypeOK
  <2> QED
    BY <2>1, <2>2, <2>3
<1>6. TypeOK'
  BY <1>2, <1>5 DEF TypeOK
<1>7. Contexts'
  BY <1>2, <1>3, <1>4, QueueTyped, SMTT(30) DEF Contexts, QueueTypes
<1>8. Unread'
  BY <1>1, <1>2, <1>3, <1>4 DEF Unread, Shifts
<1> QED
  BY <1>2, <1>6, <1>7, <1>8

\* All subscriptions that are there get the signal, or none does.
LEMMA FilterSignalInv ==
  ASSUME Inv, NEW g \in Signals, FilterSignal(g)
  PROVE  Inv'
<1> USE DEF Inv
<1>1. Shifts(inbox', inbox, inbox[1])
  BY ReadFacts DEF FilterSignal
<1>2. /\ inbox' \in Seq(Notes) /\ seen' \in [Entries -> SUBSET Messages]
      /\ spoilt' \in SUBSET Messages
      /\ UNCHANGED <<open, up, queue, draining, toBus, routed, life, owed>>
      /\ Commanded' /\ Requests' /\ Served' /\ InOrder' /\ Matching' /\ NothingIsMissed'
  <2>1. Read("message", g) /\ UNCHANGED <<life, owed>> /\ g \in Messages
    BY DEF FilterSignal, Messages
  <2>2. Filtered(g)
    BY DEF FilterSignal, Filtered
  <2> QED
    BY <2>1, <2>2, FilterFacts
<1>3. UNCHANGED <<ctx, asked, replies, unsent>>
  BY DEF FilterSignal, callVars
<1>4. TypeOK'
  BY <1>2, <1>3 DEF TypeOK
<1>5. Contexts'
  BY <1>2, <1>3, SMTT(30) DEF Contexts
<1>6. Unread'
  BY <1>1, <1>2, <1>3 DEF Unread, Shifts
<1> QED
  BY <1>2, <1>4, <1>5, <1>6

LEMMA StutterInv == ASSUME Inv, UNCHANGED vars PROVE Inv'
BY DEF Inv, vars, busVars, deliveryVars, callVars, TypeOK, Commanded, Requests,
   Served, InOrder, Matching, Contexts, Unread, NothingIsMissed, Asked, Told, Held

LEMMA NextInv == Inv /\ [Next]_vars => Inv'
<1> SUFFICES ASSUME Inv, [Next]_vars PROVE Inv'
  OBVIOUS
<1>1. CASE ApplicationStep
  BY <1>1, AskAddInv, AskRemoveInv, AskEmitInv, AskAnswerInv, AskFreeInv, AskCloseInv
  DEF ApplicationStep
<1>2. CASE CommandStep
  BY <1>2, ExecAddInv, ExecRemoveInv, ExecEmitInv, ExecAnswerInv, ExecFreeInv,
     ExecCloseInv
  DEF CommandStep
<1>3. CASE BusStep
  BY <1>3, BusAddsInv, BusRemovesInv DEF BusStep
<1>4. CASE MessageStep
  BY <1>4, ReadAddedInv, ReadRemovedInv, ReadErrorInv, FilterCallInv, FilterSignalInv
  DEF MessageStep
<1>5. CASE \E e \in Entries : TimeOut(e)
  BY <1>5, TimeOutInv
<1>6. CASE \E m \in Messages : Deliver(m)
  BY <1>6, DeliverInv
<1>7. CASE Lose
  BY <1>7, LoseInv
<1>8. CASE UNCHANGED vars
  BY <1>8, StutterInv
<1> QED
  BY <1>1, <1>2, <1>3, <1>4, <1>5, <1>6, <1>7, <1>8 DEF Next

-----------------------------------------------------------------------------
(* Messages and entries they were not sent for.                            *)

\* Something the bus said of e is in the stream before its message i.
Before(kind, e, i) ==
  \E k \in DOMAIN inbox : k < i /\ inbox[k].kind = kind /\ inbox[k].arg = e

\* The bus routes to an entry from the reply that adds it to the one that removes
\* it, so that a message it did not send for the entry stands outside of them.
Timely ==
  open => \A e \in Entries :
    /\ up /\ life[e] \in {"active", "removing"} /\ e \notin routed => Told("removed", e)
    /\ up /\ life[e] = "adding" /\ Told("added", e) => e \in routed
    /\ \A i \in DOMAIN inbox :
         /\ inbox[i].kind = "message"
         /\ e \in For[inbox[i].arg]
         /\ inbox[i].arg \notin owed[e]
         => /\ life[e] \in {"active", "removing"} => Before("removed", e, i)
            /\ life[e] = "adding" => ~Before("added", e, i)

\* What a further element of the stream, or the reading of the first, does to the
\* places of the others.
LEMMA AppendedBefore ==
  ASSUME NEW n, Extends(inbox', inbox, n)
  PROVE  /\ \A kind, e : Told(kind, e)' <=> Told(kind, e) \/ (n.kind = kind /\ n.arg = e)
         /\ \A i \in DOMAIN inbox' :
              \/ /\ i \in DOMAIN inbox /\ inbox'[i] = inbox[i]
                 /\ \A kind, e : Before(kind, e, i)' <=> Before(kind, e, i)
              \/ inbox'[i] = n /\ \A kind, e : Before(kind, e, i)' <=> Told(kind, e)
<1>1. /\ Len(inbox) \in Nat /\ DOMAIN inbox = 1 .. Len(inbox)
      /\ DOMAIN inbox' = 1 .. (Len(inbox) + 1)
      /\ \A i \in DOMAIN inbox : inbox'[i] = inbox[i]
      /\ inbox'[Len(inbox) + 1] = n
  BY DEF Extends
<1>2. \A kind, e : Told(kind, e)' <=> Told(kind, e) \/ (n.kind = kind /\ n.arg = e)
  BY <1>1 DEF Told
<1>3. ASSUME NEW i \in DOMAIN inbox
      PROVE  \A kind, e : Before(kind, e, i)' <=> Before(kind, e, i)
  BY <1>1, <1>3 DEF Before
<1>4. ASSUME NEW i \in DOMAIN inbox', i \notin DOMAIN inbox
      PROVE  inbox'[i] = n /\ \A kind, e : Before(kind, e, i)' <=> Told(kind, e)
  <2>1. i = Len(inbox) + 1
    BY <1>1, <1>4
  <2>2. \A k \in DOMAIN inbox : k \in DOMAIN inbox' /\ k < i
    BY <1>1, <2>1
  <2>3. \A k \in DOMAIN inbox' : k < i => k \in DOMAIN inbox
    BY <1>1, <2>1
  <2> QED
    BY <1>1, <2>1, <2>2, <2>3 DEF Before, Told
<1> QED
  BY <1>1, <1>2, <1>3, <1>4

LEMMA ShiftedBefore ==
  ASSUME Shifts(inbox', inbox, inbox[1])
  PROVE  /\ 1 \in DOMAIN inbox /\ \A kind, e : ~Before(kind, e, 1)
         /\ \A kind, e :
              Told(kind, e) <=>
                Told(kind, e)' \/ (inbox[1].kind = kind /\ inbox[1].arg = e)
         /\ \A i \in DOMAIN inbox' :
              /\ i + 1 \in DOMAIN inbox /\ inbox'[i] = inbox[i + 1]
              /\ \A kind, e :
                   Before(kind, e, i + 1) <=>
                     Before(kind, e, i)' \/ (inbox[1].kind = kind /\ inbox[1].arg = e)
<1>1. /\ 1 \in DOMAIN inbox
      /\ \A k \in DOMAIN inbox : k \in Nat \ {0}
      /\ \A i \in DOMAIN inbox' : /\ i \in Nat \ {0}
                                  /\ i + 1 \in DOMAIN inbox /\ inbox'[i] = inbox[i + 1]
  BY DEF Shifts
<1>2. \A k \in DOMAIN inbox :
        k = 1 \/ \E i \in DOMAIN inbox' : k = i + 1 /\ inbox'[i] = inbox[k]
  BY ShiftsBack
<1>3. \A kind, e : ~Before(kind, e, 1)
  BY <1>1 DEF Before
<1>4. \A kind, e :
        Told(kind, e) <=> Told(kind, e)' \/ (inbox[1].kind = kind /\ inbox[1].arg = e)
  BY <1>1, <1>2 DEF Told
<1>5. ASSUME NEW i \in DOMAIN inbox', NEW kind, NEW e
      PROVE  Before(kind, e, i + 1) <=>
               Before(kind, e, i)' \/ (inbox[1].kind = kind /\ inbox[1].arg = e)
  <2>1. ASSUME Before(kind, e, i + 1)
        PROVE  Before(kind, e, i)' \/ (inbox[1].kind = kind /\ inbox[1].arg = e)
    <3>1. PICK k \in DOMAIN inbox : k < i + 1 /\ inbox[k].kind = kind /\ inbox[k].arg = e
      BY <2>1 DEF Before
    <3>2. CASE k = 1
      BY <3>1, <3>2
    <3>3. CASE k # 1
      <4>1. PICK j \in DOMAIN inbox' : k = j + 1 /\ inbox'[j] = inbox[k]
        BY <1>2, <3>3
      <4>2. j < i
        BY <1>1, <3>1, <4>1
      <4> QED
        BY <3>1, <4>1, <4>2 DEF Before
    <3> QED
      BY <3>2, <3>3
  <2>2. ASSUME Before(kind, e, i)'
        PROVE  Before(kind, e, i + 1)
    <3>1. PICK j \in DOMAIN inbox' : j < i /\ inbox'[j].kind = kind /\ inbox'[j].arg = e
      BY <2>2 DEF Before
    <3>2. j + 1 \in DOMAIN inbox /\ j + 1 < i + 1 /\ inbox[j + 1] = inbox'[j]
      BY <1>1, <3>1
    <3> QED
      BY <3>1, <3>2 DEF Before
  <2>3. ASSUME inbox[1].kind = kind, inbox[1].arg = e
        PROVE  Before(kind, e, i + 1)
    BY <1>1, <2>3 DEF Before
  <2> QED
    BY <2>1, <2>2, <2>3
<1> QED
  BY <1>1, <1>3, <1>4, <1>5

\* Calls of the application change no entry but one that is new.
LEMMA AskTimely ==
  ASSUME Inv, Timely, ApplicationStep
  PROVE  Timely'
<1>1. /\ UNCHANGED <<open, up, inbox, routed, owed>>
      /\ \A e \in Entries : life'[e] = life[e] \/ life'[e] = "queued"
  BY Typed DEF Inv, ApplicationStep, AskAdd, AskRemove, AskEmit, AskClose, AskAnswer,
     AskFree, Submit, busVars, deliveryVars, Domains
<1> QED
  BY <1>1 DEF Timely, Told, Before

\* A command sends a request; nothing was said yet of an entry it asks to add.
LEMMA CommandTimely ==
  ASSUME Inv, Timely, CommandStep
  PROVE  Timely'
<1> USE DEF Inv
<1>1. CASE ExecClose
  BY <1>1 DEF ExecClose, Timely
<1>2. ASSUME NEW e \in Entries, ExecAdd(e)
      PROVE  Timely'
  <2>1. /\ UNCHANGED <<open, up, inbox, routed, owed>>
        /\ \A d \in Entries : d # e => life'[d] = life[d]
        /\ life'[e] \in {"adding", "failed"}
    BY <1>2, Typed DEF ExecAdd, deliveryVars, Domains
  <2>2. open => life[e] = "queued"
    <3>1. Shifts(queue', queue, [op |-> "add", arg |-> e])
      BY <1>2, ExecuteFacts DEF ExecAdd
    <3> QED
      BY <3>1 DEF Commanded, Shifts
  <2>3. open => ~Told("added", e) /\ \A i \in DOMAIN inbox : ~Before("added", e, i)
    BY <2>2 DEF Requests, Told, Before
  <2> QED
    BY <2>1, <2>3 DEF Timely, Told, Before
<1>3. ASSUME NEW e \in Entries, ExecRemove(e)
      PROVE  Timely'
  <2>1. /\ UNCHANGED <<open, up, inbox, routed, owed>>
        /\ \A d \in Entries : d # e => life'[d] = life[d]
        /\ life'[e] = life[e] \/ life'[e] \in {"removing", "kept"}
    BY <1>3, Typed DEF ExecRemove, deliveryVars, Domains
  <2>2. open => life[e] = "active"
    <3>1. Shifts(queue', queue, [op |-> "remove", arg |-> e])
      BY <1>3, ExecuteFacts DEF ExecRemove
    <3> QED
      BY <3>1 DEF Commanded, Shifts
  <2> QED
    BY <2>1, <2>2 DEF Timely, Told, Before
<1>4. CASE \/ \E s \in Registrations : ExecEmit(s)
           \/ \E c \in Calls : ExecAnswer(c) \/ ExecFree(c)
  <2>1. UNCHANGED <<open, up, inbox, routed, owed, life>>
    BY <1>4 DEF ExecEmit, ExecAnswer, ExecFree, busVars, deliveryVars
  <2> QED
    BY <2>1 DEF Timely, Told, Before
<1> QED
  BY <1>1, <1>2, <1>3, <1>4 DEF CommandStep

\* The bus starts and stops to route when it answers.
LEMMA BusTimely ==
  ASSUME Inv, Timely, NEW e \in Entries, BusAdds(e) \/ BusRemoves(e) \/ TimeOut(e)
  PROVE  Timely'
<1> USE DEF Inv
<1>1. UNCHANGED <<open, up, owed, life>>
  BY BusTakesFacts DEF BusAdds, BusRemoves, TimeOut, deliveryVars
<1>2. \/ BusAdds(e) /\ routed' = routed \cup {e} /\ inbox' = Append(inbox, Note("added", e, {}))
      \/ BusRemoves(e) /\ routed' = routed \ {e} /\ inbox' = Append(inbox, Note("removed", e, {}))
      \/ routed' = routed /\ inbox' = Append(inbox, Note("error", e, {}))
  BY DEF BusAdds, BusRemoves, TimeOut
<1>3. PICK kind \in {"added", "removed", "error"} :
        /\ Extends(inbox', inbox, Note(kind, e, {}))
        /\ kind = "added" => routed' = routed \cup {e}
        /\ kind = "removed" => routed' = routed \ {e} /\ BusRemoves(e)
        /\ kind = "error" => routed' = routed
  <2>1. \A kind \in {"added", "removed", "error"} : Note(kind, e, {}) \in Notes
    BY DEF Note, Notes
  <2> QED
    BY <1>2, <2>1, SentFacts
<1>4. kind = "removed" /\ open => life[e] # "adding"
  <2>1. ASSUME BusRemoves(e) PROVE Asked("remove", e)
    <3>1. Shifts(toBus', toBus, [op |-> "remove", arg |-> e])
      BY <2>1, BusTakesFacts DEF BusRemoves
    <3> QED
      BY <3>1 DEF Asked, Shifts
  <2> QED
    BY <1>3, <2>1 DEF Requests
<1>5. /\ Note(kind, e, {}).kind = kind /\ Note(kind, e, {}).arg = e
  BY DEF Note
<1>6. ASSUME open, NEW d \in Entries
      PROVE  /\ up /\ life[d] \in {"active", "removing"} /\ d \notin routed'
                => Told("removed", d)'
             /\ up /\ life[d] = "adding" /\ Told("added", d)' => d \in routed'
  BY <1>3, <1>4, <1>5, <1>6, AppendedBefore DEF Timely
<1>7. ASSUME open, NEW d \in Entries, NEW i \in DOMAIN inbox',
             inbox'[i].kind = "message",
             d \in For[inbox'[i].arg], inbox'[i].arg \notin owed[d]
      PROVE  /\ life[d] \in {"active", "removing"} => Before("removed", d, i)'
             /\ life[d] = "adding" => ~Before("added", d, i)'
  BY <1>3, <1>5, <1>7, AppendedBefore DEF Timely
<1> QED
  BY <1>1, <1>6, <1>7 DEF Timely

\* A message the bus sends for other entries comes before the one that adds an
\* entry or after the one that removes it.
LEMMA DeliverTimely ==
  ASSUME Inv, Timely, NEW m \in Messages, Deliver(m)
  PROVE  Timely'
<1> USE DEF Inv
<1>1. /\ UNCHANGED <<open, up, life, routed>> /\ up
      /\ \A e \in Entries :
           owed'[e] = IF e \in For[m] \cap routed THEN owed[e] \cup {m} ELSE owed[e]
  BY DEF Deliver
<1>2. Extends(inbox', inbox, Note("message", m, For[m] \cap routed))
  <2>1. For[m] \cap routed \in SUBSET Entries
    BY DEF TypeOK
  <2>2. Note("message", m, For[m] \cap routed) \in Notes
    BY <2>1 DEF Note, Notes
  <2> QED
    BY <2>2, SentFacts DEF Deliver
<1>3. /\ Note("message", m, For[m] \cap routed).kind = "message"
      /\ Note("message", m, For[m] \cap routed).arg = m
  BY DEF Note
<1>4. \A e : (Told("added", e)' <=> Told("added", e))
             /\ (Told("removed", e)' <=> Told("removed", e))
  BY <1>2, <1>3, AppendedBefore
<1>5. ASSUME open, NEW e \in Entries, NEW i \in DOMAIN inbox',
             inbox'[i].kind = "message",
             e \in For[inbox'[i].arg], inbox'[i].arg \notin owed'[e]
      PROVE  /\ life[e] \in {"active", "removing"} => Before("removed", e, i)'
             /\ life[e] = "adding" => ~Before("added", e, i)'
  <2>1. CASE /\ i \in DOMAIN inbox /\ inbox'[i] = inbox[i]
             /\ \A kind, d : Before(kind, d, i)' <=> Before(kind, d, i)
    BY <1>1, <1>5, <2>1 DEF Timely
  <2>2. CASE /\ inbox'[i] = Note("message", m, For[m] \cap routed)
             /\ \A kind, d : Before(kind, d, i)' <=> Told(kind, d)
    <3>1. e \notin routed
      BY <1>1, <1>3, <1>5, <2>2
    <3> QED
      BY <1>1, <1>5, <2>2, <3>1 DEF Timely
  <2> QED
    BY <1>2, <2>1, <2>2, AppendedBefore
<1> QED
  BY <1>1, <1>4, <1>5 DEF Timely

\* A reply is read: the entry it adds was routed to from there on, and the one it
\* removes is gone.
LEMMA MessageTimely ==
  ASSUME Inv, Timely, MessageStep
  PROVE  Timely'
<1> USE DEF Inv
<1>1. ASSUME NEW e \in Entries, ReadAdded(e)
      PROVE  Timely'
  <2>1. /\ Shifts(inbox', inbox, inbox[1])
        /\ inbox[1].kind = "added" /\ inbox[1].arg = e
        /\ UNCHANGED <<open, up, routed, owed>> /\ open
    BY <1>1, ReadFacts DEF ReadAdded, deliveryVars
  <2>2. /\ \A d \in Entries : d # e => life'[d] = life[d]
        /\ life[e] # "adding" => life'[e] = life[e]
        /\ life[e] = "adding" => life'[e] = "failed" \/ (life'[e] = "active" /\ up)
    BY <1>1, Typed DEF ReadAdded, Domains
  <2>3. life[e] = "adding" => ~Told("removed", e)
    BY <2>1 DEF Requests
  <2> QED
    BY <2>1, <2>2, <2>3, ShiftedBefore DEF Timely
<1>2. ASSUME NEW e \in Entries, ReadRemoved(e)
      PROVE  Timely'
  <2>1. /\ Shifts(inbox', inbox, inbox[1])
        /\ inbox[1].kind = "removed" /\ inbox[1].arg = e
        /\ UNCHANGED <<open, up, routed, owed>> /\ open
    BY <1>2, ReadFacts DEF ReadRemoved, deliveryVars
  <2>2. /\ \A d \in Entries : d # e => life'[d] = life[d]
        /\ life'[e] = IF life[e] # "removing" THEN life[e] ELSE "gone"
    BY <1>2, Typed DEF ReadRemoved, Domains
  <2>3. Told("removed", e)
    BY <2>1, ShiftedBefore
  <2>4. life'[e] \notin {"adding", "active", "removing"}
    BY <2>1, <2>2, <2>3 DEF Requests
  <2> QED
    BY <2>1, <2>2, <2>4, ShiftedBefore DEF Timely
<1>3. ASSUME NEW e \in Entries, ReadError(e)
      PROVE  Timely'
  <2>1. /\ Shifts(inbox', inbox, inbox[1])
        /\ inbox[1].kind = "error"
        /\ UNCHANGED <<open, up, routed, owed>> /\ open
    BY <1>3, ReadFacts DEF ReadError, deliveryVars
  <2>2. /\ \A d \in Entries : d # e => life'[d] = life[d]
        /\ life'[e] = life[e] \/ life'[e] \in {"failed", "kept"}
    BY <1>3, Typed DEF ReadError, Domains
  <2> QED
    BY <2>1, <2>2, ShiftedBefore DEF Timely
<1>4. CASE \/ \E c \in Calls : FilterCall(c)
           \/ \E g \in Signals : FilterSignal(g)
  <2>1. /\ Shifts(inbox', inbox, inbox[1])
        /\ inbox[1].kind = "message"
        /\ UNCHANGED <<open, up, routed, owed, life>>
    BY <1>4, ReadFacts DEF FilterCall, FilterSignal
  <2> QED
    BY <2>1, ShiftedBefore DEF Timely
<1> QED
  BY <1>1, <1>2, <1>3, <1>4 DEF MessageStep

LEMMA TimelyInit == Init => Timely
BY DEF Init, Timely

LEMMA TimelyNext == Inv /\ Timely /\ [Next]_vars => Timely'
<1> SUFFICES ASSUME Inv, Timely, [Next]_vars PROVE Timely'
  OBVIOUS
<1>1. CASE Lose
  <2>1. /\ UNCHANGED <<open, life, inbox, owed>> /\ ~up'
    BY <1>1 DEF Lose, deliveryVars
  <2> QED
    BY <2>1 DEF Timely, Told, Before
<1>2. CASE UNCHANGED vars
  BY <1>2 DEF vars, busVars, deliveryVars, Timely, Told, Before
<1>3. CASE BusStep \/ \E e \in Entries : TimeOut(e)
  BY <1>3, BusTimely DEF BusStep
<1>4. CASE \E m \in Messages : Deliver(m)
  BY <1>4, DeliverTimely
<1> QED
  BY <1>1, <1>2, <1>3, <1>4, AskTimely, CommandTimely, MessageTimely DEF Next

\* Messages that wait were handed to nobody.
Handed ==
  /\ HandedOnce
  /\ \A e \in Entries : \A m \in seen[e] : \E d \in Entries : m \in owed[d]

LEMMA HandedInit == Init => Handed
BY DEF Init, Handed, HandedOnce

LEMMA HandedNext == Inv /\ Handed /\ [Next]_vars => Handed'
<1> SUFFICES ASSUME Inv, Handed, [Next]_vars PROVE Handed'
  OBVIOUS
<1> USE DEF Inv
<1>1. CASE UNCHANGED <<inbox, seen, owed>>
  BY <1>1 DEF Handed, HandedOnce
<1>2. CASE ExecClose
  BY <1>2 DEF ExecClose, deliveryVars, Handed, HandedOnce
<1>3. ASSUME NEW e \in Entries, BusAdds(e) \/ BusRemoves(e) \/ TimeOut(e)
      PROVE  Handed'
  <2>1. UNCHANGED <<seen, owed>>
    BY <1>3, BusTakesFacts DEF BusAdds, BusRemoves, TimeOut, deliveryVars
  <2>2. PICK kind \in {"added", "removed", "error"} :
          Extends(inbox', inbox, Note(kind, e, {}))
    <3>1. \A kind \in {"added", "removed", "error"} : Note(kind, e, {}) \in Notes
      BY DEF Note, Notes
    <3> QED
      BY <1>3, <3>1, SentFacts DEF BusAdds, BusRemoves, TimeOut
  <2> QED
    BY <2>1, <2>2, AppendedBefore DEF Handed, HandedOnce, Note
<1>4. ASSUME NEW m \in Messages, Deliver(m)
      PROVE  Handed'
  <2>1. /\ seen' = seen
        /\ \A e \in Entries : m \notin owed[e] /\ owed[e] \subseteq owed'[e]
    BY <1>4 DEF Deliver
  <2>2. Extends(inbox', inbox, Note("message", m, For[m] \cap routed))
    <3>1. For[m] \cap routed \in SUBSET Entries
      BY DEF TypeOK
    <3>2. Note("message", m, For[m] \cap routed) \in Notes
      BY <3>1 DEF Note, Notes
    <3> QED
      BY <1>4, <3>2, SentFacts DEF Deliver
  <2>3. \A e \in Entries : m \notin seen[e]
    BY <2>1 DEF Handed
  <2> QED
    BY <2>1, <2>2, <2>3, AppendedBefore DEF Handed, HandedOnce, Note
<1>5. ASSUME NEW kind, NEW x, Read(kind, x), UNCHANGED <<seen, owed>>
      PROVE  Handed'
  BY <1>5, ReadFacts DEF Shifts, Handed, HandedOnce
<1>6. ASSUME NEW m \in Messages, Read("message", m), owed' = owed,
             HandTo({d \in For[m] : Held(d)}, m)
      PROVE  Handed'
  <2>1. /\ Shifts(inbox', inbox, inbox[1])
        /\ inbox[1].kind = "message" /\ inbox[1].arg = m
    BY <1>6, ReadFacts
  <2>2. \A e \in Entries : seen'[e] = seen[e] \/ seen'[e] = seen[e] \cup {m}
    BY <1>6 DEF HandTo
  <2>3. /\ \E e \in Entries : m \in owed[e]
        /\ \A i \in DOMAIN inbox' : inbox'[i].kind = "message" => inbox'[i].arg # m
    BY <2>1 DEF Unread, Shifts
  <2> QED
    BY <1>6, <2>1, <2>2, <2>3 DEF Handed, HandedOnce, Shifts
<1>7. CASE ApplicationStep
  BY <1>1, <1>7
  DEF ApplicationStep, AskAdd, AskRemove, AskEmit, AskClose, AskAnswer, AskFree,
      busVars, deliveryVars
<1>8. CASE CommandStep
  BY <1>1, <1>2, <1>8
  DEF CommandStep, ExecAdd, ExecRemove, ExecEmit, ExecAnswer, ExecFree, busVars,
      deliveryVars
<1>9. CASE MessageStep
  <2>1. ASSUME NEW c \in Calls, FilterCall(c) PROVE Handed'
    BY <1>5, <1>6, <2>1 DEF FilterCall, Messages
  <2>2. ASSUME NEW g \in Signals, FilterSignal(g) PROVE Handed'
    BY <1>5, <1>6, <2>2 DEF FilterSignal, Messages
  <2>3. ASSUME NEW e \in Entries, ReadAdded(e) \/ ReadRemoved(e) \/ ReadError(e)
        PROVE  Handed'
    BY <1>5, <2>3 DEF ReadAdded, ReadRemoved, ReadError, deliveryVars
  <2> QED
    BY <1>9, <2>1, <2>2, <2>3 DEF MessageStep
<1>10. CASE Lose \/ UNCHANGED vars
  BY <1>1, <1>10 DEF Lose, vars, busVars, deliveryVars
<1> QED
  BY <1>3, <1>4, <1>7, <1>8, <1>9, <1>10 DEF Next, BusStep

-----------------------------------------------------------------------------
(* What the application asked for a call.                                  *)

\* Contexts says that an answer that waits is the call's first, and what is behind
\* it; this says that it does wait.
LEMMA AskedInit == Init => AskedIsUnderWay
BY DEF Init, AskedIsUnderWay

LEMMA AskedNext == Inv /\ AskedIsUnderWay /\ [Next]_vars => AskedIsUnderWay'
<1> SUFFICES ASSUME Inv, AskedIsUnderWay, [Next]_vars PROVE AskedIsUnderWay'
  OBVIOUS
<1> USE DEF Inv
<1>1. ASSUME NEW op, NEW x, Submit(op, x), [op |-> op, arg |-> x] \in Commands
      PROVE  /\ \A o, y : Queued(o, y) => Queued(o, y)'
             /\ Queued(op, x)'
  BY <1>1, SubmitFacts DEF Queued, Extends
<1>2. ASSUME NEW op, NEW x, Execute(op, x)
      PROVE  \A o, y : Queued(o, y) => Queued(o, y)' \/ (o = op /\ y = x)
  <2>1. Shifts(queue', queue, [op |-> op, arg |-> x])
    BY <1>2, ExecuteFacts
  <2>2. \A i \in DOMAIN queue :
          i = 1 \/ \E k \in DOMAIN queue' : i = k + 1 /\ queue'[k] = queue[i]
    BY <2>1, ShiftsBack
  <2>3. queue[1] = [op |-> op, arg |-> x]
    BY <2>1 DEF Shifts
  <2>4. \A o, y : [op |-> o, arg |-> y].op = o /\ [op |-> o, arg |-> y].arg = y
    OBVIOUS
  <2> QED
    BY <2>2, <2>3, <2>4 DEF Queued
<1>3. ASSUME UNCHANGED <<ctx, asked, replies, unsent>>, open' => open, up' => up,
             \A c \in Calls, op \in {"answer", "free"} : Queued(op, c) => Queued(op, c)'
      PROVE  AskedIsUnderWay'
  BY <1>3 DEF AskedIsUnderWay
<1>4. CASE ApplicationStep
  <2>1. ASSUME NEW c \in Calls, AskAnswer(c) PROVE AskedIsUnderWay'
    <3>1. [op |-> "answer", arg |-> c] \in Commands
      BY DEF Commands
    <3>2. /\ asked[c] = "no" /\ asked'[c] = "answered"
          /\ \A d \in Calls : d # c => asked'[d] = asked[d]
          /\ UNCHANGED <<open, up, ctx, replies, unsent>>
      BY <2>1, Typed DEF AskAnswer, Domains
    <3> QED
      BY <1>1, <2>1, <3>1, <3>2 DEF AskAnswer, AskedIsUnderWay
  <2>2. ASSUME NEW c \in Calls, AskFree(c) PROVE AskedIsUnderWay'
    <3>1. [op |-> "free", arg |-> c] \in Commands
      BY DEF Commands
    <3>2. /\ asked'[c] = "freed"
          /\ \A d \in Calls : d # c => asked'[d] = asked[d]
          /\ UNCHANGED <<open, up, ctx, replies, unsent>>
      BY <2>2, Typed DEF AskFree, Domains
    <3> QED
      BY <1>1, <2>2, <3>1, <3>2 DEF AskFree, AskedIsUnderWay
  <2>3. CASE \/ \E e \in Entries : AskAdd(e) \/ AskRemove(e)
             \/ \E s \in Registrations : AskEmit(s)
             \/ AskClose
    <3>1. /\ \A e \in Entries : /\ [op |-> "add", arg |-> e] \in Commands
                                /\ [op |-> "remove", arg |-> e] \in Commands
          /\ \A s \in Registrations : [op |-> "emit", arg |-> s] \in Commands
          /\ [op |-> "close", arg |-> "conn"] \in Commands
      BY DEF Commands
    <3>2. \A o, y : Queued(o, y) => Queued(o, y)'
      BY <1>1, <2>3, <3>1 DEF AskAdd, AskRemove, AskEmit, AskClose
    <3>3. UNCHANGED <<open, up, ctx, asked, replies, unsent>>
      BY <2>3 DEF AskAdd, AskRemove, AskEmit, AskClose, callVars
    <3> QED
      BY <1>3, <3>2, <3>3
  <2> QED
    BY <1>4, <2>1, <2>2, <2>3 DEF ApplicationStep
<1>5. CASE CommandStep
  <2>1. ASSUME NEW c \in Calls, ExecAnswer(c) PROVE AskedIsUnderWay'
    <3>1. replies[c] = 0
      <4>1. Shifts(queue', queue, [op |-> "answer", arg |-> c])
        BY <2>1, ExecuteFacts DEF ExecAnswer
      <4> QED
        BY <4>1 DEF Contexts, Shifts
    <3>2. /\ UNCHANGED <<open, up, ctx, asked>>
          /\ \A d \in Calls : d # c => replies'[d] = replies[d]
          /\ unsent \subseteq unsent'
          /\ open /\ up => replies'[c] = 1 \/ c \in unsent'
      BY <2>1, <3>1, Typed DEF ExecAnswer, Domains
    <3>3. \A o, y : Queued(o, y) => Queued(o, y)' \/ (o = "answer" /\ y = c)
      BY <1>2, <2>1 DEF ExecAnswer
    <3> QED
      BY <3>2, <3>3 DEF AskedIsUnderWay
  <2>2. ASSUME NEW c \in Calls, ExecFree(c) PROVE AskedIsUnderWay'
    <3>1. /\ UNCHANGED <<open, up, replies, asked, unsent>>
          /\ \A d \in Calls : d # c => ctx'[d] = ctx[d]
          /\ ctx'[c] = "freed"
      BY <2>2, Typed DEF ExecFree, Domains
    <3>2. \A o, y : Queued(o, y) => Queued(o, y)' \/ (o = "free" /\ y = c)
      BY <1>2, <2>2 DEF ExecFree
    <3> QED
      BY <3>1, <3>2 DEF AskedIsUnderWay
  <2>3. CASE \/ \E e \in Entries : ExecAdd(e) \/ ExecRemove(e)
             \/ \E s \in Registrations : ExecEmit(s)
             \/ ExecClose
    <3>1. \A c \in Calls, op \in {"answer", "free"} : Queued(op, c) => Queued(op, c)'
      BY <1>2, <2>3 DEF ExecAdd, ExecRemove, ExecEmit, ExecClose
    <3>2. UNCHANGED <<ctx, asked, replies, unsent>> /\ (open' => open) /\ (up' => up)
      BY <2>3 DEF ExecAdd, ExecRemove, ExecEmit, ExecClose, callVars
    <3> QED
      BY <1>3, <3>1, <3>2
  <2> QED
    BY <1>5, <2>1, <2>2, <2>3 DEF CommandStep
<1>6. ASSUME UNCHANGED <<queue, ctx, asked, replies, unsent>>, open' => open, up' => up
      PROVE  AskedIsUnderWay'
  BY <1>3, <1>6 DEF Queued
<1>7. CASE MessageStep
  <2>1. ASSUME NEW c \in Calls, FilterCall(c) PROVE AskedIsUnderWay'
    <3>1. /\ 1 \in DOMAIN inbox /\ inbox[1].kind = "message" /\ inbox[1].arg = c
          /\ UNCHANGED <<open, up, queue>>
      BY <2>1, ReadFacts DEF FilterCall, Shifts
    <3>2. asked[c] = "no"
      BY <3>1 DEF Unread, Contexts
    <3>3. /\ UNCHANGED <<asked, unsent>>
          /\ \A d \in Calls : d # c => ctx'[d] = ctx[d] /\ replies'[d] = replies[d]
      BY <2>1, Typed DEF FilterCall, Domains
    <3> QED
      BY <3>1, <3>2, <3>3 DEF AskedIsUnderWay, Queued
  <2>2. CASE \/ \E e \in Entries : ReadAdded(e) \/ ReadRemoved(e) \/ ReadError(e)
             \/ \E g \in Signals : FilterSignal(g)
    BY <1>6, <2>2 DEF ReadAdded, ReadRemoved, ReadError, FilterSignal, Read, callVars
  <2> QED
    BY <1>7, <2>1, <2>2 DEF MessageStep
<1>8. CASE BusStep \/ (\E e \in Entries : TimeOut(e))
  BY <1>6, <1>8 DEF BusStep, BusAdds, BusRemoves, BusTakes, TimeOut, callVars
<1>9. CASE \E m \in Messages : Deliver(m)
  BY <1>6, <1>9 DEF Deliver, callVars
<1>10. CASE Lose
  BY <1>6, <1>10 DEF Lose, callVars
<1>11. CASE UNCHANGED vars
  BY <1>6, <1>11 DEF vars, callVars
<1> QED
  BY <1>4, <1>5, <1>7, <1>8, <1>9, <1>10, <1>11 DEF Next

-----------------------------------------------------------------------------
(* Theorems.                                                               *)

\* The inductive invariant: how a message and a call stand in the two streams
\* and the queue, whatever is added, removed, answered, closed or lost.
THEOREM Invariance == Spec => []Inv
BY InitInv, NextInv, PTL DEF Spec

\* Services.TypeOK: an entry in a container belongs to an open connection.
THEOREM TypeCorrect == Spec => []TypeOK
<1>1. Inv => TypeOK
  BY DEF Inv
<1> QED
  BY Invariance, <1>1, PTL

\* Services.NothingIsMissed: the registration or subscription is in its
\* container when messageFilter dispatches a message the bus sent because of it,
\* and its callback gets it unless memory ran out or it cannot be decoded.
THEOREM NothingIsMissedCorrect == Spec => []NothingIsMissed
<1>1. Inv => NothingIsMissed
  BY DEF Inv
<1> QED
  BY Invariance, <1>1, PTL

\* Services.ContextIsAlive: no ReturnResultCmd, ReturnErrorCmd or
\* FreeRequestContextCmd finds its RequestContext deleted.
THEOREM ContextIsAliveCorrect == Spec => []ContextIsAlive
<1>1. Inv => ContextIsAlive
  BY DEF Inv, Contexts, ContextIsAlive
<1> QED
  BY Invariance, <1>1, PTL

\* Services.RepliedOnce: a caller does not get a second reply, from libdbus or
\* from the application.
THEOREM RepliedOnceCorrect == Spec => []RepliedOnce
<1>1. Inv => RepliedOnce
  <2> SUFFICES ASSUME Inv PROVE RepliedOnce
    OBVIOUS
  <2>1. \A c \in Calls : replies[c] <= 1
    BY DEF Inv, Contexts
  <2>2. \A c \in Calls : Queued("answer", c) => replies[c] = 0
    BY QueuedFacts DEF Inv, Contexts
  <2> QED
    BY <2>1, <2>2 DEF RepliedOnce
<1> QED
  BY Invariance, <1>1, PTL

\* Services.AskedIsUnderWay: what the application asked for a call is queued until
\* it is done, and an answer is sent unless the connection was closed or lost or
\* sendReply or sendError had no memory for it.
THEOREM AskedIsUnderWayCorrect == Spec => []AskedIsUnderWay
BY AskedInit, AskedNext, Invariance, PTL DEF Spec

LEMMA TimelyInvariance == Spec => [](Inv /\ Timely /\ Handed)
BY TimelyInit, TimelyNext, HandedInit, HandedNext, Invariance, PTL DEF Spec

\* Services.HandedOnce: messageFilter runs once for each message.
THEOREM HandedOnceCorrect == Spec => []HandedOnce
<1>1. Handed => HandedOnce
  BY DEF Handed
<1> QED
  BY TimelyInvariance, <1>1, PTL

\* Services.DeliveriesAreOwed: a callback gets no message the bus did not send
\* because of its entry, unless the removal of the entry timed out or failed.
THEOREM DeliveriesAreOwedCorrect == Spec => DeliveriesAreOwed
<1> DEFINE Owed == \A e \in Entries : \A m \in seen'[e] \ seen[e] :
                     m \in owed[e] \/ life[e] = "kept"
<1>1. Inv /\ Timely /\ [Next]_vars => [Owed]_vars
  <2> SUFFICES ASSUME Inv, Timely, Next PROVE Owed
    OBVIOUS
  <2>1. ASSUME NEW m \in Messages, Read("message", m),
               HandTo({d \in For[m] : Held(d)}, m)
        PROVE  Owed
    <3>1. /\ Shifts(inbox', inbox, inbox[1]) /\ open
          /\ inbox[1].kind = "message" /\ inbox[1].arg = m
      BY <2>1, ReadFacts DEF Inv
    <3>2. 1 \in DOMAIN inbox /\ \A kind, e : ~Before(kind, e, 1)
      BY <3>1, ShiftedBefore
    <3>3. \A e \in Entries :
            seen'[e] = IF e \in For[m] /\ Held(e) THEN seen[e] \cup {m} ELSE seen[e]
      BY <2>1 DEF HandTo
    <3>4. \A e \in Entries : e \in For[m] /\ Held(e) => m \in owed[e] \/ life[e] = "kept"
      BY <3>1, <3>2 DEF Timely, Held, HeldLives
    <3> QED
      BY <3>3, <3>4
  <2>2. CASE seen' = seen
    BY <2>2
  <2>3. CASE MessageStep
    <3>1. ASSUME NEW c \in Calls, FilterCall(c) PROVE Owed
      BY <2>1, <2>2, <3>1 DEF FilterCall, Messages
    <3>2. ASSUME NEW g \in Signals, FilterSignal(g) PROVE Owed
      BY <2>1, <2>2, <3>2 DEF FilterSignal, Messages
    <3>3. ASSUME NEW e \in Entries, ReadAdded(e) \/ ReadRemoved(e) \/ ReadError(e)
          PROVE  Owed
      BY <2>2, <3>3 DEF ReadAdded, ReadRemoved, ReadError, deliveryVars
    <3> QED
      BY <2>3, <3>1, <3>2, <3>3 DEF MessageStep
  <2>4. CASE ~MessageStep
    BY <2>2, <2>4
    DEF Next, ApplicationStep, CommandStep, BusStep, AskAdd, AskRemove, AskEmit,
        AskClose, AskAnswer, AskFree, ExecAdd, ExecRemove, ExecEmit, ExecAnswer,
        ExecFree, ExecClose, BusAdds, BusRemoves, BusTakes, TimeOut, Deliver, Lose,
        deliveryVars
  <2> QED
    BY <2>3, <2>4
<1>2. DeliveriesAreOwed <=> [][Owed]_vars
  BY PTL DEF DeliveriesAreOwed
<1> QED
  BY <1>1, <1>2, TimelyInvariance, PTL DEF Spec

=============================================================================
