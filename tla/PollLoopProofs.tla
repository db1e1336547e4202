---------------------------- MODULE PollLoopProofs ----------------------------
(***************************************************************************)
(* Theorems about PollLoop for every number of watches, descriptors and    *)
(* timeouts.  The invariant says, besides the properties, in which part of *)
(* the loop the collected lists may be filled: handlers run only where     *)
(* expired is empty, and polled is kept while active is worked off.        *)
(***************************************************************************)
EXTENDS PollLoop, TLAPS

\* The lists dispatch collects are empty outside the loops over them.
Phases ==
  /\ pc # "timers" => expired = {}
  /\ pc \notin {"watches", "handler"} => active = {}

Inv == TypeOK /\ NoOversleep /\ ExpiredAreDue /\ ActiveIsSound /\ Phases

LEMMA InitInv == Init => Inv
BY PollAssumption
   DEF Init, Inv, TypeOK, NoOversleep, ExpiredAreDue, ActiveIsSound, Phases, Exists

LEMMA TickInv ==
  ASSUME Inv, Tick
  PROVE  Inv'
<1> USE PollAssumption DEF Tick, watchVars, timeVars, loopVars, Inv, Exists
<1>1. TypeOK'
  BY DEF TypeOK
<1>2. NoOversleep'
  BY DEF TypeOK, NoOversleep, Phases
<1>3. ExpiredAreDue'
  BY DEF TypeOK, ExpiredAreDue, Phases
<1>4. ActiveIsSound'
  BY DEF TypeOK, ActiveIsSound, Phases
<1>5. Phases'
  BY DEF TypeOK, Phases
<1> QED
  BY <1>1, <1>2, <1>3, <1>4, <1>5

LEMMA EventArrivesInv ==
  ASSUME Inv, NEW f \in Fds, EventArrives(f)
  PROVE  Inv'
<1> USE PollAssumption DEF EventArrives, watchVars, timeVars, loopVars, Inv, Exists
<1>1. TypeOK'
  BY DEF TypeOK
<1>2. NoOversleep'
  BY DEF TypeOK, NoOversleep, Phases
<1>3. ExpiredAreDue'
  BY DEF TypeOK, ExpiredAreDue, Phases
<1>4. ActiveIsSound'
  BY DEF TypeOK, ActiveIsSound, Phases
<1>5. Phases'
  BY DEF TypeOK, Phases
<1> QED
  BY <1>1, <1>2, <1>3, <1>4, <1>5

LEMMA AddWatchInv ==
  ASSUME Inv, NEW w \in Watches, NEW f \in Fds, AddWatch(w, f)
  PROVE  Inv'
<1> USE PollAssumption DEF AddWatch, InCommand, watchVars, timeVars, loopVars, Inv, Exists
<1>1. TypeOK'
  BY DEF TypeOK
<1>2. NoOversleep'
  BY DEF TypeOK, NoOversleep, Phases
<1>3. ExpiredAreDue'
  BY DEF TypeOK, ExpiredAreDue, Phases
<1>4. ActiveIsSound'
  BY DEF TypeOK, ActiveIsSound, Phases
<1>5. Phases'
  BY DEF TypeOK, Phases
<1> QED
  BY <1>1, <1>2, <1>3, <1>4, <1>5

LEMMA RemoveWatchInv ==
  ASSUME Inv, NEW w \in Watches, RemoveWatch(w)
  PROVE  Inv'
<1> USE PollAssumption DEF RemoveWatch, InHandler, watchVars, timeVars, loopVars, Inv, Exists
<1>1. TypeOK'
  BY DEF TypeOK
<1>2. NoOversleep'
  BY DEF TypeOK, NoOversleep, Phases
<1>3. ExpiredAreDue'
  BY DEF TypeOK, ExpiredAreDue, Phases
<1>4. ActiveIsSound'
  BY DEF TypeOK, ActiveIsSound, Phases
<1>5. Phases'
  BY DEF TypeOK, Phases
<1> QED
  BY <1>1, <1>2, <1>3, <1>4, <1>5

LEMMA ToggleWatchInv ==
  ASSUME Inv, NEW w \in Watches, ToggleWatch(w)
  PROVE  Inv'
<1> USE PollAssumption DEF ToggleWatch, InHandler, watchVars, timeVars, loopVars, Inv, Exists
<1>1. TypeOK'
  BY DEF TypeOK
<1>2. NoOversleep'
  BY DEF TypeOK, NoOversleep, Phases
<1>3. ExpiredAreDue'
  BY DEF TypeOK, ExpiredAreDue, Phases
<1>4. ActiveIsSound'
  BY DEF TypeOK, ActiveIsSound, Phases
<1>5. Phases'
  BY DEF TypeOK, Phases
<1> QED
  BY <1>1, <1>2, <1>3, <1>4, <1>5

LEMMA AddTimeoutInv ==
  ASSUME Inv, NEW t \in Timers, NEW i \in 0 .. MaxInterval, AddTimeout(t, i)
  PROVE  Inv'
<1> USE PollAssumption DEF AddTimeout, InCommand, watchVars, timeVars, loopVars, Inv, Exists
<1>1. TypeOK'
  BY DEF TypeOK
<1>2. NoOversleep'
  BY DEF TypeOK, NoOversleep, Phases
<1>3. ExpiredAreDue'
  BY DEF TypeOK, ExpiredAreDue, Phases
<1>4. ActiveIsSound'
  BY DEF TypeOK, ActiveIsSound, Phases
<1>5. Phases'
  BY DEF TypeOK, Phases
<1> QED
  BY <1>1, <1>2, <1>3, <1>4, <1>5

LEMMA RemoveTimeoutInv ==
  ASSUME Inv, NEW t \in Timers, RemoveTimeout(t)
  PROVE  Inv'
<1> USE PollAssumption DEF RemoveTimeout, InHandler, watchVars, timeVars, loopVars, Inv, Exists
<1>1. TypeOK'
  BY DEF TypeOK
<1>2. NoOversleep'
  BY DEF TypeOK, NoOversleep, Phases
<1>3. ExpiredAreDue'
  BY DEF TypeOK, ExpiredAreDue, Phases
<1>4. ActiveIsSound'
  BY DEF TypeOK, ActiveIsSound, Phases
<1>5. Phases'
  BY DEF TypeOK, Phases
<1> QED
  BY <1>1, <1>2, <1>3, <1>4, <1>5

LEMMA ToggleTimeoutInv ==
  ASSUME Inv, NEW t \in Timers, NEW i \in 0 .. MaxInterval, ToggleTimeout(t, i)
  PROVE  Inv'
<1> USE PollAssumption DEF ToggleTimeout, InHandler, watchVars, timeVars, loopVars, Inv, Exists
<1>1. TypeOK'
  BY DEF TypeOK
<1>2. NoOversleep'
  BY DEF TypeOK, NoOversleep, Phases
<1>3. ExpiredAreDue'
  BY DEF TypeOK, ExpiredAreDue, Phases
<1>4. ActiveIsSound'
  BY DEF TypeOK, ActiveIsSound, Phases
<1>5. Phases'
  BY DEF TypeOK, Phases
<1> QED
  BY <1>1, <1>2, <1>3, <1>4, <1>5

LEMMA StartPollInv ==
  ASSUME Inv, StartPoll
  PROVE  Inv'
<1> USE PollAssumption DEF StartPoll, watchVars, timeVars, loopVars, Inv, Exists
<1>1. TypeOK'
  BY DEF TypeOK
<1>2. NoOversleep'
  BY DEF TypeOK, NoOversleep, Phases
<1>3. ExpiredAreDue'
  BY DEF TypeOK, ExpiredAreDue, Phases
<1>4. ActiveIsSound'
  BY DEF TypeOK, ActiveIsSound, Phases
<1>5. Phases'
  BY DEF TypeOK, Phases
<1> QED
  BY <1>1, <1>2, <1>3, <1>4, <1>5

LEMMA PollReturnsInv ==
  ASSUME Inv, PollReturns
  PROVE  Inv'
<1> USE PollAssumption DEF PollReturns, Expired, watchVars, timeVars, loopVars, Inv, Exists
<1>1. TypeOK'
  BY DEF TypeOK
<1>2. NoOversleep'
  BY DEF TypeOK, NoOversleep, Phases
<1>3. ExpiredAreDue'
  BY DEF TypeOK, ExpiredAreDue, Phases
<1>4. ActiveIsSound'
  BY DEF TypeOK, ActiveIsSound, Phases
<1>5. Phases'
  BY DEF TypeOK, Phases
<1> QED
  BY <1>1, <1>2, <1>3, <1>4, <1>5

LEMMA PollFailsInv ==
  ASSUME Inv, PollFails
  PROVE  Inv'
<1> USE PollAssumption DEF PollFails, Expired, watchVars, timeVars, loopVars, Inv, Exists
<1>1. TypeOK'
  BY DEF TypeOK
<1>2. NoOversleep'
  BY DEF TypeOK, NoOversleep, Phases
<1>3. ExpiredAreDue'
  BY DEF TypeOK, ExpiredAreDue, Phases
<1>4. ActiveIsSound'
  BY DEF TypeOK, ActiveIsSound, Phases
<1>5. Phases'
  BY DEF TypeOK, Phases
<1> QED
  BY <1>1, <1>2, <1>3, <1>4, <1>5

LEMMA HandleTimerInv ==
  ASSUME Inv, NEW t \in Timers, HandleTimer(t)
  PROVE  Inv'
<1> USE PollAssumption DEF HandleTimer, watchVars, timeVars, loopVars, Inv, Exists
<1>1. TypeOK'
  BY DEF TypeOK
<1>2. NoOversleep'
  BY DEF TypeOK, NoOversleep, Phases
<1>3. ExpiredAreDue'
  BY DEF TypeOK, ExpiredAreDue, Phases
<1>4. ActiveIsSound'
  BY DEF TypeOK, ActiveIsSound, Phases
<1>5. Phases'
  BY DEF TypeOK, Phases
<1> QED
  BY <1>1, <1>2, <1>3, <1>4, <1>5

LEMMA MatchWatchesInv ==
  ASSUME Inv, MatchWatches
  PROVE  Inv'
<1> USE PollAssumption DEF MatchWatches, watchVars, timeVars, loopVars, Inv, Exists
<1>1. TypeOK'
  BY DEF TypeOK
<1>2. NoOversleep'
  BY DEF TypeOK, NoOversleep, Phases
<1>3. ExpiredAreDue'
  BY DEF TypeOK, ExpiredAreDue, Phases
<1>4. ActiveIsSound'
  BY DEF TypeOK, ActiveIsSound, Phases
<1>5. Phases'
  BY DEF TypeOK, Phases
<1> QED
  BY <1>1, <1>2, <1>3, <1>4, <1>5

LEMMA HandleWatchInv ==
  ASSUME Inv, NEW w \in Watches, NEW e \in Watches, HandleWatch(w, e)
  PROVE  Inv'
<1> USE PollAssumption DEF HandleWatch, watchVars, timeVars, loopVars, Inv, Exists
<1>1. TypeOK'
  BY DEF TypeOK
<1>2. NoOversleep'
  BY DEF TypeOK, NoOversleep, Phases
<1>3. ExpiredAreDue'
  BY DEF TypeOK, ExpiredAreDue, Phases
<1>4. ActiveIsSound'
  BY DEF TypeOK, ActiveIsSound, Phases
<1>5. Phases'
  BY DEF TypeOK, Phases
<1> QED
  BY <1>1, <1>2, <1>3, <1>4, <1>5

LEMMA SkipWatchInv ==
  ASSUME Inv, NEW w \in Watches, NEW e \in Watches, SkipWatch(w, e)
  PROVE  Inv'
<1> USE PollAssumption DEF SkipWatch, watchVars, timeVars, loopVars, Inv, Exists
<1>1. TypeOK'
  BY DEF TypeOK
<1>2. NoOversleep'
  BY DEF TypeOK, NoOversleep, Phases
<1>3. ExpiredAreDue'
  BY DEF TypeOK, ExpiredAreDue, Phases
<1>4. ActiveIsSound'
  BY DEF TypeOK, ActiveIsSound, Phases
<1>5. Phases'
  BY DEF TypeOK, Phases
<1> QED
  BY <1>1, <1>2, <1>3, <1>4, <1>5

LEMMA HandlerReturnsInv ==
  ASSUME Inv, HandlerReturns
  PROVE  Inv'
<1> USE PollAssumption DEF HandlerReturns, watchVars, timeVars, loopVars, Inv, Exists
<1>1. TypeOK'
  BY DEF TypeOK
<1>2. NoOversleep'
  BY DEF TypeOK, NoOversleep, Phases
<1>3. ExpiredAreDue'
  BY DEF TypeOK, ExpiredAreDue, Phases
<1>4. ActiveIsSound'
  BY DEF TypeOK, ActiveIsSound, Phases
<1>5. Phases'
  BY DEF TypeOK, Phases
<1> QED
  BY <1>1, <1>2, <1>3, <1>4, <1>5

LEMMA EndDispatchInv ==
  ASSUME Inv, EndDispatch
  PROVE  Inv'
<1> USE PollAssumption DEF EndDispatch, watchVars, timeVars, loopVars, Inv, Exists
<1>1. TypeOK'
  BY DEF TypeOK
<1>2. NoOversleep'
  BY DEF TypeOK, NoOversleep, Phases
<1>3. ExpiredAreDue'
  BY DEF TypeOK, ExpiredAreDue, Phases
<1>4. ActiveIsSound'
  BY DEF TypeOK, ActiveIsSound, Phases
<1>5. Phases'
  BY DEF TypeOK, Phases
<1> QED
  BY <1>1, <1>2, <1>3, <1>4, <1>5

LEMMA StepInv == Inv /\ [Next]_vars => Inv'
<1> SUFFICES ASSUME Inv, [Next]_vars PROVE Inv'
  OBVIOUS
<1>1. CASE Tick
  BY <1>1, TickInv
<1>2. ASSUME NEW f \in Fds, EventArrives(f) PROVE Inv'
  BY <1>2, EventArrivesInv
<1>3. CASE ContainerStep
  <2>1. ASSUME NEW w \in Watches, NEW f \in Fds, AddWatch(w, f) PROVE Inv'
    BY <2>1, AddWatchInv
  <2>2. ASSUME NEW w \in Watches, RemoveWatch(w) PROVE Inv'
    BY <2>2, RemoveWatchInv
  <2>3. ASSUME NEW w \in Watches, ToggleWatch(w) PROVE Inv'
    BY <2>3, ToggleWatchInv
  <2>4. ASSUME NEW t \in Timers, RemoveTimeout(t) PROVE Inv'
    BY <2>4, RemoveTimeoutInv
  <2>5. ASSUME NEW t \in Timers, NEW i \in 0 .. MaxInterval, AddTimeout(t, i)
        PROVE Inv'
    BY <2>5, AddTimeoutInv
  <2>6. ASSUME NEW t \in Timers, NEW i \in 0 .. MaxInterval, ToggleTimeout(t, i)
        PROVE Inv'
    BY <2>6, ToggleTimeoutInv
  <2> QED
    BY <1>3, <2>1, <2>2, <2>3, <2>4, <2>5, <2>6 DEF ContainerStep
<1>4. CASE DispatchStep
  <2>1. ASSUME NEW t \in Timers, HandleTimer(t) PROVE Inv'
    BY <2>1, HandleTimerInv
  <2>2. ASSUME NEW w \in Watches, NEW e \in Watches, HandleWatch(w, e) PROVE Inv'
    BY <2>2, HandleWatchInv
  <2>3. ASSUME NEW w \in Watches, NEW e \in Watches, SkipWatch(w, e) PROVE Inv'
    BY <2>3, SkipWatchInv
  <2> QED
    BY <1>4, <2>1, <2>2, <2>3, StartPollInv, PollReturnsInv, PollFailsInv,
       MatchWatchesInv, HandlerReturnsInv, EndDispatchInv DEF DispatchStep
<1>5. CASE UNCHANGED vars
  BY <1>5 DEF vars, Inv, TypeOK, NoOversleep, ExpiredAreDue, ActiveIsSound,
              Phases, Exists
<1> QED
  BY <1>1, <1>2, <1>3, <1>4, <1>5 DEF Next

\* The invariant holds in every reachable state.
THEOREM Invariance == Spec => []Inv
<1> QED
  BY InitInv, StepInv, PTL DEF Spec

\* The types of the state.
THEOREM TypeCorrect == Spec => []TypeOK
<1>1. Inv => TypeOK
  BY DEF Inv
<1> QED
  BY <1>1, Invariance, PTL

\* poll never sleeps past the expiry of an enabled timeout.
THEOREM SleepCorrect == Spec => []NoOversleep
<1>1. Inv => NoOversleep
  BY DEF Inv
<1> QED
  BY <1>1, Invariance, PTL

\* A collected timer is still due when its turn comes: no check is needed
\* before it is handled, for only its own handler can have touched it.
THEOREM TimersCorrect == Spec => []ExpiredAreDue
<1>1. Inv => ExpiredAreDue
  BY DEF Inv
<1> QED
  BY <1>1, Invariance, PTL

\* What activeWatches holds of a watch not deleted is what was polled for it.
THEOREM ActiveCorrect == Spec => []ActiveIsSound
<1>1. Inv => ActiveIsSound
  BY DEF Inv
<1> QED
  BY <1>1, Invariance, PTL

-----------------------------------------------------------------------------
(* The watch of the pipe among the others.                                 *)

\* The descriptor of the pipe belongs to its watch alone.  While the watch is in
\* activeWatches the pipe has bytes, for only its own handler reads them.
PipeAlone ==
  /\ \A w \in Watches : /\ fd[w] = PipeFd <=> w = Pipe
                        /\ polled[w] = PipeFd => w = Pipe
  /\ \A e \in Watches : <<Pipe, e>> \in active => e = Pipe
  /\ pc # "handler" => handling = Pipe
  /\ pc = "handler" /\ handling = Pipe => <<Pipe, Pipe>> \notin active
  /\ pc = "timers" /\ polled[Pipe] = PipeFd => PipeFd \in ready
  /\ <<Pipe, Pipe>> \in active => PipeFd \in ready

\* Only the pipe's watch is there at first.
LEMMA InitAlone == Init => PipeAlone
BY PollAssumption DEF Init, PipeAlone

\* The handlers of connections add, remove and toggle other watches, and events
\* only arrive: one step for each part of the loop.
LEMMA NextAlone == Inv /\ PipeAlone /\ [Next]_vars => PipeAlone'
<1> SUFFICES ASSUME Inv, PipeAlone, [Next]_vars PROVE PipeAlone'
  OBVIOUS
<1> USE PollAssumption
    DEF Inv, TypeOK, PipeAlone, Exists, watchVars, timeVars, loopVars
<1>1. CASE Tick \/ UNCHANGED vars \/ \E f \in Fds : EventArrives(f)
  BY <1>1 DEF Tick, EventArrives, vars
<1>2. CASE ContainerStep
  <2>1. ASSUME NEW w \in Watches, NEW f \in Fds, AddWatch(w, f) PROVE PipeAlone'
    BY <2>1 DEF AddWatch, InCommand
  <2>2. ASSUME NEW w \in Watches, RemoveWatch(w) PROVE PipeAlone'
    BY <2>2 DEF RemoveWatch, InHandler
  <2>3. ASSUME NEW w \in Watches, ToggleWatch(w) PROVE PipeAlone'
    BY <2>3 DEF ToggleWatch, InHandler
  <2>4. ASSUME NEW t \in Timers, NEW i \in 0 .. MaxInterval,
               RemoveTimeout(t) \/ AddTimeout(t, i) \/ ToggleTimeout(t, i)
        PROVE  PipeAlone'
    BY <2>4 DEF RemoveTimeout, AddTimeout, ToggleTimeout, InHandler, InCommand
  <2>5. 0 \in 0 .. MaxInterval
    OBVIOUS
  <2> QED
    BY <1>2, <2>1, <2>2, <2>3, <2>4, <2>5 DEF ContainerStep
<1>3. CASE StartPoll \/ PollReturns \/ PollFails \/ EndDispatch \/ HandlerReturns
  BY <1>3 DEF StartPoll, PollReturns, PollFails, EndDispatch, HandlerReturns, Phases
<1>4. CASE MatchWatches
  BY <1>4 DEF MatchWatches
<1>5. ASSUME NEW t \in Timers, HandleTimer(t) PROVE PipeAlone'
  BY <1>5 DEF HandleTimer
<1>6. ASSUME NEW w \in Watches, NEW e \in Watches, HandleWatch(w, e)
      PROVE  PipeAlone'
  BY <1>6 DEF HandleWatch
<1>7. ASSUME NEW w \in Watches, NEW e \in Watches, SkipWatch(w, e)
      PROVE  PipeAlone'
  BY <1>7 DEF SkipWatch
<1> QED
  BY <1>1, <1>2, <1>3, <1>4, <1>5, <1>6, <1>7 DEF Next, DispatchStep

LEMMA AloneInvariance == Spec => []PipeAlone
BY InitAlone, NextAlone, Invariance, PTL DEF Spec

\* What a step of the loop is for the round.
RoundStep == Round!RNext \/ UNCHANGED Round!rvars

\* Where the round stands, by the part of the loop.
LEMMA RoundPlaces ==
  ASSUME pc \in {"pending", "poll", "timers", "watches", "handler"}
  PROVE  /\ pc = "pending" => RoundAt = "pending"
         /\ pc \in {"poll", "timers"} => RoundAt = "poll"
         /\ pc = "handler" /\ handling = Pipe => RoundAt = "onCommand"
         /\ pc = "watches" \/ (pc = "handler" /\ handling # Pipe) =>
              RoundAt = IF <<Pipe, Pipe>> \in active THEN "poll" ELSE "test"
BY DEF RoundAt

\* The same after a step.
LEMMA RoundPlacesAfter ==
  ASSUME pc' \in {"pending", "poll", "timers", "watches", "handler"}
  PROVE  /\ pc' = "pending" => RoundAt' = "pending"
         /\ pc' \in {"poll", "timers"} => RoundAt' = "poll"
         /\ pc' = "handler" /\ handling' = Pipe => RoundAt' = "onCommand"
         /\ pc' = "watches" \/ (pc' = "handler" /\ handling' # Pipe) =>
              RoundAt' = IF <<Pipe, Pipe>> \in active' THEN "poll" ELSE "test"
BY DEF RoundAt

\* The other watches, the timers and time itself are nothing to the round.
LEMMA RoundStutters ==
  ASSUME UNCHANGED <<pc, handling, active>>,
         PipeFd \in ready => PipeFd \in ready',
         PipeFd \in ready' => PipeFd \in ready
  PROVE  RoundStep
<1>1. RoundAt' = RoundAt
  BY DEF RoundAt
<1> QED
  BY <1>1 DEF RoundStep, Round!rvars

LEMMA NextRound == Inv /\ PipeAlone /\ [Next]_vars => RoundStep
<1> SUFFICES ASSUME Inv, PipeAlone, [Next]_vars PROVE RoundStep
  OBVIOUS
<1>0. /\ pc \in {"pending", "poll", "timers", "watches", "handler"}
      /\ pc' \in {"pending", "poll", "timers", "watches", "handler"}
      /\ fd[Pipe] = PipeFd /\ Pipe \in Watches
  BY StepInv, PollAssumption DEF Inv, TypeOK, PipeAlone
<1>1. CASE \/ Tick \/ UNCHANGED vars \/ ContainerStep
           \/ \E t \in Timers : HandleTimer(t)
  <2>1. UNCHANGED <<pc, handling, active>>
    BY <1>1 DEF Tick, vars, ContainerStep, AddWatch, RemoveWatch, ToggleWatch,
       RemoveTimeout, AddTimeout, ToggleTimeout, HandleTimer, loopVars
  <2>2. PipeFd \in ready <=> PipeFd \in ready'
    BY <1>0, <1>1 DEF Tick, vars, ContainerStep, AddWatch, RemoveWatch, ToggleWatch,
       RemoveTimeout, AddTimeout, ToggleTimeout, HandleTimer
  <2> QED
    BY <2>1, <2>2, RoundStutters
<1>2. ASSUME NEW f \in Fds, EventArrives(f) PROVE RoundStep
  <2>1. RoundAt' = RoundAt
    BY <1>2 DEF EventArrives, loopVars, RoundAt
  <2>2. PipeFd \in ready => PipeFd \in ready'
    BY <1>2 DEF EventArrives
  <2>3. CASE PipeFd \in ready'
    BY <2>1, <2>3 DEF RoundStep, Round!RNext, Round!Written
  <2>4. CASE PipeFd \notin ready'
    BY <2>1, <2>2, <2>4 DEF RoundStep, Round!rvars
  <2> QED
    BY <2>3, <2>4
<1>3. CASE StartPoll
  <2>1. RoundAt = "pending" /\ RoundAt' = "poll" /\ ready' = ready
    BY <1>0, <1>3, RoundPlaces, RoundPlacesAfter DEF StartPoll
  <2> QED
    BY <2>1 DEF RoundStep, Round!RNext, Round!EndPending
<1>4. CASE PollReturns \/ PollFails
  <2>1. RoundAt = "poll" /\ RoundAt' = "poll" /\ ready' = ready
    BY <1>0, <1>4, RoundPlaces, RoundPlacesAfter DEF PollReturns, PollFails
  <2> QED
    BY <2>1 DEF RoundStep, Round!rvars
<1>5. CASE MatchWatches
  <2>1. RoundAt = "poll" /\ RoundAt' \in {"poll", "test"} /\ ready' = ready
    BY <1>0, <1>5, RoundPlaces, RoundPlacesAfter DEF MatchWatches
  <2> QED
    BY <2>1 DEF RoundStep, Round!RNext, Round!EndRound, Round!rvars
<1>6. ASSUME NEW w \in Watches, NEW e \in Watches, HandleWatch(w, e)
      PROVE  RoundStep
  <2>1. /\ pc = "watches" /\ pc' = "handler" /\ handling' = w
        /\ <<w, e>> \in active /\ active' = active \ {<<w, e>>}
        /\ ready' \in {ready, ready \ {fd[w]}}
    BY <1>6 DEF HandleWatch
  <2>2. CASE w = Pipe
    <3>1. <<Pipe, Pipe>> \in active /\ PipeFd \in ready
      BY <2>1, <2>2 DEF PipeAlone
    <3>2. RoundAt = "poll" /\ RoundAt' = "onCommand"
      BY <1>0, <2>1, <2>2, <3>1, RoundPlaces, RoundPlacesAfter
    <3> QED
      BY <3>1, <3>2 DEF RoundStep, Round!RNext, Round!CallOnCommand
  <2>3. CASE w # Pipe
    <3>1. <<Pipe, Pipe>> \in active <=> <<Pipe, Pipe>> \in active'
      BY <2>1, <2>3
    <3>2. RoundAt' = RoundAt
      BY <1>0, <2>1, <2>3, <3>1, RoundPlaces, RoundPlacesAfter
    <3>3. PipeFd \in ready <=> PipeFd \in ready'
      BY <2>1, <2>3 DEF PipeAlone
    <3> QED
      BY <3>2, <3>3 DEF RoundStep, Round!rvars
  <2> QED
    BY <2>2, <2>3
<1>7. ASSUME NEW w \in Watches, NEW e \in Watches, SkipWatch(w, e)
      PROVE  RoundStep
  <2>1. w # Pipe
    BY <1>0, <1>7, PollAssumption DEF SkipWatch, Exists
  <2>2. /\ pc = "watches" /\ pc' = "watches" /\ ready' = ready
        /\ active' = active \ {<<w, e>>}
    BY <1>7 DEF SkipWatch
  <2>3. RoundAt' = RoundAt
    BY <1>0, <2>1, <2>2, RoundPlaces, RoundPlacesAfter
  <2> QED
    BY <2>2, <2>3 DEF RoundStep, Round!rvars
<1>8. CASE HandlerReturns
  <2>1. pc = "handler" /\ pc' = "watches" /\ active' = active /\ ready' = ready
    BY <1>8 DEF HandlerReturns, loopVars
  <2>2. CASE handling = Pipe
    <3>1. RoundAt = "onCommand" /\ RoundAt' = "test"
      BY <1>0, <2>1, <2>2, RoundPlaces, RoundPlacesAfter DEF PipeAlone
    <3> QED
      BY <2>1, <3>1 DEF RoundStep, Round!RNext, Round!EndRound
  <2>3. CASE handling # Pipe
    <3>1. RoundAt' = RoundAt
      BY <1>0, <2>1, <2>3, RoundPlaces, RoundPlacesAfter
    <3> QED
      BY <2>1, <3>1 DEF RoundStep, Round!rvars
  <2> QED
    BY <2>2, <2>3
<1>9. CASE EndDispatch
  <2>1. RoundAt = "test" /\ RoundAt' = "pending" /\ ready' = ready
    BY <1>0, <1>9, RoundPlaces, RoundPlacesAfter DEF EndDispatch
  <2> QED
    BY <2>1 DEF RoundStep, Round!RNext, Round!TestQuit
<1> QED
  BY <1>1, <1>2, <1>3, <1>4, <1>5, <1>6, <1>7, <1>8, <1>9 DEF Next, DispatchStep

\* dispatch calls onCommand as CommandQueue assumes it, for any number of
\* connections whose watches come and go around the watch of the pipe.
THEOREM Refinement == Spec => ImplementsRound
<1>1. Init => Round!RInit
  BY PollAssumption DEF Init, Round!RInit, RoundAt
<1>2. Inv /\ PipeAlone /\ [Next]_vars => [Round!RNext]_(Round!rvars)
  BY NextRound DEF RoundStep
<1> QED
  BY <1>1, <1>2, Invariance, AloneInvariance, PTL
     DEF Spec, ImplementsRound, Round!RSpec

\* No handler starts for a watch that handlers of the same round removed, or for
\* an event of another descriptor than its own.
THEOREM HandlersCorrect == Spec => HandlersAreSound
<1> DEFINE A == pc # "handler" /\ pc' = "handler" =>
                  /\ Exists(handling')
                  /\ \E e \in Watches :
                       /\ <<handling', e>> \in active \ active'
                       /\ handling' \notin reused => fd[handling'] = polled[e]
<1>1. Inv /\ [Next]_vars => [A]_vars
  <2> SUFFICES ASSUME Inv, [Next]_vars, pc # "handler", pc' = "handler" PROVE A
    OBVIOUS
  <2>1. PICK w \in Watches, e \in Watches : HandleWatch(w, e)
    BY DEF Next, DispatchStep, ContainerStep, Tick, EventArrives, AddWatch,
       RemoveWatch, ToggleWatch, AddTimeout, RemoveTimeout, ToggleTimeout,
       StartPoll, PollReturns, PollFails, HandleTimer, MatchWatches, SkipWatch,
       HandlerReturns, EndDispatch, vars
  <2> QED
    BY <2>1 DEF HandleWatch, Inv, ActiveIsSound
<1>2. HandlersAreSound <=> [][A]_vars
  BY PTL DEF HandlersAreSound
<1> QED
  BY <1>1, <1>2, Invariance, PTL DEF Spec
=============================================================================
