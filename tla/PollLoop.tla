------------------------------ MODULE PollLoop ------------------------------
(***************************************************************************)
(* Dispatcher::dispatch: polling the descriptors of the watches, and       *)
(* handling first the timers that expired, then the watches with events.   *)
(* The handlers add, remove and toggle watches and timeouts while dispatch *)
(* works on what it collected before: mPollFds, expiredTimers and          *)
(* activeWatches.                                                          *)
(*                                                                         *)
(* A member of Watches is the address of a Watch object: the address of a  *)
(* deleted watch may be given to a new one.  Time is what is left of each  *)
(* timeout; Tick passes one unit of it.                                    *)
(*                                                                         *)
(* What a handler may do is what the code and libdbus do there.  Opening   *)
(* connections and sending requests, which add watches and timeouts, are   *)
(* commands, executed by the handler of the pipe.  A socket's handler and  *)
(* the dispatching of messages remove and toggle.  The handler of a        *)
(* timeout touches that timeout only.                                      *)
(***************************************************************************)
EXTENDS Naturals

CONSTANTS
  Watches,      \* addresses of watches
  Pipe,         \* the PipeWatch, which lives as long as the dispatcher
  Fds,          \* file descriptors
  PipeFd,       \* the one of the pipe
  NoFd,         \* no descriptor: no watch at this address
  Timers,       \* DBusTimeoutWrappers
  MaxInterval,  \* bound on the interval of a timeout
  MaxWait       \* DEFAULT_POLL_MSEC_WAIT

ASSUME PollAssumption ==
  /\ Pipe \in Watches
  /\ PipeFd \in Fds
  /\ NoFd \notin Fds
  /\ MaxInterval \in Nat
  /\ MaxWait \in Nat

VARIABLES
  pc,         \* what the thread does: pending, poll, timers, watches, handler
  handling,   \* the watch whose handler runs, Pipe if none does
  fd,         \* mWatches: the descriptor of each watch
  on,         \* the watches that are enabled
  timeouts,   \* mTimeouts
  armed,      \* the timeouts that are enabled
  interval,   \* mInterval, 0 when there is no such timeout
  left,       \* what is left until mExpiry, 0 when it is past
  ready,      \* descriptors with events
  polled,     \* mPollFds: the descriptor of each watch that is polled
  wait,       \* what is left of the time to wait in poll
  expired,    \* expiredTimers
  active,     \* activeWatches: a watch and the entry of mPollFds it matched
  reused      \* watches deleted since they were put in activeWatches

watchVars == <<fd, on>>
timeVars == <<timeouts, armed, interval, left>>
loopVars == <<polled, wait, expired, active>>
vars == <<pc, handling, fd, on, timeouts, armed, interval, left, ready, polled,
          wait, expired, active, reused>>

Init ==
  /\ pc = "pending"
  /\ handling = Pipe
  /\ fd = [w \in Watches |-> IF w = Pipe THEN PipeFd ELSE NoFd]
  /\ on = {Pipe}
  /\ timeouts = {}
  /\ armed = {}
  /\ interval = [t \in Timers |-> 0]
  /\ left = [t \in Timers |-> 0]
  /\ ready = {}
  /\ polled = [w \in Watches |-> NoFd]
  /\ wait = 0
  /\ expired = {}
  /\ active = {}
  /\ reused = {}

Exists(w) == fd[w] # NoFd

-----------------------------------------------------------------------------
(* The world: time passes and descriptors get events.                      *)

Tick ==
  /\ left' = [t \in Timers |-> IF left[t] > 0 THEN left[t] - 1 ELSE 0]
  /\ wait' = IF pc = "poll" /\ wait > 0 THEN wait - 1 ELSE wait
  /\ UNCHANGED <<pc, handling, watchVars, timeouts, armed, interval, ready,
                 polled, expired, active, reused>>

EventArrives(f) ==
  /\ f \in {fd[w] : w \in Watches} \ {NoFd}
  /\ ready' = ready \cup {f}
  /\ UNCHANGED <<pc, handling, watchVars, timeVars, loopVars, reused>>

-----------------------------------------------------------------------------
(* What commands, messages and libdbus do to the containers.               *)

\* A command is executed.
InCommand == pc = "handler" /\ handling = Pipe

\* libdbus or a command runs.
InHandler == pc \in {"pending", "handler"}

\* libdbus creates a watch; onAddWatchCallback.
AddWatch(w, f) ==
  /\ InCommand
  /\ ~Exists(w)
  /\ f \in Fds \ {PipeFd}
  /\ fd' = [fd EXCEPT ![w] = f]
  /\ on' \in {on, on \cup {w}}
  /\ UNCHANGED <<pc, handling, timeVars, ready, loopVars, reused>>

\* onRemoveWatchCallBack: the wrapper is deleted and leaves mWatches.  With the
\* last watch of a descriptor its socket is closed.
RemoveWatch(w) ==
  /\ InHandler
  /\ Exists(w)
  /\ w # Pipe
  /\ fd' = [fd EXCEPT ![w] = NoFd]
  /\ on' = on \ {w}
  /\ ready' = ready \cap {fd[v] : v \in Watches \ {w}}
  /\ reused' = IF \E e \in Watches : <<w, e>> \in active
                 THEN reused \cup {w} ELSE reused
  /\ UNCHANGED <<pc, handling, timeVars, loopVars>>

\* DBusWatchWrapper asks libdbus each time whether the watch is enabled.
ToggleWatch(w) ==
  /\ InHandler
  /\ Exists(w)
  /\ w # Pipe
  /\ on' = IF w \in on THEN on \ {w} ELSE on \cup {w}
  /\ UNCHANGED <<pc, handling, fd, timeVars, ready, loopVars, reused>>

AddTimeout(t, i) ==
  /\ InCommand
  /\ t \notin timeouts
  /\ timeouts' = timeouts \cup {t}
  /\ armed' \in {armed, armed \cup {t}}
  /\ interval' = [interval EXCEPT ![t] = i]
  /\ left' = [left EXCEPT ![t] = i]
  /\ UNCHANGED <<pc, handling, watchVars, ready, loopVars, reused>>

RemoveTimeout(t) ==
  /\ InHandler
  /\ t \in timeouts
  /\ timeouts' = timeouts \ {t}
  /\ armed' = armed \ {t}
  /\ interval' = [interval EXCEPT ![t] = 0]
  /\ left' = [left EXCEPT ![t] = 0]
  /\ UNCHANGED <<pc, handling, watchVars, ready, loopVars, reused>>

ToggleTimeout_Extends(t, i) ==
  /\ InHandler
  /\ t \in timeouts
  /\ \/ armed' = armed \ {t} /\ UNCHANGED left
     \/ armed' = armed \cup {t} /\ left' = [left EXCEPT ![t] = @ + i]
  /\ interval' = [interval EXCEPT ![t] = i]
  /\ UNCHANGED <<pc, handling, watchVars, timeouts, ready, loopVars, reused>>

\* DBusTimeoutWrapper::toggle: the interval may have changed; an enabled
\* timeout starts again.
ToggleTimeout(t, i) ==
  /\ InHandler
  /\ t \in timeouts
  /\ \/ armed' = armed \ {t} /\ UNCHANGED left
     \/ armed' = armed \cup {t} /\ left' = [left EXCEPT ![t] = i]
  /\ interval' = [interval EXCEPT ![t] = i]
  /\ UNCHANGED <<pc, handling, watchVars, timeouts, ready, loopVars, reused>>

-----------------------------------------------------------------------------
(* dispatch.                                                               *)

StartPoll_AnyTimer ==
  /\ pc = "pending"
  /\ polled' = [w \in Watches |-> IF w \in on THEN fd[w] ELSE NoFd]
  /\ wait' \in {MaxWait} \cup {left[t] : t \in armed}
  /\ wait' <= MaxWait
  /\ pc' = "poll"
  /\ UNCHANGED <<handling, watchVars, timeVars, ready, expired, active, reused>>

\* The enabled watches are polled, until the first timeout expires.
StartPoll ==
  /\ pc = "pending"
  /\ polled' = [w \in Watches |-> IF w \in on THEN fd[w] ELSE NoFd]
  /\ wait' \in {MaxWait} \cup {left[t] : t \in armed}
  /\ wait' <= MaxWait
  /\ \A t \in armed : wait' <= left[t]
  /\ pc' = "poll"
  /\ UNCHANGED <<handling, watchVars, timeVars, ready, expired, active, reused>>

Expired == {t \in armed : left[t] = 0}

PollReturns_TimersFirst ==
  /\ pc = "poll"
  /\ wait = 0 \/ \E w \in Watches : polled[w] \in ready
  /\ polled' = [w \in Watches |->
       IF polled[w] \in ready /\ Expired = {} THEN polled[w] ELSE NoFd]
  /\ expired' = Expired
  /\ wait' = 0
  /\ pc' = "timers"
  /\ UNCHANGED <<handling, watchVars, timeVars, ready, active, reused>>

\* poll returns with every descriptor that has events, maybe none, and the
\* expired timers are collected.
PollReturns ==
  /\ pc = "poll"
  /\ wait = 0 \/ \E w \in Watches : polled[w] \in ready
  /\ polled' = [w \in Watches |->
       IF polled[w] \in ready THEN polled[w] ELSE NoFd]
  /\ expired' = Expired
  /\ wait' = 0
  /\ pc' = "timers"
  /\ UNCHANGED <<handling, watchVars, timeVars, ready, active, reused>>

\* poll was interrupted or failed: no descriptor is looked at.
PollFails ==
  /\ pc = "poll"
  /\ polled' = [w \in Watches |-> NoFd]
  /\ expired' = Expired
  /\ wait' = 0
  /\ pc' = "timers"
  /\ UNCHANGED <<handling, watchVars, timeVars, ready, active, reused>>

HandleTimer_NoReset(t) ==
  /\ pc = "timers"
  /\ t \in expired
  /\ expired' = expired \ {t}
  /\ UNCHANGED <<pc, handling, watchVars, timeVars, ready, polled, wait, active,
                 reused>>

\* A DBusTimeoutWrapper repeats: it starts again, before its handler, which may
\* remove it.
HandleTimer(t) ==
  /\ pc = "timers"
  /\ t \in expired
  /\ expired' = expired \ {t}
  /\ \/ /\ left' = [left EXCEPT ![t] = interval[t]]
        /\ UNCHANGED <<timeouts, armed, interval>>
     \/ /\ timeouts' = timeouts \ {t}
        /\ armed' = armed \ {t}
        /\ interval' = [interval EXCEPT ![t] = 0]
        /\ left' = [left EXCEPT ![t] = 0]
  /\ UNCHANGED <<pc, handling, watchVars, ready, polled, wait, active, reused>>

MatchWatches_AnyDescriptor ==
  /\ pc = "timers"
  /\ expired = {}
  /\ active' = {p \in on \X Watches : polled[p[2]] # NoFd}
  /\ pc' = "watches"
  /\ UNCHANGED <<handling, watchVars, timeVars, ready, polled, wait, expired,
                 reused>>

MatchWatches_First ==
  /\ pc = "timers"
  /\ active' = {p \in on \X Watches : polled[p[2]] # NoFd /\ fd[p[1]] = polled[p[2]]}
  /\ pc' = "watches"
  /\ UNCHANGED <<handling, watchVars, timeVars, ready, polled, wait, expired,
                 reused>>

\* Each watch is paired with every entry for its descriptor: the two watches of
\* one socket are found twice.
MatchWatches ==
  /\ pc = "timers"
  /\ expired = {}
  /\ active' = {p \in on \X Watches : polled[p[2]] # NoFd /\ fd[p[1]] = polled[p[2]]}
  /\ pc' = "watches"
  /\ UNCHANGED <<handling, watchVars, timeVars, ready, polled, wait, expired,
                 reused>>

HandleWatch_Unchecked(w, e) ==
  /\ pc = "watches"
  /\ <<w, e>> \in active
  /\ active' = active \ {<<w, e>>}
  /\ handling' = w
  /\ ready' \in {ready, ready \ {fd[w]}}
  /\ pc' = "handler"
  /\ UNCHANGED <<watchVars, timeVars, polled, wait, expired, reused>>

\* A watch that still exists handles its event, maybe not all of it.
HandleWatch(w, e) ==
  /\ pc = "watches"
  /\ <<w, e>> \in active
  /\ Exists(w)
  /\ active' = active \ {<<w, e>>}
  /\ handling' = w
  /\ ready' \in {ready, ready \ {fd[w]}}
  /\ pc' = "handler"
  /\ UNCHANGED <<watchVars, timeVars, polled, wait, expired, reused>>

SkipWatch(w, e) ==
  /\ pc = "watches"
  /\ <<w, e>> \in active
  /\ ~Exists(w)
  /\ active' = active \ {<<w, e>>}
  /\ UNCHANGED <<pc, handling, watchVars, timeVars, ready, polled, wait, expired,
                 reused>>

HandlerReturns ==
  /\ pc = "handler"
  /\ pc' = "watches"
  /\ handling' = Pipe
  /\ UNCHANGED <<watchVars, timeVars, ready, loopVars, reused>>

\* dispatch returns; the next round begins with dispatchPending.
EndDispatch ==
  /\ pc = "watches"
  /\ active = {}
  /\ polled' = [w \in Watches |-> NoFd]
  /\ reused' = {}
  /\ pc' = "pending"
  /\ UNCHANGED <<handling, watchVars, timeVars, ready, wait, expired, active>>

-----------------------------------------------------------------------------
DispatchStep ==
  \/ StartPoll \/ PollReturns \/ PollFails \/ MatchWatches
  \/ HandlerReturns \/ EndDispatch
  \/ \E t \in Timers : HandleTimer(t)
  \/ \E w, e \in Watches : HandleWatch(w, e) \/ SkipWatch(w, e)

ContainerStep ==
  \/ \E w \in Watches :
       \/ \E f \in Fds : AddWatch(w, f)
       \/ RemoveWatch(w)
       \/ ToggleWatch(w)
  \/ \E t \in Timers :
       \/ RemoveTimeout(t)
       \/ \E i \in 0 .. MaxInterval : AddTimeout(t, i) \/ ToggleTimeout(t, i)

Next ==
  \/ Tick
  \/ \E f \in Fds : EventArrives(f)
  \/ DispatchStep
  \/ ContainerStep

Spec == Init /\ [][Next]_vars

\* The thread runs and its handlers return.  A poll with something to report
\* is not interrupted for ever.  No time has to pass and no event to come.
Fairness ==
  /\ WF_vars(StartPoll) /\ WF_vars(MatchWatches)
  /\ WF_vars(HandlerReturns) /\ WF_vars(EndDispatch)
  /\ SF_vars(PollReturns)
  /\ \A t \in Timers : WF_vars(HandleTimer(t))
  /\ \A w, e \in Watches : WF_vars(HandleWatch(w, e) \/ SkipWatch(w, e))

FairSpec == Spec /\ Fairness

-----------------------------------------------------------------------------
(* Properties.                                                             *)

TypeOK ==
  /\ pc \in {"pending", "poll", "timers", "watches", "handler"}
  /\ handling \in Watches
  /\ fd \in [Watches -> Fds \cup {NoFd}]
  /\ on \in SUBSET {w \in Watches : Exists(w)}
  /\ timeouts \in SUBSET Timers
  /\ armed \in SUBSET timeouts
  /\ interval \in [Timers -> 0 .. MaxInterval]
  /\ left \in [Timers -> 0 .. MaxInterval]
  /\ ready \in SUBSET Fds
  /\ polled \in [Watches -> Fds \cup {NoFd}]
  /\ wait \in 0 .. MaxWait
  /\ expired \in SUBSET Timers
  /\ active \in SUBSET (Watches \X Watches)
  /\ reused \in SUBSET Watches

\* poll does not sleep past the expiry of an enabled timeout, although the
\* handlers of the round before changed, added and removed timeouts.
NoOversleep ==
  pc = "poll" => \A t \in armed : wait <= left[t]

\* dispatch handles the timers it collected without asking again: until each is
\* handled it exists, is enabled and expired, for it precedes the handlers that
\* could remove, disable or restart it.
ExpiredAreDue ==
  \A t \in expired : t \in armed /\ left[t] = 0

\* activeWatches, whatever the handlers did to mWatches since: a watch in it that
\* was not deleted exists and has the descriptor whose events are kept for it.
ActiveIsSound ==
  \A w, e \in Watches : <<w, e>> \in active =>
    /\ polled[e] # NoFd
    /\ w \notin reused => fd[w] = polled[e]

\* A handler starts only for a watch that exists and for an event that poll
\* reported in this round: on the descriptor of that very watch, unless the watch
\* was deleted meanwhile and another one has its address.
HandlersAreSound ==
  [][pc # "handler" /\ pc' = "handler" =>
       /\ Exists(handling')
       /\ \E e \in Watches :
            /\ <<handling', e>> \in active \ active'
            /\ handling' \notin reused => fd[handling'] = polled[e]]_vars

\* Events of an enabled watch are handled, however busy the timers and the other
\* watches are.
EventIsHandled ==
  \A w \in Watches :
    (w \in on /\ fd[w] \in ready)
      ~> ((pc = "handler" /\ handling = w) \/ w \notin on \/ fd[w] \notin ready)

\* A timer that expired starts again or is removed, disabled or given no interval.
TimerIsHandled ==
  \A t \in Timers :
    (t \in armed /\ left[t] = 0 /\ interval[t] > 0)
      ~> (t \notin armed \/ left[t] > 0 \/ interval[t] = 0)

\* Where the round stands for the pipe: it has its turn before it while it waits
\* in activeWatches, and none if it is not there.
RoundAt ==
  CASE pc = "pending" -> "pending"
    [] pc \in {"poll", "timers"} -> "poll"
    [] pc = "handler" /\ handling = Pipe -> "onCommand"
    [] pc \in {"watches", "handler"} /\ ~(pc = "handler" /\ handling = Pipe) ->
         IF <<Pipe, Pipe>> \in active THEN "poll" ELSE "test"

Round == INSTANCE DispatchRound WITH at <- RoundAt, readable <- PipeFd \in ready

\* However the watches are matched and whatever their handlers do to each other,
\* dispatch is the step that CommandQueue takes it for: the pipe's handler runs at
\* most once in a round, after poll has found bytes in the pipe.
ImplementsRound == Round!RSpec
=============================================================================
