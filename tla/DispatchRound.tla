---------------------------- MODULE DispatchRound ----------------------------
(***************************************************************************)
(* One round of the dispatcher thread as the two models that share it see  *)
(* it.  CommandQueue takes poll, the timers and the watches for one step,  *)
(* which calls onCommand or does not; PollLoop takes onCommand for the     *)
(* handler of one watch among others.  Both implement this module: between *)
(* two tests of mQuit, onCommand is called at most once, after             *)
(* dispatchPending, and only when the pipe has something to read.          *)
(***************************************************************************)

VARIABLES
  at,        \* what the thread does
  readable   \* the pipe has bytes

rvars == <<at, readable>>

RInit ==
  /\ at \in {"test", "pending"}
  /\ readable = FALSE

\* A command is submitted, by another thread or by a callback of this one.
Written ==
  /\ readable' = TRUE
  /\ UNCHANGED at

TestQuit ==
  /\ at = "test"
  /\ at' \in {"pending", "over"}
  /\ UNCHANGED readable

EndPending ==
  /\ at = "pending"
  /\ at' = "poll"
  /\ UNCHANGED readable

\* The watch of the pipe is handled.
CallOnCommand ==
  /\ at = "poll"
  /\ readable
  /\ at' = "onCommand"
  /\ readable' \in BOOLEAN

\* A byte is read, maybe the last one.
Read ==
  /\ at = "onCommand"
  /\ readable
  /\ readable' \in BOOLEAN
  /\ UNCHANGED at

\* onCommand returns, or the round passed without it.
EndRound ==
  /\ at \in {"onCommand", "poll"}
  /\ at' = "test"
  /\ UNCHANGED readable

RNext == Written \/ TestQuit \/ EndPending \/ CallOnCommand \/ Read \/ EndRound

RSpec == RInit /\ [][RNext]_rvars
=============================================================================
