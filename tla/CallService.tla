---------------------------- MODULE CallService ----------------------------
(***************************************************************************)
(* What the library promises about the commands handed to it, with no      *)
(* threads, locks or pipe: a command is refused, or it is accepted and     *)
(* later finished; a command that owes an answer (a semaphore post or a    *)
(* callback) gets it exactly once, when it finishes; and the service does  *)
(* not close while an accepted command is unfinished.  Fragile commands    *)
(* alone may be lost instead: nobody owns or answers them any more.        *)
(***************************************************************************)
EXTENDS Naturals

CONSTANTS
  Cmds,      \* the command objects
  OneWay,    \* those that may finish without an answer
  Fragile    \* those that may be lost when memory runs out

VARIABLES
  status,    \* where each command stands
  answers,   \* how many times each command was answered
  closed     \* the dispatcher is gone

svars == <<status, answers, closed>>

SInit ==
  /\ status = [c \in Cmds |-> "new"]
  /\ answers = [c \in Cmds |-> 0]
  /\ closed = FALSE

Accept(c) ==
  /\ ~closed
  /\ status[c] = "new"
  /\ status' = [status EXCEPT ![c] = "open"]
  /\ UNCHANGED <<answers, closed>>

Refuse(c) ==
  /\ status[c] = "new"
  /\ status' = [status EXCEPT ![c] = "refused"]
  /\ UNCHANGED <<answers, closed>>

\* Finishes the commands of S at once (a shutdown cancels every request that
\* waits for its reply); those of A get their answer.
Finish(S, A) ==
  /\ \A c \in S : status[c] = "open"
  /\ A \subseteq S
  /\ S \ A \subseteq OneWay
  /\ status' = [c \in Cmds |-> IF c \in S THEN "finished" ELSE status[c]]
  /\ answers' = [c \in Cmds |-> IF c \in A THEN answers[c] + 1 ELSE answers[c]]
  /\ UNCHANGED closed

Lose(c) ==
  /\ c \in Fragile
  /\ status[c] = "open"
  /\ status' = [status EXCEPT ![c] = "lost"]
  /\ UNCHANGED <<answers, closed>>

Close ==
  /\ ~closed
  /\ \A c \in Cmds : status[c] # "open"
  /\ closed' = TRUE
  /\ UNCHANGED <<status, answers>>

SNext ==
  \/ \E c \in Cmds : Accept(c) \/ Refuse(c) \/ Lose(c)
  \/ \E S \in SUBSET Cmds : \E A \in SUBSET S : Finish(S, A)
  \/ Close

SSpec == SInit /\ [][SNext]_svars

-----------------------------------------------------------------------------
(* What follows for the callers.                                           *)

\* A command has no answer until it finishes; then it has one, which only a
\* one-way command may go without.  Only a fragile command is lost.
OneAnswer ==
  \A c \in Cmds :
    /\ status[c] # "finished" => answers[c] = 0
    /\ status[c] = "finished" => answers[c] = 1 \/ (c \in OneWay /\ answers[c] = 0)
    /\ status[c] = "lost" => c \in Fragile

\* What is refused, finished or lost stays so and is not answered any more, and
\* once the service is closed no command is accepted, finishes or is lost.
EndsAreFinal ==
  [][/\ \A c \in Cmds :
          status[c] \in {"refused", "finished", "lost"} =>
            status'[c] = status[c] /\ answers'[c] = answers[c]
     /\ closed =>
          /\ closed'
          /\ answers' = answers
          /\ \A c \in Cmds :
               \/ status'[c] \notin {"open", "finished", "lost"}
               \/ status'[c] = status[c]]_svars
=============================================================================
