-------------------------- MODULE CallServiceProofs --------------------------
(***************************************************************************)
(* What every implementation of CallService promises its callers, for      *)
(* every set of commands.  CommandQueue and Connections implement it       *)
(* (CommandQueueRefinement, ConnectionsProofs).                            *)
(***************************************************************************)
EXTENDS CallService, TLAPS

\* A closed service has no open command.
SInv ==
  /\ status \in [Cmds -> {"new", "refused", "open", "finished", "lost"}]
  /\ answers \in [Cmds -> Nat]
  /\ OneAnswer
  /\ closed => \A c \in Cmds : status[c] # "open"

LEMMA InitSInv == SInit => SInv
BY DEF SInit, SInv, OneAnswer

\* One step per kind of step of the service.
LEMMA NextSInv == SInv /\ [SNext]_svars => SInv'
<1> SUFFICES ASSUME SInv, [SNext]_svars PROVE SInv'
  OBVIOUS
<1> USE DEF SInv, OneAnswer
<1>1. ASSUME NEW c \in Cmds, Accept(c) PROVE SInv'
  BY <1>1 DEF Accept
<1>2. ASSUME NEW c \in Cmds, Refuse(c) PROVE SInv'
  BY <1>2 DEF Refuse
<1>3. ASSUME NEW S \in SUBSET Cmds, NEW A \in SUBSET S, Finish(S, A) PROVE SInv'
  BY <1>3 DEF Finish
<1>4. ASSUME NEW c \in Cmds, Lose(c) PROVE SInv'
  BY <1>4 DEF Lose
<1>5. CASE Close
  BY <1>5 DEF Close
<1>6. CASE UNCHANGED svars
  BY <1>6 DEF svars
<1> QED
  BY <1>1, <1>2, <1>3, <1>4, <1>5, <1>6 DEF SNext

LEMMA SInvariance == SSpec => []SInv
BY InitSInv, NextSInv, PTL DEF SSpec

\* Whoever implements the service answers a command once, when it finishes.
THEOREM OneAnswerCorrect == SSpec => []OneAnswer
BY SInvariance, PTL DEF SInv

\* Nothing happens to a command after its end, or to any after the service's.
THEOREM EndsAreFinalCorrect == SSpec => EndsAreFinal
<1> DEFINE Stays == \A c \in Cmds :
                      status[c] \in {"refused", "finished", "lost"} =>
                        status'[c] = status[c] /\ answers'[c] = answers[c]
           Over == closed =>
                     /\ closed'
                     /\ answers' = answers
                     /\ \A c \in Cmds :
                          \/ status'[c] \notin {"open", "finished", "lost"}
                          \/ status'[c] = status[c]
<1>1. SInv /\ [SNext]_svars => [Stays /\ Over]_svars
  <2> SUFFICES ASSUME SInv, SNext PROVE Stays /\ Over
    OBVIOUS
  <2> USE DEF SInv
  <2>1. ASSUME NEW c \in Cmds, Accept(c) \/ Refuse(c) \/ Lose(c)
        PROVE  Stays /\ Over
    BY <2>1 DEF Accept, Refuse, Lose
  <2>2. ASSUME NEW S \in SUBSET Cmds, NEW A \in SUBSET S, Finish(S, A)
        PROVE  Stays /\ Over
    <3>1. Stays
      BY <2>2 DEF Finish
    <3>2. ASSUME closed PROVE S = {}
      BY <2>2, <3>2 DEF Finish
    <3>3. ASSUME closed
          PROVE  /\ closed' /\ answers' = answers
                 /\ \A c \in Cmds : status'[c] = status[c]
      <4>1. answers' = [c \in Cmds |-> answers[c]]
        BY <2>2, <3>2, <3>3 DEF Finish
      <4> QED
        BY <2>2, <3>2, <3>3, <4>1 DEF Finish
    <3> QED
      BY <3>1, <3>3
  <2>3. CASE Close
    BY <2>3 DEF Close
  <2> QED
    BY <2>1, <2>2, <2>3 DEF SNext
<1>2. EndsAreFinal <=> [][Stays /\ Over]_svars
  BY PTL DEF EndsAreFinal
<1> QED
  BY <1>1, <1>2, SInvariance, PTL DEF SSpec

\* Both together, for the modules that implement the service.
THEOREM Promises == SSpec => []OneAnswer /\ EndsAreFinal
BY OneAnswerCorrect, EndsAreFinalCorrect
=============================================================================
