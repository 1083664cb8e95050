---------------------------- MODULE ModeContract ----------------------------
(***************************************************************************)
(* What a client of the robot may rely on when it asks for a mode.         *)
(*                                                                         *)
(* Requests form a log in the order in which they reached the robot.  The  *)
(* robot applies some of them: it may skip a request that a later one has  *)
(* already superseded, but it never goes back to an earlier entry of the   *)
(* log, never applies an entry twice and never invents a mode.  Under the  *)
(* fairness of Spec the newest entry is always reached in the end.         *)
(*                                                                         *)
(* This module knows nothing about mailboxes, sequence numbers, threads or *)
(* locks; LocomotionController implements it.                              *)
(***************************************************************************)
EXTENDS BoosterApi, Naturals, Sequences

VARIABLES
  log,      \* every mode requested so far, oldest first
  applied,  \* index of the newest entry the robot has acted on, 0 = none
  mode      \* the mode the robot reports

vars == <<log, applied, mode>>

\* The mode a request leads to: the walking modes of the SDK mean "stand", and
\* a mode the robot does not know leaves it in the one it is in.
After(request, current) ==
  CASE request \in {"DAMPING", "PREPARE", "CUSTOM"} -> request
    [] request \in {"WALKING", "SOCCER"}            -> "PREPARE"
    [] OTHER                                        -> current

-----------------------------------------------------------------------------
\* The robot may have been configured to stand up as soon as it boots.
Init ==
  /\ log \in {<< >>, <<"PREPARE">>}
  /\ applied = 0
  /\ mode = "DAMPING"

Request(m) ==
  /\ log' = Append(log, m)
  /\ UNCHANGED <<applied, mode>>

Apply ==
  /\ \E i \in (applied + 1) .. Len(log) :
       /\ applied' = i
       /\ mode' = After(log[i], mode)
  /\ UNCHANGED log

Next == Apply \/ \E m \in RobotMode : Request(m)

Spec == Init /\ [][Next]_vars /\ WF_vars(Apply)
=============================================================================
