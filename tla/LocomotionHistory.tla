-------------------------- MODULE LocomotionHistory -------------------------
(***************************************************************************)
(* LocomotionController with a history variable, to state what the header  *)
(* promises about PREPARE.  It never restricts a step of the controller.   *)
(***************************************************************************)
EXTENDS LocomotionController

VARIABLE
  prepared   \* steps in PREPARE since it was entered or the simulation was
             \* last reset, counted up to Blend + 1

historyVars == <<vars, prepared>>

HistoryInit == Init /\ prepared = 0

\* The physics thread is about to act on a request for mode m.
Entering(m) ==
  /\ pc = "snapped"
  /\ snap.mode_seq # last_mode_seq_
  /\ Effective(snap.requested_mode) = m

\* Whether the step is one of the physics thread shows in pc.
HistoryNext ==
  /\ Next
  /\ prepared' =
       IF resets' # resets THEN 0
       ELSE IF pc' = pc THEN prepared
       ELSE IF Entering("PREPARE") THEN 0
       ELSE IF pc = "handled" /\ state_ = "PREPARE" /\ prepared <= Blend
            THEN prepared + 1 ELSE prepared

HistorySpec == HistoryInit /\ [][HistoryNext]_historyVars

\* "PREPARE (blend to and hold the gains.yaml ready pose": once the blend time
\* has passed in PREPARE, counted afresh from a reset, every torque tracks the
\* ready pose (LocomotionController.hpp:29).
PrepareHoldsReadyPose ==
  pc = "integrate" /\ state_ = "PREPARE" /\ prepared > Blend =>
    \A j \in Joints \ HeadJoints : ctrl[j].src = "ready"
=============================================================================
