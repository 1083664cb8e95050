----------------------------- MODULE BoosterApi -----------------------------
(***************************************************************************)
(* The SDK enumerations every component shares (shared/k1/BoosterApi.hpp). *)
(***************************************************************************)

\* booster::RobotMode.
RobotMode == {"UNKNOWN", "DAMPING", "PREPARE", "WALKING", "CUSTOM", "SOCCER"}

\* booster::FallState.  Nothing in the simulator reports IS_GETTING_UP.
FallState == {"IS_READY", "IS_FALLING", "HAS_FALLEN", "IS_GETTING_UP"}

\* LowCmd.cmd_type: 0 is PARALLEL, everything else is treated as SERIAL.
LowCmdType == {"PARALLEL", "SERIAL"}
=============================================================================
