------------------------ MODULE LocomotionController ------------------------
(***************************************************************************)
(* module/Locomotion: the Booster mode state machine and its servo law     *)
(* (LocomotionController), the reactions that feed it (Locomotion.cpp) and *)
(* the physics thread that steps it under the simulation mutex             *)
(* (SimCore::physics_loop, SimCore::reset).                                *)
(*                                                                         *)
(* Two locks.  cmd_mutex_ guards the mailbox and is held within one action *)
(* at a time here, so it needs no variable.  The simulation mutex is held  *)
(* by the physics thread from Snapshot to MjStep (pc # "idle"), and        *)
(* excludes only Reset: the setters of the reaction threads never take it  *)
(* and run between any two steps of the physics thread.                    *)
(*                                                                         *)
(* Data that no property tells apart is abstracted.  A LowCmd is its       *)
(* number of motors and the CUSTOM session it was written in; the torque   *)
(* of a joint is the reference it tracks; the trunk's attitude is the      *)
(* outcome of the threshold tests of fall detection; sim time counts       *)
(* physics steps.                                                          *)
(*                                                                         *)
(* A definition named X_Y is a mistaken variant of X, a bug some property  *)
(* exists to catch.  Spec uses X, never X_Y.                               *)
(***************************************************************************)
EXTENDS BoosterApi, Integers, Sequences

CONSTANTS
  NJoints,      \* JOINT_COUNT
  HeadJoints,   \* the joints apply_head_target overrides
  Heads,        \* head angles a client may ask for
  HeadLimit,    \* the SDK's RotateHead limit
  MaxMotors,    \* longest LowCmd; more than NJoints motors must be harmless
  Attitudes,    \* trunk attitudes the physics produces
  Requestable,  \* modes the clients ask for
  MaxSeq,       \* bound on the number of mode requests
  MaxResets,    \* bound on the number of simulation resets
  Blend,        \* prepare_blend_time_, in physics steps
  MaxTime       \* the window of sim times that are told apart

Joints == 1 .. NJoints

\* tilt counts the tilt thresholds exceeded (falling_tilt_, fallen_tilt_),
\* spinning is gyro > falling_gyro_, low is base_z < fallen_height_.
Attitude == [tilt : 0 .. 2, spinning : BOOLEAN, low : BOOLEAN]

ASSUME ControllerAssumption ==
  /\ NJoints \in Nat \ {0}
  /\ HeadJoints \subseteq Joints
  /\ Heads \subseteq Nat
  /\ 0 \in Heads
  /\ HeadLimit \in Nat
  /\ MaxMotors \in Nat
  /\ Attitudes \subseteq Attitude
  /\ Attitudes # {}
  /\ Requestable \subseteq RobotMode
  /\ MaxSeq \in Nat \ {0}
  /\ MaxResets \in Nat
  /\ Blend \in Nat \ {0}
  /\ MaxTime \in Nat
  /\ Blend <= MaxTime

VARIABLES
  \* --- the mailbox (guarded by cmd_mutex_)
  mailbox,              \* a CommandSnapshot
  \* --- the state machine (physics thread only)
  state_,
  last_mode_seq_,
  prepare_start_time_,
  custom_low_cmd_seen_,
  custom_entry_step_,
  \* --- the atomics other threads read
  mode_,
  fall_state_,
  \* --- the physics thread and the data it owns under the simulation mutex
  pc,                   \* the routine the physics thread executes next
  snap,                 \* the snapshot of the current step()
  ctrl,                 \* d->ctrl
  time,                 \* d->time
  attitude,             \* the base pose and gyro of d
  resets,               \* simulation resets so far (bounds the model)
  \* --- history, for the properties only
  requests,             \* every mode written to the mailbox
  session,              \* CUSTOM sessions entered so far
  heard                 \* this CUSTOM session was sent a LowCmd with motors

fsm     == <<state_, last_mode_seq_, prepare_start_time_,
             custom_low_cmd_seen_, custom_entry_step_>>
atomics == <<mode_, fall_state_>>
data    == <<ctrl, time, attitude, resets>>
vars    == <<mailbox, fsm, atomics, pc, snap, data,
             requests, session, heard>>

-----------------------------------------------------------------------------
(* Types *)

Motors == [n : 0 .. MaxMotors, session : 0 .. MaxSeq]

CommandSnapshot ==
  [head : Heads, mode_seq : 0 .. MaxSeq, requested_mode : RobotMode,
   low_cmd_type : LowCmdType, low_cmd_motors : Motors]

NoMotors == [n |-> 0, session |-> 0]

EmptySnapshot ==
  [head |-> 0, mode_seq |-> 0, requested_mode |-> "DAMPING",
   low_cmd_type |-> "SERIAL", low_cmd_motors |-> NoMotors]

ServoMode  == {"DAMPING", "PREPARE", "CUSTOM"}

\* What a joint's torque tracks.  ref is the head angle or the session of the
\* LowCmd; a held torque was computed in an earlier step and left in place.
References == {"zero", "start", "blend", "ready", "head", "entry", "lowcmd"}
Torque     == [src : References, ref : Nat, held : BOOLEAN]

Fresh(src, ref) == [src |-> src, ref |-> ref, held |-> FALSE]
Held(torque)    == [torque EXCEPT !.held = TRUE]

PcValues == {"idle", "snapped", "handled", "integrate"}

TypeOK ==
  /\ mailbox \in CommandSnapshot
  /\ state_ \in ServoMode
  /\ last_mode_seq_ \in 0 .. MaxSeq
  /\ prepare_start_time_ \in 0 .. MaxTime
  /\ custom_low_cmd_seen_ \in BOOLEAN
  /\ custom_entry_step_ \in BOOLEAN
  /\ mode_ \in ServoMode
  /\ fall_state_ \in FallState
  /\ pc \in PcValues
  /\ snap \in CommandSnapshot
  /\ ctrl \in [Joints -> Torque]
  /\ time \in 0 .. MaxTime
  /\ attitude \in Attitudes
  /\ resets \in 0 .. MaxResets
  /\ requests \in Seq(RobotMode)
  /\ session \in 0 .. MaxSeq
  /\ heard \in BOOLEAN

-----------------------------------------------------------------------------
(* The constructor.  initial_mode is "prepare" or "damping" in              *)
(* locomotion.yaml; any other value throws before there is a controller.    *)

Init ==
  /\ \E boot \in {<< >>, <<"PREPARE">>} :
       /\ requests = boot
       /\ mailbox = [EmptySnapshot EXCEPT
                       !.mode_seq = Len(boot),
                       !.requested_mode =
                         IF boot = << >> THEN "DAMPING" ELSE "PREPARE"]
  /\ state_ = "DAMPING"
  /\ last_mode_seq_ = 0
  /\ prepare_start_time_ = 0
  /\ custom_low_cmd_seen_ = FALSE
  /\ custom_entry_step_ = FALSE
  /\ mode_ = "DAMPING"
  /\ fall_state_ = "IS_READY"
  /\ pc = "idle"
  /\ snap = EmptySnapshot
  /\ ctrl = [j \in Joints |-> Fresh("zero", 0)]
  /\ time = 0
  /\ attitude \in Attitudes
  /\ resets = 0
  /\ session = 0
  /\ heard = FALSE

-----------------------------------------------------------------------------
(* Reaction threads: Trigger<HeadCommand>, Trigger<ModeChangeRequest> and   *)
(* Trigger<LowCmdMessage>.                                                  *)

set_head_command(h) ==
  /\ mailbox' = [mailbox EXCEPT !.head = h]
  /\ UNCHANGED <<fsm, atomics, pc, snap, data,
                 requests, session, heard>>

request_mode_change(m) ==
  /\ mailbox.mode_seq < MaxSeq
  /\ mailbox' = [mailbox EXCEPT !.requested_mode = m, !.mode_seq = @ + 1]
  /\ requests' = Append(requests, m)
  /\ UNCHANGED <<fsm, atomics, pc, snap, data, session, heard>>

set_low_cmd(type, n) ==
  /\ mailbox' = [mailbox EXCEPT
                   !.low_cmd_type = type,
                   !.low_cmd_motors = [n |-> n, session |-> session]]
  /\ heard' = (heard \/ n > 0)
  /\ UNCHANGED <<fsm, atomics, pc, snap, data, requests, session>>

-----------------------------------------------------------------------------
(* The physics thread: LocomotionController::step under the sim mutex. *)

snapshot_command ==
  /\ pc = "idle"
  /\ pc' = "snapped"
  /\ snap' = mailbox
  /\ UNCHANGED <<mailbox, fsm, atomics, data,
                 requests, session, heard>>

\* The SDK's walking modes hold the ready pose.
Effective(m) == IF m \in {"WALKING", "SOCCER"} THEN "PREPARE" ELSE m

Known_Any(effective) == TRUE
Known(effective) == effective \in ServoMode

\* step() acts on a request once, when the sequence number has moved on, and
\* remembers the number it acted on.
Edge_None == TRUE
Edge == snap.mode_seq # last_mode_seq_

Consumed_Live == mailbox.mode_seq
Consumed_Next == last_mode_seq_ + 1
Consumed == snap.mode_seq

Enter_damping ==
  /\ state_' = "DAMPING"
  /\ UNCHANGED <<mailbox, prepare_start_time_, custom_low_cmd_seen_,
                 custom_entry_step_, session, heard>>

Enter_prepare ==
  /\ state_' = "PREPARE"
  /\ prepare_start_time_' = time
  /\ UNCHANGED <<mailbox, custom_low_cmd_seen_, custom_entry_step_,
                 session, heard>>

Enter_custom_NoEntryStep ==
  /\ state_' = "CUSTOM"
  /\ custom_low_cmd_seen_' = FALSE
  /\ custom_entry_step_' = FALSE
  /\ mailbox' = [mailbox EXCEPT !.low_cmd_motors = NoMotors]
  /\ session' = session + 1
  /\ heard' = FALSE
  /\ UNCHANGED prepare_start_time_

Enter_custom_NoClear ==
  /\ state_' = "CUSTOM"
  /\ custom_low_cmd_seen_' = FALSE
  /\ custom_entry_step_' = TRUE
  /\ session' = session + 1
  /\ heard' = FALSE
  /\ UNCHANGED <<mailbox, prepare_start_time_>>

\* The mailbox is emptied of the previous session's LowCmd under cmd_mutex_;
\* its cmd_type stays.  A LowCmd written since snapshot_command goes too.
Enter_custom ==
  /\ state_' = "CUSTOM"
  /\ custom_low_cmd_seen_' = FALSE
  /\ custom_entry_step_' = TRUE
  /\ mailbox' = [mailbox EXCEPT !.low_cmd_motors = NoMotors]
  /\ session' = session + 1
  /\ heard' = FALSE
  /\ UNCHANGED prepare_start_time_

\* An unknown mode uses its sequence number up and changes nothing else.
handle_mode_request ==
  /\ pc = "snapped"
  /\ pc' = "handled"
  /\ last_mode_seq_' = IF Edge THEN Consumed ELSE last_mode_seq_
  /\ LET effective == Effective(snap.requested_mode)
         acts      == Edge /\ Known(effective)
     IN /\ mode_' = IF acts THEN effective ELSE mode_
        /\ \/ acts /\ effective = "DAMPING" /\ Enter_damping
           \/ acts /\ effective = "PREPARE" /\ Enter_prepare
           \/ acts /\ effective = "CUSTOM" /\ Enter_custom
           \/ /\ ~(acts /\ effective \in ServoMode)
              /\ UNCHANGED <<mailbox, state_, prepare_start_time_,
                             custom_low_cmd_seen_, custom_entry_step_,
                             session, heard>>
  /\ UNCHANGED <<fall_state_, snap, data, requests>>

Detected_LowOnly(a) ==
  IF a.low THEN "HAS_FALLEN"
  ELSE IF a.tilt >= 1 /\ a.spinning THEN "IS_FALLING" ELSE "IS_READY"

\* Both criteria of HAS_FALLEN come first: a robot whose trunk has tipped over is
\* down, however high it lies, and so is one that kneels with its trunk upright.
Detected(a) ==
  IF a.tilt = 2 \/ a.low THEN "HAS_FALLEN"
  ELSE IF a.tilt >= 1 /\ a.spinning THEN "IS_FALLING" ELSE "IS_READY"

step_damping ==
  /\ ctrl' = [j \in Joints |-> Fresh("zero", 0)]
  /\ UNCHANGED <<custom_low_cmd_seen_, custom_entry_step_>>

\* The head joints track the commanded head angle from the first step on.
\* The reference lerps from the pose PREPARE was entered in to the ready pose;
\* the fraction of the way is clamped to 0 .. 1.
BlendTarget(elapsed) ==
  IF elapsed <= 0 THEN "start" ELSE IF elapsed < Blend THEN "blend" ELSE "ready"

Clamp(h) == IF h > HeadLimit THEN HeadLimit ELSE h

step_prepare_NoHead ==
  /\ ctrl' = [j \in Joints |-> Fresh(BlendTarget(time - prepare_start_time_), 0)]
  /\ UNCHANGED <<custom_low_cmd_seen_, custom_entry_step_>>

step_prepare ==
  /\ ctrl' = [j \in Joints |->
                IF j \in HeadJoints THEN Fresh("head", Clamp(snap.head))
                ELSE Fresh(BlendTarget(time - prepare_start_time_), 0)]
  /\ UNCHANGED <<custom_low_cmd_seen_, custom_entry_step_>>

EntryHold_Frozen == [j \in Joints |-> Held(ctrl[j])]

EntryHold == [j \in Joints |-> Fresh("entry", 0)]

\* The three cases of step_custom in the order of the code.  The entry step
\* ignores its snapshot, which was taken before the mailbox was emptied.
step_custom ==
  \/ /\ custom_entry_step_
     /\ custom_entry_step_' = FALSE
     /\ ctrl' = EntryHold
     /\ UNCHANGED custom_low_cmd_seen_
  \/ /\ ~custom_entry_step_
     /\ ~custom_low_cmd_seen_
     /\ snap.low_cmd_motors.n = 0
     /\ ctrl' = EntryHold
     /\ UNCHANGED <<custom_low_cmd_seen_, custom_entry_step_>>
  \/ /\ ~custom_entry_step_
     /\ custom_low_cmd_seen_ \/ snap.low_cmd_motors.n > 0
     /\ custom_low_cmd_seen_' = TRUE
     /\ IF snap.low_cmd_type = "PARALLEL"
        THEN ctrl' = [j \in Joints |-> Held(ctrl[j])]
        ELSE ctrl' = [j \in Joints |->
                        IF j <= snap.low_cmd_motors.n
                        THEN Fresh("lowcmd", snap.low_cmd_motors.session)
                        ELSE Held(ctrl[j])]
     /\ UNCHANGED custom_entry_step_

\* update_fall_detection, then the step of the current state.
step_state ==
  /\ pc = "handled"
  /\ pc' = "integrate"
  /\ fall_state_' = Detected(attitude)
  /\ \/ state_ = "DAMPING" /\ step_damping
     \/ state_ = "PREPARE" /\ step_prepare
     \/ state_ = "CUSTOM" /\ step_custom
  /\ UNCHANGED <<mailbox, state_, last_mode_seq_, prepare_start_time_, mode_,
                 snap, time, attitude, resets, requests, session, heard>>

-----------------------------------------------------------------------------
(* MuJoCo and the simulation mutex (SimCore). *)

\* mj_step, then the loop releases the simulation mutex.  The clock is a window
\* that moves with the simulation: at its edge the start of PREPARE moves back
\* instead of the time moving on, until the blend lies wholly in the past.
MjStep ==
  /\ pc = "integrate"
  /\ pc' = "idle"
  /\ snap' = EmptySnapshot
  /\ attitude' \in Attitudes
  /\ IF time < MaxTime
     THEN time' = time + 1 /\ UNCHANGED prepare_start_time_
     ELSE /\ prepare_start_time_' =
               IF prepare_start_time_ > MaxTime - Blend
               THEN prepare_start_time_ - 1 ELSE prepare_start_time_
          /\ UNCHANGED time
  /\ UNCHANGED <<mailbox, state_, last_mode_seq_, custom_low_cmd_seen_,
                 custom_entry_step_, atomics, ctrl, resets,
                 requests, session, heard>>

\* SimCore::reset waits for the simulation mutex and puts mjData back to its
\* keyframe, time and torques included; the controller is not told.
Reset ==
  /\ pc = "idle"
  /\ resets < MaxResets
  /\ resets' = resets + 1
  /\ time' = 0
  /\ ctrl' = [j \in Joints |-> Fresh("zero", 0)]
  /\ attitude' \in Attitudes
  /\ UNCHANGED <<mailbox, fsm, atomics, pc, snap,
                 requests, session, heard>>

-----------------------------------------------------------------------------
Clients ==
  \/ \E h \in Heads : set_head_command(h)
  \/ \E m \in Requestable : request_mode_change(m)
  \/ \E t \in LowCmdType, n \in 0 .. MaxMotors : set_low_cmd(t, n)

Physics == snapshot_command \/ handle_mode_request \/ step_state \/ MjStep

Next == Clients \/ Physics \/ Reset

\* The physics thread runs until the simulator shuts down; nothing obliges a
\* client to send anything or a user to reset.
Spec == Init /\ [][Next]_vars /\ WF_vars(Physics)

-----------------------------------------------------------------------------
(* Properties *)

\* A torque that is about to be integrated and comes from a LowCmd was computed
\* or left by a command written in the CUSTOM session that is in force: nothing
\* left over from an earlier session ever drives a joint.
NoStaleLowCmd ==
  pc = "integrate" =>
    \A j \in Joints :
      ctrl[j].src = "lowcmd" => state_ = "CUSTOM" /\ ctrl[j].ref = session

\* Dead-client protection: as long as nobody has sent a LowCmd with motors in
\* the current CUSTOM session, every joint is servoed to the pose the session
\* was entered in, by a torque computed in this very step.
DeadClientHoldsEntryPose ==
  pc = "integrate" /\ state_ = "CUSTOM" /\ ~heard => ctrl = EntryHold

\* A torque from an earlier step is only ever integrated again on the word of
\* the client: a PARALLEL command or one too short for the joint, in CUSTOM,
\* after the session's first command.
FrozenOnlyByClient ==
  pc = "integrate" =>
    \A j \in Joints :
      ctrl[j].held =>
        /\ state_ = "CUSTOM" /\ custom_low_cmd_seen_
        /\ snap.low_cmd_type = "PARALLEL" \/ snap.low_cmd_motors.n < j

\* What GET_MODE will report and the servo law in force never disagree, and
\* once the newest request has been consumed they are what it asked for.
ModeInForce ==
  /\ mode_ = state_
  /\ (mailbox.mode_seq = last_mode_seq_ /\ last_mode_seq_ > 0
        /\ mailbox.requested_mode # "UNKNOWN") =>
       mode_ = Effective(mailbox.requested_mode)

\* The inductive invariant behind the four invariants above.  Its parts tie
\* the mailbox, the snapshot and the history together: sequence numbers index
\* the request log, and a LowCmd that can still reach the servos was written in
\* the session that is in force.
LogInv ==
  /\ Len(requests) = mailbox.mode_seq
  /\ mailbox.mode_seq > 0 => mailbox.requested_mode = requests[mailbox.mode_seq]
  /\ session <= last_mode_seq_
  /\ last_mode_seq_ <= mailbox.mode_seq
  /\ last_mode_seq_ > 0 /\ requests[last_mode_seq_] # "UNKNOWN" =>
       mode_ = Effective(requests[last_mode_seq_])

SnapInv ==
  /\ pc # "idle" =>
       /\ last_mode_seq_ <= snap.mode_seq
       /\ snap.mode_seq <= mailbox.mode_seq
       /\ snap.mode_seq > 0 => snap.requested_mode = requests[snap.mode_seq]
  /\ pc \in {"snapped", "handled"} /\ state_ = "CUSTOM" /\ ~custom_entry_step_
       /\ snap.low_cmd_motors.n > 0 =>
       snap.low_cmd_motors.session = session /\ heard

SessionInv ==
  /\ custom_entry_step_ =>
       pc = "handled" /\ state_ = "CUSTOM" /\ ~custom_low_cmd_seen_
  /\ state_ = "CUSTOM" /\ mailbox.low_cmd_motors.n > 0 =>
       mailbox.low_cmd_motors.session = session /\ heard
  /\ state_ = "CUSTOM" /\ custom_low_cmd_seen_ => heard
  /\ pc # "handled" \/ (state_ = "CUSTOM" /\ ~custom_entry_step_) =>
       \A j \in Joints :
         ctrl[j].src = "lowcmd" => state_ = "CUSTOM" /\ ctrl[j].ref = session

IInv ==
  /\ TypeOK
  /\ mode_ = state_
  /\ LogInv
  /\ SnapInv
  /\ SessionInv
  /\ DeadClientHoldsEntryPose
  /\ FrozenOnlyByClient

Contract == INSTANCE ModeContract
              WITH log <- requests, applied <- last_mode_seq_, mode <- mode_

\* Mode requests are applied in the order in which they reached the mailbox,
\* none twice, and the newest one is always reached (the detailed controller
\* implements ModeContract).
ImplementsContract == Contract!Spec

\* A robot that is down for good is reported as HAS_FALLEN for good, whichever
\* way it is down (the get-up retry of the client depends on it).
DownIsReported ==
  <>[](attitude.low \/ attitude.tilt = 2) => <>[](fall_state_ = "HAS_FALLEN")

\* A robot left in PREPARE ends up servoed to the ready pose and stays so, even
\* when the simulation was reset under it.
PrepareSettles ==
  <>[](state_ = "PREPARE") =>
    <>[](pc = "integrate" =>
           \A j \in Joints \ HeadJoints : ctrl[j] = Fresh("ready", 0))

\* The last RotateHead is never lost: sent in whatever mode and however close to
\* another command, it is what the head tracks, within the SDK's limit, once the
\* robot stays in PREPARE.
HeadCommandIsKept ==
  \A h \in Heads :
    <>[](state_ = "PREPARE" /\ mailbox.head = h) =>
      <>[](pc = "integrate" =>
             \A j \in HeadJoints : ctrl[j] = Fresh("head", Clamp(h)))
=============================================================================
