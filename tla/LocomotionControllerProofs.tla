-------------------- MODULE LocomotionControllerProofs ----------------------
(***************************************************************************)
(* The invariants of LocomotionController for every number of joints, any  *)
(* length of LowCmd and any number of requests, resets and physics steps,  *)
(* and the step simulation behind ImplementsContract.                      *)
(***************************************************************************)
EXTENDS LocomotionController, TLAPS

USE DEF Joints, ServoMode

-----------------------------------------------------------------------------
(* Facts about the operators the actions are built from *)

\* A torque, fresh or held, is a torque.
LEMMA TorqueType ==
  /\ \A src \in References, ref \in Nat : Fresh(src, ref) \in Torque
  /\ \A t \in Torque : Held(t) \in Torque /\ Held(t).src = t.src
                       /\ Held(t).ref = t.ref /\ Held(t).held
  BY DEF Fresh, Held, Torque, References

\* Mode translation stays within the SDK's modes and knows every mode but UNKNOWN.
LEMMA EffectiveType ==
  \A m \in RobotMode :
    /\ Effective(m) \in RobotMode
    /\ Effective(m) \in ServoMode <=> m # "UNKNOWN"
  BY DEF Effective, RobotMode

LEMMA EmptySnapshotType ==
  /\ NoMotors \in Motors
  /\ EmptySnapshot \in CommandSnapshot
  BY ControllerAssumption
  DEF NoMotors, Motors, EmptySnapshot, CommandSnapshot, RobotMode, LowCmdType

-----------------------------------------------------------------------------
LEMMA InitInductive == Init => IInv
  <1> SUFFICES ASSUME Init PROVE IInv
    OBVIOUS
  <1>1. TypeOK
    <2>1. mailbox \in CommandSnapshot /\ requests \in Seq(RobotMode)
          /\ mailbox.mode_seq = Len(requests)
      <3>1. PICK boot \in {<< >>, <<"PREPARE">>} :
              /\ requests = boot
              /\ mailbox = [EmptySnapshot EXCEPT
                              !.mode_seq = Len(boot),
                              !.requested_mode =
                                IF boot = << >> THEN "DAMPING" ELSE "PREPARE"]
        BY DEF Init
      <3>2. boot \in Seq(RobotMode) /\ Len(boot) \in 0 .. MaxSeq
        <4>1. CASE boot = << >>
          BY <4>1, ControllerAssumption
        <4>2. CASE boot = <<"PREPARE">>
          <5>1. "PREPARE" \in RobotMode /\ 1 \in 0 .. MaxSeq
            BY ControllerAssumption DEF RobotMode
          <5> QED
            BY <4>2, <5>1
        <4> QED
          BY <3>1, <4>1, <4>2
      <3> QED
        BY <3>1, <3>2, EmptySnapshotType
        DEF EmptySnapshot, CommandSnapshot, RobotMode
    <2>2. snap \in CommandSnapshot
      BY EmptySnapshotType DEF Init
    <2>3. ctrl \in [Joints -> Torque]
      BY TorqueType DEF Init, References
    <2>4. /\ state_ \in ServoMode /\ mode_ \in ServoMode
          /\ fall_state_ \in FallState /\ pc \in PcValues
          /\ custom_low_cmd_seen_ \in BOOLEAN /\ custom_entry_step_ \in BOOLEAN
          /\ heard \in BOOLEAN
      BY DEF Init, FallState, PcValues
    <2>5. /\ last_mode_seq_ \in 0 .. MaxSeq /\ session \in 0 .. MaxSeq
          /\ prepare_start_time_ \in 0 .. MaxTime /\ time \in 0 .. MaxTime
          /\ attitude \in Attitudes /\ resets \in 0 .. MaxResets
      BY ControllerAssumption DEF Init
    <2> QED
      BY <2>1, <2>2, <2>3, <2>4, <2>5 DEF TypeOK
  <1>2. LogInv
    BY DEF Init, LogInv, EmptySnapshot
  <1>3. SnapInv /\ SessionInv /\ DeadClientHoldsEntryPose /\ FrozenOnlyByClient
    BY DEF Init, SnapInv, SessionInv, DeadClientHoldsEntryPose,
           FrozenOnlyByClient, Fresh, EmptySnapshot, NoMotors
  <1> QED
    BY <1>1, <1>2, <1>3 DEF IInv, Init

-----------------------------------------------------------------------------
(* The reaction threads *)

LEMMA HeadInductive ==
  ASSUME IInv, NEW h \in Heads, set_head_command(h) PROVE IInv'
  <1> USE DEF IInv, set_head_command, fsm, atomics, data
  <1>1. TypeOK'
    BY DEF TypeOK, CommandSnapshot
  <1>2. mailbox'.mode_seq = mailbox.mode_seq
        /\ mailbox'.requested_mode = mailbox.requested_mode
        /\ mailbox'.low_cmd_motors = mailbox.low_cmd_motors
    BY DEF TypeOK, CommandSnapshot
  <1>3. LogInv' /\ SnapInv' /\ SessionInv'
    BY <1>2 DEF LogInv, SnapInv, SessionInv
  <1>4. DeadClientHoldsEntryPose' /\ FrozenOnlyByClient'
    BY DEF DeadClientHoldsEntryPose, FrozenOnlyByClient, EntryHold
  <1> QED
    BY <1>1, <1>3, <1>4

LEMMA RequestInductive ==
  ASSUME IInv, NEW m \in RobotMode, request_mode_change(m) PROVE IInv'
  <1> USE DEF IInv, request_mode_change, fsm, atomics, data
  <1>1. /\ mailbox' \in CommandSnapshot
        /\ mailbox'.mode_seq = mailbox.mode_seq + 1
        /\ mailbox'.requested_mode = m
        /\ mailbox'.low_cmd_motors = mailbox.low_cmd_motors
    <2>0. mailbox \in CommandSnapshot /\ mailbox.mode_seq < MaxSeq
      BY DEF TypeOK
    <2>1. mailbox.mode_seq + 1 \in 0 .. MaxSeq
      BY <2>0, ControllerAssumption DEF CommandSnapshot
    <2>2. mailbox' = [head |-> mailbox.head, mode_seq |-> mailbox.mode_seq + 1,
                      requested_mode |-> m, low_cmd_type |-> mailbox.low_cmd_type,
                      low_cmd_motors |-> mailbox.low_cmd_motors]
      BY <2>0 DEF CommandSnapshot
    <2> QED
      BY <2>0, <2>1, <2>2 DEF CommandSnapshot
  <1>2. /\ requests' \in Seq(RobotMode)
        /\ Len(requests') = Len(requests) + 1
        /\ requests'[Len(requests) + 1] = m
        /\ \A i \in 1 .. Len(requests) : requests'[i] = requests[i]
    BY DEF TypeOK
  <1>3. TypeOK'
    BY <1>1, <1>2 DEF TypeOK
  <1>4. LogInv'
    <2>1. last_mode_seq_ \in Nat /\ mailbox.mode_seq \in Nat /\ session \in Nat
      BY ControllerAssumption DEF TypeOK, CommandSnapshot
    <2>2. last_mode_seq_ > 0 => requests'[last_mode_seq_] = requests[last_mode_seq_]
      BY <1>2, <2>1 DEF LogInv
    <2> QED
      BY <1>1, <1>2, <2>1, <2>2 DEF LogInv
  <1>5. SnapInv'
    <2>1. snap.mode_seq \in Nat /\ mailbox.mode_seq \in Nat
      BY ControllerAssumption DEF TypeOK, CommandSnapshot
    <2>2. pc # "idle" /\ snap.mode_seq > 0 =>
            requests'[snap.mode_seq] = requests[snap.mode_seq]
      BY <1>2, <2>1 DEF LogInv, SnapInv
    <2>3. UNCHANGED <<pc, snap, state_, last_mode_seq_, custom_entry_step_,
                      session, heard>>
      OBVIOUS
    <2>4. pc # "idle" => /\ last_mode_seq_ <= snap.mode_seq
                         /\ snap.mode_seq <= mailbox.mode_seq
                         /\ snap.mode_seq > 0 =>
                              snap.requested_mode = requests'[snap.mode_seq]
      BY <2>2 DEF SnapInv
    <2>5. snap.mode_seq <= mailbox.mode_seq => snap.mode_seq <= mailbox'.mode_seq
      BY <1>1, <2>1
    <2>6. pc' \in {"snapped", "handled"} /\ state_' = "CUSTOM" /\ ~custom_entry_step_'
          /\ snap'.low_cmd_motors.n > 0 =>
            snap'.low_cmd_motors.session = session' /\ heard'
      BY <2>3 DEF SnapInv
    <2>7. pc' # "idle" =>
            /\ last_mode_seq_' <= snap'.mode_seq
            /\ snap'.mode_seq <= mailbox'.mode_seq
            /\ snap'.mode_seq > 0 =>
                 snap'.requested_mode = requests'[snap'.mode_seq]
      BY <2>3, <2>4, <2>5
    <2> QED
      BY <2>6, <2>7 DEF SnapInv
  <1>6. SessionInv'
    BY <1>1 DEF SessionInv
  <1>7. DeadClientHoldsEntryPose' /\ FrozenOnlyByClient'
    BY DEF DeadClientHoldsEntryPose, FrozenOnlyByClient, EntryHold
  <1> QED
    BY <1>3, <1>4, <1>5, <1>6, <1>7

LEMMA LowCmdInductive ==
  ASSUME IInv, NEW t \in LowCmdType, NEW n \in 0 .. MaxMotors, set_low_cmd(t, n)
  PROVE  IInv'
  <1> USE DEF IInv, set_low_cmd, fsm, atomics, data
  <1>1. /\ mailbox' \in CommandSnapshot
        /\ mailbox'.mode_seq = mailbox.mode_seq
        /\ mailbox'.requested_mode = mailbox.requested_mode
        /\ mailbox'.low_cmd_motors = [n |-> n, session |-> session]
    BY ControllerAssumption DEF TypeOK, CommandSnapshot, Motors
  <1>2. TypeOK'
    BY <1>1 DEF TypeOK
  <1>3. LogInv' /\ SnapInv'
    BY <1>1 DEF LogInv, SnapInv
  <1>4. SessionInv'
    <2>1. heard' \in BOOLEAN /\ (heard => heard') /\ (n > 0 => heard')
      BY DEF TypeOK
    <2> QED
      BY <1>1, <2>1 DEF SessionInv
  <1>5. DeadClientHoldsEntryPose' /\ FrozenOnlyByClient'
    BY DEF DeadClientHoldsEntryPose, FrozenOnlyByClient, EntryHold, TypeOK
  <1> QED
    BY <1>2, <1>3, <1>4, <1>5

-----------------------------------------------------------------------------
(* The physics thread *)

LEMMA SnapshotInductive == ASSUME IInv, snapshot_command PROVE IInv'
  <1> USE DEF IInv, snapshot_command, fsm, atomics, data
  <1>1. TypeOK'
    BY DEF TypeOK, PcValues
  <1>2. LogInv'
    BY DEF LogInv
  <1>3. SnapInv'
    <2>1. last_mode_seq_ <= mailbox.mode_seq /\ mailbox.mode_seq <= mailbox.mode_seq
          /\ (mailbox.mode_seq > 0 =>
                mailbox.requested_mode = requests[mailbox.mode_seq])
      BY DEF LogInv, TypeOK, CommandSnapshot
    <2>2. state_ = "CUSTOM" /\ mailbox.low_cmd_motors.n > 0 =>
            mailbox.low_cmd_motors.session = session /\ heard
      BY DEF SessionInv
    <2> QED
      BY <2>1, <2>2 DEF SnapInv
  <1>4. SessionInv'
    BY DEF SessionInv
  <1>5. DeadClientHoldsEntryPose' /\ FrozenOnlyByClient'
    BY DEF DeadClientHoldsEntryPose, FrozenOnlyByClient
  <1> QED
    BY <1>1, <1>2, <1>3, <1>4, <1>5

\* What handle_mode_request does to the session, the servo state and the
\* mailbox, one case per way out of the switch.
LEMMA HandleCases ==
  ASSUME IInv, handle_mode_request
  PROVE  \/ /\ Edge /\ snap.requested_mode = "DAMPING"
            /\ mode_' = "DAMPING" /\ Enter_damping
         \/ /\ Edge /\ Effective(snap.requested_mode) = "PREPARE"
            /\ mode_' = "PREPARE" /\ Enter_prepare
         \/ /\ Edge /\ snap.requested_mode = "CUSTOM"
            /\ mode_' = "CUSTOM" /\ Enter_custom
         \/ /\ Edge => snap.requested_mode = "UNKNOWN"
            /\ mode_' = mode_
            /\ UNCHANGED <<mailbox, state_, prepare_start_time_,
                           custom_low_cmd_seen_, custom_entry_step_,
                           session, heard>>
  <1>1. snap.requested_mode \in RobotMode
    BY DEF IInv, TypeOK, CommandSnapshot
  <1> QED
    BY <1>1, EffectiveType DEF handle_mode_request, Known, Effective

\* After the switch the consumed sequence number is the snapshot's, acted on or not.
LEMMA HandleConsumes ==
  ASSUME IInv, handle_mode_request
  PROVE  /\ last_mode_seq_' = snap.mode_seq
         /\ last_mode_seq_ \in Nat /\ snap.mode_seq \in 0 .. MaxSeq
         /\ mailbox.mode_seq \in Nat
         /\ last_mode_seq_ <= snap.mode_seq /\ snap.mode_seq <= mailbox.mode_seq
         /\ Edge => snap.mode_seq > last_mode_seq_
         /\ snap.mode_seq > 0 => snap.requested_mode = requests[snap.mode_seq]
  <1>1. snap.mode_seq \in 0 .. MaxSeq /\ mailbox.mode_seq \in 0 .. MaxSeq
        /\ last_mode_seq_ \in 0 .. MaxSeq
    BY DEF IInv, TypeOK, CommandSnapshot
  <1>2. /\ last_mode_seq_ <= snap.mode_seq /\ snap.mode_seq <= mailbox.mode_seq
        /\ snap.mode_seq > 0 => snap.requested_mode = requests[snap.mode_seq]
    BY DEF IInv, SnapInv, handle_mode_request
  <1>3. last_mode_seq_' = snap.mode_seq
    BY DEF handle_mode_request, Edge, Consumed
  <1> QED
    BY <1>1, <1>2, <1>3, ControllerAssumption DEF Edge

LEMMA HandleInductive == ASSUME IInv, handle_mode_request PROVE IInv'
  <1> USE DEF fsm, atomics, data
  <1>1. /\ pc = "snapped" /\ pc' = "handled"
        /\ UNCHANGED <<fall_state_, snap, ctrl, time, attitude, resets, requests>>
    BY DEF handle_mode_request
  <1>2. /\ mailbox' \in CommandSnapshot
        /\ mailbox'.mode_seq = mailbox.mode_seq
        /\ mailbox'.requested_mode = mailbox.requested_mode
    <2>1. mailbox \in CommandSnapshot
      BY DEF IInv, TypeOK
    <2>2. CASE mailbox' = mailbox
      BY <2>1, <2>2
    <2>3. CASE Enter_custom
      BY <2>1, <2>3, EmptySnapshotType DEF Enter_custom, CommandSnapshot
    <2> QED
      BY <2>2, <2>3, HandleCases DEF Enter_damping, Enter_prepare
  <1>3. session' \in 0 .. MaxSeq /\ session' <= last_mode_seq_'
    <2>1. session \in 0 .. MaxSeq /\ session <= last_mode_seq_
      BY DEF IInv, TypeOK, LogInv
    <2>2. CASE Edge /\ session' = session + 1
      BY <2>1, <2>2, HandleConsumes, ControllerAssumption
    <2>3. CASE session' = session
      BY <2>1, <2>3, HandleConsumes, ControllerAssumption
    <2>4. (Edge /\ session' = session + 1) \/ session' = session
      BY HandleCases DEF Enter_damping, Enter_prepare, Enter_custom
    <2> QED
      BY <2>2, <2>3, <2>4
  <1>4. TypeOK'
    <2>1. /\ state_' \in ServoMode /\ mode_' \in ServoMode
          /\ prepare_start_time_' \in 0 .. MaxTime
          /\ custom_low_cmd_seen_' \in BOOLEAN /\ custom_entry_step_' \in BOOLEAN
          /\ heard' \in BOOLEAN
      BY HandleCases DEF IInv, TypeOK, Enter_damping, Enter_prepare, Enter_custom
    <2>2. last_mode_seq_' \in 0 .. MaxSeq
      BY HandleConsumes
    <2> QED
      BY <1>1, <1>2, <1>3, <2>1, <2>2 DEF IInv, TypeOK, PcValues
  <1>5. mode_' = state_'
    <2>1. mode_ = state_
      BY DEF IInv
    <2>2. \/ mode_' = "DAMPING" /\ state_' = "DAMPING"
          \/ mode_' = "PREPARE" /\ state_' = "PREPARE"
          \/ mode_' = "CUSTOM" /\ state_' = "CUSTOM"
          \/ mode_' = mode_ /\ state_' = state_
      BY HandleCases DEF Enter_damping, Enter_prepare, Enter_custom
    <2> QED
      BY <2>1, <2>2
  <1>6. LogInv'
    <2>1. last_mode_seq_' > 0 /\ requests'[last_mode_seq_'] # "UNKNOWN" =>
            mode_' = Effective(requests'[last_mode_seq_'])
      <3>1. CASE Edge
        <4>1. snap.mode_seq > 0 =>
                requests'[last_mode_seq_'] = snap.requested_mode
          BY <1>1, HandleConsumes
        <4> QED
          BY <3>1, <4>1, HandleCases, HandleConsumes DEF Effective
      <3>2. CASE ~Edge
        <4>1. last_mode_seq_' = last_mode_seq_ /\ mode_' = mode_
          BY <3>2, HandleCases, HandleConsumes DEF Edge
        <4> QED
          BY <1>1, <4>1 DEF IInv, LogInv
      <3> QED
        BY <3>1, <3>2
    <2>2. Len(requests') = mailbox'.mode_seq
          /\ (mailbox'.mode_seq > 0 =>
                mailbox'.requested_mode = requests'[mailbox'.mode_seq])
      BY <1>1, <1>2 DEF IInv, LogInv
    <2>3. last_mode_seq_' <= mailbox'.mode_seq
      BY <1>2, HandleConsumes
    <2> QED
      BY <1>3, <2>1, <2>2, <2>3 DEF LogInv
  <1>7. SnapInv'
    <2>1. /\ last_mode_seq_' <= snap'.mode_seq
          /\ snap'.mode_seq <= mailbox'.mode_seq
          /\ snap'.mode_seq > 0 =>
               snap'.requested_mode = requests'[snap'.mode_seq]
      BY <1>1, <1>2, HandleConsumes
    <2>2. state_' = "CUSTOM" /\ ~custom_entry_step_' => UNCHANGED <<state_, session, heard>>
      BY HandleCases DEF Enter_damping, Enter_prepare, Enter_custom
    <2>3. ~custom_entry_step_
      BY <1>1 DEF IInv, SessionInv
    <2>4. state_' = "CUSTOM" /\ ~custom_entry_step_' /\ snap'.low_cmd_motors.n > 0 =>
            snap'.low_cmd_motors.session = session' /\ heard'
      BY <1>1, <2>2, <2>3 DEF IInv, SnapInv
    <2> QED
      BY <2>1, <2>4 DEF SnapInv
  <1>8. SessionInv'
    <2>1. ~custom_entry_step_
      BY <1>1 DEF IInv, SessionInv
    <2>2. CASE Enter_custom
      BY <1>1, <2>2, EmptySnapshotType
      DEF Enter_custom, SessionInv, NoMotors, IInv, TypeOK, CommandSnapshot
    <2>3. CASE state_' # "CUSTOM" /\ UNCHANGED custom_entry_step_
      BY <1>1, <2>1, <2>3 DEF SessionInv
    <2>4. CASE UNCHANGED <<mailbox, state_, custom_low_cmd_seen_,
                           custom_entry_step_, session, heard>>
      BY <1>1, <2>1, <2>4 DEF IInv, SessionInv
    <2> QED
      BY <2>2, <2>3, <2>4, HandleCases DEF Enter_damping, Enter_prepare
  <1>9. DeadClientHoldsEntryPose' /\ FrozenOnlyByClient'
    BY <1>1 DEF DeadClientHoldsEntryPose, FrozenOnlyByClient
  <1> QED
    BY <1>4, <1>5, <1>6, <1>7, <1>8, <1>9 DEF IInv

\* What a step writes to d->ctrl, and the flags of the CUSTOM session after it.
LEMMA StepWrites ==
  ASSUME IInv, step_state
  PROVE  /\ ctrl' \in [Joints -> Torque]
         /\ custom_low_cmd_seen_' \in BOOLEAN
         /\ custom_entry_step_' = FALSE
         /\ state_ = "CUSTOM" /\ custom_low_cmd_seen_' => heard
         /\ state_ = "CUSTOM" /\ ~heard => ctrl' = EntryHold
         /\ \A j \in Joints : ctrl'[j].src = "lowcmd" =>
              state_ = "CUSTOM" /\ ctrl'[j].ref = session
         /\ \A j \in Joints : ctrl'[j].held =>
              /\ state_ = "CUSTOM" /\ custom_low_cmd_seen_'
              /\ snap.low_cmd_type = "PARALLEL" \/ snap.low_cmd_motors.n < j
  <1>1. /\ state_ \in ServoMode /\ custom_low_cmd_seen_ \in BOOLEAN
        /\ custom_entry_step_ \in BOOLEAN /\ heard \in BOOLEAN
        /\ ctrl \in [Joints -> Torque] /\ session \in Nat
        /\ snap.head \in Nat /\ snap.low_cmd_motors.session \in Nat
        /\ snap.low_cmd_motors.n \in Nat
    <2>1. snap \in CommandSnapshot /\ snap.low_cmd_motors \in Motors
      BY DEF IInv, TypeOK, CommandSnapshot
    <2>2. /\ snap.head \in Heads
          /\ snap.low_cmd_motors.session \in 0 .. MaxSeq
          /\ snap.low_cmd_motors.n \in 0 .. MaxMotors
      BY <2>1 DEF CommandSnapshot, Motors
    <2>3. /\ snap.head \in Nat /\ snap.low_cmd_motors.session \in Nat
          /\ snap.low_cmd_motors.n \in Nat
      <3>1. Heads \subseteq Nat /\ MaxSeq \in Nat /\ MaxMotors \in Nat
        BY ControllerAssumption
      <3>2. snap.head \in Nat
        BY <2>2, <3>1
      <3>3. snap.low_cmd_motors.session \in Nat
        BY <2>2, <3>1
      <3>4. snap.low_cmd_motors.n \in Nat
        BY <2>2, <3>1
      <3> QED
        BY <3>2, <3>3, <3>4
    <2>4. /\ state_ \in ServoMode /\ custom_low_cmd_seen_ \in BOOLEAN
          /\ custom_entry_step_ \in BOOLEAN /\ heard \in BOOLEAN
          /\ ctrl \in [Joints -> Torque] /\ session \in 0 .. MaxSeq
      BY DEF IInv, TypeOK
    <2>5. session \in Nat
      BY <2>4, ControllerAssumption
    <2> QED
      BY <2>3, <2>4, <2>5
  <1>2. pc = "handled"
    BY DEF step_state
  <1>a. state_ = "CUSTOM" /\ custom_low_cmd_seen_ => heard
    BY DEF IInv, SessionInv
  <1>3. CASE state_ = "DAMPING" /\ step_damping
    <2>1. Fresh("zero", 0) \in Torque
      BY TorqueType DEF References
    <2>2. ~custom_entry_step_' /\ custom_low_cmd_seen_' = custom_low_cmd_seen_
      BY <1>3 DEF step_damping, IInv, SessionInv
    <2> QED
      BY <1>1, <1>3, <1>a, <2>1, <2>2 DEF step_damping, Fresh
  <1>4. CASE state_ = "PREPARE" /\ step_prepare
    <2>1. \A j \in Joints :
            /\ ctrl'[j] \in Torque /\ ~ctrl'[j].held
            /\ ctrl'[j].src # "lowcmd"
      <3>1. \A h \in Nat : Clamp(h) \in Nat
        BY ControllerAssumption DEF Clamp
      <3>2. /\ Fresh("head", Clamp(snap.head)) \in Torque
            /\ Fresh(BlendTarget(time - prepare_start_time_), 0) \in Torque
        BY <1>1, <3>1, TorqueType DEF BlendTarget, References
      <3>3. BlendTarget(time - prepare_start_time_) # "lowcmd"
        BY DEF BlendTarget
      <3> QED
        BY <1>4, <3>2, <3>3 DEF step_prepare, Fresh
    <2>2. ~custom_entry_step_' /\ custom_low_cmd_seen_' = custom_low_cmd_seen_
      BY <1>4 DEF step_prepare, IInv, SessionInv
    <2>3. ctrl' \in [Joints -> Torque]
      BY <1>4, <2>1 DEF step_prepare
    <2>4. state_ # "CUSTOM"
      BY <1>4
    <2>5. custom_entry_step_' = FALSE /\ custom_low_cmd_seen_' \in BOOLEAN
      BY <1>1, <1>4, <2>2 DEF step_prepare
    <2> QED
      BY <2>1, <2>3, <2>4, <2>5
  <1>5. CASE state_ = "CUSTOM" /\ step_custom
    <2>1. /\ EntryHold \in [Joints -> Torque]
          /\ \A j \in Joints : EntryHold[j].src # "lowcmd" /\ ~EntryHold[j].held
      BY TorqueType DEF EntryHold, Fresh, References
    <2>2. CASE /\ ctrl' = EntryHold
               /\ custom_low_cmd_seen_' = FALSE /\ custom_entry_step_' = FALSE
      BY <2>1, <2>2
    <2>3. ASSUME ~custom_entry_step_,
                 custom_low_cmd_seen_ \/ snap.low_cmd_motors.n > 0
          PROVE  heard
      BY <1>2, <1>5, <2>3 DEF IInv, SnapInv, SessionInv
    <2>4. \A j \in Joints :
            /\ Held(ctrl[j]) \in Torque /\ Held(ctrl[j]).held
            /\ Held(ctrl[j]).src = ctrl[j].src /\ Held(ctrl[j]).ref = ctrl[j].ref
      BY <1>1, TorqueType
    <2>5. ASSUME ~custom_entry_step_, NEW j \in Joints, ctrl[j].src = "lowcmd"
          PROVE  ctrl[j].ref = session
      BY <1>2, <1>5, <2>5 DEF IInv, SessionInv
    <2>6. CASE /\ heard /\ ~custom_entry_step_
               /\ custom_low_cmd_seen_' = TRUE /\ custom_entry_step_' = FALSE
               /\ snap.low_cmd_type = "PARALLEL"
               /\ ctrl' = [j \in Joints |-> Held(ctrl[j])]
      BY <1>5, <2>4, <2>5, <2>6
    <2>7. CASE /\ heard /\ ~custom_entry_step_
               /\ custom_low_cmd_seen_' = TRUE /\ custom_entry_step_' = FALSE
               /\ custom_low_cmd_seen_ \/ snap.low_cmd_motors.n > 0
               /\ ctrl' = [j \in Joints |->
                            IF j <= snap.low_cmd_motors.n
                            THEN Fresh("lowcmd", snap.low_cmd_motors.session)
                            ELSE Held(ctrl[j])]
      <3>1. \A j \in Joints : j <= snap.low_cmd_motors.n =>
              /\ ctrl'[j] = Fresh("lowcmd", session)
              /\ ctrl'[j] \in Torque
        <4>1. snap.low_cmd_motors.n > 0 => snap.low_cmd_motors.session = session
          BY <1>2, <1>5, <2>7 DEF IInv, SnapInv
        <4>2. \A j \in Joints : j <= snap.low_cmd_motors.n =>
                snap.low_cmd_motors.n > 0
          BY <1>1, ControllerAssumption
        <4>3. Fresh("lowcmd", session) \in Torque
          BY <1>1, TorqueType DEF References
        <4> QED
          BY <2>7, <4>1, <4>2, <4>3
      <3>2. \A j \in Joints : ~(j <= snap.low_cmd_motors.n) =>
              ctrl'[j] = Held(ctrl[j]) /\ snap.low_cmd_motors.n < j
        BY <1>1, <2>7, ControllerAssumption
      <3>3. /\ Fresh("lowcmd", session).src = "lowcmd"
            /\ Fresh("lowcmd", session).ref = session
            /\ Fresh("lowcmd", session).held = FALSE
        BY DEF Fresh
      <3>4. ctrl' \in [Joints -> Torque]
        BY <2>4, <2>7, <3>1, <3>2
      <3>5. \A j \in Joints : ctrl'[j].src = "lowcmd" => ctrl'[j].ref = session
        BY <2>4, <2>5, <2>7, <3>1, <3>2, <3>3
      <3>6. \A j \in Joints : ctrl'[j].held => snap.low_cmd_motors.n < j
        BY <3>1, <3>2, <3>3
      <3> QED
        BY <1>5, <2>7, <3>4, <3>5, <3>6
    <2>8. CASE custom_entry_step_
      <3>1. custom_low_cmd_seen_ = FALSE
        BY <1>1, <2>8 DEF IInv, SessionInv
      <3> QED
        BY <1>5, <2>2, <2>8, <3>1 DEF step_custom
    <2>9. CASE ~custom_entry_step_
      <3>1. custom_entry_step_ = FALSE
        BY <1>1, <2>9
      <3>2. CASE ~custom_low_cmd_seen_ /\ snap.low_cmd_motors.n = 0
        <4>1. ctrl' = EntryHold /\ UNCHANGED <<custom_low_cmd_seen_, custom_entry_step_>>
          BY <1>1, <1>5, <2>9, <3>2 DEF step_custom
        <4> QED
          BY <1>1, <2>2, <3>1, <3>2, <4>1
      <3>3. CASE custom_low_cmd_seen_ \/ snap.low_cmd_motors.n > 0
        <4>1. heard
          BY <2>3, <2>9, <3>3
        <4>2. custom_low_cmd_seen_' = TRUE /\ custom_entry_step_' = FALSE
          BY <1>1, <1>5, <2>9, <3>1, <3>3 DEF step_custom
        <4>3. \/ /\ snap.low_cmd_type = "PARALLEL"
                 /\ ctrl' = [j \in Joints |-> Held(ctrl[j])]
              \/ ctrl' = [j \in Joints |->
                            IF j <= snap.low_cmd_motors.n
                            THEN Fresh("lowcmd", snap.low_cmd_motors.session)
                            ELSE Held(ctrl[j])]
          BY <1>1, <1>5, <2>9, <3>3 DEF step_custom
        <4> QED
          BY <2>6, <2>7, <2>9, <3>3, <4>1, <4>2, <4>3
      <3>4. snap.low_cmd_motors.n = 0 \/ snap.low_cmd_motors.n > 0
        BY <1>1
      <3> QED
        BY <3>2, <3>3, <3>4, Zenon
    <2> QED
      BY <2>8, <2>9
  <1> QED
    BY <1>3, <1>4, <1>5 DEF step_state

LEMMA StepInductive == ASSUME IInv, step_state PROVE IInv'
  <1>1. /\ pc = "handled" /\ pc' = "integrate"
        /\ UNCHANGED <<mailbox, state_, last_mode_seq_, prepare_start_time_,
                       mode_, snap, time, attitude, resets, requests,
                       session, heard>>
    BY DEF step_state
  <1>2. TypeOK'
    <2>1. fall_state_' \in FallState
      BY DEF step_state, Detected, FallState
    <2>2. custom_entry_step_' \in BOOLEAN
      BY StepWrites
    <2> QED
      BY <1>1, <2>1, <2>2, StepWrites DEF IInv, TypeOK, PcValues
  <1>3. LogInv'
    BY <1>1 DEF IInv, LogInv
  <1>4. SnapInv'
    BY <1>1 DEF IInv, SnapInv
  <1>5. SessionInv'
    <2>1. ~custom_entry_step_'
      BY StepWrites
    <2>2. state_' = "CUSTOM" /\ mailbox'.low_cmd_motors.n > 0 =>
            mailbox'.low_cmd_motors.session = session' /\ heard'
      BY <1>1 DEF IInv, SessionInv
    <2>3. state_' = "CUSTOM" /\ custom_low_cmd_seen_' => heard'
      BY <1>1, StepWrites
    <2>4. \A j \in Joints : ctrl'[j].src = "lowcmd" =>
            state_' = "CUSTOM" /\ ctrl'[j].ref = session'
      BY <1>1, StepWrites
    <2> QED
      BY <2>1, <2>2, <2>3, <2>4 DEF SessionInv
  <1>6. DeadClientHoldsEntryPose'
    BY <1>1, StepWrites DEF DeadClientHoldsEntryPose, EntryHold
  <1>7. FrozenOnlyByClient'
    BY <1>1, StepWrites DEF FrozenOnlyByClient
  <1> QED
    BY <1>1, <1>2, <1>3, <1>4, <1>5, <1>6, <1>7 DEF IInv

-----------------------------------------------------------------------------
(* MuJoCo and the simulation mutex *)

LEMMA MjStepInductive == ASSUME IInv, MjStep PROVE IInv'
  <1> USE DEF fsm, atomics, data
  <1>1. /\ pc = "integrate" /\ pc' = "idle"
        /\ snap' = EmptySnapshot /\ attitude' \in Attitudes
        /\ UNCHANGED <<mailbox, state_, last_mode_seq_, custom_low_cmd_seen_,
                       custom_entry_step_, mode_, fall_state_, ctrl, resets,
                       requests, session, heard>>
    BY DEF MjStep
  <1>2. TypeOK'
    <2>1. time \in 0 .. MaxTime /\ prepare_start_time_ \in 0 .. MaxTime
      BY DEF IInv, TypeOK
    <2>2. MaxTime \in Nat /\ Blend \in Nat /\ Blend <= MaxTime
      BY ControllerAssumption
    <2>3. CASE time < MaxTime
      BY <2>1, <2>2, <2>3, <1>1, EmptySnapshotType
      DEF MjStep, IInv, TypeOK, PcValues
    <2>4. CASE ~(time < MaxTime)
      <3>1. /\ prepare_start_time_' =
                 IF prepare_start_time_ > MaxTime - Blend
                 THEN prepare_start_time_ - 1 ELSE prepare_start_time_
            /\ time' = time
        BY <2>4 DEF MjStep
      <3>2. prepare_start_time_' \in 0 .. MaxTime
        BY <2>1, <2>2, <3>1
      <3> QED
        BY <1>1, <3>1, <3>2, EmptySnapshotType DEF IInv, TypeOK, PcValues
    <2> QED
      BY <2>3, <2>4
  <1>3. LogInv'
    BY <1>1 DEF IInv, LogInv
  <1>4. SnapInv'
    BY <1>1 DEF SnapInv
  <1>5. SessionInv'
    BY <1>1 DEF IInv, SessionInv
  <1>6. DeadClientHoldsEntryPose' /\ FrozenOnlyByClient'
    BY <1>1 DEF DeadClientHoldsEntryPose, FrozenOnlyByClient
  <1> QED
    BY <1>1, <1>2, <1>3, <1>4, <1>5, <1>6 DEF IInv

LEMMA ResetInductive == ASSUME IInv, Reset PROVE IInv'
  <1> USE DEF fsm, atomics, data
  <1>1. /\ pc = "idle" /\ pc' = "idle"
        /\ attitude' \in Attitudes
        /\ time' = 0 /\ ctrl' = [j \in Joints |-> Fresh("zero", 0)]
        /\ UNCHANGED <<mailbox, state_, last_mode_seq_, prepare_start_time_,
                       custom_low_cmd_seen_, custom_entry_step_, mode_,
                       fall_state_, snap, requests, session, heard>>
    BY DEF Reset
  <1>2. TypeOK'
    <2>1. resets' \in 0 .. MaxResets /\ time' \in 0 .. MaxTime
      <3>1. resets \in 0 .. MaxResets /\ resets < MaxResets /\ resets' = resets + 1
        BY DEF IInv, TypeOK, Reset
      <3> QED
        BY <1>1, <3>1, ControllerAssumption
    <2>2. ctrl' \in [Joints -> Torque]
      BY <1>1, TorqueType DEF References
    <2> QED
      BY <1>1, <2>1, <2>2 DEF IInv, TypeOK
  <1>3. LogInv' /\ SnapInv'
    BY <1>1 DEF IInv, LogInv, SnapInv
  <1>4. SessionInv'
    <2>1. \A j \in Joints : ctrl'[j].src # "lowcmd"
      BY <1>1 DEF Fresh
    <2> QED
      BY <1>1, <2>1 DEF IInv, SessionInv
  <1>5. DeadClientHoldsEntryPose' /\ FrozenOnlyByClient'
    BY <1>1 DEF DeadClientHoldsEntryPose, FrozenOnlyByClient
  <1> QED
    BY <1>1, <1>2, <1>3, <1>4, <1>5 DEF IInv

-----------------------------------------------------------------------------
LEMMA NextInductive == IInv /\ [Next]_vars => IInv'
  <1> SUFFICES ASSUME IInv, [Next]_vars PROVE IInv'
    OBVIOUS
  <1>1. CASE Clients
    <2>1. Requestable \subseteq RobotMode
      BY ControllerAssumption
    <2> QED
      BY <1>1, <2>1, HeadInductive, RequestInductive, LowCmdInductive DEF Clients
  <1>2. CASE Physics
    BY <1>2, SnapshotInductive, HandleInductive, StepInductive, MjStepInductive
    DEF Physics
  <1>3. CASE Reset
    BY <1>3, ResetInductive
  <1>4. CASE UNCHANGED vars
    <2> USE <1>4 DEF vars, fsm, atomics, data
    <2>1. TypeOK'
      BY DEF IInv, TypeOK
    <2>2. LogInv' /\ SnapInv' /\ SessionInv'
      BY DEF IInv, LogInv, SnapInv, SessionInv
    <2>3. DeadClientHoldsEntryPose' /\ FrozenOnlyByClient'
      BY DEF IInv, DeadClientHoldsEntryPose, FrozenOnlyByClient, EntryHold
    <2> QED
      BY <2>1, <2>2, <2>3 DEF IInv
  <1> QED
    BY <1>1, <1>2, <1>3, <1>4 DEF Next

\* The inductive invariant holds throughout every behaviour of the controller,
\* its clients, the physics loop and the resets.
THEOREM Invariance == Spec => []IInv
  <1>1. Init => IInv
    BY InitInductive
  <1>2. IInv /\ [Next]_vars => IInv'
    BY NextInductive
  <1> QED
    BY <1>1, <1>2, PTL DEF Spec

\* Type correctness of the mailbox, the state machine and the simulator data.
THEOREM TypeCorrect == Spec => []TypeOK
  <1>1. IInv => TypeOK
    BY DEF IInv
  <1> QED
    BY <1>1, Invariance, PTL

\* No LowCmd of an earlier CUSTOM session ever drives a joint.
THEOREM LowCmdsAreFresh == Spec => []NoStaleLowCmd
  <1>1. IInv => NoStaleLowCmd
    BY DEF IInv, SessionInv, NoStaleLowCmd
  <1> QED
    BY <1>1, Invariance, PTL

\* A CUSTOM session whose client has sent no motors is servoed to its entry pose.
THEOREM DeadClientIsHeld == Spec => []DeadClientHoldsEntryPose
  <1>1. IInv => DeadClientHoldsEntryPose
    BY DEF IInv
  <1> QED
    BY <1>1, Invariance, PTL

\* Only the client's own commands can leave a joint with an old torque.
THEOREM HoldsAreAskedFor == Spec => []FrozenOnlyByClient
  <1>1. IInv => FrozenOnlyByClient
    BY DEF IInv
  <1> QED
    BY <1>1, Invariance, PTL

\* The reported mode, the servo law and the newest consumed request agree.
THEOREM ModesAgree == Spec => []ModeInForce
  <1>1. IInv => ModeInForce
    BY DEF IInv, LogInv, ModeInForce
  <1> QED
    BY <1>1, Invariance, PTL

-----------------------------------------------------------------------------
(* Refinement: every step of the controller is a step of ModeContract. *)

LEMMA AfterIsEffective ==
  \A m \in RobotMode, current \in RobotMode :
    /\ m # "UNKNOWN" => Contract!After(m, current) = Effective(m)
    /\ m = "UNKNOWN" => Contract!After(m, current) = current
  BY DEF Contract!After, Effective, RobotMode

LEMMA HandleRefines ==
  ASSUME IInv, handle_mode_request PROVE [Contract!Next]_(Contract!vars)
  <1>1. UNCHANGED requests
    BY DEF handle_mode_request
  <1>2. CASE Edge
    <2>1. /\ snap.mode_seq \in (last_mode_seq_ + 1) .. Len(requests)
          /\ requests[snap.mode_seq] = snap.requested_mode
      <3>1. Len(requests) = mailbox.mode_seq
        BY DEF IInv, LogInv
      <3> QED
        BY <1>2, <3>1, HandleConsumes
    <2>2. mode_' = Contract!After(requests[snap.mode_seq], mode_)
      <3>1. snap.requested_mode \in RobotMode /\ mode_ \in RobotMode
        BY DEF IInv, TypeOK, CommandSnapshot, RobotMode
      <3>2. \/ mode_' = Effective(snap.requested_mode) /\ snap.requested_mode # "UNKNOWN"
            \/ mode_' = mode_ /\ snap.requested_mode = "UNKNOWN"
        BY <1>2, <3>1, HandleCases DEF Effective
      <3> QED
        BY <2>1, <3>1, <3>2, AfterIsEffective
    <2> QED
      BY <1>1, <2>1, <2>2, HandleConsumes DEF Contract!Next, Contract!Apply
  <1>3. CASE ~Edge
    BY <1>1, <1>3, HandleCases, HandleConsumes DEF Edge, Contract!vars
  <1> QED
    BY <1>2, <1>3

\* The safety part of ImplementsContract: requests are applied in the order of
\* the log, each at most once, and no other mode is ever reported.
THEOREM RefinesContract ==
  Spec => Contract!Init /\ [][Contract!Next]_(Contract!vars)
  <1>1. Init => Contract!Init
    BY DEF Init, Contract!Init
  <1>2. IInv /\ [Next]_vars => [Contract!Next]_(Contract!vars)
    <2> SUFFICES ASSUME IInv, [Next]_vars PROVE [Contract!Next]_(Contract!vars)
      OBVIOUS
    <2>1. CASE \E m \in Requestable : request_mode_change(m)
      <3>1. Requestable \subseteq RobotMode
        BY ControllerAssumption
      <3> QED
        BY <2>1, <3>1
        DEF request_mode_change, fsm, atomics, Contract!Next, Contract!Request,
            Contract!RobotMode, RobotMode
    <2>2. CASE handle_mode_request
      BY <2>2, HandleRefines
    <2>3. CASE UNCHANGED <<requests, last_mode_seq_, mode_>>
      BY <2>3 DEF Contract!vars
    <2> QED
      BY <2>1, <2>2, <2>3
      DEF Next, Clients, Physics, set_head_command, set_low_cmd, snapshot_command,
          step_state, MjStep, Reset, vars, fsm, atomics
  <1> QED
    BY <1>1, <1>2, Invariance, PTL DEF Spec
=============================================================================
