---------------------------- MODULE ViewerProofs ----------------------------
(***************************************************************************)
(* The invariants of the simulation beside its Viewer, for every set of    *)
(* command lines, every simulation.yaml and set of scenes, any step,       *)
(* threshold, and number of bodies, buttons and resets.                    *)
(***************************************************************************)
EXTENDS Viewer, TLAPS

-----------------------------------------------------------------------------
(* What the invariants need beside TypeOK *)

\* The pacing of a run is fixed by its configuration.
ConfigInv == config.rtf \in Int

\* The simulation is ahead of the wall clock only as far as the deadline was
\* behind it: what lead gains in a step, lag loses when the deadline moves on.
PacingInv ==
  /\ free_run => lag = 0 /\ lead = 0
  /\ thread = "sleep" =>
       lag >= -period /\ (lead = 0 \/ lead + lag <= ResyncThreshold + period)
  /\ thread = "step" =>
       lag >= 0 /\ (lead = 0 \/ lead + lag <= ResyncThreshold + period)
  /\ thread = "pace" =>
       lag >= 0 /\ (lead <= period \/ lead + lag <= ResyncThreshold + 2 * period)
  /\ thread = "done" => lead <= ResyncThreshold + 2 * period
  /\ thread = "none" => lag = 0 /\ lead = 0
  /\ startup = "simulation" => thread = "none"

\* Only a press begins a drag, and there is none before the pools run.
DragInv ==
  /\ hands_off => active = "no"
  /\ startup # "done" => main = "idle" /\ ~hands_off

\* The start is a function of the configuration, which nothing changes.
StartInv ==
  data = "loaded" => start = place_robots(reset_data) /\ world = start

-----------------------------------------------------------------------------
(* Facts about the operators *)

LEMMA QuotientType ==
  ASSUME NEW n \in Nat, NEW d \in Int, d > 0
  PROVE  n \div d \in Nat
  OBVIOUS

LEMMA PeriodType ==
  ASSUME ConfigInv
  PROVE  period \in Nat /\ (free_run => period = 0)
  BY QuotientType, SimCoreAssumption DEF ConfigInv, period, free_run

\* With the configuration, the period and the start stay what they are.
LEMMA ConfigFixesStart ==
  ASSUME UNCHANGED config
  PROVE  /\ free_run' = free_run /\ period' = period
         /\ place_robots(reset_data)' = place_robots(reset_data)
<1>1. free_run' = free_run /\ period' = period
  BY DEF free_run, period
<1>2. scene' = scene /\ reset_key' = reset_key /\ ready_target' = ready_target
  BY DEF scene, reset_key, ready_target, HasKey
<1>3. \A k : spawn_pose(k)' = spawn_pose(k) /\ attached(k)' = attached(k)
  BY DEF spawn_pose, attached, Robot
<1>4. mj_resetData' = mj_resetData
  BY <1>2, <1>3 DEF mj_resetData
<1>5. \A key : mj_resetDataKeyframe(key)' = mj_resetDataKeyframe(key)
  BY <1>2 DEF mj_resetDataKeyframe, Robot, Origin
<1>6. reset_data' = reset_data
  BY <1>2, <1>4, <1>5 DEF reset_data
<1>7. \A w : place_robots(w)' = place_robots(w)
  BY <1>2, <1>3 DEF place_robots, place_ball_on_centre_mark, Robot
<1> QED
  BY <1>1, <1>6, <1>7

-----------------------------------------------------------------------------
(* Type correctness *)

\* The parts of TypeOK that are about numbers, and the others.
Counts == lag \in Int /\ lead \in Nat /\ resets \in 0 .. MaxResets

Control ==
  /\ process \in {"running", "exited", "crashed"}
  /\ startup \in {"simulation", "viewer", "done"}
  /\ data \in {"none", "loaded", "freed"}
  /\ handles \in {"none", "emitted", "cached"}
  /\ moved \in BOOLEAN
  /\ xfrc_applied \subseteq Bodies
  /\ thread \in {"none", "sleep", "step", "pace", "done"}
  /\ running_ \in BOOLEAN
  /\ shutting_down \in BOOLEAN
  /\ simulation_shutdown \in {"todo", "joining", "done"}

Mouse ==
  /\ window \in {"none", "open", "closing", "gone"}
  /\ scene_ready \in BOOLEAN
  /\ main \in {"idle", "poll"}
  /\ select \in Bodies \cup {0}
  /\ active \in {"no", "translate", "rotate"}
  /\ buttons \subseteq Buttons
  /\ last_click \subseteq Buttons
  /\ viewer_shutdown \in BOOLEAN
  /\ hands_off \in BOOLEAN

LEMMA TypeOKParts == TypeOK <=> Control /\ Counts /\ Mouse
  BY DEF TypeOK, SimTypeOK, Control, Counts, Mouse

LEMMA TypeOKPartsPrime == TypeOK' <=> Control' /\ Counts' /\ Mouse'
  BY DEF TypeOK, SimTypeOK, Control, Counts, Mouse

LEMMA InitTypeOK == Init => TypeOK
<1> SUFFICES ASSUME Init PROVE TypeOK
  OBVIOUS
<1> USE DEF Init, Start
<1>1. Control
  BY DEF Control
<1>2. Counts
  BY SimCoreAssumption DEF Counts
<1>3. Mouse
  BY DEF Mouse
<1> QED
  BY <1>1, <1>2, <1>3, TypeOKParts

LEMMA SimulationTypeOK ==
  ASSUME TypeOK, ConfigInv, Simulation, UNCHANGED viewer
  PROVE  TypeOK'
<1> USE TypeOKParts, TypeOKPartsPrime
        DEF viewer, mouse, physics, scenery, ending, options
<1>1. CASE load_and_start
  <2>1. Control'
    BY <1>1 DEF Control, load_and_start, load_model, start_physics
  <2>2. Counts'
    BY <1>1 DEF Counts, load_and_start, load_model, start_physics
  <2>3. Mouse'
    BY DEF Mouse
  <2> QED
    BY <2>1, <2>2, <2>3
<1>2. CASE wake
  <2>1. Control'
    BY <1>2 DEF Control, wake
  <2>2. Counts'
    BY <1>2 DEF Counts, wake
  <2>3. Mouse'
    BY DEF Mouse
  <2> QED
    BY <2>1, <2>2, <2>3
<1>3. CASE physics_step
  <2>1. Control'
    BY <1>3 DEF Control, physics_step
  <2>2. Counts'
    BY <1>3, PeriodType DEF Counts, physics_step
  <2>3. Mouse'
    BY DEF Mouse
  <2> QED
    BY <2>1, <2>2, <2>3
<1>4. CASE pace
  <2>1. Control'
    BY <1>4 DEF Control, pace, Resynced, Behind
  <2>2. Counts'
    BY <1>4, PeriodType DEF Counts, pace, Resynced, Behind
  <2>3. Mouse'
    BY DEF Mouse
  <2> QED
    BY <2>1, <2>2, <2>3
<1>5. CASE pass_time
  <2>1. Control'
    BY <1>5 DEF Control, pass_time
  <2>2. Counts'
    BY <1>5 DEF Counts, pass_time
  <2>3. Mouse'
    BY DEF Mouse
  <2> QED
    BY <2>1, <2>2, <2>3
<1>6. CASE reset
  <2>1. Control'
    BY <1>6 DEF Control, reset
  <2>2. Counts'
    BY <1>6, SimCoreAssumption DEF Counts, reset
  <2>3. Mouse'
    BY DEF Mouse
  <2> QED
    BY <2>1, <2>2, <2>3
<1>7. CASE handle_signal
  <2>1. Control'
    BY <1>7 DEF Control, handle_signal
  <2>2. Counts'
    BY <1>7 DEF Counts, handle_signal
  <2>3. Mouse'
    BY DEF Mouse
  <2> QED
    BY <2>1, <2>2, <2>3
<1>8. CASE stop
  <2>1. Control'
    BY <1>8 DEF Control, stop
  <2>2. Counts'
    BY <1>8 DEF Counts, stop
  <2>3. Mouse'
    BY DEF Mouse
  <2> QED
    BY <2>1, <2>2, <2>3
<1>9. CASE unload
  <2>1. Control'
    BY <1>9 DEF Control, unload
  <2>2. Counts'
    BY <1>9 DEF Counts, unload
  <2>3. Mouse'
    BY DEF Mouse
  <2> QED
    BY <2>1, <2>2, <2>3
<1> QED
  BY <1>1, <1>2, <1>3, <1>4, <1>5, <1>6, <1>7, <1>8, <1>9 DEF Simulation

ViewerStep ==
  \/ open_window \/ cache_handles \/ tick \/ apply \/ close_window
  \/ escape \/ backspace \/ kick
  \/ \E b \in Buttons : press(b) \/ release(b)

LEMMA ViewerTypeOK ==
  ASSUME TypeOK, ViewerStep
  PROVE  TypeOK'
<1> USE TypeOKParts, TypeOKPartsPrime
        DEF simvars, mouse, physics, scenery, ending, options
<1>1. CASE open_window
  <2>1. Control'
    BY <1>1 DEF Control, open_window
  <2>2. Counts'
    BY <1>1 DEF Counts, open_window
  <2>3. Mouse'
    BY <1>1 DEF Mouse, open_window
  <2> QED
    BY <2>1, <2>2, <2>3
<1>2. CASE cache_handles
  <2>1. Control'
    BY <1>2 DEF Control, cache_handles
  <2>2. Counts'
    BY <1>2 DEF Counts, cache_handles
  <2>3. Mouse'
    BY <1>2 DEF Mouse, cache_handles
  <2> QED
    BY <2>1, <2>2, <2>3
<1>3. CASE tick
  <2>1. Control'
    <3>1. /\ UNCHANGED <<process, startup, data, handles, moved, xfrc_applied, thread,
                        running_, simulation_shutdown>>
      BY <1>3 DEF tick
    <3>2. shutting_down' \in BOOLEAN
      BY <1>3 DEF Control, tick
    <3> QED
      BY <3>1, <3>2 DEF Control
  <2>2. Counts'
    BY <1>3 DEF Counts, tick
  <2>3. Mouse'
    BY <1>3 DEF Mouse, tick
  <2> QED
    BY <2>1, <2>2, <2>3
<1>4. CASE apply
  <2>1. Control'
    <3>1. xfrc_applied' \subseteq Bodies
      BY <1>4 DEF Control, Mouse, apply, Perturbed
    <3>2. process' \in {"running", "exited", "crashed"}
      BY <1>4 DEF Control, apply, TouchesData
    <3> QED
      BY <1>4, <3>1, <3>2 DEF Control, apply
  <2>2. Counts'
    BY <1>4 DEF Counts, apply, Perturbed, TouchesData
  <2>3. Mouse'
    BY <1>4 DEF Mouse, apply, Perturbed, TouchesData
  <2> QED
    BY <2>1, <2>2, <2>3
<1>5. CASE close_window
  <2>1. Control'
    BY <1>5 DEF Control, close_window
  <2>2. Counts'
    BY <1>5 DEF Counts, close_window
  <2>3. Mouse'
    BY <1>5 DEF Mouse, close_window
  <2> QED
    BY <2>1, <2>2, <2>3
<1>6. CASE escape
  <2>1. Control'
    BY <1>6 DEF Control, escape
  <2>2. Counts'
    BY <1>6 DEF Counts, escape
  <2>3. Mouse'
    BY <1>6 DEF Mouse, escape
  <2> QED
    BY <2>1, <2>2, <2>3
<1>7. CASE backspace
  <2>1. Control'
    BY <1>7 DEF Control, backspace, end_perturb
  <2>2. Counts'
    BY <1>7, SimCoreAssumption DEF Counts, backspace, end_perturb
  <2>3. Mouse'
    BY <1>7 DEF Mouse, backspace, end_perturb
  <2> QED
    BY <2>1, <2>2, <2>3
<1>8. CASE kick
  <2>1. Control'
    BY <1>8 DEF Control, kick, TouchesData
  <2>2. Counts'
    BY <1>8 DEF Counts, kick, TouchesData
  <2>3. Mouse'
    BY <1>8 DEF Mouse, kick, TouchesData
  <2> QED
    BY <2>1, <2>2, <2>3
<1>9. ASSUME NEW b \in Buttons, press(b)
      PROVE  TypeOK'
  <2>1. Control'
    BY <1>9 DEF Control, press, TouchesData, Dragging, Picked
  <2>2. Counts'
    BY <1>9 DEF Counts, press, TouchesData, Dragging, Picked
  <2>3. Mouse'
    BY <1>9 DEF Mouse, press, TouchesData, Dragging, Picked
  <2> QED
    BY <2>1, <2>2, <2>3
<1>10. ASSUME NEW b \in Buttons, release(b)
       PROVE  TypeOK'
  <2>1. Control'
    BY <1>10 DEF Control, release, end_perturb
  <2>2. Counts'
    BY <1>10 DEF Counts, release, end_perturb
  <2>3. Mouse'
    BY <1>10 DEF Mouse, release, end_perturb
  <2> QED
    BY <2>1, <2>2, <2>3
<1> QED
  BY <1>1, <1>2, <1>3, <1>4, <1>5, <1>6, <1>7, <1>8, <1>9, <1>10 DEF ViewerStep

-----------------------------------------------------------------------------
(* The configuration stays what Start made of the command line *)

LEMMA InitConfigInv == Init => ConfigInv
<1> SUFFICES ASSUME Init PROVE ConfigInv
  OBVIOUS
<1>1. ASSUME NEW args \in CommandLines
      PROVE  build_sim_config(parse_cli(args)).rtf \in Int
  BY RtfAssumption DEF build_sim_config
<1>2. \/ config = NoConfig
      \/ \E args \in CommandLines : config = build_sim_config(parse_cli(args))
  BY DEF Init, Start
<1>3. NoConfig.rtf \in Int
  BY DEF NoConfig
<1> QED
  BY <1>1, <1>2, <1>3 DEF ConfigInv

LEMMA ConfigFixed ==
  ASSUME [Next]_vars
  PROVE  UNCHANGED config
<1> USE DEF vars, simvars, options, scenery, physics, ending
<1>1. CASE Simulation
  BY <1>1 DEF Simulation, load_and_start, wake, physics_step, pace, pass_time,
              reset, handle_signal, stop, unload
<1>2. CASE ViewerStep
  BY <1>2 DEF ViewerStep, open_window, cache_handles, tick, apply, close_window,
              escape, backspace, kick, press, release
<1> QED
  BY <1>1, <1>2 DEF Next, ViewerStep

-----------------------------------------------------------------------------
(* Pacing *)

LEMMA InitPacing == Init => PacingInv
  BY DEF Init, Start, PacingInv

\* Only the physics thread, its start and the clock disturb it.
LEMMA PacingInductive ==
  ASSUME TypeOK, ConfigInv, PacingInv, [Next]_vars
  PROVE  PacingInv'
<1>1. /\ period \in Nat /\ lag \in Int /\ lead \in Nat /\ ResyncThreshold \in Nat
      /\ free_run => period = 0
  BY PeriodType, SimCoreAssumption DEF TypeOK, SimTypeOK
<1>2. period' = period /\ free_run' = free_run
  BY ConfigFixed, ConfigFixesStart
<1> USE <1>1, <1>2 DEF PacingInv
<1>3. CASE load_and_start
  BY <1>3 DEF load_and_start, start_physics, scenery, physics
<1>4. CASE wake
  BY <1>4 DEF wake, Due
<1>5. CASE physics_step
  BY <1>5 DEF physics_step
<1>6. CASE pace
  BY <1>6 DEF pace, Resynced, Behind
<1>7. CASE pass_time
  BY <1>7 DEF pass_time
<1>8. CASE startup' \in {startup, "done"} /\ UNCHANGED <<thread, lag, lead>>
  BY <1>8
<1>9. CASE UNCHANGED vars
  BY <1>9, <1>8 DEF vars, simvars, physics
<1>10. CASE reset \/ handle_signal \/ stop \/ unload
  BY <1>10, <1>8 DEF reset, handle_signal, stop, unload, physics
<1>11. CASE ViewerStep
  BY <1>11, <1>8 DEF ViewerStep, open_window, cache_handles, tick, apply,
                close_window, escape, backspace, kick, press, release, simvars, physics
<1> QED
  BY <1>3, <1>4, <1>5, <1>6, <1>7, <1>9, <1>10, <1>11 DEF Next, ViewerStep, Simulation

-----------------------------------------------------------------------------
(* The start *)

\* Only the load and a reset place anything.
LEMMA StartInductive ==
  ASSUME StartInv, [Next]_vars
  PROVE  StartInv'
<1>1. place_robots(reset_data)' = place_robots(reset_data)
  BY ConfigFixed, ConfigFixesStart
<1> USE <1>1 DEF StartInv
<1>2. CASE load_and_start
  BY <1>2 DEF load_and_start, load_model, scenery
<1>3. CASE reset
  BY <1>3 DEF reset
<1>4. CASE unload
  BY <1>4 DEF unload
<1>5. CASE UNCHANGED <<data, world, start>>
  BY <1>5
<1>6. CASE wake \/ physics_step \/ pace \/ pass_time \/ handle_signal \/ stop
  BY <1>5, <1>6 DEF wake, physics_step, pace, pass_time, handle_signal, stop, scenery
<1>7. CASE ViewerStep
  BY <1>5, <1>7 DEF ViewerStep, open_window, cache_handles, tick, apply, close_window,
                    escape, backspace, kick, press, release, simvars, scenery
<1>8. CASE UNCHANGED vars
  BY <1>5, <1>8 DEF vars, simvars, scenery
<1> QED
  BY <1>2, <1>3, <1>4, <1>6, <1>7, <1>8 DEF Next, ViewerStep, Simulation

-----------------------------------------------------------------------------
(* Drags and resets *)

LEMMA InitDrag == Init => DragInv /\ ResetUnpinsDrag
  BY DEF Init, Start, DragInv, ResetUnpinsDrag

LEMMA SimulationDrag ==
  ASSUME TypeOK, DragInv, ResetUnpinsDrag, Simulation, UNCHANGED viewer
  PROVE  DragInv' /\ ResetUnpinsDrag'
<1> USE DEF DragInv, ResetUnpinsDrag, viewer, mouse
<1>1. CASE load_and_start
  BY <1>1 DEF load_and_start
<1>2. CASE reset
  BY <1>2 DEF reset
<1>3. CASE unload
  BY <1>3 DEF unload
<1>4. CASE wake \/ physics_step \/ pace \/ pass_time \/ handle_signal \/ stop
  BY <1>4 DEF wake, physics_step, pace, pass_time, handle_signal, stop, scenery
<1> QED
  BY <1>1, <1>2, <1>3, <1>4 DEF Simulation

LEMMA ViewerDrag ==
  ASSUME TypeOK, DragInv, ResetUnpinsDrag, ViewerStep
  PROVE  DragInv' /\ ResetUnpinsDrag'
<1> USE DEF DragInv, ResetUnpinsDrag, simvars, scenery, mouse
<1>1. CASE open_window
  BY <1>1 DEF open_window
<1>2. CASE cache_handles
  BY <1>2 DEF cache_handles
<1>3. CASE tick
  BY <1>3 DEF tick
<1>4. CASE apply
  BY <1>4 DEF apply, Perturbed
<1>5. CASE close_window
  BY <1>5 DEF close_window
<1>6. CASE escape
  BY <1>6 DEF escape
<1>7. CASE backspace
  <2>1. resets \in Nat /\ startup = "done"
    BY <1>7, SimCoreAssumption DEF backspace, InPoll, TypeOK, SimTypeOK
  <2> QED
    BY <1>7, <2>1 DEF backspace, end_perturb
<1>8. CASE kick
  BY <1>8 DEF kick
<1>9. ASSUME NEW b \in Buttons, press(b)
      PROVE  DragInv' /\ ResetUnpinsDrag'
  BY <1>9 DEF press, InPoll
<1>10. ASSUME NEW b \in Buttons, release(b)
       PROVE  DragInv' /\ ResetUnpinsDrag'
  BY <1>10 DEF release, end_perturb
<1> QED
  BY <1>1, <1>2, <1>3, <1>4, <1>5, <1>6, <1>7, <1>8, <1>9, <1>10 DEF ViewerStep

-----------------------------------------------------------------------------
(* The theorems *)

ViewerInv ==
  /\ TypeOK
  /\ ConfigInv
  /\ PacingInv
  /\ StartInv
  /\ DragInv
  /\ ResetUnpinsDrag

\* The inductive invariant holds in every reachable state.
THEOREM Invariance == Spec => []ViewerInv
<1>1. Init => ViewerInv
  <2>1. Init => StartInv
    BY DEF Init, Start, StartInv
  <2> QED
    BY <2>1, InitTypeOK, InitConfigInv, InitPacing, InitDrag DEF ViewerInv
<1>2. ViewerInv /\ [Next]_vars => ViewerInv'
  <2> SUFFICES ASSUME ViewerInv, [Next]_vars PROVE ViewerInv'
    OBVIOUS
  <2>1. ConfigInv' /\ PacingInv' /\ StartInv'
    BY ConfigFixed, PacingInductive, StartInductive DEF ViewerInv, ConfigInv
  <2>2. CASE Simulation /\ UNCHANGED viewer
    BY <2>1, <2>2, SimulationTypeOK, SimulationDrag DEF ViewerInv
  <2>3. CASE ViewerStep
    BY <2>1, <2>3, ViewerTypeOK, ViewerDrag DEF ViewerInv
  <2>4. CASE UNCHANGED vars
    <3> USE <2>4 DEF vars, simvars, viewer, options, scenery, physics, ending, mouse
    <3>1. TypeOK'
      BY TypeOKParts, TypeOKPartsPrime DEF ViewerInv, Control, Counts, Mouse
    <3>2. DragInv' /\ ResetUnpinsDrag'
      BY DEF ViewerInv, DragInv, ResetUnpinsDrag
    <3> QED
      BY <2>1, <3>1, <3>2 DEF ViewerInv
  <2> QED
    BY <2>2, <2>3, <2>4 DEF Next, ViewerStep
<1> QED
  BY <1>1, <1>2, PTL DEF Spec

\* Every variable keeps its type, whatever the command line and the events.
THEOREM TypeCorrect == Spec => []TypeOK
<1>1. ViewerInv => TypeOK
  BY DEF ViewerInv
<1> QED
  BY <1>1, Invariance, PTL

\* Over any interval the physics thread gains no more on the wall clock than
\* the resync threshold and two steps.
THEOREM CatchUpBounded == Spec => []CatchUpIsBounded
<1>1. ViewerInv => CatchUpIsBounded
  <2> SUFFICES ASSUME ViewerInv PROVE CatchUpIsBounded
    OBVIOUS
  <2>1. /\ period \in Nat /\ lag \in Int /\ lead \in Nat /\ ResyncThreshold \in Nat
        /\ thread \in {"none", "sleep", "step", "pace", "done"}
    BY PeriodType, SimCoreAssumption DEF ViewerInv, TypeOK, SimTypeOK
  <2> QED
    BY <2>1 DEF ViewerInv, PacingInv, CatchUpIsBounded
<1> QED
  BY <1>1, Invariance, PTL

\* Until something moves, the world after any number of resets is the one
\* load_model left: robots, ball and stances.
THEOREM ResetRestoresStart == Spec => []StartIsRestored
<1>1. ViewerInv => StartIsRestored
  BY DEF ViewerInv, StartInv, StartIsRestored, Placed
<1> QED
  BY <1>1, Invariance, PTL

\* Once a reset asked for with Backspace is done, nothing pulls at any body
\* until a button is pressed again.
THEOREM DragIsUnpinned == Spec => []ResetUnpinsDrag
<1>1. ViewerInv => ResetUnpinsDrag
  BY DEF ViewerInv
<1> QED
  BY <1>1, Invariance, PTL
=============================================================================
