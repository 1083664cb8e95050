------------------------------- MODULE SimCore -------------------------------
(***************************************************************************)
(* module::Simulation and the SimCore it owns: the command line and        *)
(* simulation.yaml become a configuration, load_model the scene and its    *)
(* start, the physics thread steps it under the sim mutex and keeps to the *)
(* wall clock, a reset puts it back, Shutdown stops and frees it.          *)
(*                                                                         *)
(* Startup reactions run before the pools do (NUClear).  The mutex needs   *)
(* no variable: what it guards is one action.  Physics is reduced to       *)
(* having moved the scene.  X_Y is a mistaken variant of X that Spec never *)
(* uses.                                                                   *)
(***************************************************************************)
EXTENDS CommandLine, Placement

CONSTANTS
  CommandLines,     \* command lines the simulator is started with
  SimulationYaml,   \* field, keyframe, rtf and game of simulation.yaml
  Scenes,           \* by field: whether the file is there, its keys, home, ball
  Bodies,           \* ids of the bodies the mouse can pull at
  Dt,               \* a physics step of simulated time
  ResyncThreshold,  \* how far behind the deadline may fall
  MinGap,           \* robots this far apart do not touch
  MaxLag,           \* bound on the wall time a step takes
  MaxResets         \* bound on the resets under way

ASSUME SimCoreAssumption ==
  /\ Bodies \subseteq Nat \ {0}
  /\ Dt \in Nat /\ ResyncThreshold \in Nat /\ MaxLag \in Nat /\ MaxResets \in Nat

\* What --rtf and real_time_factor give is a number.
ASSUME RtfAssumption ==
  /\ SimulationYaml.rtf \in Int
  /\ \A args \in CommandLines : parse_cli(args).rtf \in Int

VARIABLES
  process,       \* running; gone with an error message; crashed
  cli,           \* the command line's options
  config,        \* SimCore::Config
  startup,       \* the Startup reactions still to come
  data,          \* m_ and d_
  handles,       \* SimHandles: emitted by Simulation, cached by the Viewer
  world,         \* where everything is, as long as nothing has moved
  moved,         \* the scene has moved since it was last placed
  xfrc_applied,  \* the bodies an external force acts on
  thread,        \* the physics thread
  running_,
  lag,           \* the wall clock, seen from the deadline
  resets,        \* SimResetRequests the pool has not handled
  shutting_down, \* Shutdown has been emitted
  simulation_shutdown, \* how far Simulation's reaction to it is
  \* --- history, for the properties only
  start,         \* the world as load_model left it
  lead           \* the most simulated time has gained on the wall clock

options == <<cli, config>>
scenery == <<data, handles, world, start>>
physics == <<thread, running_, lag, lead>>
ending  == <<shutting_down, simulation_shutdown>>

simvars == <<process, options, startup, scenery, moved, xfrc_applied, physics,
             resets, ending>>

-----------------------------------------------------------------------------
(* Configuration *)

NoConfig == [field |-> "", robots |-> 0, spawns |-> <<>>, initial_keyframe |-> "", rtf |-> 0]

\* field_scene: exits for a field simulation.yaml does not list.
field_scene(field) == IF field = "" THEN SimulationYaml.field ELSE field

field_name(opts) ==
  field_scene(IF opts.game > 0 THEN SimulationYaml.game.field ELSE opts.field)

build_sim_config(opts) ==
  [field            |-> field_name(opts),
   robots           |-> IF opts.game > 0 THEN 2 * opts.game ELSE opts.robots,
   spawns           |-> IF opts.game = 0 THEN <<>>
                        ELSE game(SimulationYaml.game, opts.game, opts.on_field_positions),
   initial_keyframe |-> IF opts.keyframe # "" THEN opts.keyframe
                        ELSE SimulationYaml.keyframe,
   rtf              |-> IF opts.rtf >= 0 THEN opts.rtf ELSE SimulationYaml.rtf]

free_run == config.rtf <= 0

period == IF free_run THEN 0 ELSE Dt \div config.rtf

-----------------------------------------------------------------------------
(* The scene.  stance is the joint pose; a robot the keyframe says nothing  *)
(* of is at the origin with its joints at zero.  ball is its qpos, and the *)
(* ball lies at qpos + offset.                                             *)

scene == Scenes[config.field]

Robot(p, stance) == [x |-> p.x, y |-> p.y, yaw |-> p.yaw, stance |-> stance]

Origin == [x |-> 0, y |-> 0, yaw |-> 0]

\* The poses of robot k, main robot 0.
spawn_pose(k) == IF config.spawns # <<>> THEN config.spawns[k] ELSE extra_spawn(k)

HasKey(key) == key \in DOMAIN scene.keys

\* The keyframe to spawn into, and to reset to: none, one, or the fallback.
reset_key ==
  IF HasKey(config.initial_keyframe) THEN <<config.initial_keyframe>>
  ELSE IF HasKey("ready") THEN <<"ready">> ELSE <<>>

ready_target == IF HasKey("ready") THEN scene.keys["ready"].stance ELSE "ready_pose_fallback"

\* Where load_multi_robot_model attaches copy k to the scene: its place only.
attached(k) ==
  Robot([x |-> spawn_pose(k).x, y |-> spawn_pose(k).y, yaw |-> 0], "zeros")

\* mj_makeData, mj_resetData: copies stand where they were attached.
mj_resetData ==
  [robot |-> [k \in 0 .. config.robots - 1 |->
                IF k = 0 THEN scene.home ELSE attached(k)],
   ball  |-> 0]

\* mj_resetDataKeyframe: the keyframe is padded with zeros for the copies.
mj_resetDataKeyframe(key) ==
  [robot |-> [k \in 0 .. config.robots - 1 |->
                IF k = 0 THEN scene.keys[key] ELSE Robot(Origin, "zeros")],
   ball  |-> 0]

reset_data ==
  IF reset_key = <<>> THEN mj_resetData ELSE mj_resetDataKeyframe(Head(reset_key))

place_ball_on_centre_mark == IF scene.ball = <<>> THEN 0 ELSE -Head(scene.ball)

\* A match places the main robot and the ball too; the main robot keeps its
\* stance and turns by its spawn's yaw.
place_robots(w) ==
  LET match   == config.spawns # <<>>
      at      == spawn_pose(0)
      turned  == (w.robot[0].yaw + at.yaw) % 4
      placed0 == Robot([x |-> at.x, y |-> at.y, yaw |-> turned], w.robot[0].stance)
  IN  [robot |-> [k \in DOMAIN w.robot |->
                   IF k > 0 THEN Robot(spawn_pose(k), ready_target)
                   ELSE IF match THEN placed0 ELSE w.robot[0]],
       ball  |-> IF match THEN place_ball_on_centre_mark ELSE w.ball]

NoWorld == [robot |-> <<>>, ball |-> 0]

-----------------------------------------------------------------------------
Start ==
  /\ \E args \in CommandLines :
       LET opts == parse_cli(args)
           ok   == ~opts.exit /\ field_name(opts) \in DOMAIN Scenes
       IN  IF ok
           THEN process = "running" /\ cli = opts /\ config = build_sim_config(opts)
           ELSE process = "exited" /\ cli = CliOptions /\ config = NoConfig
  /\ startup = "simulation" /\ data = "none" /\ handles = "none"
  /\ world = NoWorld /\ start = NoWorld /\ moved = FALSE /\ xfrc_applied = {}
  /\ thread = "none" /\ running_ = FALSE /\ lag = 0 /\ lead = 0
  /\ resets = 0 /\ shutting_down = FALSE /\ simulation_shutdown = "todo"

Running == process = "running"

load_model ==
  /\ data' = "loaded"
  /\ world' = place_robots(reset_data) /\ start' = world'

start_physics == running_' = TRUE /\ thread' = "sleep"

\* on<Startup>: a scene that cannot be loaded throws, and nothing after it is
\* done.
load_and_start ==
  /\ Running /\ startup = "simulation"
  /\ startup' = "viewer"
  /\ IF scene.file THEN load_model /\ handles' = "emitted" /\ start_physics
                   ELSE UNCHANGED <<scenery, running_, thread>>
  /\ UNCHANGED <<process, options, moved, xfrc_applied, lag, lead, resets,
                 ending>>

-----------------------------------------------------------------------------
(* The physics thread: sleep until the deadline, step, move the deadline on. *)

\* sleep_until_monotonic returns at the deadline; a free run does not sleep.
Due == free_run \/ lag >= 0

\* The loop's condition.
wake ==
  /\ Running /\ thread = "sleep" /\ Due
  /\ thread' = IF running_ THEN "step" ELSE "done"
  /\ UNCHANGED <<process, options, startup, scenery, moved, xfrc_applied,
                 running_, lag, lead, resets, ending>>

\* Control and mj_step, in one hold of the mutex.
physics_step ==
  /\ Running /\ thread = "step"
  /\ moved' = TRUE
  /\ lead' = lead + period
  /\ thread' = IF free_run THEN "sleep" ELSE "pace"
  /\ UNCHANGED <<process, options, startup, scenery, xfrc_applied, running_,
                 lag, resets, ending>>

\* How far behind the new deadline the clock is; too far, and the deadline is
\* now.
Behind == lag - period

Resynced_Never == Behind

Resynced == IF Behind > ResyncThreshold THEN 0 ELSE Behind

pace ==
  /\ Running /\ thread = "pace"
  /\ lag' = Resynced
  /\ thread' = "sleep"
  /\ UNCHANGED <<process, options, startup, scenery, moved, xfrc_applied,
                 running_, lead, resets, ending>>

\* The wall clock; a free run does not look at it.
pass_time ==
  /\ Running /\ thread \in {"sleep", "step", "pace"} /\ ~free_run
  /\ lag < MaxLag
  /\ lag' = lag + 1
  /\ lead' = IF lead > 0 THEN lead - 1 ELSE 0
  /\ UNCHANGED <<process, options, startup, scenery, moved, xfrc_applied,
                 thread, running_, resets, ending>>

-----------------------------------------------------------------------------
(* Pool tasks *)

reset_NoPlacement ==
  /\ Running /\ startup = "done" /\ resets > 0
  /\ resets' = resets - 1
  /\ IF data = "loaded"
     THEN world' = reset_data /\ moved' = FALSE /\ xfrc_applied' = {} /\ UNCHANGED process
     ELSE process' = "crashed" /\ UNCHANGED <<world, moved, xfrc_applied>>
  /\ UNCHANGED <<options, startup, data, handles, start, physics, ending>>

\* SimCore::reset, under the mutex.  Without a model it dereferences null.
reset ==
  /\ Running /\ startup = "done" /\ resets > 0
  /\ resets' = resets - 1
  /\ IF data = "loaded"
     THEN /\ world' = place_robots(reset_data) /\ moved' = FALSE
          /\ xfrc_applied' = {}
          /\ UNCHANGED process
     ELSE /\ process' = "crashed"
          /\ UNCHANGED <<world, moved, xfrc_applied>>
  /\ UNCHANGED <<options, startup, data, handles, start, physics, ending>>

\* SIGINT, SIGTERM
handle_signal ==
  /\ Running /\ startup = "done" /\ ~shutting_down
  /\ shutting_down' = TRUE
  /\ UNCHANGED <<process, options, startup, scenery, moved, xfrc_applied,
                 physics, resets, simulation_shutdown>>

\* on<Shutdown>: stop asks the thread to end and joins it ...
stop ==
  /\ Running /\ shutting_down /\ simulation_shutdown = "todo"
  /\ running_' = FALSE
  /\ simulation_shutdown' = "joining"
  /\ UNCHANGED <<process, options, startup, scenery, moved, xfrc_applied,
                 thread, lag, lead, resets, shutting_down>>

\* ... and unload frees what it stepped.
unload ==
  /\ Running /\ simulation_shutdown = "joining"
  /\ thread \in {"none", "done"}
  /\ data' = IF data = "loaded" THEN "freed" ELSE data
  /\ simulation_shutdown' = "done"
  /\ UNCHANGED <<process, options, startup, handles, world, start, moved,
                 xfrc_applied, physics, resets, shutting_down>>

-----------------------------------------------------------------------------
(* What a legal start asks of the configuration *)

Apart(p, q) == SquaredDistance(p, q) >= MinGap * MinGap

InCentreCircle(p) ==
  SquaredDistance(p, Origin) <= SimulationYaml.game.centre_circle_radius
                                 * SimulationYaml.game.centre_circle_radius

IsPoint(p) == p.x \in Int /\ p.y \in Int

\* The n robots of the team that plays from -x.
TeamFits(team, n) ==
  /\ \A i \in 1 .. n : IsPoint(team[i]) /\ team[i].x < 0 /\ ~InCentreCircle(team[i])
  /\ \A i, j \in 1 .. n : i # j => Apart(team[i], team[j])
  /\ \A i, j \in 1 .. n : Apart(team[i], Mirrored(team[j]))

\* What spread_in_half makes of the formation, for every size of a team.
FormationFits ==
  \A n \in 1 .. MAX_GAME_SIZE : TeamFits(KickoffPositions(SimulationYaml.game, n), n)

\* The lines to enter from: neighbours far enough apart, and the sixth of a row
\* short of the halfway line.
SidelinesFit ==
  LET cfg   == SimulationYaml.game
      line  == cfg.width \div 2 + cfg.sideline_offset
      sixth == cfg.penalty_mark_distance - cfg.length \div 2 + 5 * cfg.sideline_spacing
  IN  /\ cfg.width \in Int /\ cfg.length \in Int /\ cfg.sideline_offset \in Int
      /\ cfg.penalty_mark_distance \in Int /\ cfg.sideline_spacing \in Int
      /\ cfg.centre_circle_radius \in Nat /\ MinGap \in Nat
      /\ cfg.sideline_spacing >= MinGap
      /\ line > cfg.centre_circle_radius /\ 2 * line >= MinGap
      /\ sixth < 0 /\ 2 * sixth <= -MinGap

\* The slots of the extra robots are 120 apart; the main robot may start at home
\* or in any keyframe of the field.
GridFits ==
  /\ MinGap \in 0 .. 120
  /\ \A field \in DOMAIN Scenes :
       LET s == Scenes[field]
       IN  /\ s.ball \in Seq(Int)
           /\ \A main \in {s.home} \cup {s.keys[key] : key \in DOMAIN s.keys} :
                /\ IsPoint(main)
                /\ \A k \in 1 .. MAX_ROBOTS - 1 : Apart(main, extra_spawn(k))

\* What parse_cli lets through is within its limits.
LimitsKept ==
  \A args \in CommandLines :
    LET opts == parse_cli(args)
    IN  opts.exit \/ (opts.game \in 0 .. MAX_GAME_SIZE /\ opts.robots \in 1 .. MAX_ROBOTS)

-----------------------------------------------------------------------------
(* Properties *)

SimTypeOK ==
  /\ process \in {"running", "exited", "crashed"}
  /\ startup \in {"simulation", "viewer", "done"}
  /\ data \in {"none", "loaded", "freed"}
  /\ handles \in {"none", "emitted", "cached"}
  /\ moved \in BOOLEAN
  /\ xfrc_applied \subseteq Bodies
  /\ thread \in {"none", "sleep", "step", "pace", "done"}
  /\ running_ \in BOOLEAN
  /\ lag \in Int
  /\ resets \in 0 .. MaxResets
  /\ shutting_down \in BOOLEAN
  /\ simulation_shutdown \in {"todo", "joining", "done"}
  /\ lead \in Nat

Placed == data = "loaded" /\ ~moved

\* Robot k of a match: the first half of them play from -x.
InOwnHalf(k) == IF 2 * k < config.robots THEN world.robot[k].x < 0
                                         ELSE world.robot[k].x > 0

\* Whatever the command line asks for, load_model and every later reset leave a
\* legal start: no two robots touch; in a match the ball is on the centre mark,
\* nobody in the centre circle, and each team in its own half.
StartIsLegal ==
  Placed =>
    /\ \A j, k \in DOMAIN world.robot :
         j # k => Apart(world.robot[j], world.robot[k])
    /\ cli.game > 0 =>
         /\ scene.ball # <<>> => world.ball + Head(scene.ball) = 0
         /\ \A k \in DOMAIN world.robot :
              /\ InOwnHalf(k)
              /\ ~InCentreCircle(world.robot[k])

\* Viewer and message comments promise that a reset goes back to the state
\* load_model established: robots, ball and stances, whichever keyframe was
\* asked for and found.
StartIsRestored == Placed => world = start

\* Pacing repays a stall in a burst of steps: over any interval, the simulation
\* gains no more on the wall clock than the threshold and two steps.
CatchUpIsBounded == lead <= ResyncThreshold + 2 * period
=============================================================================
