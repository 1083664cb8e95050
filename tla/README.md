# NUSim in TLA+

A verification development of NUSim's MuJoCo simulator (`src/mujoco`): TLA+
modules translated from its C++, TLC configurations that check them on small
instances, and TLAPS proofs for every value of the constants. Paths below are
relative to `src/mujoco` unless they say otherwise.

## 1. The system

One process, a NUClear power plant of reactors with a pool of four threads,
simulates Booster K1 robots. `roles/sim/soccer.role` lists the reactors, from which
`cmake/generate_role.py` writes its `main`: that is the program modelled here. The
older binary of `src/main.cpp` is the same without Camera and Supervisor. NUbots,
the client, is another process that talks to it over DDS and two shared-memory
segments as it would to a robot.

| Part | State | Operations |
|---|---|---|
| **SimCore** (`module/Simulation`) | the configuration, `mjModel` and `mjData` under one mutex, the controller pointer, the physics thread with its deadline | `load_model` with `place_robots`, `physics_loop` (step, snapshot every n steps, pace), `reset`, `stop`, `unload` |
| **LocomotionController** (`module/Locomotion`) | the command mailbox under `cmd_mutex_`; mode, sequence number, blend start, CUSTOM session flags (physics thread); the atomics `mode_`, `fall_state_` | `set_head_command`, `request_mode_change`, `set_low_cmd` from any thread; `step` on the physics thread |
| **RpcServer / RpcDispatch** (`module/SdkBridge`) | the RPC reader's history, `current_mode_` | `handle_rpc_request` on the DDS listener thread, `set_current_mode` on a pool thread |
| **StatePublisher / OdometryModel** (`module/SdkBridge`) | last fall state and when it was sent; pose, time and initialisation of the odometry | `publish` on a pool thread, once per snapshot |
| **Supervisor** (`module/Supervisor`) | three handles, the last GameController packet | the UDP reaction: parse, lock, `process` |
| **Camera** (`module/Camera`) | the render thread, an image segment with a sequence lock, a pose segment with an interprocess mutex | `render_loop`, `publish` of both writers, Startup and Shutdown |
| **Viewer** (`module/Viewer`) | window, cached handles, buttons down, the selected body and the drag on it | GLFW callbacks and a 16 ms tick on the main thread, Shutdown |
| **Command line and configuration** (`shared/CliOptions.hpp`, `shared/util/Config.hpp`) | options; field, keyframe and match formation of `simulation.yaml` | `parse_cli`, `field_scene`, `game`, `spread_in_half`, once before the start |
| `ModelMap`, `PdController`, `ConsoleLog`, tools | tables, gains | sequential, no state that changes |

How they interact:

```
 NUbots --RPC--> RpcServer --emit--> pool --> Locomotion --mailbox--> LocomotionController
 NUbots --LowCmd--> reader --emit--> pool ------^                      ^ step()
                                                                       |
 SimResetRequest --> pool --> SimCore::reset --sim mutex--> SimCore::physics_loop
                                                                       | snapshot, after the unlock
 NUbots <--DDS-- StatePublisher, current_mode_ <-- pool <---emit-------+
 GameController --UDP--> Supervisor --sim mutex--> mjData <--sim mutex-- Camera --> segments --> NUbots
```

What is hard: setters run between any two instructions of the control step; the
pool may run one reaction for two messages at once; a reset puts the clock back
under everyone who remembers a time; answers go out before the work is done;
datagrams get lost; either process may be killed with a segment half-written or
locked; Shutdown reactions of reactors that share memory are independent; the
viewer's callbacks run in any number within one poll; a command line may ask for
any field, keyframe, team size and number of copies together.

What makes each part correct:

* **Controller**: mode requests are applied in order, once, the newest in the
  end; no low-level command outlives its session; a silent client leaves the
  robot held; the reported mode is the law in force; a robot that is down is
  reported.
* **RPC**: every request has one place on its way to one answer; an answered mode
  request reaches the robot once and in order; GET_MODE catches up; nothing but a
  mistyped call gets in the way of that.
* **Publishing**: the fall state settles with subscribers; the odometry never
  integrates across a reset; the keepalive keeps alive.
* **Supervisor**: placements agree with the last packet whatever was lost before;
  every kick-off starts from the centre, and play is not disturbed.
* **Camera**: readers get whole, newest frames; a shutdown ends, and removes the
  names of both segments.
* **Start and pacing**: every start and every reset is legal, and the same; a
  stall of the machine is made up for within bounds.
* **Viewer**: no force survives the drag that caused it.

`PROJECT.json` lists, under `hazards`, the line where each of these bites.

## 2. Modules

| Module | Models | Composition |
|---|---|---|
| `BoosterApi` | the enumerations of `shared/k1/BoosterApi.hpp` | used by all robot modules |
| `ModeContract` | abstract: what a client may rely on when it asks for a mode | implemented by `LocomotionController`, the robot of `RpcService` |
| `LocomotionController` | mailbox, control step, physics thread, reset | extends `BoosterApi` |
| `LocomotionHistory` | the controller with a history variable for statements about the time since PREPARE | extends it |
| `StateStream` | snapshots, pool, `StatePublisher`, odometry restarts, reset | extends `BoosterApi` |
| `RpcService` | reader history, listener thread, pool, GET_MODE cache, robot | `INSTANCE ModeContract` as its robot |
| `Supervisor` | GameController, lossy UDP, UDP reaction, placements, reset | |
| `FrameFeed` | abstract: each life of the simulator is a feed of which a reader gets the newest frame | implemented by `CameraSegments` |
| `CameraSegments` | render thread, both segments, their readers, kill and restart of both processes, Shutdown | `INSTANCE FrameFeed` |
| `CommandLine` | `parse_cli`: a command line to options, or to an exit | operators only |
| `Placement` | where the robots of a match and the copies stand: `game`, `spread_in_half`, `extra_spawn` | operators only; recursion as functions |
| `SimCore` | from the command line to the configuration, the scene, its start; the physics thread and its pacing; reset, stop, unload | extends both |
| `Viewer` | the window, mouse and keys beside the simulation; the specification of both | extends `SimCore` |
| `...Proofs` | the TLAPS proofs | extend the module they are named for; `BallProofs` extends `SupervisorProofs`, `StartProofs` extends `ViewerProofs` |
| `MC...` | values for TLC | extend the module they are named for |

State and actions keep the names of the source: `state_`, `last_mode_seq_`,
`handle_mode_request`, `step_custom`, `current_mode_`, `prev_`. Steps of one
function that other threads can get between are separate actions, ordered by a
program counter (`pc`, `worker[w].at`, `listener.at`, `job.at`, `camera.at`);
what happens under a lock nobody can look through is one action. `map` in
`PROJECT.json` gives the lines of every definition.

A definition `X_Y` (`moved_NoReturn`, `Edge_None`) is a mistaken variant of `X`,
a bug that could have been written there. No specification uses one: each
property is listed in `PROJECT.json` with a variant that violates it.

### What the abstractions leave out

* **Controller.** A torque is what it tracks and whether it was computed in this
  step; an attitude is the outcome of the threshold tests; a LowCmd is its type,
  number of motors and the session it was written in. PD gains, gait and MuJoCo
  are data. `cmd_mutex_` needs no variable, since what it guards is one action;
  the simulation mutex is `pc # "idle"`.
* **Time** counts physics steps in a window of `MaxTime`. At its edge, times that
  are remembered move back instead of the clock moving on, which keeps every
  difference the code can still tell apart. The window also bounds how long a
  snapshot may wait: at its edge the clock only moves on once no task and no
  thread holds an older one, so that a time in the queue is never blurred.
* **StateStream** follows `rt/fall_down` and the epoch (number of resets) the
  odometry is anchored in. Topics that are written on every call are left out.
* **RpcService** reduces a call to what the dispatch tells apart: the requests it
  knows, unknown or unreadable ones, and mistyped ones, whose `api_id` or body
  field has a JSON type that `get<...>()` throws on.
* **Supervisor** knows where a body was put, not where physics takes it. A match
  may be at any point when the simulator starts; it has two teams throughout,
  each with the managed player.
* **CameraSegments**: a frame's content is its number, in two pieces. The pose
  segment is configured, as by default. A constructor of a writer may fail before
  the old name is removed, after that, or after the new name is made. A thread that has read freed memory goes
  on as if it had not, or dies. The stores of the writer become visible in
  program order but for the pieces of a frame; the release stores and fences of
  `SharedImageWriter.cpp` ask for that.
* **CommandLine** takes a command line as flags with the values that follow them;
  a number that cannot be read ends the process as one out of range does.
* **Placement** counts centimetres. The rounds that spread a team in its half use
  a step and a number of rounds given as constants: TLC takes coarser ones than
  the code's 0.1 m and 100 rounds, which only move the robots less finely.
* **SimCore** turns by quarters, calls a joint pose by its name (a stance), and
  knows of physics only that it has moved the scene. What `mj_resetData` and
  `mj_resetDataKeyframe` put where is external.
* **Viewer** records on which bodies a force acts, not how strong it is; camera
  moves, overlay and drawing are left out. Freed data that is touched through
  cached handles may end the process or do nothing.

External, modelled from how the code uses them: NUClear's pool (starts tasks in
the order of emission, may run several of one reaction at once, `Single` drops;
runs Startup reactions before its pools, and goes on without the rest of one that
throws), GLFW, `mjv_select`, MuJoCo's resets, Fast-DDS (KEEP_LAST histories; it
catches nothing that its callbacks throw, so that such an exception ends the
process), UDP, the GameController, NUbots' readers K1Camera and K1Sensors, the
operating system's kill.

## 3. Runs

| Run | Checks | Bounds, and why they are enough |
|---|---|---|
| `locomotion_safety` | `TypeOK`, `NoStaleLowCmd`, `DeadClientHoldsEntryPose`, `FrozenOnlyByClient`, `ModeInForce` | 3 requests: a CUSTOM session, one out of it and a second session; LowCmds shorter than, as long as, and absent for 2 joints, one of them a head joint; one reset |
| `locomotion_liveness` | `ImplementsContract`, `DownIsReported`, `PrepareSettles`, `HeadCommandIsKept` | 2 requests of every kind with a reset anywhere; a head angle within and one beyond the limit. Three attitudes (in both runs): toppling, down by tilt alone, down by height alone |
| `stream_safety` | `TypeOK`, `WireMatchesMemory`, `OdometryRestartsAtReset`, `KeepsAliveUntilReset` | two threads, two snapshots waiting, a snapshot every 2 steps, a keepalive of 2 snapshots, a window of 7 steps, two resets at any step, so that both may fall into one publish period. States in which publishes have overlapped are not followed further (`MCOneAtATime`): the properties do not speak of them |
| `stream_liveness` | `FallStateSettles` | as above, overlaps included, with a snapshot and a keepalive in each step and one reset: what delays the repetition is then overlap and reset alone |
| `rpc_service` | `TypeOK`, `EachRequestOnce`, `HandedOverOnce`, `RequestsKeepOrder`, `EveryRequestAnswered`, `AnsweredRequestsTakeEffect`, `GetModeCatchesUp` | 2 calls of every kind, mistyped ones included, so that a repeated or overtaking request exists and one that a throw finds under way; a history of 1, so that one is pushed out; two threads |
| `supervisor` | `TypeOK`, `PenalisedRobotsAreOut`, `OthersAreIn`, `KickoffFromCentre`, `BallInPlayIsLeftAlone`, `PhysicsSeesWholePackets`, `PenaltiesAreEnforced` | 3 events of a match that may start anywhere: enough to leave READY or PLAYING and come back to it unseen, or to penalise across the change of ends; 2 datagrams, so that an old one can come after a newer; one robot found by team id, one by place |
| `camera_segments` | `TypeOK`, `AcceptedFramesAreWhole`, `ImplementsFrameFeed`, `PoseNeverBlocksForLong`, `ShutdownEnds`, `NothingIsLeftBehind` | 2 lives of 2 frames of 2 pieces: a torn frame needs two frames and two pieces, a stale segment two lives; every way the constructors can fail in each |
| `viewer` | `TypeOK`, `StartIsLegal`, `StartIsRestored`, `CatchUpIsBounded`, `ResetUnpinsDrag`, `SelectedForceEnds` | every pair of arguments out of all team sizes, some numbers of copies at and beside the limits, five fields and four keyframes, and every field with every keyframe and 20 robots; the positions and keyframes of the shipped scenes. Two bodies, so that a selection can move on, two buttons, one reset; a threshold of 3 and a step of 2, overrun by a lag of up to 9 |

Four runs show where the code does other than its comments say:

| Run | Property | What it shows |
|---|---|---|
| `prepare_after_reset` | `PrepareHoldsReadyPose` | a reset puts the clock back under `prepare_start_time_`: PREPARE then holds its start pose until the clock has passed the time PREPARE was entered again, and blends to the ready pose only then. A robot that has been in PREPARE since boot (a time of about 0) blends at once |
| `fall_down_keepalive` | `KeepsAlive` | after a reset the keepalive of `rt/fall_down` is silent until the clock has passed the last time it was sent |
| `scene_is_alive` | `SceneIsAlive` | `SimCore::unload` frees the model while the render thread may still read it |
| `stray_drag` | `NoStrayForce` | a drag that ends and a selection that moves on within one poll leave a force on the old body, with every button up |

The passing runs of the same modules say how far the promise holds:
`PrepareSettles` (PREPARE gets to the ready pose in the end),
`KeepsAliveUntilReset`, `SelectedForceEnds` (the force on the body that stays
selected), and the `Wedged` excuse of `PoseNeverBlocksForLong` and `ShutdownEnds`:
a NUbots killed while it holds the pose mutex stops the render thread.

Four more departures have no run of their own; the passing properties name them,
and fail without the exception they make for them:

* `dispatch_rpc`, which `RpcDispatch.hpp:50` says "Never throws", does so on a
  mistyped value (`RpcDispatch.cpp:51`, `:56`, `:59`, `:62`), after the sample was
  taken and before anything is emitted or answered, and takes the process with it.
  `EveryRequestAnswered` and `AnsweredRequestsTakeEffect` except that outcome
  (`EndedByMistyped`), and show that no other call has it.
* A writer whose constructor throws after it has made the name of its segment
  (`SharedImageWriter.cpp:31-32`, `SharedPoseWriter.cpp:14-15`: a full `/dev/shm`)
  runs no destructor, and the half-made segment outlives even an orderly shutdown,
  until the next start removes it. `NothingIsLeftBehind` excepts it (`unmade`).
* A PARALLEL LowCmd, which `Commands.hpp:46` calls "logged + ignored", ends the
  dead-client hold of a CUSTOM session: `FrozenOnlyByClient` says that only such
  commands, and short ones, can do so.
* The step count that paces snapshots is not reset with the clock, so that after
  two resets within one publish period the odometry may take the first snapshot
  for a later one of the same run and integrate across the reset, where
  `OdometryModel.hpp` promises that it starts again from the truth:
  `OdometryRestartsAtReset` excepts that case (`hasty`).

The positions of a match were also computed once with the code's own step and
rounds, for 5 to 11 players a side: the closest two of a team are 1.75 m apart,
nobody is within 2 m of the centre, the teams stay more than 2 m apart.

Some properties carry a condition the code needs: `~overlapped` (the pool has run
one task of the kind at a time; SdkBridge and Locomotion ask NUClear for no
synchronisation, so more is not promised), `~hasty` (above), `~stale` (packets
came in order; the Supervisor does not look at `packet_number`), `undone` (a reset
took the robot back), `hands_off` (no button was pressed since Backspace), `unmade`
(a constructor of this life failed half-way). They are history variables, and the
runs reach both of their values.

### Fairness

| Assumed | Because |
|---|---|
| `WF(Physics)` | the physics thread loops until Shutdown; its lock waits for short sections only |
| `WF(Work(w))`, `WF(Startup)` | pool threads run what is queued |
| `WF(Listener)` | Fast-DDS calls the listener while samples are there. Like all threads of `RpcService` it has nothing to do any more once a mistyped call has ended the process: no step is enabled then |
| `SF(receive(game))`, `WF(broadcast)`, `WF` of losing an old datagram | the GameController repeats its packet and not every copy is lost; no datagram is under way for ever |
| `SF(lock)`, `SF(lock_pose)` | a mutex that is free again and again is got in the end: other holders sleep between their turns |
| `WF(tick)`, `WF(apply)` | the viewer's tick comes every 16 ms, and its poll returns |
| `WF(Render)`, `WF` of the Shutdown reactions, `WF(read_pose)` | live threads run; K1Sensors holds the mutex for a few instructions |

No client, user, referee, loader or kill is ever obliged to do anything.
`CHECK_DEADLOCK FALSE` where everything that is bounded may be used up or the
simulator may have been stopped for good, by a shutdown or by a mistyped call.

## 4. Proofs

Eight modules hold proofs, checked by `tlapm`. Each proves its theorems for every
value of the constants that the named assumptions of its module allow: any
number of threads, frames, bodies, packets, calls and resets.

| Module | Theorems | Assumption |
|---|---|---|
| `LocomotionControllerProofs` | `TypeCorrect`, `LowCmdsAreFresh` (`NoStaleLowCmd`), `DeadClientIsHeld` (`DeadClientHoldsEntryPose`), `HoldsAreAskedFor` (`FrozenOnlyByClient`), `ModesAgree` (`ModeInForce`), `RefinesContract` (every step is a step of `ModeContract` or a stutter) | `ControllerAssumption` |
| `StateStreamProofs` | `TypeCorrect`, `WireAgrees` (`WireMatchesMemory`), `OdometryRestarts` (`OdometryRestartsAtReset`), `KeepaliveKept` (`KeepsAliveUntilReset`) | `StreamAssumption` |
| `RpcServiceProofs` | `TypeCorrect`, `RequestsAreKept` (`EachRequestOnce`), `HandedOver` (`HandedOverOnce`), `OrderIsKept` (`RequestsKeepOrder`) | `RpcAssumption` |
| `SupervisorProofs` | `TypeCorrect`, `PenalisedOut` (`PenalisedRobotsAreOut`), `OthersIn` (`OthersAreIn`), `WholePackets` (`PhysicsSeesWholePackets`) | `SupervisorAssumption` |
| `BallProofs` | `BallCentred` (`KickoffFromCentre`), `BallLeftAlone` (`BallInPlayIsLeftAlone`) | `SupervisorAssumption`; `BallCentred` also `ResetsOnRestart` |
| `CameraSegmentsProofs` | `TypeCorrect`, `FramesAreWhole` (`AcceptedFramesAreWhole`), `NothingLeft` (`NothingIsLeftBehind`), `ImplementsFeed` (`ImplementsFrameFeed`) | `CameraAssumption` |
| `ViewerProofs` | `TypeCorrect`, `CatchUpBounded` (`CatchUpIsBounded`), `ResetRestoresStart` (`StartIsRestored`), `DragIsUnpinned` (`ResetUnpinsDrag`) | `SimCoreAssumption`, `RtfAssumption`, `PlacementAssumption` |
| `StartProofs` | `StartLegal` (`StartIsLegal`) | those of `ViewerProofs`, and `StartFits` |

Two theorems have a hypothesis about the configuration. `ResetsOnRestart`: the
ball is reset on goals and at half time, as `config/supervisor.yaml` and
the defaults of `SupervisorConfig.hpp` have it; with either switch off TLC finds a
kick-off whose ball was left where it lay. `StartFits`: the numbers of
`simulation.yaml` and the scenes leave the room a legal start needs
(`SidelinesFit`, `GridFits`), and two things an induction over data would have to
show, what the rounds of `spread_in_half` end in (`FormationFits`) and what the loop
of `parse_cli` lets through (`LimitsKept`). `MCViewer` assumes `StartFits` part by
part, so that TLC evaluates it for the shipped numbers (and the coarser rounds).

Each rests on an inductive invariant, proved in `Invariance` with one lemma or
step per action, since hardly any of the properties is inductive as it stands:

* **Locomotion.** `NoStaleLowCmd` speaks of the torques at the end of a step, but
  whether they are fresh depends on the snapshot taken at its start, and that on
  the mailbox. `LogInv` (sequence numbers index the log of requests), `SnapInv`
  (a snapshot lies between what was consumed and what was requested; motors that
  can still reach the servos were written in this session) and `SessionInv` (so
  were those in the mailbox; entering lasts exactly one step, which serves no
  LowCmd) link them. Refinement uses `HandleConsumes`: the index applied is
  `snap.mode_seq`, above `last_mode_seq_` and inside the log.
* **Publishing.** Between the write and its record the wire is ahead of the
  memory by the snapshot of the thread that wrote; with one publish at a time
  that is the only thread there. The odometry and the keepalive rest on the order
  of the snapshots (`OrderInv`): each one waiting follows the one before it by one
  publish period or by a reset (`Link` in `QueueInv`), and the first of them the
  one being published (`HeadInv`). Once that publish is over, the odometry and
  the time of the last repetition are at the snapshot before (`Ready`), so that
  whether the next one is a reset, and a keepalive due, is decided rightly
  (`HandledInv`, `KeepInv`). A move of the window shifts all these times alike,
  and blurs none since nothing as old as its start is waiting.
* **RPC.** The reader is in the order of sending, and waiting, served, answered
  and pushed-out requests part `1 .. Len(sent)` (`PlacesInv`). `LimitInv`:
  everything on its way to the robot is older than what is not yet handed over,
  so that a request handed over goes from no copy to one. `OrderInv` orders the
  log, the running task and the queue as long as tasks do not overlap.
* **Supervisor.** Every packet names both teams (`PacketInv`), so a robot found
  in one packet is found in all, and comparing the last one with this one misses
  nobody (`RobotInv`). The mutex is held exactly between the two halves of a
  packet (`MutexInv`). For the ball the history of the match enters: of any two
  packets still anywhere the older one comes before the newer (`HistoryInv`), and
  two of the same state and half either have a goal between them or belong to the
  same kick-off (`Before`). So the Supervisor never takes one kick-off
  for another (`CentredInv`), and it has centred the ball for nothing newer than
  its last packet as long as they come in order (`InOrderInv`).
* **Camera.** A segment whose number is even holds that one frame (`EvenIsWhole`),
  and the number only grows: a copy is of one frame as long as the number is the
  one it began under (`ReaderInv`). Refinement follows from both. A name of this
  life is always one that a live writer is going to remove, or that of a half-made
  segment (`NamesInv`).
* **Viewer and SimCore.** What `lead` gains in a step, `lag` loses when the
  deadline moves on: `PacingInv` bounds their sum by the threshold and one step,
  two before the deadline has moved. The start is a function of a configuration
  that nothing changes (`StartInv`). Only a press begins a drag (`DragInv`).
* **The start.** What is placed is what the command line chose (`ChosenInv`).
  Two robots of a line-up differ in side or slot, two copies in column, side or
  row pair, by more than a robot (`LineUpFits`, `GridApart`); a team that fits in
  its half fits with its mirror image (`GameFits`); and no keyframe, fallback or
  scene without a ball moves anyone but the main robot (`MainRobot`, `PlacedAt`).

Only model-checked: all liveness (the prover has no rule for it here), and with it
the fairness half of the two refinements (`ImplementsFrameFeed` is safety alone);
what `spread_in_half` and `parse_cli` compute, which the proof of `StartIsLegal`
takes as hypotheses. Every invariant of a passing run is stated by a theorem.

## 5. Not modelled, and the plan

Not modelled: `ModelMap`, `PdController`, `HeadPose` (stateless arithmetic),
`ConsoleLog`, OpenGL contexts, JSON and YAML parsing, the surface override
(contact parameters), camera moves, the values of odometry and topics, build
tools. Of what is modelled, these operations are left out: `set_controller`
and the PD fallback before it is called, `start` and `stop` called twice, the
measured real-time factor, the foot log and the heartbeat's log line, the order
of destruction in SdkBridge's Shutdown, and a drag whose body was changed by a
double click with ctrl down, of which the force but not the reference point is
modelled. The hazards among them are listed without a property.

What would come next, in order:

1. `SimLifecycle`: the controller attached late, `start` and `stop` called twice,
   SdkBridge's order of destruction. It composes with `CameraSegments` and
   `Viewer`, which each have their half of Shutdown.
2. `StateStream` and `RpcService` share the snapshot path; a composition that
   sends both through one pool would show that fall states and modes of one
   snapshot are not seen together.
3. Proofs beside the runs: how much `PenalisedRobotsAreOut` and `OthersAreIn` still
   say when a reset falls between two packets (`undone`), and how far RPC order
   survives overlap (`overlapped`).

## 6. Running it

```
tlc -workers 2 -config Supervisor.cfg MCSupervisor
tlapm SupervisorProofs.tla
```

`PROJECT.json` names the module of each configuration; every run takes less than
five minutes, `tlapm` a few minutes a module.
