----------------------------- MODULE StateStream ----------------------------
(***************************************************************************)
(* The path of the robot's state from mjData to the wire: the physics      *)
(* thread publishes a snapshot every publish_every steps, outside the      *)
(* simulation mutex; NUClear queues one task per snapshot; a pool thread   *)
(* runs SdkBridge's reaction, StatePublisher::publish, with its odometry   *)
(* model and the rt/fall_down topic.                                       *)
(*                                                                         *)
(* The pool is external: tasks are started in the order they were emitted, *)
(* but the reaction asks for no synchronisation, so the pool may run it    *)
(* for two snapshots at once.  The reads and writes of publish are then    *)
(* separate steps, in any interleaving.                                    *)
(*                                                                         *)
(* Time counts physics steps since the last reset.  The topics written on  *)
(* every call are left out, and so are the values of the odometry: it is   *)
(* the epoch (number of resets) of the pose it was last anchored to.       *)
(* A definition named X_Y is a mistaken variant of X that Spec never uses. *)
(***************************************************************************)
EXTENDS BoosterApi, Integers, Sequences

CONSTANTS
  Threads,       \* pool threads
  publish_every, \* physics steps per snapshot
  KeepAlive,     \* physics steps in the keepalive period of one second
  Falls,         \* fall states the controller reports
  enabled,       \* the odometry error model is configured
  MaxQueued,     \* bound on the snapshots waiting for a thread
  MaxResets,     \* bound on the number of resets
  MaxTime        \* the window of sim times: bound on how long a snapshot waits

ASSUME StreamAssumption ==
  /\ Threads # {}
  /\ publish_every \in Nat \ {0}
  /\ KeepAlive \in Nat \ {0}
  /\ Falls \subseteq FallState /\ "IS_READY" \in Falls
  /\ enabled \in BOOLEAN
  /\ MaxQueued \in Nat \ {0}
  /\ MaxResets \in Nat
  /\ MaxTime \in Nat /\ KeepAlive + publish_every <= MaxTime

VARIABLES
  \* --- the simulation
  time,         \* d->time
  phase,        \* steps % publish_every
  fall_state_,  \* what the controller detects
  epoch,        \* resets so far
  snapshot,     \* the snapshot to emit after the unlock, if any
  \* --- NUClear
  tasks,        \* snapshots waiting for a pool thread
  worker,       \* what each pool thread is executing
  \* --- SdkBridge and StatePublisher
  ready,        \* on<Startup> has built the publisher
  have_last_fall_state_, last_fall_state_, last_fall_publish_time_,
  odometry,     \* OdometryModel: initialised_, t_ and the epoch it is anchored in
  \* --- the wire, and history for the properties only
  fall_down,    \* the last value written to rt/fall_down
  silent,       \* snapshots handled since, while publishes never overlapped
  handled,      \* the epoch of the last snapshot given to the odometry
  overlapped,   \* two snapshots have been in publish at once
  hasty         \* two resets have come within one publish period

sim       == <<time, phase, fall_state_, epoch, snapshot>>
publisher == <<have_last_fall_state_, last_fall_state_,
               last_fall_publish_time_, odometry>>
history   == <<fall_down, silent, handled, overlapped, hasty>>
vars      == <<sim, tasks, worker, ready, publisher, history>>

-----------------------------------------------------------------------------
Times == 0 .. MaxTime

\* A SimStateUpdate.
Update == [sim_time : Times, fall_state : Falls, epoch : 0 .. MaxResets]

Nothing == [sim_time |-> 0, fall_state |-> "IS_READY", epoch |-> 0]

Idle == [at |-> "idle", update |-> Nothing]

Routine == {"idle", "start", "odometry", "fall", "write", "record"}

LongAgo == -KeepAlive   \* stands for -1e9

TypeOK ==
  /\ time \in Times
  /\ phase \in 0 .. publish_every - 1
  /\ fall_state_ \in Falls
  /\ epoch \in 0 .. MaxResets
  /\ snapshot \in Seq(Update) /\ Len(snapshot) <= 1
  /\ tasks \in Seq(Update) /\ Len(tasks) <= MaxQueued
  /\ worker \in [Threads -> [at : Routine, update : Update]]
  /\ ready \in BOOLEAN
  /\ have_last_fall_state_ \in BOOLEAN
  /\ last_fall_state_ \in Falls
  /\ last_fall_publish_time_ \in LongAgo .. MaxTime
  /\ odometry \in [initialised : BOOLEAN, t : Times, epoch : 0 .. MaxResets]
  /\ fall_down \in Falls \cup {"none"}
  /\ silent \in Nat
  /\ handled \in 0 .. MaxResets
  /\ overlapped \in BOOLEAN /\ hasty \in BOOLEAN

Init ==
  /\ time = 0 /\ phase = 0 /\ fall_state_ = "IS_READY" /\ epoch = 0
  /\ snapshot = << >>
  /\ tasks = << >>
  /\ worker = [w \in Threads |-> Idle]
  /\ ready = FALSE
  /\ have_last_fall_state_ = FALSE
  /\ last_fall_state_ = "IS_READY"
  /\ last_fall_publish_time_ = LongAgo
  /\ odometry = [initialised |-> FALSE, t |-> 0, epoch |-> 0]
  /\ fall_down = "none" /\ silent = 0 /\ handled = 0
  /\ overlapped = FALSE /\ hasty = FALSE

-----------------------------------------------------------------------------
(* The simulation *)

\* The clock is a window: past its end every other time moves back instead, the
\* times remembered no further than can be told apart, those of snapshots only
\* as far as they go: none waits longer than MaxTime.
Earlier(t) == IF t > 0 THEN t - 1 ELSE 0
Older(u)   == [u EXCEPT !.sim_time = Earlier(@)]

AdvanceClock ==
  IF time < MaxTime
  THEN time' = time + 1
       /\ UNCHANGED <<tasks, worker, last_fall_publish_time_, odometry>>
  ELSE /\ \A i \in DOMAIN tasks : tasks[i].sim_time > 0
       /\ \A w \in Threads : worker[w].at # "idle" => worker[w].update.sim_time > 0
       /\ tasks' = [i \in DOMAIN tasks |-> Older(tasks[i])]
       /\ worker' = [w \in Threads |->
                       [worker[w] EXCEPT !.update = Older(@)]]
       /\ last_fall_publish_time_' =
            IF last_fall_publish_time_ > LongAgo
            THEN last_fall_publish_time_ - 1 ELSE LongAgo
       /\ odometry' = [odometry EXCEPT !.t = Earlier(@)]
       /\ UNCHANGED time

Due(steps) == steps % publish_every = 0

\* One physics step under the simulation mutex.  The count of steps that paces
\* the snapshots is the loop's own and runs on across resets.
physics_step ==
  /\ snapshot = << >>
  /\ AdvanceClock
  /\ phase' = (phase + 1) % publish_every
  /\ fall_state_' \in Falls
  /\ snapshot' = IF Due(phase + 1)
                 THEN <<[sim_time |-> time', fall_state |-> fall_state_',
                         epoch |-> epoch]>>
                 ELSE << >>
  /\ UNCHANGED <<epoch, ready, have_last_fall_state_, last_fall_state_, history>>

\* on_state_, after the unlock: emit(SimStateUpdate).
emit ==
  /\ snapshot # << >>
  /\ Len(tasks) < MaxQueued
  /\ tasks' = tasks \o snapshot
  /\ snapshot' = << >>
  /\ UNCHANGED <<time, phase, fall_state_, epoch, worker, ready, publisher,
                 history>>

\* Runs on a pool thread under the simulation mutex, so between two steps; the
\* snapshot of the last step may still be on its way.
reset ==
  /\ epoch < MaxResets
  /\ epoch' = epoch + 1
  /\ time' = 0
  /\ hasty' = (hasty \/ (epoch > 0 /\ time < publish_every))
  /\ UNCHANGED <<phase, fall_state_, snapshot, tasks, worker, ready, publisher,
                 fall_down, silent, handled, overlapped>>

-----------------------------------------------------------------------------
(* SdkBridge on the pool *)

Startup ==
  /\ ~ready
  /\ ready' = TRUE
  /\ UNCHANGED <<sim, tasks, worker, publisher, history>>

At(w, routine) == worker[w].at = routine

Goto(w, routine) ==
  worker' = [worker EXCEPT ![w] =
               IF routine = "idle" THEN Idle ELSE [@ EXCEPT !.at = routine]]

Busy == \E w \in Threads : worker[w].at \notin {"idle", "start"}

take_task(w) ==
  /\ At(w, "idle")
  /\ tasks # << >>
  /\ worker' = [worker EXCEPT ![w] = [at |-> "start", update |-> Head(tasks)]]
  /\ tasks' = Tail(tasks)
  /\ UNCHANGED <<sim, ready, publisher, history>>

\* Snapshots that come before on<Startup> are dropped.
start_reaction(w) ==
  /\ At(w, "start")
  /\ Goto(w, IF ready THEN "odometry" ELSE "idle")
  /\ overlapped' = (overlapped \/ Busy \/ \E v \in Threads \ {w} : At(v, "start"))
  /\ UNCHANGED <<sim, tasks, ready, publisher, fall_down, silent, handled,
                 hasty>>

Restarts_Strict(t) == ~enabled \/ ~odometry.initialised \/ t - odometry.t < 0

\* OdometryModel::update starts again from the truth on the first call and
\* whenever the time has not moved forward.
Restarts(t) == ~enabled \/ ~odometry.initialised \/ t - odometry.t <= 0

Stamp_Dt(u) == u.sim_time - odometry.t
Stamp(u)    == u.sim_time

update_odometry(w) ==
  LET u == worker[w].update
  IN /\ At(w, "odometry")
     /\ Goto(w, "fall")
     /\ odometry' = [initialised |-> TRUE, t |-> Stamp(u),
                     epoch |-> IF Restarts(u.sim_time) THEN u.epoch
                               ELSE odometry.epoch]
     /\ handled' = u.epoch
     /\ UNCHANGED <<sim, tasks, ready, have_last_fall_state_, last_fall_state_,
                    last_fall_publish_time_, fall_down, silent, overlapped, hasty>>

Changed(u) == ~have_last_fall_state_ \/ last_fall_state_ # u.fall_state

DueKeepalive_Never(u)  == FALSE
DueKeepalive_Strict(u) == u.sim_time - last_fall_publish_time_ > KeepAlive
DueKeepalive(u)        == u.sim_time - last_fall_publish_time_ >= KeepAlive

\* A keepalive period of snapshots has passed without a write.
Silent == silent * publish_every >= KeepAlive

decide_fall_down(w) ==
  LET u == worker[w].update
      writes == Changed(u) \/ DueKeepalive(u)
  IN /\ At(w, "fall")
     /\ Goto(w, IF writes THEN "write" ELSE "idle")
     /\ silent' = IF writes \/ overlapped \/ Silent THEN silent ELSE silent + 1
     /\ UNCHANGED <<sim, tasks, ready, publisher, fall_down, handled, overlapped,
                    hasty>>

write_fall_down(w) ==
  /\ At(w, "write")
  /\ Goto(w, "record")
  /\ fall_down' = worker[w].update.fall_state
  /\ silent' = 0
  /\ UNCHANGED <<sim, tasks, ready, publisher, handled, overlapped, hasty>>

record_fall_down_NoState(w) ==
  LET u == worker[w].update
  IN /\ At(w, "record")
     /\ Goto(w, "idle")
     /\ have_last_fall_state_' = TRUE
     /\ last_fall_publish_time_' = u.sim_time
     /\ UNCHANGED <<sim, tasks, ready, last_fall_state_, odometry, history>>

record_fall_down(w) ==
  LET u == worker[w].update
  IN /\ At(w, "record")
     /\ Goto(w, "idle")
     /\ have_last_fall_state_' = TRUE
     /\ last_fall_state_' = u.fall_state
     /\ last_fall_publish_time_' = u.sim_time
     /\ UNCHANGED <<sim, tasks, ready, odometry, history>>

-----------------------------------------------------------------------------
publish(w) ==
  \/ update_odometry(w)
  \/ decide_fall_down(w)
  \/ write_fall_down(w)
  \/ record_fall_down(w)

Work(w) == take_task(w) \/ start_reaction(w) \/ publish(w)

Physics == physics_step \/ emit

Next == Physics \/ reset \/ Startup \/ \E w \in Threads : Work(w)

\* The physics thread and the pool's threads run while the simulator does, and
\* on<Startup> is the first thing the reactor does.
Spec ==
  /\ Init /\ [][Next]_vars
  /\ WF_vars(Physics)
  /\ WF_vars(Startup)
  /\ \A w \in Threads : WF_vars(Work(w))

-----------------------------------------------------------------------------
(* Properties *)

Quiet == \A w \in Threads : worker[w].at \in {"idle", "start", "odometry", "fall"}

\* As long as the pool runs one publish at a time, what subscribers of
\* rt/fall_down were last told is what the publisher remembers telling them, so
\* that "changed" means changed for them.
WireMatchesMemory ==
  ~overlapped /\ Quiet /\ have_last_fall_state_ => fall_down = last_fall_state_

\* A reset, however soon after a snapshot, takes the odometry back to the truth
\* with the first snapshot that shows it: the estimate never integrates from one
\* run of the simulation into the next.  The steps that pace snapshots are not
\* reset with the clock, so that after two resets within a publish period the
\* first snapshot may look later than the one before: that is excepted.
OdometryRestartsAtReset ==
  ~overlapped /\ ~hasty /\ odometry.initialised => odometry.epoch = handled

\* rt/fall_down is repeated in every keepalive period of the simulation, as long
\* as the pool runs one publish at a time.
KeepsAlive == ~overlapped => ~Silent

\* Until the first reset it is.
KeepsAliveUntilReset == epoch = 0 => KeepsAlive

\* Whatever overlaps, repeats or resets there were, once the robot stays in a
\* fall state its subscribers end up being told that state and no other.
FallStateSettles ==
  \A f \in Falls : <>[](fall_state_ = f) => <>[](fall_down = f)
=============================================================================
