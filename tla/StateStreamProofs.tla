-------------------------- MODULE StateStreamProofs --------------------------
(***************************************************************************)
(* What the wire and the publisher agree on, and what the order of the      *)
(* snapshots gives the odometry and the keepalive, for any number of pool  *)
(* threads, resets and queued snapshots, any keepalive and publish rate.   *)
(***************************************************************************)
EXTENDS StateStream, SequenceTheorems, TLAPS

-----------------------------------------------------------------------------
(* The inductive invariant *)

InPublish == {"odometry", "fall", "write", "record"}

\* One publish at a time.
AloneInv ==
  \A v, w \in Threads : worker[v].at \in InPublish /\ worker[w].at \in InPublish => v = w

\* Between the write and its record the wire is ahead of the memory, by the
\* snapshot of the thread that wrote.
WireInv ==
  /\ \A w \in Threads : At(w, "record") => fall_down = worker[w].update.fall_state
  /\ \/ \E w \in Threads : At(w, "record")
     \/ have_last_fall_state_ => fall_down = last_fall_state_

IInv == TypeOK /\ (~overlapped => AloneInv /\ WireInv)

-----------------------------------------------------------------------------
(* Type correctness *)

Job == [at : Routine, update : Update]

LEMMA NothingType == Nothing \in Update /\ Idle \in Job
<1>1. 0 \in Times /\ 0 \in 0 .. MaxResets /\ "IS_READY" \in Falls
  BY StreamAssumption DEF Times
<1> QED
  BY <1>1 DEF Nothing, Idle, Update, Job, Routine

LEMMA OlderType ==
  ASSUME NEW u \in Update
  PROVE  Older(u) \in Update /\ Older(u).fall_state = u.fall_state
<1>1. Earlier(u.sim_time) \in Times
  BY StreamAssumption DEF Update, Times, Earlier
<1> QED
  BY <1>1 DEF Older, Update

LEMMA InitTypeOK == Init => TypeOK
<1> SUFFICES ASSUME Init PROVE TypeOK
  OBVIOUS
<1>1. /\ time \in Times /\ phase \in 0 .. publish_every - 1 /\ epoch \in 0 .. MaxResets
      /\ handled \in 0 .. MaxResets /\ silent \in Nat
      /\ last_fall_publish_time_ \in LongAgo .. MaxTime
  BY StreamAssumption DEF Init, Times, LongAgo
<1>2. snapshot \in Seq(Update) /\ Len(snapshot) <= 1 /\ tasks \in Seq(Update) /\ Len(tasks) <= MaxQueued
  BY StreamAssumption DEF Init
<1>3. worker \in [Threads -> [at : Routine, update : Update]]
  BY NothingType DEF Init, Job
<1>4. odometry \in [initialised : BOOLEAN, t : Times, epoch : 0 .. MaxResets]
  <2>1. 0 \in Times /\ 0 \in 0 .. MaxResets
    BY StreamAssumption DEF Times
  <2> QED
    BY <2>1 DEF Init
<1>5. fall_state_ \in Falls /\ last_fall_state_ \in Falls
  BY StreamAssumption DEF Init
<1> QED
  BY <1>1, <1>2, <1>3, <1>4, <1>5 DEF Init, TypeOK

\* Past the end of the window the times in memory move back, and nothing else.
LEMMA ClockAdvances ==
  ASSUME TypeOK, AdvanceClock
  PROVE  /\ time' \in Times /\ last_fall_publish_time_' \in LongAgo .. MaxTime
         /\ tasks' \in Seq(Update) /\ Len(tasks') <= MaxQueued
         /\ worker' \in [Threads -> Job]
         /\ \A w \in Threads : /\ worker'[w].at = worker[w].at
                               /\ worker'[w].update.fall_state = worker[w].update.fall_state
         /\ odometry' \in [initialised : BOOLEAN, t : Times, epoch : 0 .. MaxResets]
<1>1. CASE time < MaxTime
  <2>1. time' = time + 1 /\ UNCHANGED <<tasks, worker, last_fall_publish_time_, odometry>>
    BY <1>1 DEF AdvanceClock
  <2>2. time' \in Times
    <3>1. time \in 0 .. MaxTime /\ MaxTime \in Nat
      BY StreamAssumption DEF TypeOK, Times
    <3> QED
      BY <1>1, <2>1, <3>1 DEF Times
  <2> QED
    BY <2>1, <2>2 DEF TypeOK, Job
<1>2. CASE ~(time < MaxTime)
  <2>1. /\ tasks' = [i \in DOMAIN tasks |-> Older(tasks[i])]
        /\ worker' = [w \in Threads |-> [worker[w] EXCEPT !.update = Older(@)]]
        /\ odometry' = [odometry EXCEPT !.t = Earlier(@)] /\ time' = time
    BY <1>2 DEF AdvanceClock
  <2>2. last_fall_publish_time_' \in LongAgo .. MaxTime
    <3>1. /\ last_fall_publish_time_ \in LongAgo .. MaxTime
          /\ LongAgo \in Int /\ LongAgo <= 0 /\ MaxTime \in Nat
      BY StreamAssumption DEF TypeOK, LongAgo
    <3>2. last_fall_publish_time_' =
            IF last_fall_publish_time_ > LongAgo THEN last_fall_publish_time_ - 1 ELSE LongAgo
      BY <1>2 DEF AdvanceClock
    <3> QED
      BY <3>1, <3>2
  <2>3. tasks' \in Seq(Update) /\ Len(tasks') <= MaxQueued
    <3>1. Len(tasks) \in Nat /\ DOMAIN tasks = 1 .. Len(tasks)
          /\ \A i \in DOMAIN tasks : Older(tasks[i]) \in Update
      BY OlderType, ElementOfSeq, LenProperties DEF TypeOK
    <3>2. tasks' \in [1 .. Len(tasks) -> Update]
      BY <2>1, <3>1
    <3>3. tasks' \in Seq(Update) /\ Len(tasks') = Len(tasks)
      BY <3>1, <3>2, LenProperties
    <3> QED
      BY <3>3 DEF TypeOK
  <2>4. ASSUME NEW w \in Threads
        PROVE  /\ [worker[w] EXCEPT !.update = Older(@)] \in Job
               /\ worker'[w] = [worker[w] EXCEPT !.update = Older(@)]
               /\ worker'[w].at = worker[w].at
               /\ worker'[w].update.fall_state = worker[w].update.fall_state
    <3>1. worker[w] \in Job
      BY DEF TypeOK, Job
    <3>2. worker[w].update \in Update /\ worker[w].at \in Routine
      BY <3>1 DEF Job
    <3>3. Older(worker[w].update) \in Update
          /\ Older(worker[w].update).fall_state = worker[w].update.fall_state
      BY <3>2, OlderType
    <3> QED
      BY <2>1, <3>1, <3>2, <3>3 DEF Job
  <2>5. worker' \in [Threads -> Job]
    BY <2>1, <2>4
  <2>6. odometry' \in [initialised : BOOLEAN, t : Times, epoch : 0 .. MaxResets]
    <3>1. Earlier(odometry.t) \in Times
      BY StreamAssumption DEF TypeOK, Times, Earlier
    <3> QED
      BY <2>1, <3>1 DEF TypeOK
  <2> QED
    BY <2>1, <2>2, <2>3, <2>4, <2>5, <2>6 DEF TypeOK
<1> QED
  BY <1>1, <1>2

LEMMA SimTypeOK == ASSUME TypeOK, Physics \/ reset \/ Startup PROVE TypeOK'
<1>1. CASE physics_step
  <2>1. phase' \in 0 .. publish_every - 1
    BY <1>1, StreamAssumption DEF physics_step, TypeOK
  <2>2. /\ time' \in Times /\ last_fall_publish_time_' \in LongAgo .. MaxTime
        /\ tasks' \in Seq(Update) /\ Len(tasks') <= MaxQueued
        /\ worker' \in [Threads -> Job]
        /\ odometry' \in [initialised : BOOLEAN, t : Times, epoch : 0 .. MaxResets]
    BY <1>1, ClockAdvances DEF physics_step
  <2>3. snapshot' \in Seq(Update) /\ Len(snapshot') <= 1
    <3> DEFINE u == [sim_time |-> time', fall_state |-> fall_state_', epoch |-> epoch]
    <3>1. u \in Update
      BY <1>1, <2>2 DEF physics_step, TypeOK, Update
    <3>2. snapshot' = <<u>> \/ snapshot' = << >>
      BY <1>1 DEF physics_step
    <3> HIDE DEF u
    <3>3. CASE snapshot' = <<u>>
      <4>1. <<u>> \in Seq(Update) /\ Len(<<u>>) = 1
        BY <3>1
      <4> QED
        BY <3>3, <4>1
    <3>4. CASE snapshot' = << >>
      <4>1. << >> \in Seq(Update) /\ Len(<< >>) = 0
        BY EmptySeq
      <4> QED
        BY <3>4, <4>1
    <3> QED
      BY <3>2, <3>3, <3>4
  <2> QED
    BY <1>1, <2>1, <2>2, <2>3 DEF physics_step, TypeOK, history, Job
<1>2. CASE emit
  <2>1. tasks' \in Seq(Update) /\ Len(tasks') <= MaxQueued
    <3>1. /\ snapshot \in Seq(Update) /\ tasks \in Seq(Update) /\ Len(tasks) \in Nat
          /\ Len(snapshot) \in Nat /\ Len(snapshot) <= 1 /\ Len(tasks) < MaxQueued
          /\ tasks' = tasks \o snapshot
      BY <1>2 DEF emit, TypeOK
    <3>2. tasks' \in Seq(Update) /\ Len(tasks') = Len(tasks) + Len(snapshot)
      BY <3>1, ConcatProperties
    <3> QED
      BY <3>1, <3>2, StreamAssumption
  <2> QED
    BY <1>2, <2>1 DEF emit, TypeOK, publisher, history
<1>3. CASE reset
  BY <1>3, StreamAssumption DEF reset, TypeOK, publisher, history, Times
<1>4. CASE Startup
  BY <1>4 DEF Startup, TypeOK, sim, publisher, history
<1> QED
  BY <1>1, <1>2, <1>3, <1>4 DEF Physics

LEMMA GotoType ==
  ASSUME TypeOK, NEW w \in Threads, NEW routine \in Routine, Goto(w, routine)
  PROVE  /\ worker' \in [Threads -> Job]
         /\ \A v \in Threads : v # w => worker'[v] = worker[v]
         /\ worker'[w].at = routine
         /\ routine # "idle" => worker'[w].update = worker[w].update
<1> DEFINE job == IF routine = "idle" THEN Idle ELSE [worker[w] EXCEPT !.at = routine]
<1>1. worker \in [Threads -> Job] /\ worker[w] \in Job
  BY DEF TypeOK, Job
<1>2. job \in Job /\ job.at = routine /\ (routine # "idle" => job.update = worker[w].update)
  BY <1>1, NothingType DEF Job, Idle
<1>3. worker' = [worker EXCEPT ![w] = job]
  BY DEF Goto
<1> HIDE DEF job
<1> QED
  BY <1>1, <1>2, <1>3

LEMMA WorkTypeOK == ASSUME TypeOK, NEW w \in Threads, Work(w) PROVE TypeOK'
<1>0. /\ worker \in [Threads -> Job] /\ worker[w] \in Job
      /\ worker[w].update \in Update /\ worker[w].update.sim_time \in Times
      /\ worker[w].update.fall_state \in Falls /\ worker[w].update.epoch \in 0 .. MaxResets
  BY DEF TypeOK, Job, Update
<1>1. CASE take_task(w)
  <2>1. Head(tasks) \in Update /\ tasks' \in Seq(Update) /\ Len(tasks') <= MaxQueued
    <3>1. Head(tasks) \in Update /\ tasks' \in Seq(Update) /\ Len(tasks') = Len(tasks) - 1
          /\ Len(tasks) \in Nat /\ Len(tasks) <= MaxQueued
      BY <1>1, HeadTailProperties DEF take_task, TypeOK
    <3> QED
      BY <3>1, StreamAssumption
  <2>2. [at |-> "start", update |-> Head(tasks)] \in Job
    BY <2>1 DEF Job, Routine
  <2>3. worker' \in [Threads -> Job]
    BY <1>0, <1>1, <2>2 DEF take_task
  <2> QED
    BY <1>1, <2>1, <2>3 DEF take_task, TypeOK, Job, sim, publisher, history
<1>2. CASE start_reaction(w)
  <2>1. worker' \in [Threads -> Job]
    BY <1>2, GotoType DEF start_reaction, Routine
  <2>2. overlapped' \in BOOLEAN
    BY <1>2 DEF start_reaction
  <2> QED
    BY <1>2, <2>1, <2>2 DEF start_reaction, TypeOK, Job, sim, publisher
<1>3. CASE update_odometry(w)
  <2>1. worker' \in [Threads -> Job]
    BY <1>3, GotoType DEF update_odometry, Routine
  <2>2. odometry' \in [initialised : BOOLEAN, t : Times, epoch : 0 .. MaxResets]
    BY <1>0, <1>3 DEF update_odometry, Stamp, TypeOK
  <2>3. handled' \in 0 .. MaxResets
    BY <1>0, <1>3 DEF update_odometry
  <2> QED
    BY <1>3, <2>1, <2>2, <2>3 DEF update_odometry, TypeOK, Job, sim
<1>4. CASE decide_fall_down(w)
  <2>1. worker' \in [Threads -> Job]
    BY <1>4, GotoType DEF decide_fall_down, Routine
  <2>2. silent' \in Nat
    BY <1>4 DEF decide_fall_down, TypeOK
  <2> QED
    BY <1>4, <2>1, <2>2 DEF decide_fall_down, TypeOK, Job, sim, publisher
<1>5. CASE write_fall_down(w)
  <2>1. worker' \in [Threads -> Job]
    BY <1>5, GotoType DEF write_fall_down, Routine
  <2> QED
    BY <1>0, <1>5, <2>1 DEF write_fall_down, TypeOK, Job, sim, publisher
<1>6. CASE record_fall_down(w)
  <2>1. worker' \in [Threads -> Job]
    BY <1>6, GotoType DEF record_fall_down, Routine
  <2>2. last_fall_publish_time_' \in LongAgo .. MaxTime
    BY <1>0, <1>6, StreamAssumption DEF record_fall_down, LongAgo, Times
  <2> QED
    BY <1>0, <1>6, <2>1, <2>2 DEF record_fall_down, TypeOK, Job, sim, history
<1> QED
  BY <1>1, <1>2, <1>3, <1>4, <1>5, <1>6 DEF Work, publish

LEMMA TypeOKInductive == ASSUME TypeOK, [Next]_vars PROVE TypeOK'
<1>1. CASE UNCHANGED vars
  BY <1>1 DEF vars, TypeOK, sim, publisher, history
<1> QED
  BY <1>1, SimTypeOK, WorkTypeOK DEF Next

-----------------------------------------------------------------------------
(* The wire *)

\* Whatever leaves the threads, their fall states, the wire and the memory as
\* they are.
LEMMA SameWire ==
  ASSUME AloneInv, WireInv,
         UNCHANGED <<fall_down, have_last_fall_state_, last_fall_state_>>,
         \A w \in Threads : /\ worker'[w].at = worker[w].at
                            /\ worker'[w].update.fall_state = worker[w].update.fall_state
  PROVE  AloneInv' /\ WireInv'
BY DEF AloneInv, WireInv, At

LEMMA StepWire ==
  ASSUME TypeOK, ~overlapped, AloneInv, WireInv, ~overlapped', [Next]_vars
  PROVE  AloneInv' /\ WireInv'
<1>1. CASE Physics \/ reset \/ Startup \/ UNCHANGED vars
  <2>1. CASE physics_step
    BY <2>1, ClockAdvances, SameWire DEF physics_step, history
  <2>2. CASE emit \/ reset \/ Startup \/ UNCHANGED vars
    BY <2>2, SameWire DEF emit, reset, Startup, vars, publisher, history
  <2> QED
    BY <1>1, <2>1, <2>2 DEF Physics
<1>2. ASSUME NEW w \in Threads, Work(w) PROVE AloneInv' /\ WireInv'
  <2>1. CASE take_task(w)
    <3>1. /\ worker' = [worker EXCEPT ![w] = [at |-> "start", update |-> Head(tasks)]]
          /\ worker[w].at = "idle" /\ worker \in [Threads -> Job]
          /\ UNCHANGED <<fall_down, have_last_fall_state_, last_fall_state_>>
      BY <2>1 DEF take_task, At, publisher, history, TypeOK, Job
    <3>2. \A v \in Threads : IF v = w THEN worker'[v].at = "start" ELSE worker'[v] = worker[v]
      BY <3>1
    <3> QED
      BY <3>1, <3>2 DEF AloneInv, WireInv, At, InPublish
  <2>2. CASE start_reaction(w)
    <3>1. PICK routine \in {"odometry", "idle"} : Goto(w, routine)
      BY <2>2 DEF start_reaction
    <3>2. /\ \A v \in Threads : v # w => worker'[v] = worker[v]
          /\ worker'[w].at = routine
      BY <3>1, GotoType DEF Routine
    <3>3. /\ worker[w].at = "start" /\ \A v \in Threads : worker[v].at \notin InPublish
          /\ UNCHANGED <<fall_down, have_last_fall_state_, last_fall_state_>>
      BY <2>2 DEF start_reaction, Busy, At, InPublish, publisher
    <3> QED
      BY <3>2, <3>3 DEF AloneInv, WireInv, At, InPublish
  <2>3. CASE update_odometry(w) \/ decide_fall_down(w)
    <3>1. PICK routine \in {"fall", "write", "idle"} : Goto(w, routine)
      BY <2>3 DEF update_odometry, decide_fall_down
    <3>2. /\ \A v \in Threads : v # w => worker'[v] = worker[v]
          /\ worker'[w].at = routine
      BY <3>1, GotoType DEF Routine
    <3>3. /\ worker[w].at \in {"odometry", "fall"}
          /\ UNCHANGED <<fall_down, have_last_fall_state_, last_fall_state_>>
      BY <2>3 DEF update_odometry, decide_fall_down, At, publisher
    <3> QED
      BY <3>2, <3>3 DEF AloneInv, WireInv, At, InPublish
  <2>4. CASE write_fall_down(w)
    <3>1. /\ \A v \in Threads : v # w => worker'[v] = worker[v]
          /\ worker'[w].at = "record" /\ worker'[w].update = worker[w].update
      BY <2>4, GotoType DEF write_fall_down, Routine
    <3>2. worker[w].at = "write" /\ fall_down' = worker[w].update.fall_state
      BY <2>4 DEF write_fall_down, At
    <3>3. \A v \in Threads : v # w => worker[v].at \notin InPublish
      BY <3>2 DEF AloneInv, InPublish
    <3> QED
      BY <3>1, <3>2, <3>3 DEF AloneInv, WireInv, At, InPublish
  <2>5. CASE record_fall_down(w)
    <3>1. /\ \A v \in Threads : v # w => worker'[v] = worker[v]
          /\ worker'[w].at = "idle"
      BY <2>5, GotoType DEF record_fall_down, Routine
    <3>2. /\ worker[w].at = "record" /\ last_fall_state_' = worker[w].update.fall_state
          /\ fall_down' = fall_down
      BY <2>5 DEF record_fall_down, At, history
    <3>3. \A v \in Threads : v # w => worker[v].at \notin InPublish
      BY <3>2 DEF AloneInv, InPublish
    <3>4. fall_down' = last_fall_state_'
      BY <3>2 DEF WireInv, At
    <3> QED
      BY <3>1, <3>3, <3>4 DEF AloneInv, WireInv, At, InPublish
  <2> QED
    BY <1>2, <2>1, <2>2, <2>3, <2>4, <2>5 DEF Work, publish
<1> QED
  BY <1>1, <1>2 DEF Next

-----------------------------------------------------------------------------
(* The order of the snapshots *)

U(w) == worker[w].update

\* The snapshot that the physics thread is counting towards.
Future == [sim_time |-> time + publish_every - phase, epoch |-> epoch]

\* What is to be handed to the pool, in this order: the tasks, the snapshot on
\* its way if there is one, and the one to come.
Coming     == IF snapshot = << >> THEN Future ELSE snapshot[1]
Waiting(i) == IF i <= Len(tasks) THEN tasks[i] ELSE Coming

\* b is the snapshot right after a: a publish period later, or the first after a
\* reset, which no later time than a's can belong to.
Link(a, b) ==
  /\ a.epoch <= b.epoch
  /\ IF a.epoch = b.epoch THEN b.sim_time = a.sim_time + publish_every
                          ELSE b.sim_time <= a.sim_time

\* b may be given to the odometry o next.
Anchored(o, b) ==
  o.initialised => /\ o.epoch <= b.epoch
                   /\ IF o.epoch = b.epoch THEN b.sim_time <= o.t + publish_every
                                           ELSE b.sim_time <= o.t

\* b comes a gap after the last write of rt/fall_down.
After(b, last, gap) == last = LongAgo \/ b.sim_time - last = gap

Gap(s) == (s + 1) * publish_every

Ready(b) ==
  Anchored(odometry, b) /\ (epoch = 0 => After(b, last_fall_publish_time_, Gap(silent)))

Alone == \A w \in Threads : worker[w].at \notin InPublish

\* b is the snapshot to be published next: it comes right after the one being
\* published, or else it is ready.
ComesNext(b) ==
  /\ \A w \in Threads : worker[w].at \in InPublish => Link(U(w), b)
  /\ Alone => Ready(b)

Lonely == \A v, w \in Threads : At(v, "start") /\ At(w, "start") => v = w

QueueInv ==
  /\ \A i \in 1 .. Len(tasks) : Link(Waiting(i), Waiting(i + 1))
  /\ snapshot # << >> => Link(snapshot[1], Future)

\* Two threads at the start may be out of order: whichever goes on overlaps.
HeadInv ==
  Lonely =>
    /\ \A v \in Threads : At(v, "start") => ComesNext(U(v)) /\ Link(U(v), Waiting(1))
    /\ (\A v \in Threads : ~At(v, "start")) => ComesNext(Waiting(1))

ThreadInv ==
  \A w \in Threads :
    /\ At(w, "odometry") => Ready(U(w))
    /\ At(w, "fall") /\ epoch = 0 => After(U(w), last_fall_publish_time_, Gap(silent))
    /\ worker[w].at \in {"fall", "write", "record"}
         => /\ odometry.initialised /\ odometry.epoch = U(w).epoch
            /\ odometry.t = U(w).sim_time
    /\ At(w, "record") => silent = 0

KeepInv    == epoch = 0 => silent * publish_every < KeepAlive
HandledInv == odometry.initialised => odometry.epoch = handled

FlowInv == QueueInv /\ HeadInv /\ ThreadInv /\ KeepInv /\ HandledInv

\* Nothing is of a reset to come; two resets within a period take one before.
EpochInv ==
  /\ \A i \in 1 .. Len(tasks) + 1 : Waiting(i).epoch <= epoch
  /\ \A w \in Threads : U(w).epoch <= epoch
  /\ odometry.epoch <= epoch
  /\ epoch = 0 => ~hasty

\* Before on<Startup>, nothing has been published.
ReadyInv ==
  ~ready => ~odometry.initialised /\ last_fall_publish_time_ = LongAgo /\ Alone

\* Before the first snapshot, steps pace the clock, and there is nothing to
\* publish.
StartInv ==
  epoch = 0 /\ time < publish_every =>
    /\ time = phase /\ snapshot = << >> /\ tasks = << >> /\ ~odometry.initialised
    /\ \A w \in Threads : At(w, "idle")

BaseInv  == EpochInv /\ ReadyInv /\ StartInv
OrderInv == BaseInv /\ (~overlapped /\ ~hasty => FlowInv)

-----------------------------------------------------------------------------
(* Lemmas about the order *)

Dated(b) == b.sim_time \in Int /\ b.epoch \in Nat

\* c is a, d steps earlier.
Shifted(a, c, d) == c.sim_time = a.sim_time - d /\ c.epoch = a.epoch

LEMMA GapType == \A s \in Nat : Gap(s) \in Int /\ Gap(s + 1) = Gap(s) + publish_every
BY StreamAssumption DEF Gap

LEMMA FlowTypes ==
  ASSUME TypeOK
  PROVE  /\ time \in Nat /\ phase \in Nat /\ phase + 1 <= publish_every /\ epoch \in Nat
         /\ publish_every \in Nat /\ publish_every > 0 /\ Len(tasks) \in Nat
         /\ \A w \in Threads : Dated(U(w)) /\ U(w).sim_time \in Nat
         /\ \A i \in 1 .. Len(tasks) : tasks[i] \in Update /\ Dated(tasks[i])
         /\ snapshot # << >> => snapshot = <<snapshot[1]>> /\ Dated(snapshot[1])
         /\ Dated(Future) /\ Dated(Coming)
         /\ \A i \in 1 .. Len(tasks) + 1 : Dated(Waiting(i))
         /\ odometry.t \in Nat /\ odometry.epoch \in Nat
         /\ last_fall_publish_time_ \in Int /\ LongAgo \in Int /\ silent \in Nat
<1>1. /\ time \in Nat /\ phase \in Nat /\ phase + 1 <= publish_every /\ epoch \in Nat
      /\ publish_every \in Nat /\ publish_every > 0 /\ Len(tasks) \in Nat
      /\ odometry.t \in Nat /\ odometry.epoch \in Nat
      /\ last_fall_publish_time_ \in Int /\ LongAgo \in Int /\ silent \in Nat
  BY StreamAssumption DEF TypeOK, Times, LongAgo
<1>2. \A u \in Update : Dated(u) /\ u.sim_time \in Nat
  BY StreamAssumption DEF Update, Dated, Times
<1>3. \A w \in Threads : Dated(U(w)) /\ U(w).sim_time \in Nat
  BY <1>2 DEF TypeOK, U
<1>4. \A i \in 1 .. Len(tasks) : tasks[i] \in Update /\ Dated(tasks[i])
  BY <1>2, ElementOfSeq DEF TypeOK
<1>5. snapshot # << >> => snapshot = <<snapshot[1]>> /\ Dated(snapshot[1])
  <2> SUFFICES ASSUME snapshot # << >>
               PROVE  snapshot = <<snapshot[1]>> /\ Dated(snapshot[1])
    OBVIOUS
  <2>1. snapshot \in Seq(Update) /\ Len(snapshot) \in Nat /\ Len(snapshot) <= 1
    BY LenProperties DEF TypeOK
  <2>2. Len(snapshot) = 1
    <3>1. PICK n : n = Len(snapshot)
      OBVIOUS
    <3>2. n \in Nat \ {0}
      BY <2>1, <3>1, EmptySeq
    <3>3. n <= 1
      BY <2>1, <3>1
    <3> QED
      BY <3>1, <3>2, <3>3
  <2>3. snapshot[1] \in Update
    BY <2>1, <2>2, ElementOfSeq
  <2>4. snapshot = <<snapshot[1]>>
    BY <2>1, <2>2, <2>3, SeqEqual
  <2> QED
    BY <1>2, <2>3, <2>4
<1>6. Dated(Future)
  BY <1>1 DEF Future, Dated
<1>7. Dated(Coming)
  BY <1>5, <1>6 DEF Coming
<1>8. \A i \in 1 .. Len(tasks) + 1 : Dated(Waiting(i))
  BY <1>1, <1>4, <1>7 DEF Waiting
<1> QED
  BY <1>1, <1>3, <1>4, <1>5, <1>6, <1>7, <1>8

LEMMA LinkShifts ==
  ASSUME NEW a, NEW b, NEW c, NEW e, NEW d \in {0, 1}, Dated(a), Dated(b),
         Shifted(a, c, d), Shifted(b, e, d), Link(a, b)
  PROVE  Link(c, e)
BY StreamAssumption DEF Link, Dated, Shifted

LEMMA AnchoredShifts ==
  ASSUME NEW o, NEW p, NEW a, NEW c, NEW d \in {0, 1}, Dated(a), Shifted(a, c, d),
         o.t \in Int, p.t \in Int, p.t >= o.t - d, p.epoch = o.epoch,
         p.initialised = o.initialised, Anchored(o, a)
  PROVE  Anchored(p, c)
BY StreamAssumption DEF Anchored, Dated, Shifted

\* What comes right after a snapshot is ready once that one has been through.
LEMMA LinkAnchors ==
  ASSUME NEW o, NEW a, NEW b, Link(a, b), Dated(a), Dated(b),
         o.epoch = a.epoch, o.t = a.sim_time
  PROVE  Anchored(o, b)
BY StreamAssumption DEF Link, Dated, Anchored

\* Past the end of the window every time moves back by the same step d, those
\* remembered only as long as they can be told apart.
LEMMA WindowMoves ==
  ASSUME TypeOK, physics_step
  PROVE  \E d \in {0, 1} :
           /\ time' = time + 1 - d
           /\ d = 0 => tasks' = tasks
           /\ d = 1 => time >= publish_every
           /\ Len(tasks') = Len(tasks)
           /\ \A i \in 1 .. Len(tasks) : Shifted(tasks[i], tasks'[i], d)
           /\ \A w \in Threads :
                /\ worker'[w].at = worker[w].at /\ U(w)'.epoch = U(w).epoch
                /\ ~At(w, "idle") => Shifted(U(w), U(w)', d)
           /\ odometry'.initialised = odometry.initialised
           /\ odometry'.epoch = odometry.epoch
           /\ odometry'.t \in Int /\ odometry'.t >= odometry.t - d
           /\ odometry.t >= d => odometry'.t = odometry.t - d
           /\ IF last_fall_publish_time_ = LongAgo THEN last_fall_publish_time_' = LongAgo
              ELSE last_fall_publish_time_' = last_fall_publish_time_ - d
<1>0. AdvanceClock
  BY DEF physics_step
<1>1. CASE time < MaxTime
  <2>1. time' = time + 1 /\ UNCHANGED <<tasks, worker, last_fall_publish_time_, odometry>>
    BY <1>0, <1>1 DEF AdvanceClock
  <2>2. \A w \in Threads : U(w)' = U(w) /\ Shifted(U(w), U(w), 0)
    <3>1. \A w \in Threads : U(w)' = U(w)
      BY <2>1 DEF U
    <3>2. \A w \in Threads : Shifted(U(w), U(w), 0)
      BY FlowTypes DEF Shifted, Dated
    <3> QED
      BY <3>1, <3>2
  <2>3. \A i \in 1 .. Len(tasks) : Shifted(tasks[i], tasks[i], 0)
    BY FlowTypes DEF Shifted, Dated
  <2>4. /\ time + 1 - 0 = time + 1
        /\ odometry.t \in Int /\ odometry.t >= odometry.t - 0 /\ odometry.t = odometry.t - 0
        /\ last_fall_publish_time_ = last_fall_publish_time_ - 0
    BY FlowTypes
  <2> WITNESS 0 \in {0, 1}
  <2> QED
    BY <2>1, <2>2, <2>3, <2>4
<1>2. CASE ~(time < MaxTime)
  <2>1. /\ \A i \in DOMAIN tasks : tasks[i].sim_time > 0
        /\ \A w \in Threads : worker[w].at # "idle" => worker[w].update.sim_time > 0
        /\ tasks' = [i \in DOMAIN tasks |-> Older(tasks[i])]
        /\ worker' = [w \in Threads |-> [worker[w] EXCEPT !.update = Older(@)]]
        /\ odometry' = [odometry EXCEPT !.t = Earlier(@)] /\ time' = time
        /\ last_fall_publish_time_' =
             IF last_fall_publish_time_ > LongAgo THEN last_fall_publish_time_ - 1 ELSE LongAgo
    BY <1>0, <1>2 DEF AdvanceClock
  <2>2. \A u \in Update : /\ Older(u).epoch = u.epoch
                          /\ u.sim_time > 0 => Shifted(u, Older(u), 1)
    <3>1. \A u \in Update : Older(u) = [sim_time |-> Earlier(u.sim_time),
                                        fall_state |-> u.fall_state, epoch |-> u.epoch]
      BY DEF Older, Update
    <3> QED
      BY <3>1 DEF Shifted, Earlier
  <2>3. DOMAIN tasks = 1 .. Len(tasks) /\ Len(tasks') = Len(tasks)
    <3>1. DOMAIN tasks = 1 .. Len(tasks) /\ Len(tasks) \in Nat
      BY LenProperties DEF TypeOK
    <3>2. DOMAIN tasks' = 1 .. Len(tasks) /\ tasks' \in Seq(Update)
      BY <1>0, <2>1, <3>1, ClockAdvances
    <3> QED
      BY <3>1, <3>2, LenProperties
  <2>4. \A i \in 1 .. Len(tasks) : Shifted(tasks[i], tasks'[i], 1)
    BY <2>1, <2>2, <2>3, FlowTypes
  <2>5. ASSUME NEW w \in Threads
        PROVE  /\ worker'[w].at = worker[w].at /\ U(w)'.epoch = U(w).epoch
               /\ ~At(w, "idle") => Shifted(U(w), U(w)', 1)
    <3>1. worker[w] \in Job /\ worker[w].update \in Update
      BY DEF TypeOK, Job
    <3>2. U(w)' = Older(U(w)) /\ worker'[w].at = worker[w].at
      BY <2>1, <3>1 DEF U, Job
    <3> QED
      BY <2>1, <2>2, <3>1, <3>2 DEF U, At
  <2>6. /\ odometry'.initialised = odometry.initialised
        /\ odometry'.epoch = odometry.epoch /\ odometry'.t = Earlier(odometry.t)
    BY <2>1 DEF TypeOK
  <2>7. /\ odometry'.t \in Int /\ odometry'.t >= odometry.t - 1
        /\ odometry.t >= 1 => odometry'.t = odometry.t - 1
    BY <2>6, FlowTypes DEF Earlier
  <2>8. IF last_fall_publish_time_ = LongAgo THEN last_fall_publish_time_' = LongAgo
        ELSE last_fall_publish_time_' = last_fall_publish_time_ - 1
    <3>1. last_fall_publish_time_ \in Int /\ LongAgo \in Int /\ last_fall_publish_time_ >= LongAgo
      BY FlowTypes DEF TypeOK
    <3>2. last_fall_publish_time_' =
            IF last_fall_publish_time_ > LongAgo THEN last_fall_publish_time_ - 1 ELSE LongAgo
      BY <2>1
    <3> QED
      BY <3>1, <3>2
  <2>9. /\ time' = time + 1 - 1
        /\ 1 = 0 => tasks' = tasks
        /\ 1 = 1 => time >= publish_every
    <3>1. /\ time \in Nat /\ publish_every \in Nat /\ MaxTime \in Nat
          /\ KeepAlive \in Nat /\ KeepAlive + publish_every <= MaxTime
      BY FlowTypes, StreamAssumption
    <3> QED
      BY <1>2, <2>1, <3>1
  <2> WITNESS 1 \in {0, 1}
  <2> QED
    BY <2>3, <2>4, <2>5, <2>6, <2>7, <2>8, <2>9
<1> QED
  BY <1>1, <1>2

LEMMA PhaseMoves ==
  ASSUME NEW m \in Nat \ {0}, NEW p \in Nat, p + 1 <= m
  PROVE  (p + 1) % m = IF p + 1 = m THEN 0 ELSE p + 1
OBVIOUS

-----------------------------------------------------------------------------
(* Steps of the physics thread *)

\* So does the order: the snapshot to come moves back with the others, and a
\* snapshot that is due takes its place with the next one a period behind.
LEMMA OrderMoves ==
  ASSUME TypeOK, TypeOK', physics_step, NEW d \in {0, 1}, time' = time + 1 - d,
         Len(tasks') = Len(tasks),
         \A i \in 1 .. Len(tasks) : Shifted(tasks[i], tasks'[i], d)
  PROVE  /\ \A i \in 1 .. Len(tasks) + 1 : Shifted(Waiting(i), Waiting(i)', d)
         /\ snapshot' # << >> => Link(snapshot'[1], Future')
         /\ snapshot' # << >> => phase + 1 = publish_every
         /\ phase + 1 # publish_every => phase' = phase + 1
<1>1. /\ snapshot = << >> /\ epoch' = epoch
      /\ phase' = IF phase + 1 = publish_every THEN 0 ELSE phase + 1
      /\ snapshot' = IF phase + 1 = publish_every
                     THEN <<[sim_time |-> time', fall_state |-> fall_state_', epoch |-> epoch]>>
                     ELSE << >>
  <2>1. (phase + 1) % publish_every = IF phase + 1 = publish_every THEN 0 ELSE phase + 1
    BY PhaseMoves, FlowTypes, StreamAssumption
  <2>2. phase + 1 # 0
    BY FlowTypes
  <2> QED
    BY <2>1, <2>2 DEF physics_step, Due
<1>2. Shifted(Coming, Coming', d)
  <2>1. Coming = Future
    BY <1>1 DEF Coming
  <2>2. CASE phase + 1 = publish_every
    <3>1. Coming'.sim_time = time' /\ Coming'.epoch = epoch
      BY <1>1, <2>2 DEF Coming
    <3>2. Future.sim_time = time + 1 /\ Future.epoch = epoch
      BY <2>2, FlowTypes DEF Future
    <3>3. time \in Int /\ time' = time + 1 - d
      BY FlowTypes
    <3> QED
      BY <2>1, <3>1, <3>2, <3>3 DEF Shifted
  <2>3. CASE phase + 1 # publish_every
    <3>1. Coming'.sim_time = time' + publish_every - (phase + 1) /\ Coming'.epoch = epoch
      BY <1>1, <2>3 DEF Coming, Future
    <3>2. Future.sim_time = time + publish_every - phase /\ Future.epoch = epoch
      BY DEF Future
    <3>3. /\ time \in Int /\ phase \in Int /\ publish_every \in Int
          /\ time' = time + 1 - d
      BY FlowTypes
    <3> QED
      BY <2>1, <3>1, <3>2, <3>3 DEF Shifted
  <2> QED
    BY <2>2, <2>3
<1>3. \A i \in 1 .. Len(tasks) + 1 : Shifted(Waiting(i), Waiting(i)', d)
  BY <1>2, FlowTypes DEF Waiting
<1>4. snapshot' # << >> => Link(snapshot'[1], Future')
  <2> SUFFICES ASSUME snapshot' # << >> PROVE Link(snapshot'[1], Future')
    OBVIOUS
  <2>1. phase' = 0 /\ snapshot'[1].sim_time = time' /\ snapshot'[1].epoch = epoch
    BY <1>1
  <2>2. Future'.sim_time = time' + publish_every /\ Future'.epoch = epoch
    BY <1>1, <2>1, FlowTypes DEF Future
  <2> QED
    BY <2>1, <2>2, FlowTypes DEF Link
<1> QED
  BY <1>1, <1>3, <1>4

LEMMA InitOrder == Init => OrderInv
<1> SUFFICES ASSUME Init PROVE OrderInv
  OBVIOUS
<1>1. /\ tasks = << >> /\ Len(tasks) = 0 /\ snapshot = << >> /\ time = 0 /\ phase = 0
      /\ epoch = 0 /\ \A w \in Threads : worker[w] = Idle
      /\ odometry = [initialised |-> FALSE, t |-> 0, epoch |-> 0]
      /\ last_fall_publish_time_ = LongAgo /\ silent = 0 /\ ~hasty
  BY DEF Init
<1>2. Alone /\ \A w \in Threads : At(w, "idle") /\ U(w).epoch = 0
  BY <1>1 DEF Alone, InPublish, At, U, Idle, Nothing
<1>3. BaseInv
  <2>1. Coming.epoch = 0
    BY <1>1 DEF Coming, Future
  <2>2. \A i \in 1 .. Len(tasks) + 1 : Waiting(i).epoch = 0
    BY <1>1, <2>1 DEF Waiting
  <2> QED
    BY <1>1, <1>2, <2>2 DEF BaseInv, EpochInv, ReadyInv, StartInv
<1>4. \A b : ComesNext(b)
  BY <1>1, <1>2 DEF ComesNext, Alone, Ready, Anchored, After
<1>5. QueueInv /\ HandledInv
  BY <1>1 DEF QueueInv, HandledInv
<1>6. HeadInv /\ ThreadInv
  BY <1>2, <1>4 DEF HeadInv, ThreadInv, At
<1>7. KeepInv
  BY <1>1, StreamAssumption DEF KeepInv
<1> QED
  BY <1>3, <1>5, <1>6, <1>7 DEF OrderInv, FlowInv

LEMMA StepBase ==
  ASSUME TypeOK, TypeOK', BaseInv, physics_step
  PROVE  BaseInv'
<1>1. PICK d \in {0, 1} :
        /\ time' = time + 1 - d
        /\ d = 0 => tasks' = tasks
        /\ d = 1 => time >= publish_every
        /\ Len(tasks') = Len(tasks)
        /\ \A i \in 1 .. Len(tasks) : Shifted(tasks[i], tasks'[i], d)
        /\ \A w \in Threads : worker'[w].at = worker[w].at /\ U(w)'.epoch = U(w).epoch
        /\ odometry'.initialised = odometry.initialised
        /\ odometry'.epoch = odometry.epoch
        /\ last_fall_publish_time_ = LongAgo => last_fall_publish_time_' = LongAgo
  BY WindowMoves
<1>2. UNCHANGED <<epoch, ready, hasty>> /\ snapshot = << >>
  BY DEF physics_step, history
<1>3. /\ \A i \in 1 .. Len(tasks) + 1 : Shifted(Waiting(i), Waiting(i)', d)
      /\ snapshot' # << >> => phase + 1 = publish_every
      /\ phase + 1 # publish_every => phase' = phase + 1
  BY <1>1, OrderMoves
<1>4. EpochInv'
  BY <1>1, <1>2, <1>3 DEF BaseInv, EpochInv, Shifted
<1>5. ReadyInv'
  BY <1>1, <1>2 DEF BaseInv, ReadyInv, Alone
<1>6. StartInv'
  <2> SUFFICES ASSUME epoch = 0, time' < publish_every
               PROVE  /\ time' = phase' /\ snapshot' = << >> /\ tasks' = << >>
                      /\ ~odometry'.initialised
                      /\ \A w \in Threads : At(w, "idle")'
    BY <1>2 DEF StartInv
  <2>1. d = 0 /\ time' = time + 1 /\ time < publish_every
    BY <1>1, FlowTypes
  <2>2. /\ time = phase /\ tasks = << >> /\ ~odometry.initialised
        /\ \A w \in Threads : At(w, "idle")
    BY <2>1 DEF BaseInv, StartInv
  <2>3. phase + 1 # publish_every /\ time' = phase'
    BY <1>3, <2>1, <2>2, FlowTypes
  <2> QED
    BY <1>1, <1>3, <2>1, <2>2, <2>3 DEF At
<1> QED
  BY <1>4, <1>5, <1>6 DEF BaseInv

\* A gap stays a gap, or the write is long ago.
LEMMA StepReady ==
  ASSUME TypeOK, NEW a, NEW c, NEW d \in {0, 1}, Dated(a), Shifted(a, c, d),
         UNCHANGED <<epoch, silent>>,
         odometry'.initialised = odometry.initialised, odometry'.epoch = odometry.epoch,
         odometry'.t \in Int, odometry'.t >= odometry.t - d,
         IF last_fall_publish_time_ = LongAgo THEN last_fall_publish_time_' = LongAgo
         ELSE last_fall_publish_time_' = last_fall_publish_time_ - d
  PROVE  /\ Anchored(odometry, a) => Anchored(odometry', c)
         /\ After(a, last_fall_publish_time_, Gap(silent))
              => After(c, last_fall_publish_time_', Gap(silent'))
<1>1. Anchored(odometry, a) => Anchored(odometry', c)
  BY AnchoredShifts, FlowTypes
<1>2. After(a, last_fall_publish_time_, Gap(silent))
        => After(c, last_fall_publish_time_', Gap(silent))
  <2>1. /\ Gap(silent) \in Int /\ a.sim_time \in Int /\ c.sim_time = a.sim_time - d
        /\ last_fall_publish_time_ \in Int
    BY FlowTypes, GapType DEF Shifted, Dated
  <2> QED
    BY <2>1 DEF After
<1> QED
  BY <1>1, <1>2

LEMMA StepFlow ==
  ASSUME TypeOK, TypeOK', FlowInv, physics_step
  PROVE  FlowInv'
<1>1. PICK d \in {0, 1} :
        /\ time' = time + 1 - d
        /\ Len(tasks') = Len(tasks)
        /\ \A i \in 1 .. Len(tasks) : Shifted(tasks[i], tasks'[i], d)
        /\ \A w \in Threads : /\ worker'[w].at = worker[w].at
                              /\ ~At(w, "idle") => Shifted(U(w), U(w)', d)
        /\ odometry'.initialised = odometry.initialised
        /\ odometry'.epoch = odometry.epoch
        /\ odometry'.t \in Int /\ odometry'.t >= odometry.t - d
        /\ odometry.t >= d => odometry'.t = odometry.t - d
        /\ IF last_fall_publish_time_ = LongAgo THEN last_fall_publish_time_' = LongAgo
           ELSE last_fall_publish_time_' = last_fall_publish_time_ - d
  BY WindowMoves
<1>2. UNCHANGED <<epoch, silent, handled>>
  BY DEF physics_step, history
<1>3. /\ \A i \in 1 .. Len(tasks) + 1 : Shifted(Waiting(i), Waiting(i)', d)
      /\ snapshot' # << >> => Link(snapshot'[1], Future')
  BY <1>1, OrderMoves
<1>4. /\ \A i \in 1 .. Len(tasks) + 1 : Dated(Waiting(i))
      /\ \A w \in Threads : Dated(U(w)) /\ U(w)'.sim_time \in Nat
      /\ Len(tasks) \in Nat
  <2>1. \A u \in Update : u.sim_time \in Nat
    BY StreamAssumption DEF Update, Times
  <2>2. \A w \in Threads : U(w)'.sim_time \in Nat
    BY <2>1 DEF TypeOK, U
  <2> QED
    BY <2>2, FlowTypes
<1>5. ASSUME NEW a, NEW c, Dated(a), Shifted(a, c, d)
      PROVE  /\ Anchored(odometry, a) => Anchored(odometry', c)
             /\ After(a, last_fall_publish_time_, Gap(silent))
                  => After(c, last_fall_publish_time_', Gap(silent'))
  BY <1>1, <1>2, <1>5, StepReady
<1>6. QueueInv'
  <2>1. ASSUME NEW i \in 1 .. Len(tasks) PROVE Link(Waiting(i)', Waiting(i + 1)')
    <3>1. i \in 1 .. Len(tasks) + 1 /\ i + 1 \in 1 .. Len(tasks) + 1
      BY <1>4
    <3>2. Link(Waiting(i), Waiting(i + 1))
      BY DEF FlowInv, QueueInv
    <3> QED
      BY <1>3, <1>4, <3>1, <3>2, LinkShifts
  <2> QED
    BY <1>1, <1>3, <2>1 DEF QueueInv
<1>7. Alone' <=> Alone
  BY <1>1 DEF Alone
<1>8. ASSUME NEW a, NEW c, Dated(a), Shifted(a, c, d), ComesNext(a)
      PROVE  /\ \A w \in Threads : worker'[w].at \in InPublish => Link(U(w)', c)
             /\ Alone' => /\ Anchored(odometry', c)
                          /\ epoch' = 0 => After(c, last_fall_publish_time_', Gap(silent'))
  <2>1. ASSUME NEW w \in Threads, worker'[w].at \in InPublish PROVE Link(U(w)', c)
    <3>1. worker[w].at \in InPublish /\ Shifted(U(w), U(w)', d)
      BY <1>1, <2>1 DEF InPublish, At
    <3>2. Link(U(w), a)
      BY <1>8, <3>1 DEF ComesNext
    <3> QED
      BY <1>4, <1>8, <3>1, <3>2, LinkShifts
  <2>2. Alone => Anchored(odometry', c)
    BY <1>5, <1>8 DEF ComesNext, Ready
  <2>3. Alone /\ epoch = 0 => After(c, last_fall_publish_time_', Gap(silent'))
    BY <1>5, <1>8 DEF ComesNext, Ready
  <2> QED
    BY <1>2, <1>7, <2>1, <2>2, <2>3
<1>9. HeadInv'
  <2> SUFFICES ASSUME Lonely'
               PROVE  /\ \A v \in Threads : At(v, "start")' =>
                           ComesNext(U(v))' /\ Link(U(v)', Waiting(1)')
                      /\ (\A v \in Threads : ~At(v, "start")') => ComesNext(Waiting(1))'
    BY DEF HeadInv
  <2>1. Lonely /\ 1 \in 1 .. Len(tasks) + 1
    BY <1>1, <1>4 DEF Lonely, At
  <2>2. ASSUME NEW v \in Threads, At(v, "start")'
        PROVE  ComesNext(U(v))' /\ Link(U(v)', Waiting(1)')
    <3>1. At(v, "start") /\ Shifted(U(v), U(v)', d)
      BY <1>1, <2>2 DEF At
    <3>2. ComesNext(U(v)) /\ Link(U(v), Waiting(1))
      BY <2>1, <3>1 DEF FlowInv, HeadInv
    <3>3. Link(U(v)', Waiting(1)')
      BY <1>3, <1>4, <2>1, <3>1, <3>2, LinkShifts
    <3>4. ComesNext(U(v))'
      BY <1>4, <1>8, <3>1, <3>2 DEF ComesNext, Ready
    <3> QED
      BY <3>3, <3>4
  <2>3. ASSUME \A v \in Threads : ~At(v, "start")' PROVE ComesNext(Waiting(1))'
    <3>1. ComesNext(Waiting(1))
      BY <1>1, <2>1, <2>3 DEF FlowInv, HeadInv, At
    <3>2. Shifted(Waiting(1), Waiting(1)', d) /\ Dated(Waiting(1))
      BY <1>3, <1>4, <2>1
    <3> QED
      BY <1>8, <3>1, <3>2 DEF ComesNext, Ready
  <2> QED
    BY <2>2, <2>3
<1>10. ThreadInv'
  <2> SUFFICES ASSUME NEW w \in Threads
               PROVE  /\ At(w, "odometry")' => Ready(U(w))'
                      /\ At(w, "fall")' /\ epoch' = 0
                           => After(U(w)', last_fall_publish_time_', Gap(silent'))
                      /\ worker'[w].at \in {"fall", "write", "record"}
                           => /\ odometry'.initialised /\ odometry'.epoch = U(w)'.epoch
                              /\ odometry'.t = U(w)'.sim_time
                      /\ At(w, "record")' => silent' = 0
    BY DEF ThreadInv
  <2>1. ASSUME At(w, "odometry") PROVE Ready(U(w))'
    BY <1>1, <1>2, <1>4, <1>5, <2>1 DEF FlowInv, ThreadInv, Ready, At
  <2>2. ASSUME At(w, "fall"), epoch = 0
        PROVE  After(U(w)', last_fall_publish_time_', Gap(silent'))
    BY <1>1, <1>4, <1>5, <2>2 DEF FlowInv, ThreadInv, At
  <2>3. ASSUME worker[w].at \in {"fall", "write", "record"}
        PROVE  /\ odometry'.initialised /\ odometry'.epoch = U(w)'.epoch
               /\ odometry'.t = U(w)'.sim_time
    <3>1. Shifted(U(w), U(w)', d)
      BY <1>1, <2>3 DEF At
    <3>2. /\ odometry.initialised /\ odometry.epoch = U(w).epoch
          /\ odometry.t = U(w).sim_time
      BY <2>3 DEF FlowInv, ThreadInv
    <3>3. odometry.t >= d
      BY <1>4, <3>1, <3>2 DEF Shifted, Dated
    <3> QED
      BY <1>1, <3>1, <3>2, <3>3 DEF Shifted
  <2> QED
    BY <1>1, <1>2, <2>1, <2>2, <2>3 DEF FlowInv, ThreadInv, At
<1>11. KeepInv' /\ HandledInv'
  BY <1>1, <1>2 DEF FlowInv, KeepInv, HandledInv
<1> QED
  BY <1>6, <1>9, <1>10, <1>11 DEF FlowInv

LEMMA EmitOrder ==
  ASSUME TypeOK, emit
  PROVE  (BaseInv => BaseInv') /\ (FlowInv => FlowInv')
<1>1. /\ snapshot = <<snapshot[1]>> /\ snapshot[1] = Coming /\ snapshot' = << >>
      /\ Len(tasks) \in Nat /\ tasks' = Append(tasks, snapshot[1])
      /\ UNCHANGED <<time, phase, epoch, worker, ready, odometry, last_fall_publish_time_,
                     silent, handled, hasty>>
  <2>1. snapshot = <<snapshot[1]>> /\ Len(tasks) \in Nat /\ tasks \in Seq(Update)
        /\ snapshot[1] \in Update
    BY FlowTypes DEF emit, TypeOK
  <2>2. tasks \o <<snapshot[1]>> = Append(tasks, snapshot[1])
    BY <2>1, AppendIsConcat
  <2> QED
    BY <2>1, <2>2 DEF emit, Coming, publisher, history
<1>2. PICK n \in Nat : n = Len(tasks)
  BY <1>1
<1>3. /\ Len(tasks') = n + 1 /\ tasks'[n + 1] = snapshot[1]
      /\ \A i \in 1 .. n : tasks'[i] = tasks[i]
  BY <1>1, <1>2, AppendProperties DEF TypeOK
<1>4. /\ \A i \in 1 .. n + 1 : Waiting(i)' = Waiting(i)
      /\ Waiting(n + 2)' = Future /\ Waiting(n + 1) = snapshot[1] /\ Future' = Future
  <2>1. Future' = Future /\ Coming' = Future
    BY <1>1 DEF Coming, Future
  <2>2. \A i \in 1 .. n : Waiting(i) = tasks[i] /\ Waiting(i)' = tasks'[i]
    BY <1>2, <1>3 DEF Waiting
  <2>3. Waiting(n + 1) = Coming /\ Waiting(n + 1)' = tasks'[n + 1]
    BY <1>2, <1>3 DEF Waiting
  <2>4. Waiting(n + 2)' = Coming'
    BY <1>2, <1>3 DEF Waiting
  <2> QED
    BY <1>1, <1>2, <1>3, <2>1, <2>2, <2>3, <2>4
<1>5. UNCHANGED <<epoch, worker, odometry, last_fall_publish_time_, silent, handled>>
      /\ \A w \in Threads : U(w)' = U(w)
  BY <1>1 DEF U
<1>6. ASSUME BaseInv PROVE BaseInv'
  <2>1. EpochInv'
    <3>1. Future.epoch <= epoch
      BY FlowTypes DEF Future
    <3>2. \A i \in 1 .. Len(tasks') + 1 : Waiting(i)'.epoch <= epoch
      <4>1. \A i \in 1 .. n + 1 : Waiting(i).epoch <= epoch
        BY <1>2, <1>6 DEF BaseInv, EpochInv
      <4>2. \A i \in 1 .. n + 2 : i \in 1 .. n + 1 \/ i = n + 2
        OBVIOUS
      <4> QED
        BY <1>3, <1>4, <3>1, <4>1, <4>2
    <3> QED
      BY <1>1, <1>5, <1>6, <3>2 DEF BaseInv, EpochInv
  <2>2. ReadyInv' /\ StartInv'
    BY <1>1, <1>6 DEF BaseInv, ReadyInv, StartInv, Alone
  <2> QED
    BY <2>1, <2>2 DEF BaseInv
<1>7. ASSUME FlowInv PROVE FlowInv'
  <2>1. QueueInv'
    <3>1. Link(snapshot[1], Future)
      BY <1>1, <1>7 DEF FlowInv, QueueInv, emit
    <3>2. ASSUME NEW i \in 1 .. Len(tasks')
          PROVE  Link(Waiting(i)', Waiting(i + 1)')
      <4>1. CASE i \in 1 .. n
        <5>1. Waiting(i)' = Waiting(i) /\ Waiting(i + 1)' = Waiting(i + 1)
          BY <1>4, <4>1
        <5> QED
          BY <1>2, <1>7, <4>1, <5>1 DEF FlowInv, QueueInv
      <4>2. CASE i = n + 1
        <5>1. i + 1 = n + 2 /\ Waiting(n + 1)' = snapshot[1]
          BY <1>4, <4>2
        <5> QED
          BY <1>4, <3>1, <4>2, <5>1
      <4> QED
        BY <1>3, <4>1, <4>2
    <3> QED
      BY <1>1, <3>2 DEF QueueInv
  <2>2. Waiting(1)' = Waiting(1)
    BY <1>1, <1>4
  <2>3. HeadInv' /\ ThreadInv'
    BY <1>5, <1>7, <2>2
    DEF FlowInv, HeadInv, ThreadInv, Lonely, ComesNext, Ready, Alone, At
  <2> QED
    BY <1>5, <1>7, <2>1, <2>3 DEF FlowInv, KeepInv, HandledInv
<1> QED
  BY <1>6, <1>7

\* The first snapshot after a reset comes after all there are, provided that the
\* clock has gone a period since the reset before.
LEMMA FutureAfterReset ==
  ASSUME TypeOK, reset, time >= publish_every
  PROVE  /\ \A a : Dated(a) /\ Link(a, Future) => Link(a, Future')
         /\ Anchored(odometry, Future) => Anchored(odometry, Future')
<1>0. /\ time \in Nat /\ phase \in Nat /\ publish_every \in Nat /\ epoch \in Nat
      /\ odometry.t \in Nat /\ odometry.epoch \in Nat /\ time >= publish_every
  BY FlowTypes
<1>1. /\ Future.sim_time = time + publish_every - phase /\ Future.epoch = epoch
      /\ Future'.sim_time = publish_every - phase /\ Future'.epoch = epoch + 1
  <2>1. time' = 0 /\ epoch' = epoch + 1 /\ phase' = phase
    BY DEF reset
  <2>2. Future'.sim_time = 0 + publish_every - phase /\ Future'.epoch = epoch + 1
    BY <2>1 DEF Future
  <2> QED
    BY <2>2, FlowTypes DEF Future
<1>2. \A a : Dated(a) /\ Link(a, Future) => Link(a, Future')
  <2> SUFFICES ASSUME NEW a, Dated(a), Link(a, Future) PROVE Link(a, Future')
    OBVIOUS
  <2>1. a.epoch \in Nat /\ a.sim_time \in Int
    BY DEF Dated
  <2>2. a.epoch <= epoch /\ a.epoch # epoch + 1 /\ a.epoch <= epoch + 1
    BY <1>0, <1>1, <2>1 DEF Link
  <2>3. publish_every - phase <= a.sim_time
    <3>1. CASE a.epoch = epoch
      <4>1. time + publish_every - phase = a.sim_time + publish_every
        BY <1>1, <3>1 DEF Link
      <4> QED
        BY <1>0, <2>1, <4>1
    <3>2. CASE a.epoch # epoch
      <4>1. time + publish_every - phase <= a.sim_time
        BY <1>1, <3>2 DEF Link
      <4> QED
        BY <1>0, <2>1, <4>1
    <3> QED
      BY <3>1, <3>2
  <2> QED
    BY <1>1, <2>2, <2>3 DEF Link
<1>3. Anchored(odometry, Future) => Anchored(odometry, Future')
  BY <1>0, <1>1 DEF Anchored
<1> QED
  BY <1>2, <1>3

LEMMA ResetBase ==
  ASSUME TypeOK, BaseInv, reset
  PROVE  BaseInv'
<1>1. /\ UNCHANGED <<phase, snapshot, tasks, worker, ready, odometry, last_fall_publish_time_>>
      /\ epoch' = epoch + 1 /\ epoch \in Nat
  BY FlowTypes DEF reset, publisher
<1>2. EpochInv'
  <2>1. Future'.epoch = epoch + 1
    BY <1>1 DEF Future
  <2>2. Coming' = Coming \/ Coming' = Future'
    BY <1>1 DEF Coming
  <2>3. \A i \in 1 .. Len(tasks) + 1 : Waiting(i)' = Waiting(i) \/ Waiting(i)' = Future'
    BY <1>1, <2>2 DEF Waiting
  <2>4. \A i \in 1 .. Len(tasks) + 1 : Waiting(i)'.epoch <= epoch + 1
    <3>1. \A i \in 1 .. Len(tasks) + 1 : Waiting(i).epoch <= epoch + 1
      <4>1. \A i \in 1 .. Len(tasks) + 1 : Waiting(i).epoch \in Nat /\ Waiting(i).epoch <= epoch
        BY FlowTypes DEF BaseInv, EpochInv, Dated
      <4> QED
        BY <1>1, <4>1
    <3> QED
      BY <1>1, <2>1, <2>3, <3>1
  <2>5. \A w \in Threads : U(w)' = U(w) /\ U(w).epoch <= epoch + 1
    <3>1. \A w \in Threads : U(w)' = U(w)
      BY <1>1 DEF U
    <3>2. \A w \in Threads : U(w).epoch <= epoch + 1
      <4>1. \A w \in Threads : U(w).epoch \in Nat /\ U(w).epoch <= epoch
        BY FlowTypes DEF BaseInv, EpochInv, Dated
      <4> QED
        BY <1>1, <4>1
    <3> QED
      BY <3>1, <3>2
  <2>6. odometry.epoch <= epoch + 1
    BY <1>1, FlowTypes DEF BaseInv, EpochInv
  <2> QED
    BY <1>1, <2>4, <2>5, <2>6 DEF EpochInv
<1>3. ReadyInv' /\ StartInv'
  BY <1>1 DEF BaseInv, ReadyInv, StartInv, Alone
<1> QED
  BY <1>2, <1>3 DEF BaseInv

LEMMA ResetFlow ==
  ASSUME TypeOK, BaseInv, FlowInv, reset, ~hasty'
  PROVE  FlowInv'
<1>1. /\ UNCHANGED <<phase, snapshot, tasks, worker, odometry, handled, silent>>
      /\ last_fall_publish_time_' = last_fall_publish_time_
      /\ epoch' = epoch + 1 /\ epoch \in Nat /\ epoch' # 0 /\ Len(tasks) \in Nat
  BY FlowTypes DEF reset, publisher
<1>2. KeepInv' /\ HandledInv'
  BY <1>1 DEF FlowInv, KeepInv, HandledInv
<1>3. \A w \in Threads : U(w)' = U(w) /\ \A r \in Routine : At(w, r)' <=> At(w, r)
  BY <1>1 DEF U, At
<1>4. CASE time < publish_every
  <2>1. /\ snapshot = << >> /\ tasks = << >> /\ ~odometry.initialised
        /\ \A w \in Threads : At(w, "idle")
    <3>1. epoch = 0
      <4>1. ~(epoch > 0 /\ time < publish_every)
        BY DEF reset
      <4> QED
        BY <1>1, <1>4, <4>1
    <3> QED
      BY <1>4, <3>1 DEF BaseInv, StartInv
  <2>2. QueueInv' /\ ThreadInv'
    BY <1>1, <2>1 DEF QueueInv, ThreadInv, At
  <2>3. HeadInv'
    BY <1>1, <2>1 DEF HeadInv, ComesNext, Ready, Anchored, At, InPublish
  <2> QED
    BY <1>2, <2>2, <2>3 DEF FlowInv
<1>5. CASE time >= publish_every
  <2>1. \A a : Dated(a) /\ Link(a, Coming) => Link(a, Coming')
    BY <1>1, <1>5, FutureAfterReset DEF Coming
  <2>2. \A a : Dated(a) => \A i \in 1 .. Len(tasks) + 1 :
          Link(a, Waiting(i)) => Link(a, Waiting(i)')
    BY <1>1, <2>1 DEF Waiting
  <2>3. Anchored(odometry, Waiting(1)) => Anchored(odometry', Waiting(1)')
    <3>1. Anchored(odometry, Coming) => Anchored(odometry, Coming')
      BY <1>1, <1>5, FutureAfterReset DEF Coming
    <3> QED
      BY <1>1, <3>1 DEF Waiting
  <2>4. QueueInv'
    <3>1. ASSUME NEW i \in 1 .. Len(tasks) PROVE Link(Waiting(i)', Waiting(i + 1)')
      <4>1. Waiting(i)' = Waiting(i) /\ Dated(Waiting(i)) /\ i + 1 \in 1 .. Len(tasks) + 1
        <5>1. i + 1 \in 1 .. Len(tasks) + 1 /\ i \in 1 .. Len(tasks) + 1
          BY <1>1
        <5>2. Waiting(i)' = Waiting(i)
          BY <1>1 DEF Waiting
        <5> QED
          BY <5>1, <5>2, FlowTypes
      <4> QED
        BY <2>2, <4>1 DEF FlowInv, QueueInv
    <3>2. snapshot # << >> => Link(snapshot[1], Future')
      BY <1>5, FutureAfterReset, FlowTypes DEF FlowInv, QueueInv
    <3> QED
      BY <1>1, <3>1, <3>2 DEF QueueInv
  <2>5. ThreadInv'
    BY <1>1, <1>3 DEF FlowInv, ThreadInv, Ready, At
  <2>6. HeadInv'
    <3>1. 1 \in 1 .. Len(tasks) + 1 /\ \A w \in Threads : Dated(U(w))
      BY FlowTypes
    <3>2. ComesNext(Waiting(1)) => ComesNext(Waiting(1))'
      BY <1>1, <1>3, <2>2, <2>3, <3>1 DEF ComesNext, Alone, Ready
    <3>3. \A v \in Threads : ComesNext(U(v)) => ComesNext(U(v))'
      BY <1>1, <1>3 DEF ComesNext, Alone, Ready
    <3>4. \A v \in Threads : Link(U(v), Waiting(1)) => Link(U(v)', Waiting(1)')
      BY <1>3, <2>2, <3>1
    <3> QED
      BY <1>1, <3>2, <3>3, <3>4 DEF FlowInv, HeadInv, Lonely, At
  <2> QED
    BY <1>2, <2>4, <2>5, <2>6 DEF FlowInv
<1> QED
  BY <1>4, <1>5, FlowTypes

-----------------------------------------------------------------------------
(* Steps of the pool's threads *)

LEMMA SameSim ==
  ASSUME UNCHANGED sim
  PROVE  /\ UNCHANGED <<time, phase, epoch, snapshot>>
         /\ Future' = Future /\ Coming' = Coming
<1>1. UNCHANGED <<time, phase, epoch, snapshot>>
  BY DEF sim
<1> QED
  BY <1>1 DEF Future, Coming

LEMMA SameQueue ==
  ASSUME UNCHANGED <<sim, tasks>>
  PROVE  /\ \A i : Waiting(i)' = Waiting(i)
         /\ QueueInv => QueueInv'
<1>1. /\ Future' = Future /\ Coming' = Coming
      /\ UNCHANGED <<tasks, snapshot>>
  BY SameSim
<1>2. \A i : Waiting(i)' = Waiting(i)
  BY <1>1 DEF Waiting
<1> QED
  BY <1>1, <1>2 DEF QueueInv

\* The rest of a step of w that goes on to routine.
LEMMA GotoThread ==
  ASSUME TypeOK, NEW w \in Threads, NEW routine \in Routine, Goto(w, routine)
  PROVE  /\ \A v \in Threads : v # w => worker'[v] = worker[v] /\ U(v)' = U(v)
         /\ worker'[w].at = routine
         /\ routine # "idle" => U(w)' = U(w)
         /\ U(w)' = U(w) \/ U(w)' = Nothing
<1>1. /\ \A v \in Threads : v # w => worker'[v] = worker[v]
      /\ worker'[w].at = routine
      /\ routine # "idle" => worker'[w].update = worker[w].update
  BY GotoType
<1>2. routine = "idle" => worker'[w].update = Nothing
  BY DEF Goto, Idle, TypeOK
<1> QED
  BY <1>1, <1>2 DEF U

LEMMA TakeOrder ==
  ASSUME TypeOK, NEW w \in Threads, take_task(w)
  PROVE  (BaseInv => BaseInv') /\ (FlowInv => FlowInv')
<1>1. PICK n \in Nat : n + 1 = Len(tasks)
  <2>1. tasks \in Seq(Update) /\ tasks # << >>
    BY DEF take_task, TypeOK
  <2>2. Len(tasks) \in Nat \ {0}
    BY <2>1, EmptySeq
  <2>3. Len(tasks) - 1 \in Nat /\ (Len(tasks) - 1) + 1 = Len(tasks)
    BY <2>2
  <2> QED
    BY <2>3
<1>2. /\ Len(tasks') = n /\ Head(tasks) = tasks[1]
      /\ \A i \in 1 .. n : tasks'[i] = tasks[i + 1]
  <2>1. tasks \in Seq(Update) /\ tasks # << >> /\ tasks' = Tail(tasks)
    BY DEF take_task, TypeOK
  <2> QED
    BY <1>1, <2>1, HeadTailProperties
<1>3. /\ worker[w].at = "idle" /\ worker'[w].at = "start" /\ U(w)' = tasks[1]
      /\ \A v \in Threads : v # w => worker'[v] = worker[v] /\ U(v)' = U(v)
  BY <1>2 DEF take_task, At, TypeOK, U
<1>4. /\ UNCHANGED <<epoch, snapshot, ready, odometry, last_fall_publish_time_, silent,
                     handled, hasty, time, phase>>
      /\ Coming' = Coming /\ Future' = Future
  BY SameSim DEF take_task, publisher, history
<1>5. /\ \A i \in 1 .. n + 1 : Waiting(i)' = Waiting(i + 1)
      /\ Waiting(1) = tasks[1] /\ 1 \in 1 .. n + 1
  <2>1. \A i \in 1 .. n : Waiting(i)' = tasks[i + 1] /\ Waiting(i + 1) = tasks[i + 1]
    BY <1>1, <1>2 DEF Waiting
  <2>2. Waiting(n + 1)' = Coming /\ Waiting(n + 2) = Coming
    BY <1>1, <1>2, <1>4 DEF Waiting
  <2>3. Waiting(1) = tasks[1]
    BY <1>1 DEF Waiting
  <2> QED
    BY <1>1, <2>1, <2>2, <2>3
<1>6. ASSUME BaseInv PROVE BaseInv'
  <2>1. EpochInv'
    <3>1. \A i \in 1 .. n + 2 : Waiting(i).epoch <= epoch
      BY <1>1, <1>6 DEF BaseInv, EpochInv
    <3>2. \A i \in 1 .. n + 1 : Waiting(i)'.epoch <= epoch
      BY <1>5, <3>1
    <3>3. \A v \in Threads : U(v)'.epoch <= epoch
      BY <1>3, <1>5, <1>6, <3>1 DEF BaseInv, EpochInv
    <3> QED
      BY <1>2, <1>4, <1>6, <3>2, <3>3 DEF BaseInv, EpochInv
  <2>2. ReadyInv'
    BY <1>3, <1>4, <1>6 DEF BaseInv, ReadyInv, Alone, InPublish
  <2>3. StartInv'
    BY <1>4, <1>6 DEF BaseInv, StartInv, take_task
  <2> QED
    BY <2>1, <2>2, <2>3 DEF BaseInv
<1>7. ASSUME FlowInv PROVE FlowInv'
  <2>1. \A i \in 1 .. n + 1 : Link(Waiting(i), Waiting(i + 1))
    BY <1>1, <1>7 DEF FlowInv, QueueInv
  <2>2. QueueInv'
    <3>1. ASSUME NEW i \in 1 .. n PROVE Link(Waiting(i)', Waiting(i + 1)')
      <4>1. /\ Waiting(i)' = Waiting(i + 1) /\ Waiting(i + 1)' = Waiting(i + 1 + 1)
            /\ i + 1 \in 1 .. n + 1
        BY <1>5
      <4> QED
        BY <2>1, <4>1
    <3> QED
      BY <1>2, <1>4, <1>7, <3>1 DEF FlowInv, QueueInv
  <2>3. ThreadInv'
    BY <1>3, <1>4, <1>7 DEF FlowInv, ThreadInv, Ready, At
  <2>4. HeadInv'
    <3> SUFFICES ASSUME Lonely'
                 PROVE  ComesNext(U(w))' /\ Link(U(w)', Waiting(1)')
      BY <1>3 DEF HeadInv, Lonely, At
    <3>1. \A v \in Threads : ~At(v, "start")
      BY <1>3 DEF Lonely, At
    <3>2. ComesNext(tasks[1])
      BY <1>5, <1>7, <3>1 DEF FlowInv, HeadInv, Lonely
    <3>3. ComesNext(U(w))'
      BY <1>3, <1>4, <3>2 DEF ComesNext, Ready, Alone, InPublish
    <3>4. Link(U(w)', Waiting(1)')
      BY <1>3, <1>5, <2>1
    <3> QED
      BY <3>3, <3>4
  <2> QED
    BY <1>4, <1>7, <2>2, <2>3, <2>4 DEF FlowInv, KeepInv, HandledInv
<1> QED
  BY <1>6, <1>7

\* What start_reaction and publish do to the base: they are enabled only once
\* there is a snapshot, and publish only once on<Startup> has been.
LEMMA WorkBase ==
  ASSUME TypeOK, BaseInv, NEW w \in Threads, start_reaction(w) \/ publish(w)
  PROVE  BaseInv'
<1>1. /\ UNCHANGED <<sim, tasks, ready, hasty>> /\ ~At(w, "idle")
      /\ UNCHANGED <<time, phase, epoch, snapshot>>
      /\ \A i : Waiting(i)' = Waiting(i)
  <2>1. UNCHANGED <<sim, tasks, ready, hasty>> /\ ~At(w, "idle")
    BY DEF start_reaction, publish, update_odometry, decide_fall_down, write_fall_down,
           record_fall_down, history, At
  <2> QED
    BY <2>1, SameSim, SameQueue
<1>2. PICK routine \in Routine : Goto(w, routine)
  BY DEF start_reaction, publish, update_odometry, decide_fall_down, write_fall_down,
         record_fall_down, Routine
<1>3. /\ \A v \in Threads : v # w => worker'[v] = worker[v] /\ U(v)' = U(v)
      /\ worker'[w].at = routine /\ (U(w)' = U(w) \/ U(w)' = Nothing)
  BY <1>2, GotoThread
<1>4. EpochInv'
  <2>1. \A v \in Threads : U(v)'.epoch <= epoch
    BY <1>3, FlowTypes DEF BaseInv, EpochInv, Nothing
  <2>2. odometry' = odometry \/ odometry'.epoch \in {odometry.epoch, U(w).epoch}
    BY DEF start_reaction, publish, update_odometry, decide_fall_down, write_fall_down,
           record_fall_down, publisher, U
  <2>3. odometry'.epoch <= epoch
    BY <2>2 DEF BaseInv, EpochInv
  <2> QED
    BY <1>1, <2>1, <2>3 DEF BaseInv, EpochInv
<1>5. ReadyInv'
  <2> SUFFICES ASSUME ~ready
               PROVE  /\ ~odometry'.initialised /\ Alone'
                      /\ last_fall_publish_time_' = LongAgo
    BY <1>1 DEF ReadyInv
  <2>1. Alone /\ ~odometry.initialised /\ last_fall_publish_time_ = LongAgo
    BY DEF BaseInv, ReadyInv
  <2>2. start_reaction(w)
    BY <2>1 DEF publish, update_odometry, decide_fall_down, write_fall_down,
                record_fall_down, Alone, InPublish, At
  <2>3. Goto(w, "idle") /\ UNCHANGED publisher
    BY <2>2 DEF start_reaction
  <2>4. worker'[w].at = "idle"
    BY <2>3, GotoThread DEF Routine
  <2> QED
    BY <1>3, <2>1, <2>3, <2>4 DEF Alone, InPublish, publisher
<1>6. StartInv'
  BY <1>1 DEF BaseInv, StartInv
<1> QED
  BY <1>4, <1>5, <1>6 DEF BaseInv

LEMMA StartFlow ==
  ASSUME TypeOK, BaseInv, FlowInv, NEW w \in Threads, start_reaction(w), ~overlapped'
  PROVE  FlowInv'
<1>1. /\ UNCHANGED <<sim, tasks, epoch>> /\ Len(tasks) \in Nat
      /\ UNCHANGED <<odometry, last_fall_publish_time_, silent, handled>>
  BY SameSim, FlowTypes DEF start_reaction, publisher
<1>2. Alone /\ At(w, "start") /\ \A v \in Threads : v # w => ~At(v, "start")
  BY DEF start_reaction, Busy, Alone, InPublish
<1>3. ComesNext(U(w)) /\ Link(U(w), Waiting(1))
  BY <1>2 DEF FlowInv, HeadInv, Lonely
<1>4. Ready(U(w))
  BY <1>2, <1>3 DEF ComesNext
<1>5. QueueInv' /\ Waiting(1)' = Waiting(1)
  BY <1>1, SameQueue DEF FlowInv
<1>6. \A v \in Threads : ~At(v, "start")' /\ (v # w => worker'[v].at \notin InPublish)
  <2>1. PICK routine \in {"odometry", "idle"} : Goto(w, routine)
    BY DEF start_reaction
  <2>2. worker'[w].at = routine /\ \A v \in Threads : v # w => worker'[v] = worker[v]
    BY <2>1, GotoThread DEF Routine
  <2> QED
    BY <1>2, <2>2 DEF Alone, At
<1>7. CASE ready
  <2>1. worker'[w].at = "odometry" /\ U(w)' = U(w)
    <3>1. Goto(w, "odometry")
      BY <1>7 DEF start_reaction
    <3> QED
      BY <3>1, GotoThread DEF Routine
  <2>2. ThreadInv'
    BY <1>1, <1>4, <1>6, <2>1 DEF ThreadInv, Ready, At, InPublish
  <2>3. HeadInv'
    <3>1. ComesNext(Waiting(1))'
      BY <1>3, <1>5, <1>6, <2>1 DEF ComesNext, Alone, InPublish
    <3> QED
      BY <1>6, <3>1 DEF HeadInv
  <2> QED
    BY <1>1, <1>5, <2>2, <2>3 DEF FlowInv, KeepInv, HandledInv
<1>8. CASE ~ready
  <2>1. worker'[w].at = "idle"
    <3>1. Goto(w, "idle")
      BY <1>8 DEF start_reaction
    <3> QED
      BY <3>1, GotoThread DEF Routine
  <2>2. ~odometry.initialised /\ last_fall_publish_time_ = LongAgo
    BY <1>8 DEF BaseInv, ReadyInv
  <2>3. ThreadInv'
    BY <1>6, <2>1 DEF ThreadInv, At, InPublish
  <2>4. HeadInv'
    <3>1. ComesNext(Waiting(1))'
      BY <1>1, <1>6, <2>1, <2>2 DEF ComesNext, InPublish, Ready, Anchored, After
    <3> QED
      BY <1>6, <3>1 DEF HeadInv
  <2> QED
    BY <1>1, <1>5, <2>3, <2>4 DEF FlowInv, KeepInv, HandledInv
<1> QED
  BY <1>7, <1>8

\* A step of the only thread in publish that leaves it there: what comes next
\* still comes after its snapshot.
LEMMA GoesOn ==
  ASSUME TypeOK, AloneInv, FlowInv, NEW w \in Threads, worker[w].at \in InPublish,
         NEW routine \in InPublish, Goto(w, routine), UNCHANGED <<sim, tasks>>
  PROVE  /\ QueueInv' /\ HeadInv'
         /\ \A v \in Threads : v # w => worker'[v].at \notin InPublish
         /\ worker'[w].at = routine /\ U(w)' = U(w)
<1>1. /\ \A v \in Threads : v # w => worker'[v] = worker[v] /\ U(v)' = U(v)
      /\ worker'[w].at = routine /\ U(w)' = U(w)
  BY GotoThread DEF InPublish, Routine
<1>2. QueueInv' /\ Waiting(1)' = Waiting(1)
  BY SameQueue DEF FlowInv
<1>3. \A v \in Threads : v # w => worker'[v].at \notin InPublish
  BY <1>1 DEF AloneInv
<1>4. HeadInv'
  <2>1. \A v \in Threads : At(v, "start")' <=> At(v, "start")
    BY <1>1 DEF At, InPublish
  <2>2. \A b : ComesNext(b) => Link(U(w), b)
    BY DEF ComesNext
  <2>3. ASSUME Lonely', NEW v \in Threads, At(v, "start")'
        PROVE  ComesNext(U(v))' /\ Link(U(v)', Waiting(1)')
    <3>1. At(v, "start") /\ v # w /\ U(v)' = U(v)
      BY <1>1, <2>1, <2>3 DEF At, InPublish
    <3>2. ComesNext(U(v)) /\ Link(U(v), Waiting(1))
      BY <2>1, <2>3, <3>1 DEF FlowInv, HeadInv, Lonely
    <3>3. ComesNext(U(v))'
      BY <1>1, <1>3, <2>2, <3>1, <3>2 DEF ComesNext, Alone
    <3> QED
      BY <1>2, <3>1, <3>2, <3>3
  <2>4. ASSUME Lonely', \A v \in Threads : ~At(v, "start")'
        PROVE  ComesNext(Waiting(1))'
    <3>1. ComesNext(Waiting(1))
      BY <2>1, <2>4 DEF FlowInv, HeadInv, Lonely
    <3> QED
      BY <1>1, <1>2, <1>3, <2>2, <3>1 DEF ComesNext, Alone
  <2> QED
    BY <2>3, <2>4 DEF HeadInv
<1> QED
  BY <1>1, <1>2, <1>3, <1>4

\* A step with which it leaves, if what comes next is then ready.
LEMMA GoesIdle ==
  ASSUME TypeOK, AloneInv, BaseInv, FlowInv, NEW w \in Threads,
         worker[w].at \in InPublish, Goto(w, "idle"), UNCHANGED <<sim, tasks>>,
         \A b : Dated(b) /\ b.epoch <= epoch /\ Link(U(w), b)
                  => /\ Anchored(odometry', b)
                     /\ epoch' = 0 => After(b, last_fall_publish_time_', Gap(silent'))
  PROVE  QueueInv' /\ HeadInv' /\ ThreadInv'
<1>1. /\ \A v \in Threads : v # w => worker'[v] = worker[v] /\ U(v)' = U(v)
      /\ worker'[w].at = "idle"
  BY GotoThread DEF Routine
<1>2. /\ QueueInv' /\ Waiting(1)' = Waiting(1)
      /\ Dated(Waiting(1)) /\ \A v \in Threads : Dated(U(v))
      /\ Waiting(1).epoch <= epoch /\ \A v \in Threads : U(v).epoch <= epoch
  <2>1. 1 \in 1 .. Len(tasks) + 1
    BY FlowTypes
  <2> QED
    BY <2>1, SameQueue, FlowTypes DEF FlowInv, BaseInv, EpochInv
<1>3. \A v \in Threads : worker'[v].at \notin InPublish
  BY <1>1 DEF AloneInv, InPublish
<1>4. \A v \in Threads : At(v, "start")' <=> At(v, "start")
  BY <1>1 DEF At, InPublish
<1>5. \A b : ComesNext(b) => Link(U(w), b)
  BY DEF ComesNext
<1>6. HeadInv'
  <2>1. ASSUME Lonely', NEW v \in Threads, At(v, "start")'
        PROVE  ComesNext(U(v))' /\ Link(U(v)', Waiting(1)')
    <3>1. At(v, "start") /\ v # w /\ U(v)' = U(v)
      BY <1>1, <1>4, <2>1 DEF At
    <3>2. ComesNext(U(v)) /\ Link(U(v), Waiting(1))
      BY <1>4, <2>1, <3>1 DEF FlowInv, HeadInv, Lonely
    <3>3. ComesNext(U(v))'
      BY <1>2, <1>3, <1>5, <3>1, <3>2 DEF ComesNext, Ready
    <3> QED
      BY <1>2, <3>1, <3>2, <3>3
  <2>2. ASSUME Lonely', \A v \in Threads : ~At(v, "start")'
        PROVE  ComesNext(Waiting(1))'
    <3>1. ComesNext(Waiting(1))
      BY <1>4, <2>2 DEF FlowInv, HeadInv, Lonely
    <3> QED
      BY <1>2, <1>3, <1>5, <3>1 DEF ComesNext, Ready
  <2> QED
    BY <2>1, <2>2 DEF HeadInv
<1>7. ThreadInv'
  BY <1>3 DEF ThreadInv, At, InPublish
<1> QED
  BY <1>2, <1>6, <1>7

LEMMA UpdateFlow ==
  ASSUME TypeOK, AloneInv, FlowInv, NEW w \in Threads, update_odometry(w)
  PROVE  FlowInv'
<1> DEFINE u == U(w)
<1>1. /\ Goto(w, "fall") /\ worker[w].at = "odometry" /\ UNCHANGED <<sim, tasks, epoch>>
      /\ UNCHANGED <<last_fall_publish_time_, silent>> /\ handled' = u.epoch
      /\ odometry' = [initialised |-> TRUE, t |-> u.sim_time,
                      epoch |-> IF Restarts(u.sim_time) THEN u.epoch ELSE odometry.epoch]
  BY SameSim DEF update_odometry, At, U, Stamp
<1>2. /\ QueueInv' /\ HeadInv' /\ worker'[w].at = "fall" /\ U(w)' = u
      /\ \A v \in Threads : v # w => worker'[v].at \notin InPublish
  BY <1>1, GoesOn DEF InPublish
<1>3. Ready(u)
  BY <1>1 DEF FlowInv, ThreadInv, At
<1>4. odometry'.initialised /\ odometry'.t = u.sim_time /\ odometry'.epoch = u.epoch
  <2>1. ~Restarts(u.sim_time) => odometry.epoch = u.epoch
    <3>1. u.sim_time \in Int /\ odometry.t \in Int
      BY FlowTypes DEF Dated
    <3>2. ~Restarts(u.sim_time) => odometry.initialised /\ ~(u.sim_time <= odometry.t)
      BY <3>1 DEF Restarts
    <3> QED
      BY <1>3, <3>2 DEF Ready, Anchored
  <2> QED
    BY <1>1, <2>1
<1>5. ThreadInv'
  BY <1>1, <1>2, <1>3, <1>4 DEF ThreadInv, At, InPublish, Ready
<1> QED
  BY <1>1, <1>2, <1>4, <1>5 DEF FlowInv, KeepInv, HandledInv

LEMMA DecideFlow ==
  ASSUME TypeOK, ~overlapped, AloneInv, BaseInv, FlowInv,
         NEW w \in Threads, decide_fall_down(w)
  PROVE  FlowInv'
<1> DEFINE u == U(w)
           writes == Changed(u) \/ DueKeepalive(u)
<1>1. /\ Goto(w, IF writes THEN "write" ELSE "idle") /\ worker[w].at = "fall"
      /\ UNCHANGED <<sim, tasks, epoch>>
      /\ UNCHANGED <<odometry, last_fall_publish_time_, handled>>
      /\ silent' = IF writes \/ Silent THEN silent ELSE silent + 1
  BY SameSim DEF decide_fall_down, At, U, publisher
<1>2. /\ odometry.initialised /\ odometry.epoch = u.epoch /\ odometry.t = u.sim_time
      /\ epoch = 0 => After(u, last_fall_publish_time_, Gap(silent)) /\ ~Silent
      /\ Dated(u) /\ u.epoch <= epoch
  <2>1. silent * publish_every \in Int /\ KeepAlive \in Int
    BY FlowTypes, StreamAssumption
  <2>2. epoch = 0 => ~Silent
    BY <2>1 DEF FlowInv, KeepInv, Silent
  <2> QED
    BY <1>1, <2>2, FlowTypes DEF FlowInv, ThreadInv, At, BaseInv, EpochInv
<1>3. CASE writes
  <2>1. /\ QueueInv' /\ HeadInv' /\ worker'[w].at = "write" /\ U(w)' = u
        /\ \A v \in Threads : v # w => worker'[v].at \notin InPublish
    BY <1>1, <1>3, GoesOn DEF InPublish
  <2>2. ThreadInv'
    BY <1>1, <1>2, <2>1 DEF ThreadInv, At, InPublish
  <2> QED
    BY <1>1, <1>3, <2>1, <2>2 DEF FlowInv, KeepInv, HandledInv
<1>4. CASE ~writes
  <2>1. epoch = 0 => /\ silent' = silent + 1 /\ last_fall_publish_time_ # LongAgo
                     /\ u.sim_time - last_fall_publish_time_ = Gap(silent)
                     /\ Gap(silent) < KeepAlive
    <3>1. ~(u.sim_time - last_fall_publish_time_ >= KeepAlive)
      BY <1>4 DEF DueKeepalive
    <3>2. u.sim_time \in Nat /\ KeepAlive \in Nat
      BY FlowTypes, StreamAssumption
    <3>3. last_fall_publish_time_ # LongAgo
      BY <3>1, <3>2 DEF LongAgo
    <3>4. Gap(silent) \in Int
      BY FlowTypes, GapType
    <3> QED
      BY <1>1, <1>2, <1>4, <3>1, <3>2, <3>3, <3>4, FlowTypes DEF After
  <2>2. ASSUME NEW b, Dated(b), b.epoch <= epoch, Link(u, b)
        PROVE  /\ Anchored(odometry', b)
               /\ epoch' = 0 => After(b, last_fall_publish_time_', Gap(silent'))
    <3>1. Anchored(odometry', b)
      BY <1>1, <1>2, <2>2, LinkAnchors
    <3>2. ASSUME epoch = 0 PROVE After(b, last_fall_publish_time_, Gap(silent + 1))
      <4>1. b.sim_time = u.sim_time + publish_every
        BY <1>2, <2>2, <3>2 DEF Link, Dated
      <4>2. Gap(silent) \in Int /\ Gap(silent + 1) = Gap(silent) + publish_every
        BY FlowTypes, GapType
      <4> QED
        BY <1>2, <2>1, <3>2, <4>1, <4>2, FlowTypes DEF After, Dated
    <3> QED
      BY <1>1, <2>1, <3>1, <3>2
  <2>3. QueueInv' /\ HeadInv' /\ ThreadInv'
    BY <1>1, <1>4, <2>2, GoesIdle DEF InPublish
  <2>4. KeepInv'
    BY <1>1, <2>1 DEF KeepInv, Gap
  <2> QED
    BY <1>1, <2>3, <2>4 DEF FlowInv, HandledInv
<1> QED
  BY <1>3, <1>4

LEMMA WriteFlow ==
  ASSUME TypeOK, AloneInv, FlowInv, NEW w \in Threads, write_fall_down(w)
  PROVE  FlowInv'
<1>1. /\ Goto(w, "record") /\ worker[w].at = "write" /\ UNCHANGED <<sim, tasks, epoch>>
      /\ UNCHANGED <<odometry, handled>> /\ silent' = 0
  BY SameSim DEF write_fall_down, At, publisher
<1>2. /\ QueueInv' /\ HeadInv' /\ worker'[w].at = "record" /\ U(w)' = U(w)
      /\ \A v \in Threads : v # w => worker'[v].at \notin InPublish
  BY <1>1, GoesOn DEF InPublish
<1>3. ThreadInv'
  BY <1>1, <1>2 DEF FlowInv, ThreadInv, At, InPublish
<1>4. KeepInv'
  BY <1>1, StreamAssumption DEF KeepInv
<1> QED
  BY <1>1, <1>2, <1>3, <1>4 DEF FlowInv, HandledInv

LEMMA RecordFlow ==
  ASSUME TypeOK, AloneInv, BaseInv, FlowInv, NEW w \in Threads, record_fall_down(w)
  PROVE  FlowInv'
<1> DEFINE u == U(w)
<1>1. /\ Goto(w, "idle") /\ worker[w].at = "record" /\ UNCHANGED <<sim, tasks, epoch>>
      /\ UNCHANGED <<odometry, handled, silent>>
      /\ last_fall_publish_time_' = u.sim_time
  BY SameSim DEF record_fall_down, At, U, history
<1>2. /\ odometry.epoch = u.epoch /\ odometry.t = u.sim_time /\ silent = 0
      /\ Dated(u) /\ u.epoch <= epoch
  BY <1>1, FlowTypes DEF FlowInv, ThreadInv, At, BaseInv, EpochInv
<1>3. ASSUME NEW b, Dated(b), b.epoch <= epoch, Link(u, b)
      PROVE  /\ Anchored(odometry', b)
             /\ epoch' = 0 => After(b, last_fall_publish_time_', Gap(silent'))
  <2>1. Anchored(odometry', b)
    BY <1>1, <1>2, <1>3, LinkAnchors
  <2>2. epoch = 0 => b.sim_time = u.sim_time + publish_every
    BY <1>2, <1>3 DEF Link, Dated
  <2>3. Gap(0) = publish_every
    BY StreamAssumption DEF Gap
  <2>4. epoch = 0 => After(b, u.sim_time, Gap(0))
    BY <1>2, <2>2, <2>3, StreamAssumption DEF After, Dated
  <2> QED
    BY <1>1, <1>2, <2>1, <2>4
<1>4. QueueInv' /\ HeadInv' /\ ThreadInv'
  BY <1>1, <1>3, GoesIdle DEF InPublish
<1> QED
  BY <1>1, <1>4 DEF FlowInv, KeepInv, HandledInv

-----------------------------------------------------------------------------
LEMMA OrderInductive ==
  ASSUME TypeOK, TypeOK', OrderInv, ~overlapped => AloneInv, [Next]_vars
  PROVE  OrderInv'
<1> USE DEF OrderInv
<1>1. CASE physics_step
  BY <1>1, StepBase, StepFlow DEF physics_step, history
<1>2. CASE emit
  BY <1>2, EmitOrder DEF emit, history
<1>3. CASE reset
  <2>1. overlapped' = overlapped /\ (hasty => hasty')
    BY <1>3 DEF reset
  <2> QED
    BY <1>3, <2>1, ResetBase, ResetFlow
<1>4. CASE Startup \/ UNCHANGED vars
  <2>1. UNCHANGED <<sim, tasks, worker, publisher, history>> /\ (ready => ready')
    BY <1>4 DEF Startup, vars
  <2>2. /\ UNCHANGED <<time, phase, epoch, snapshot, odometry, last_fall_publish_time_>>
        /\ UNCHANGED <<silent, handled, overlapped, hasty>>
        /\ \A i : Waiting(i)' = Waiting(i)
        /\ QueueInv => QueueInv'
        /\ \A w \in Threads : U(w)' = U(w)
    BY <2>1, SameSim, SameQueue DEF publisher, history, U
  <2>3. BaseInv'
    BY <2>1, <2>2 DEF BaseInv, EpochInv, ReadyInv, StartInv, Alone, At
  <2>4. FlowInv => HeadInv' /\ ThreadInv'
    BY <2>1, <2>2 DEF FlowInv, HeadInv, ThreadInv, Lonely, ComesNext, Ready, Alone, At
  <2> QED
    BY <2>2, <2>3, <2>4 DEF FlowInv, KeepInv, HandledInv
<1>5. ASSUME NEW w \in Threads, Work(w) PROVE OrderInv'
  <2>1. BaseInv'
    BY <1>5, TakeOrder, WorkBase DEF Work
  <2>2. (overlapped => overlapped') /\ hasty' = hasty
    <3>1. overlapped => overlapped'
      BY <1>5 DEF Work, take_task, start_reaction, publish, update_odometry,
                  decide_fall_down, write_fall_down, record_fall_down, history
    <3>2. hasty' = hasty
      BY <1>5 DEF Work, take_task, start_reaction, publish, update_odometry,
                  decide_fall_down, write_fall_down, record_fall_down, history
    <3> QED
      BY <3>1, <3>2
  <2>3. ASSUME ~overlapped', ~hasty' PROVE FlowInv'
    <3>1. ~overlapped /\ FlowInv /\ AloneInv
      BY <2>2, <2>3
    <3> QED
      BY <1>5, <2>3, <3>1, TakeOrder, StartFlow, UpdateFlow, DecideFlow, WriteFlow,
         RecordFlow DEF Work, publish
  <2> QED
    BY <2>1, <2>3
<1> QED
  BY <1>1, <1>2, <1>3, <1>4, <1>5 DEF Next, Physics

-----------------------------------------------------------------------------
(* The theorems *)

\* The inductive invariant holds in every reachable state.
THEOREM Invariance == Spec => []IInv
<1>1. Init => IInv
  <2>1. Init => AloneInv /\ WireInv
    BY DEF Init, Idle, AloneInv, WireInv, At, InPublish
  <2> QED
    BY <2>1, InitTypeOK DEF IInv
<1>2. IInv /\ [Next]_vars => IInv'
  <2> SUFFICES ASSUME IInv, [Next]_vars PROVE IInv'
    OBVIOUS
  <2>1. overlapped => overlapped'
    BY DEF Next, Physics, physics_step, emit, reset, Startup, Work, take_task, start_reaction,
           publish, update_odometry, decide_fall_down, write_fall_down, record_fall_down,
           vars, history
  <2> QED
    BY <2>1, TypeOKInductive, StepWire DEF IInv
<1> QED
  BY <1>1, <1>2, PTL DEF Spec

\* Type correctness of clock, snapshots, threads, publisher and wire.
THEOREM TypeCorrect == Spec => []TypeOK
<1>1. IInv => TypeOK
  BY DEF IInv
<1> QED
  BY <1>1, Invariance, PTL

\* As long as one publish runs at a time, subscribers of rt/fall_down were last
\* told what the publisher remembers telling them.
THEOREM WireAgrees == Spec => []WireMatchesMemory
<1>1. IInv => WireMatchesMemory
  BY DEF IInv, WireInv, WireMatchesMemory, Quiet, At
<1> QED
  BY <1>1, Invariance, PTL

\* The order of the snapshots holds in every reachable state.
LEMMA OrderHolds == Spec => [](IInv /\ OrderInv)
<1>1. IInv /\ IInv' /\ OrderInv /\ [Next]_vars => OrderInv'
  BY OrderInductive DEF IInv
<1> QED
  BY <1>1, InitOrder, Invariance, PTL DEF Spec

\* As long as one publish runs at a time and no two resets come within a publish
\* period, the odometry restarts with the first snapshot after a reset, whenever
\* that comes.
THEOREM OdometryRestarts == Spec => []OdometryRestartsAtReset
<1>1. OrderInv => OdometryRestartsAtReset
  BY DEF OrderInv, FlowInv, HandledInv, OdometryRestartsAtReset
<1> QED
  BY <1>1, OrderHolds, PTL

\* Until the first reset, rt/fall_down is repeated in every keepalive period.
THEOREM KeepaliveKept == Spec => []KeepsAliveUntilReset
<1>1. IInv /\ OrderInv => KeepsAliveUntilReset
  <2> SUFFICES ASSUME IInv, OrderInv, epoch = 0, ~overlapped PROVE ~Silent
    BY DEF KeepsAliveUntilReset, KeepsAlive
  <2>1. silent * publish_every < KeepAlive
    BY DEF OrderInv, BaseInv, EpochInv, FlowInv, KeepInv
  <2>2. silent * publish_every \in Int /\ KeepAlive \in Int
    BY FlowTypes, StreamAssumption DEF IInv
  <2> QED
    BY <2>1, <2>2 DEF Silent
<1> QED
  BY <1>1, OrderHolds, PTL
=============================================================================
