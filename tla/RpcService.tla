----------------------------- MODULE RpcService -----------------------------
(***************************************************************************)
(* What happens to a client's RPC: the RPC reader's history, the DDS       *)
(* listener thread that dispatches and answers it (RpcServer), the tasks   *)
(* it leaves to the NUClear pool, the robot that acts on mode requests and *)
(* the snapshots that bring the robot's mode back to GET_MODE.             *)
(*                                                                         *)
(* The robot is ModeContract, which LocomotionController implements.  The  *)
(* DDS reader and the pool are external: the reader keeps the newest       *)
(* Depth samples; the pool starts tasks in the order they were emitted and *)
(* may run several at once, those of one reaction included.                *)
(*                                                                         *)
(* dispatch_rpc throws on a value of a type it does not expect.  Nothing   *)
(* on the way out of the DDS callback catches that, nor does Fast-DDS,     *)
(* which is external: the process ends, with every thread it has.          *)
(*                                                                         *)
(* A request's uuid is its place in the order of sending.  Clients give up *)
(* on a call after a second and may send again, so any number of requests  *)
(* may be under way.  X_Y is a mistaken variant of X that Spec never uses. *)
(***************************************************************************)
EXTENDS BoosterApi, Integers, Sequences, FiniteSets

CONSTANTS
  Threads,      \* pool threads
  Depth,        \* history depth of the RPC reader
  Requestable,  \* modes asked for with CHANGE_MODE
  MaxCalls,     \* bound on the requests sent
  MaxSnapshots  \* bound on the SimStateUpdates waiting for a thread

ASSUME RpcAssumption ==
  /\ Threads # {}
  /\ Depth \in Nat \ {0}
  /\ Requestable \subseteq RobotMode
  /\ MaxCalls \in Nat
  /\ MaxSnapshots \in Nat \ {0}

VARIABLES
  sent,           \* every request, in the order of sending
  \* --- SdkBridge
  reader,         \* uuids waiting in the RPC reader
  listener,       \* what the DDS listener thread is doing
  current_mode_,  \* the atomic GET_MODE answers from
  answers,        \* responses written
  \* --- NUClear
  tasks,          \* tasks waiting for a pool thread
  worker,         \* the task each pool thread is running
  \* --- the robot (ModeContract)
  log, applied, mode,
  \* --- history, for the properties only
  entered,        \* the uuid of each request in log, 0 for the boot mode
  dropped,        \* uuids the reader's history pushed out
  overlapped      \* two tasks have been running at once

Robot == INSTANCE ModeContract

bridge  == <<reader, listener, current_mode_, answers>>
pool    == <<tasks, worker>>
robot   == <<log, applied, mode>>
history == <<entered, dropped, overlapped>>
vars    == <<sent, bridge, pool, robot, history>>

-----------------------------------------------------------------------------
\* A call by what dispatch_rpc tells apart.  Ignored stands for Move, GetUp,
\* LieDown and VisualKick, whose reactions only warn; other for any unknown
\* api_id and for text that is not JSON; mistyped for an api_id, or a field of
\* the body the call reads, whose value is of another JSON type.
Call ==
  [api : {"CHANGE_MODE"}, mode : Requestable]
    \cup [api : {"GET_MODE", "ignored", "other", "mistyped"}, mode : {"UNKNOWN"}]

Uuid == 1 .. MaxCalls

Task ==
  [kind : {"request"}, mode : RobotMode, uuid : Uuid]
    \cup [kind : {"state", "ignored"}, mode : RobotMode, uuid : {0}]

Answer == [uuid : Uuid, known : BOOLEAN, mode : RobotMode]

NoTask  == [kind |-> "none", mode |-> "UNKNOWN", uuid |-> 0]
NoReply == [at |-> "idle", uuid |-> 0, mode |-> "UNKNOWN"]

TypeOK ==
  /\ sent \in Seq(Call) /\ Len(sent) <= MaxCalls
  /\ reader \in Seq(Uuid) /\ Len(reader) <= Depth
  /\ listener \in [at : {"idle", "emit", "reply", "thrown"}, uuid : 0 .. MaxCalls,
                   mode : RobotMode]
  /\ current_mode_ \in RobotMode
  /\ answers \subseteq Answer
  /\ tasks \in Seq(Task)
  /\ worker \in [Threads -> Task \cup {NoTask}]
  /\ log \in Seq(RobotMode) /\ applied \in 0 .. Len(log) /\ mode \in RobotMode
  /\ entered \in Seq(0 .. MaxCalls) /\ Len(entered) = Len(log)
  /\ dropped \subseteq Uuid
  /\ overlapped \in BOOLEAN

Init ==
  /\ sent = << >>
  /\ reader = << >> /\ listener = NoReply
  /\ current_mode_ = "UNKNOWN" /\ answers = {}
  /\ tasks = << >> /\ worker = [w \in Threads |-> NoTask]
  /\ Robot!Init
  /\ entered = [i \in DOMAIN log |-> 0]
  /\ dropped = {} /\ overlapped = FALSE

\* The process is there: no call has thrown.
Running == listener.at # "thrown"

-----------------------------------------------------------------------------
(* The wire *)

Full_Late == Len(reader) > Depth
Full      == Len(reader) = Depth

\* KEEP_LAST: the newest sample pushes the oldest out of a full history.
send(c) ==
  /\ Running
  /\ Len(sent) < MaxCalls
  /\ sent' = Append(sent, c)
  /\ reader' = Append(IF Full THEN Tail(reader) ELSE reader, Len(sent) + 1)
  /\ dropped' = IF Full THEN dropped \cup {Head(reader)} ELSE dropped
  /\ UNCHANGED <<listener, current_mode_, answers, pool, robot, entered,
                 overlapped>>

-----------------------------------------------------------------------------
(* RpcServer, on the DDS listener thread *)

call(uuid) == sent[uuid]

Emits_NonZero(uuid) ==
  call(uuid).api = "CHANGE_MODE" /\ call(uuid).mode # "UNKNOWN"
Emits(uuid) == call(uuid).api \in {"CHANGE_MODE", "ignored"}

Outcome_OtherThrows(uuid) ==
  CASE call(uuid).api \in {"mistyped", "other"} -> "thrown"
    [] Emits(uuid)                              -> "emit"
    [] OTHER                                    -> "reply"

\* What dispatch_rpc leaves the listener to do.  It throws out of get<int>() and
\* its like, before there is an action or a status.
Outcome(uuid) ==
  CASE call(uuid).api = "mistyped" -> "thrown"
    [] Emits(uuid)                 -> "emit"
    [] OTHER                       -> "reply"

Taken_Peeked == reader
Taken        == Tail(reader)

Cached(uuid) == current_mode_

\* take_next_sample and dispatch_rpc, which reads current_mode_ once.  If it
\* throws the sample is gone, nothing is emitted and no answer is written.
take_next_sample ==
  /\ listener.at = "idle"
  /\ reader # << >>
  /\ LET uuid == Head(reader)
     IN /\ reader' = Taken
        /\ listener' = [at |-> Outcome(uuid), uuid |-> uuid, mode |-> current_mode_]
        /\ current_mode_' = Cached(uuid)
  /\ UNCHANGED <<sent, answers, pool, robot, history>>

\* reactor_.emit of the message dispatch_rpc asked for.
emit ==
  /\ listener.at = "emit"
  /\ listener' = [listener EXCEPT !.at = "reply"]
  /\ LET c == call(listener.uuid)
     IN tasks' = Append(tasks,
                   IF c.api = "CHANGE_MODE"
                   THEN [kind |-> "request", mode |-> c.mode,
                         uuid |-> listener.uuid]
                   ELSE [kind |-> "ignored", mode |-> "UNKNOWN", uuid |-> 0])
  /\ UNCHANGED <<sent, reader, current_mode_, answers, worker, robot, history>>

\* The answer goes out at once, whatever becomes of the task.
reply ==
  /\ listener.at = "reply"
  /\ listener' = NoReply
  /\ LET c == call(listener.uuid)
     IN answers' = answers \cup
          {[uuid |-> listener.uuid, known |-> c.api # "other",
            mode |-> IF c.api = "GET_MODE" THEN listener.mode ELSE "UNKNOWN"]}
  /\ UNCHANGED <<sent, reader, current_mode_, pool, robot, history>>

-----------------------------------------------------------------------------
(* The pool *)

take_task(w) ==
  /\ Running
  /\ worker[w] = NoTask
  /\ tasks # << >>
  /\ worker' = [worker EXCEPT ![w] = Head(tasks)]
  /\ tasks' = Tail(tasks)
  /\ overlapped' = (overlapped \/ \E v \in Threads : worker[v] # NoTask)
  /\ UNCHANGED <<sent, bridge, robot, entered, dropped>>

\* Locomotion's reaction to a ModeChangeRequest.
run_request(w) ==
  /\ worker[w].kind = "request"
  /\ Robot!Request(worker[w].mode)
  /\ entered' = Append(entered, worker[w].uuid)
  /\ UNCHANGED current_mode_

run_state_Once(w) ==
  /\ worker[w].kind = "state"
  /\ current_mode_' = IF current_mode_ = "UNKNOWN" THEN worker[w].mode ELSE current_mode_
  /\ UNCHANGED <<robot, entered>>

\* SdkBridge's reaction to a SimStateUpdate: set_current_mode.
run_state(w) ==
  /\ worker[w].kind = "state"
  /\ current_mode_' = worker[w].mode
  /\ UNCHANGED <<robot, entered>>

run_ignored(w) ==
  /\ worker[w].kind = "ignored"
  /\ UNCHANGED <<current_mode_, robot, entered>>

run_task(w) ==
  /\ Running
  /\ run_request(w) \/ run_state(w) \/ run_ignored(w)
  /\ worker' = [worker EXCEPT ![w] = NoTask]
  /\ UNCHANGED <<sent, reader, listener, answers, tasks, dropped,
                 overlapped>>

-----------------------------------------------------------------------------
(* The physics thread *)

step ==
  /\ Running
  /\ Robot!Apply
  /\ UNCHANGED <<sent, bridge, pool, history>>

Snapshots == {i \in DOMAIN tasks : tasks[i].kind = "state"}

\* make_snapshot reads the controller's mode; on_state_ emits it.
publish ==
  /\ Running
  /\ Cardinality(Snapshots) < MaxSnapshots
  /\ tasks' = Append(tasks, [kind |-> "state", mode |-> mode, uuid |-> 0])
  /\ UNCHANGED <<sent, bridge, worker, robot, entered, dropped, overlapped>>

-----------------------------------------------------------------------------
Listener == take_next_sample \/ emit \/ reply

Work(w) == take_task(w) \/ run_task(w)

Next ==
  \/ \E c \in Call : send(c)
  \/ Listener
  \/ \E w \in Threads : Work(w)
  \/ step
  \/ publish

\* The listener, the pool and the physics thread run while the simulator does;
\* step and publish both come round with every turn of the physics loop.
Spec ==
  /\ Init /\ [][Next]_vars
  /\ WF_vars(Listener)
  /\ \A w \in Threads : WF_vars(Work(w))
  /\ WF_vars(step)
  /\ WF_vars(publish)

-----------------------------------------------------------------------------
(* Properties *)

Answered == {a.uuid : a \in answers}

InReader == {reader[i] : i \in DOMAIN reader}

InService == IF listener.at = "idle" THEN {} ELSE {listener.uuid}

\* A request is waiting, being served, answered or pushed out of the reader's
\* history, never two of these, and it is never answered twice.
EachRequestOnce ==
  /\ InReader \cup InService \cup Answered \cup dropped = 1 .. Len(sent)
  /\ InReader \cap InService = {}
  /\ (InReader \cup InService) \cap (Answered \cup dropped) = {}
  /\ Answered \cap dropped = {}
  /\ Cardinality(answers) = Cardinality(Answered)
  /\ Cardinality(InReader) = Len(reader)

\* The places a mode request can be in on its way to the robot.
Whereabouts(uuid) ==
  Cardinality({i \in DOMAIN tasks : tasks[i].uuid = uuid})
    + Cardinality({w \in Threads : worker[w].uuid = uuid})
    + Cardinality({i \in DOMAIN entered : entered[i] = uuid})

\* A CHANGE_MODE is handed over exactly once, before it is answered: an answer
\* means that the robot has the request or is going to get it, and no request
\* reaches the robot that was not sent, or twice.
HandedOverOnce ==
  \A uuid \in 1 .. Len(sent) :
    Whereabouts(uuid) =
      IF /\ call(uuid).api = "CHANGE_MODE"
         /\ \/ uuid \in Answered
            \/ uuid \in InService /\ listener.at = "reply"
      THEN 1 ELSE 0

\* Mode requests reach the robot in the order of sending, as long as the pool
\* has run one task at a time.
RequestsKeepOrder ==
  ~overlapped =>
    \A i, j \in DOMAIN entered : i < j => entered[i] < entered[j]

\* The process has ended, and a mistyped call has ended it.
EndedByMistyped == ~Running /\ call(listener.uuid).api = "mistyped"

\* Every request is answered, unless newer ones push it out first or a mistyped
\* call, this one or an earlier one, ends the process.
EveryRequestAnswered ==
  \A uuid \in Uuid :
    uuid \in InReader ~> uuid \in Answered \cup dropped \/ EndedByMistyped

Consumed(uuid) == \E i \in DOMAIN entered : entered[i] = uuid /\ i <= applied

\* A CHANGE_MODE that was answered is acted on by the robot, or superseded by
\* one that reached it later, while the process is there.
AnsweredRequestsTakeEffect ==
  \A uuid \in Uuid :
    (uuid \in Answered /\ call(uuid).api = "CHANGE_MODE")
      ~> Consumed(uuid) \/ EndedByMistyped

\* However snapshots overtake one another, GET_MODE ends up with the mode the
\* robot stays in.
GetModeCatchesUp ==
  \A m \in RobotMode :
    <>[](Running /\ mode = m) => <>[](current_mode_ = m)
=============================================================================
