--------------------------- MODULE CameraSegments ---------------------------
(***************************************************************************)
(* The Camera's render thread and the two shared-memory segments it        *)
(* publishes to: head images behind a sequence lock, head poses behind an  *)
(* interprocess mutex.  The simulator and NUbots, the reader of both, are  *)
(* processes of their own that may be killed and started again.            *)
(*                                                                         *)
(* A segment outlives its process under its name, until a writer's         *)
(* destructor or the next writer's constructor removes the name.  A        *)
(* constructor that throws between making the name and using it leaves a   *)
(* half-made segment, which no destructor removes.                         *)
(*                                                                         *)
(* A frame's content is its number; it is copied in Pieces, in any order.  *)
(* The readers are external and do what the headers of the segments ask of *)
(* them.  The orders of the atomics (release stores and fences on the      *)
(* writer's side) make the stores visible in program order but for the     *)
(* pieces between the two stores to seqlock.                               *)
(* X_Y is a mistaken variant of X that Spec never uses.                    *)
(***************************************************************************)
EXTENDS Naturals

CONSTANTS
  Pieces,     \* what a frame is copied in
  MaxLives,   \* bound on the starts of the simulator
  MaxFrames   \* bound on the frames of one life

ASSUME CameraAssumption ==
  /\ Pieces # {}
  /\ MaxLives \in Nat /\ MaxFrames \in Nat

VARIABLES
  \* --- the simulator
  life,        \* how often it has been started
  shutdown,    \* the power plant is shutting down
  data,        \* SimCore's mjModel and mjData
  running_, handles_ready_,
  camera,      \* where the render thread is, its frame, what is left of it to
               \* copy, and whether it has a SharedPoseWriter
  \* --- shared memory
  linked,      \* the life whose image segment has the name, 0 = none
  pose_linked, \* the same of the pose segment
  image,       \* the image segment of each life
  pose_mutex,  \* the holder of the mutex in each life's pose segment; "none":
               \* there is no mutex yet
  \* --- NUbots
  reader,      \* what K1Camera is doing
  following,   \* the image segment it has mapped, 0 = none
  got,         \* the last frame it accepted, by piece
  pose_reader, \* the pose segment whose mutex K1Sensors holds, 0 = none
  \* --- history, for the properties only
  unmade       \* the segments that this life's constructors left half-made

simulator == <<life, shutdown, data, running_, handles_ready_>>
names     == <<linked, pose_linked, unmade>>
memory    == <<names, image, pose_mutex>>
nubots    == <<reader, following, got, pose_reader>>
vars      == <<simulator, camera, memory, nubots>>

-----------------------------------------------------------------------------
Lives == 1 .. MaxLives
Frame == 0 .. MaxFrames
Copy  == [Pieces -> Frame]

Thread  == [at : {"off", "start", "wait", "setup", "loop", "scene", "lock", "pose",
                  "render", "copy", "end", "done"},
            frame : Frame, todo : SUBSET Pieces, pose_writer : BOOLEAN]
Image   == [seqlock : 0 .. 2 * MaxFrames, pixels : Copy]
Reading == [at : {"idle", "copy"}, seq : 0 .. 2 * MaxFrames, copy : Copy,
            todo : SUBSET Pieces]

Blank == [p \in Pieces |-> 0]

Off     == [at |-> "off", frame |-> 0, todo |-> {}, pose_writer |-> FALSE]
NoImage == [seqlock |-> 0, pixels |-> Blank]
Closed  == [at |-> "idle", seq |-> 0, copy |-> Blank, todo |-> {}]

TypeOK ==
  /\ life \in 0 .. MaxLives /\ shutdown \in BOOLEAN
  /\ data \in {"none", "loaded", "freed"}
  /\ running_ \in BOOLEAN /\ handles_ready_ \in BOOLEAN
  /\ camera \in Thread
  /\ linked \in 0 .. life /\ pose_linked \in 0 .. life
  /\ unmade \subseteq {"image", "pose"}
  /\ image \in [Lives -> Image]
  /\ pose_mutex \in [Lives -> {"none", "free", "camera", "reader", "dead"}]
  /\ reader \in Reading
  /\ following \in 0 .. life
  /\ got \in Copy
  /\ pose_reader \in 0 .. life

Init ==
  /\ life = 0 /\ shutdown = FALSE /\ data = "none"
  /\ running_ = FALSE /\ handles_ready_ = FALSE /\ camera = Off
  /\ linked = 0 /\ pose_linked = 0 /\ unmade = {}
  /\ image = [g \in Lives |-> NoImage]
  /\ pose_mutex = [g \in Lives |-> "none"]
  /\ reader = Closed /\ following = 0 /\ got = Blank /\ pose_reader = 0

Up == camera.at # "off"

At(place) == camera.at = place

Goto(place) == camera' = [camera EXCEPT !.at = place]

-----------------------------------------------------------------------------
(* The simulator around the render thread *)

\* A new process; Camera's Startup starts the render thread.
start ==
  /\ ~Up /\ life < MaxLives
  /\ life' = life + 1
  /\ shutdown' = FALSE /\ data' = "none"
  /\ running_' = TRUE /\ handles_ready_' = FALSE
  /\ camera' = [Off EXCEPT !.at = "start"]
  /\ unmade' = {}
  /\ UNCHANGED <<linked, pose_linked, image, pose_mutex, nubots>>

\* Simulation's Startup: load_model, emit(handles).
load_model ==
  /\ Up /\ data = "none" /\ ~shutdown
  /\ data' = "loaded"
  /\ UNCHANGED <<life, shutdown, running_, handles_ready_, camera, memory, nubots>>

\* Camera's reaction to SimHandles.
handles ==
  /\ Up /\ data = "loaded" /\ ~shutdown
  /\ handles_ready_' = TRUE
  /\ UNCHANGED <<life, shutdown, data, running_, camera, memory, nubots>>

begin_shutdown ==
  /\ Up
  /\ shutdown' = TRUE
  /\ UNCHANGED <<life, data, running_, handles_ready_, camera, memory, nubots>>

\* Simulation's Shutdown: stop, unload.
unload ==
  /\ Up /\ shutdown /\ data = "loaded"
  /\ data' = "freed"
  /\ UNCHANGED <<life, shutdown, running_, handles_ready_, camera, memory, nubots>>

\* Camera's Shutdown, up to the join.
stop_camera ==
  /\ Up /\ shutdown
  /\ running_' = FALSE
  /\ UNCHANGED <<life, shutdown, data, handles_ready_, camera, memory, nubots>>

\* All Shutdown reactions have ended, Camera's join among them.
exit ==
  /\ shutdown /\ ~running_ /\ At("done") /\ data # "loaded"
  /\ camera' = Off
  /\ UNCHANGED <<simulator, memory, nubots>>

Orphan(owner) ==
  [g \in Lives |-> IF pose_mutex[g] = owner THEN "dead" ELSE pose_mutex[g]]

\* The process is killed: its segments keep their names, its locks their holder.
kill_simulator ==
  /\ Up
  /\ camera' = Off
  /\ pose_mutex' = Orphan("camera")
  /\ UNCHANGED <<simulator, names, image, nubots>>

-----------------------------------------------------------------------------
(* The render thread *)

\* Too large a frame or no GL context end the thread before anything is created.
\* SharedImageWriter removes the old name and makes a new one; where that fails,
\* the thread ends without a name, and where what comes after it fails (the size
\* of the segment, its mapping), with a name on a half-made segment.
create_image ==
  /\ At("start")
  /\ \/ Goto("done") /\ UNCHANGED <<linked, unmade>>
     \/ Goto("done") /\ linked' = 0 /\ UNCHANGED unmade
     \/ Goto("done") /\ linked' = life /\ unmade' = unmade \cup {"image"}
     \/ Goto("wait") /\ linked' = life /\ UNCHANGED unmade
  /\ UNCHANGED <<simulator, pose_linked, image, pose_mutex, nubots>>

wait_Patient ==
  /\ At("wait")
  /\ handles_ready_ /\ (IF running_ THEN Goto("setup") ELSE Goto("end"))
  /\ UNCHANGED <<simulator, memory, nubots>>

\* A simulator that shuts down before the handles arrive ends the wait, too.
wait_for_handles ==
  /\ At("wait")
  /\ \/ running_ /\ handles_ready_ /\ Goto("setup")
     \/ ~running_ /\ Goto("end")
  /\ UNCHANGED <<simulator, memory, nubots>>

\* SharedPoseWriter, which may fail in the same ways; the thread goes on without
\* a pose.  So it does if the model has no head: it destroys the writer again.
\* A camera that is not in the model or does not fit the buffer ends the thread.
setup ==
  /\ At("setup")
  /\ \E place \in {"loop", "end"} :
       \/ /\ pose_linked' = life
          /\ pose_mutex' = [pose_mutex EXCEPT ![life] = "free"]
          /\ camera' = [camera EXCEPT !.at = place, !.pose_writer = TRUE]
          /\ UNCHANGED unmade
       \/ pose_linked' = 0 /\ Goto(place) /\ UNCHANGED <<pose_mutex, unmade>>
       \/ /\ pose_linked' = life /\ unmade' = unmade \cup {"pose"}
          /\ Goto(place) /\ UNCHANGED pose_mutex
  /\ UNCHANGED <<simulator, linked, image, nubots>>

loop ==
  /\ At("loop")
  /\ \/ /\ running_ /\ camera.frame < MaxFrames
        /\ camera' = [camera EXCEPT !.at = "scene", !.frame = @ + 1]
     \/ ~running_ /\ Goto("end")
  /\ UNCHANGED <<simulator, memory, nubots>>

\* mjv_updateScene and the head's pose out of mjData, under the sim mutex, which
\* is left out: who holds it always lets go of it.  After unload the pointers
\* dangle (SceneIsAlive); the thread may go on as if they did not, or die of it
\* (kill_simulator).
read_scene ==
  /\ At("scene")
  /\ Goto(IF camera.pose_writer THEN "lock" ELSE "render")
  /\ UNCHANGED <<simulator, memory, nubots>>

lock_pose ==
  /\ At("lock")
  /\ pose_mutex[life] = "free"
  /\ pose_mutex' = [pose_mutex EXCEPT ![life] = "camera"]
  /\ Goto("pose")
  /\ UNCHANGED <<simulator, names, image, nubots>>

publish_pose_Kept ==
  /\ At("pose")
  /\ Goto("render")
  /\ UNCHANGED <<simulator, memory, nubots>>

publish_pose ==
  /\ At("pose")
  /\ pose_mutex' = [pose_mutex EXCEPT ![life] = "free"]
  /\ Goto("render")
  /\ UNCHANGED <<simulator, names, image, nubots>>

Odd_Published(s) == s + 2
Odd(s) == s + 1

Even_Reread(s) == s + 2
Even(s) == s + 1

\* SharedImageWriter::publish: seqlock goes odd, the frame is copied, seqlock
\* goes even.
open_write ==
  /\ At("render")
  /\ image' = [image EXCEPT ![life].seqlock = Odd(@)]
  /\ camera' = [camera EXCEPT !.at = "copy", !.todo = Pieces]
  /\ UNCHANGED <<simulator, names, pose_mutex, nubots>>

copy_piece ==
  /\ At("copy")
  /\ \E p \in camera.todo :
       /\ image' = [image EXCEPT ![life].pixels[p] = camera.frame]
       /\ camera' = [camera EXCEPT !.todo = @ \ {p}]
  /\ UNCHANGED <<simulator, names, pose_mutex, nubots>>

close_write ==
  /\ At("copy") /\ camera.todo = {}
  /\ image' = [image EXCEPT ![life].seqlock = Even(@)]
  /\ Goto("loop")
  /\ UNCHANGED <<simulator, names, pose_mutex, nubots>>

finish_Image ==
  /\ At("end")
  /\ linked' = 0
  /\ camera' = [camera EXCEPT !.at = "done", !.pose_writer = FALSE]
  /\ UNCHANGED <<simulator, pose_linked, unmade, image, pose_mutex, nubots>>

\* The writers go out of scope and remove their names.
finish ==
  /\ At("end")
  /\ linked' = 0
  /\ pose_linked' = IF camera.pose_writer THEN 0 ELSE pose_linked
  /\ camera' = [camera EXCEPT !.at = "done", !.pose_writer = FALSE]
  /\ UNCHANGED <<simulator, unmade, image, pose_mutex, nubots>>

Render ==
  \/ create_image \/ wait_for_handles \/ setup \/ loop \/ read_scene
  \/ lock_pose \/ publish_pose
  \/ open_write \/ copy_piece \/ close_write
  \/ finish

-----------------------------------------------------------------------------
(* NUbots *)

\* A half-made segment can be mapped as well: no frame ever comes of it.
map_image ==
  /\ following = 0 /\ linked # 0
  /\ following' = linked
  /\ UNCHANGED <<simulator, camera, memory, reader, got, pose_reader>>

\* seqlock before the copy: even, and not the frame it has already.
begin_read ==
  /\ following # 0 /\ reader.at = "idle"
  /\ LET s == image[following].seqlock
     IN /\ s % 2 = 0 /\ s # reader.seq
        /\ reader' = [reader EXCEPT !.at = "copy", !.seq = s, !.todo = Pieces]
  /\ UNCHANGED <<simulator, camera, memory, following, got, pose_reader>>

read_piece ==
  /\ reader.at = "copy"
  /\ \E p \in reader.todo :
       reader' = [reader EXCEPT !.todo = @ \ {p},
                                !.copy[p] = image[following].pixels[p]]
  /\ UNCHANGED <<simulator, camera, memory, following, got, pose_reader>>

\* seqlock after the copy: the same, or the copy is thrown away.
end_read ==
  /\ reader.at = "copy" /\ reader.todo = {}
  /\ IF image[following].seqlock = reader.seq
     THEN /\ got' = reader.copy
          /\ reader' = [reader EXCEPT !.at = "idle", !.copy = Blank]
     ELSE reader' = Closed /\ UNCHANGED got
  /\ UNCHANGED <<simulator, camera, memory, following, pose_reader>>

lock_pose_to_read ==
  /\ pose_reader = 0
  /\ \E g \in 1 .. life :
       /\ pose_mutex[g] = "free"
       /\ pose_mutex' = [pose_mutex EXCEPT ![g] = "reader"]
       /\ pose_reader' = g
  /\ UNCHANGED <<simulator, camera, names, image, reader, following, got>>

read_pose ==
  /\ pose_reader # 0
  /\ pose_mutex' = [pose_mutex EXCEPT ![pose_reader] = "free"]
  /\ pose_reader' = 0
  /\ UNCHANGED <<simulator, camera, names, image, reader, following, got>>

\* Behaviour is restarted, whatever it was doing.
kill_nubots ==
  /\ pose_mutex' = Orphan("reader")
  /\ reader' = Closed /\ following' = 0 /\ got' = Blank /\ pose_reader' = 0
  /\ UNCHANGED <<simulator, camera, names, image>>

-----------------------------------------------------------------------------
Simulator ==
  start \/ load_model \/ handles \/ begin_shutdown \/ unload \/ stop_camera
    \/ exit \/ kill_simulator

Nubots ==
  map_image \/ begin_read \/ read_piece \/ end_read \/ lock_pose_to_read
    \/ read_pose \/ kill_nubots

Next == Simulator \/ Render \/ Nubots

\* A live process runs: the render thread, which gets the pose mutex in the end
\* if it is free again and again, the Shutdown reactions, and the few
\* instructions for which K1Sensors holds the mutex.
Spec ==
  /\ Init /\ [][Next]_vars
  /\ WF_vars(Render) /\ SF_vars(lock_pose)
  /\ WF_vars(unload) /\ WF_vars(stop_camera) /\ WF_vars(exit)
  /\ WF_vars(read_pose)

-----------------------------------------------------------------------------
(* Properties *)

Feed == INSTANCE FrameFeed WITH
          published <- [g \in Lives |-> image[g].seqlock \div 2],
          got <- got[CHOOSE p \in Pieces : TRUE]

\* A frame that K1Camera accepts is one the camera published, whole: never a
\* mix of two, nor one that a killed simulator left half-written.
AcceptedFramesAreWhole ==
  \A p, q \in Pieces : got[p] = got[q]

\* Sequence lock, segments, kills and restarts come to this: the reader gets
\* the newest frame of the life it follows, at the moment it accepts it.
ImplementsFrameFeed == Feed!Spec

Wedged == life \in Lives /\ pose_mutex[life] = "dead"

\* The camera always gets past the pose mutex, unless NUbots was killed while
\* it held it.
PoseNeverBlocksForLong ==
  At("lock") ~> ~At("lock") \/ Wedged

\* A shutdown comes to its end from wherever the render thread is, also when
\* the model was never loaded; again unless the mutex has a dead holder.
ShutdownEnds ==
  shutdown /\ Up ~> ~Up \/ Wedged

\* A simulator that ends in order leaves no segment of its own behind, wherever
\* in its life the shutdown came and whatever failed, but for one whose
\* constructor failed after it had made the name: what a reader finds under a
\* name belongs to a simulator that is running, was killed or failed so.
NothingIsLeftBehind ==
  [][exit => /\ linked = life => "image" \in unmade
             /\ pose_linked = life => "pose" \in unmade]_vars

\* SimCore.hpp says that mjData is only touched with the mutex held: the scene,
\* which is read under the mutex, is read from a model that is still there.
SceneIsAlive ==
  At("scene") => data = "loaded"
=============================================================================
