------------------------ MODULE CameraSegmentsProofs ------------------------
(***************************************************************************)
(* The sequence lock of the image segments, for every number of pieces,    *)
(* frames and lives: whoever is killed when, the reader accepts whole      *)
(* frames only, and only the newest: CameraSegments implements FrameFeed.  *)
(***************************************************************************)
EXTENDS CameraSegments, TLAPS

-----------------------------------------------------------------------------
(* The inductive invariant *)

\* Where the render thread is, the sequence number of its segment follows from
\* the frame it is at.
Begun == camera.at \in {"scene", "lock", "pose", "render"}

WriterInv ==
  /\ Up => life \in Lives
  /\ Up => image[life].seqlock =
             IF At("copy") THEN 2 * camera.frame - 1
             ELSE IF Begun THEN 2 * camera.frame - 2
             ELSE 2 * camera.frame
  /\ Begun \/ At("copy") => camera.frame > 0
  /\ At("copy") =>
       \A p \in Pieces \ camera.todo : image[life].pixels[p] = camera.frame
  /\ \A g \in Lives : g > life => image[g] = NoImage

\* A segment whose number is even holds that one frame, whoever left it so.
EvenIsWhole ==
  \A g \in Lives : image[g].seqlock % 2 = 0 =>
    \A p \in Pieces : image[g].pixels[p] = image[g].seqlock \div 2

\* As long as the number has not moved on, what the reader has copied is of one
\* frame; once it has, it never comes back.
ReaderInv ==
  /\ reader.at = "copy" =>
       /\ following # 0
       /\ reader.seq % 2 = 0
       /\ reader.seq <= image[following].seqlock
       /\ image[following].seqlock = reader.seq =>
            \A p \in Pieces \ reader.todo : reader.copy[p] = reader.seq \div 2
  /\ following = 0 => got = Blank

IInv ==
  /\ TypeOK
  /\ WriterInv
  /\ EvenIsWhole
  /\ ReaderInv
  /\ AcceptedFramesAreWhole

-----------------------------------------------------------------------------
(* The pixels and the reader, where nothing is done to them *)

LEMMA SameImage ==
  ASSUME EvenIsWhole, UNCHANGED image
  PROVE  EvenIsWhole'
  BY DEF EvenIsWhole

LEMMA SameReader ==
  ASSUME ReaderInv, AcceptedFramesAreWhole, UNCHANGED <<image, nubots>>
  PROVE  ReaderInv' /\ AcceptedFramesAreWhole'
  BY DEF ReaderInv, AcceptedFramesAreWhole, nubots

LEMMA Values ==
  Off \in Thread /\ NoImage \in Image /\ Closed \in Reading /\ Blank \in Copy
<1>1. Blank \in Copy /\ 0 \in Frame /\ 0 \in 0 .. 2 * MaxFrames
  BY CameraAssumption DEF Blank, Copy, Frame
<1> QED
  BY <1>1 DEF Off, Thread, NoImage, Image, Closed, Reading

LEMMA InitIInv == Init => IInv
<1> SUFFICES ASSUME Init PROVE IInv
  OBVIOUS
<1> USE CameraAssumption DEF Init
<1>1. TypeOK
  <2>1. life \in 0 .. MaxLives /\ linked \in 0 .. life /\ following \in 0 .. life
        /\ pose_reader \in 0 .. life
    OBVIOUS
  <2>2. image \in [Lives -> Image]
    BY Values
  <2> QED
    BY <2>1, <2>2, Values DEF TypeOK
<1>2. WriterInv
  BY DEF WriterInv, Up, At, Off, Lives, Begun
<1>3. EvenIsWhole
  <2>1. NoImage.seqlock = 0 /\ \A p \in Pieces : NoImage.pixels[p] = 0
    BY DEF NoImage, Blank
  <2>2. 0 \div 2 = 0
    OBVIOUS
  <2> QED
    BY <2>1, <2>2 DEF EvenIsWhole
<1>4. ReaderInv /\ AcceptedFramesAreWhole
  BY DEF ReaderInv, AcceptedFramesAreWhole, Closed, Blank
<1> QED
  BY <1>1, <1>2, <1>3, <1>4 DEF IInv

-----------------------------------------------------------------------------
(* The simulator *)

LEMMA SimulatorInductive ==
  ASSUME IInv, Simulator
  PROVE  IInv'
<1> USE CameraAssumption DEF IInv, memory, names, simulator
<1>1. EvenIsWhole' /\ ReaderInv' /\ AcceptedFramesAreWhole'
  BY SameImage, SameReader
  DEF Simulator, start, load_model, handles, begin_shutdown, unload, stop_camera, exit,
      kill_simulator
<1>2. CASE start
  <2>1. TypeOK'
    <3>1. camera' \in Thread
      BY <1>2, Values DEF start, Thread
    <3>2. life' \in 0 .. MaxLives /\ 0 .. life \subseteq 0 .. life'
      BY <1>2 DEF start, TypeOK
    <3> QED
      BY <1>2, <3>1, <3>2 DEF TypeOK, start, nubots
  <2>2. WriterInv'
    BY <1>2 DEF TypeOK, WriterInv, start, Up, At, Off, Begun, Lives, NoImage
  <2> QED
    BY <1>1, <2>1, <2>2
<1>3. CASE load_model
  <2>1. TypeOK'
    BY <1>3, Values DEF TypeOK, nubots, load_model
  <2>2. WriterInv'
    BY <1>3 DEF TypeOK, WriterInv, load_model, Up, At, Off, Begun, Lives
  <2> QED
    BY <1>1, <2>1, <2>2
<1>4. CASE handles
  <2>1. TypeOK'
    BY <1>4, Values DEF TypeOK, nubots, handles
  <2>2. WriterInv'
    BY <1>4 DEF TypeOK, WriterInv, handles, Up, At, Off, Begun, Lives
  <2> QED
    BY <1>1, <2>1, <2>2
<1>5. CASE begin_shutdown
  <2>1. TypeOK'
    BY <1>5, Values DEF TypeOK, nubots, begin_shutdown
  <2>2. WriterInv'
    BY <1>5 DEF TypeOK, WriterInv, begin_shutdown, Up, At, Off, Begun, Lives
  <2> QED
    BY <1>1, <2>1, <2>2
<1>6. CASE unload
  <2>1. TypeOK'
    BY <1>6, Values DEF TypeOK, nubots, unload
  <2>2. WriterInv'
    BY <1>6 DEF TypeOK, WriterInv, unload, Up, At, Off, Begun, Lives
  <2> QED
    BY <1>1, <2>1, <2>2
<1>7. CASE stop_camera
  <2>1. TypeOK'
    BY <1>7, Values DEF TypeOK, nubots, stop_camera
  <2>2. WriterInv'
    BY <1>7 DEF TypeOK, WriterInv, stop_camera, Up, At, Off, Begun, Lives
  <2> QED
    BY <1>1, <2>1, <2>2
<1>8. CASE exit
  <2>1. TypeOK'
    BY <1>8, Values DEF TypeOK, nubots, exit
  <2>2. WriterInv'
    BY <1>8 DEF TypeOK, WriterInv, exit, Up, At, Off, Begun, Lives
  <2> QED
    BY <1>1, <2>1, <2>2
<1>9. CASE kill_simulator
  <2>1. TypeOK'
    BY <1>9, Values DEF TypeOK, nubots, kill_simulator, Orphan
  <2>2. WriterInv'
    BY <1>9 DEF TypeOK, WriterInv, kill_simulator, Up, At, Off, Begun, Lives
  <2> QED
    BY <1>1, <2>1, <2>2
<1> QED
  BY <1>2, <1>3, <1>4, <1>5, <1>6, <1>7, <1>8, <1>9 DEF Simulator

-----------------------------------------------------------------------------
(* The render thread *)

\* What a step of publish does to the segments.
Written(im) == image' = [image EXCEPT ![life] = im]

LEMMA SeqlockWritten ==
  ASSUME NEW s, image \in [Lives -> Image], life \in Lives,
         image' = [image EXCEPT ![life].seqlock = s]
  PROVE  Written([seqlock |-> s, pixels |-> image[life].pixels])
<1>1. image[life] \in Image
  OBVIOUS
<1>2. [image[life] EXCEPT !.seqlock = s] = [seqlock |-> s, pixels |-> image[life].pixels]
  BY <1>1 DEF Image
<1> QED
  BY <1>2 DEF Written

LEMMA PieceWritten ==
  ASSUME NEW f, NEW p, image \in [Lives -> Image], life \in Lives,
         image' = [image EXCEPT ![life].pixels[p] = f]
  PROVE  Written([seqlock |-> image[life].seqlock,
                  pixels  |-> [image[life].pixels EXCEPT ![p] = f]])
<1>1. image[life] \in Image
  OBVIOUS
<1>2. [image[life] EXCEPT !.pixels[p] = f]
        = [seqlock |-> image[life].seqlock, pixels |-> [image[life].pixels EXCEPT ![p] = f]]
  BY <1>1 DEF Image
<1> QED
  BY <1>2 DEF Written

\* The reader notices a step that moves the number on, and one that is taken
\* while it is odd.
LEMMA ReaderNotices ==
  ASSUME TypeOK, ReaderInv, AcceptedFramesAreWhole, UNCHANGED nubots, life \in Lives,
         NEW im \in Image, Written(im),
         \/ im.seqlock > image[life].seqlock
         \/ im.seqlock = image[life].seqlock /\ im.seqlock % 2 = 1
  PROVE  ReaderInv' /\ AcceptedFramesAreWhole'
<1>1. AcceptedFramesAreWhole' /\ (following' = 0 => got' = Blank)
  BY DEF AcceptedFramesAreWhole, ReaderInv, nubots
<1>2. CASE reader.at = "copy"
  <2>1. following \in Lives /\ reader.seq \in Nat
    BY <1>2, CameraAssumption DEF ReaderInv, TypeOK, Lives, Reading
  <2>2. image[following].seqlock \in Nat /\ im.seqlock \in Nat
    BY <2>1 DEF TypeOK, Image
  <2>3. image'[following] = IF following = life THEN im ELSE image[following]
    BY <2>1 DEF Written, TypeOK
  <2>4. following = life => image'[following].seqlock # reader.seq
                            /\ image'[following].seqlock >= reader.seq
    BY <1>2, <2>1, <2>2, <2>3 DEF ReaderInv
  <2> QED
    BY <1>1, <1>2, <2>3, <2>4 DEF ReaderInv, nubots
<1> QED
  BY <1>1, <1>2 DEF ReaderInv, nubots

\* Other lives' segments stay as they are.
LEMMA OthersStayWhole ==
  ASSUME TypeOK, EvenIsWhole, life \in Lives, NEW im \in Image, Written(im),
         im.seqlock % 2 = 0 => \A p \in Pieces : im.pixels[p] = im.seqlock \div 2
  PROVE  EvenIsWhole'
  BY DEF EvenIsWhole, Written, TypeOK

LEMMA RenderInductive ==
  ASSUME IInv, Render
  PROVE  IInv'
<1> USE CameraAssumption DEF IInv, memory, names, simulator
<1>0. /\ Up /\ life \in Lives /\ life \in Nat
      /\ camera \in Thread /\ camera.frame \in 0 .. MaxFrames
      /\ image \in [Lives -> Image] /\ image[life] \in Image /\ image[life].seqlock \in Nat
  <2>1. Up
    BY DEF Up, Render, create_image, wait_for_handles, setup, loop, read_scene, lock_pose,
           publish_pose, open_write, copy_piece, close_write, finish, At
  <2>2. life \in Lives /\ image \in [Lives -> Image] /\ camera \in Thread
    BY <2>1 DEF WriterInv, TypeOK
  <2> QED
    BY <2>1, <2>2 DEF Lives, Image, Thread, Frame
<1>1. CASE create_image
  <2>1. TypeOK'
    BY <1>1 DEF TypeOK, nubots, Thread, At, Goto, create_image
  <2>2. WriterInv'
    BY <1>0, <1>1 DEF WriterInv, Thread, Goto, create_image, Up, At, Begun, Lives
  <2>3. EvenIsWhole' /\ ReaderInv' /\ AcceptedFramesAreWhole'
    BY <1>1, SameImage, SameReader DEF create_image
  <2> QED
    BY <2>1, <2>2, <2>3
<1>2. CASE wait_for_handles
  <2>1. TypeOK'
    BY <1>2 DEF TypeOK, nubots, Thread, At, Goto, wait_for_handles
  <2>2. WriterInv'
    BY <1>0, <1>2 DEF WriterInv, Thread, Goto, wait_for_handles, Up, At, Begun, Lives
  <2>3. EvenIsWhole' /\ ReaderInv' /\ AcceptedFramesAreWhole'
    BY <1>2, SameImage, SameReader DEF wait_for_handles
  <2> QED
    BY <2>1, <2>2, <2>3
<1>3. CASE setup
  <2>1. TypeOK'
    <3>1. PICK place \in {"loop", "end"}, writer \in BOOLEAN :
            camera' = [at |-> place, frame |-> camera.frame, todo |-> camera.todo,
                       pose_writer |-> writer]
      BY <1>0, <1>3 DEF setup, Goto, Thread
    <3>2. camera' \in Thread
      BY <1>0, <3>1 DEF Thread
    <3>3. /\ pose_linked' \in 0 .. life /\ unmade' \subseteq {"image", "pose"}
          /\ pose_mutex' \in [Lives -> {"none", "free", "camera", "reader", "dead"}]
      BY <1>0, <1>3 DEF setup, TypeOK
    <3> QED
      BY <1>3, <3>2, <3>3 DEF setup, TypeOK, nubots
  <2>2. WriterInv'
    BY <1>0, <1>3 DEF WriterInv, Thread, Goto, setup, Up, At, Begun, Lives
  <2>3. EvenIsWhole' /\ ReaderInv' /\ AcceptedFramesAreWhole'
    BY <1>3, SameImage, SameReader DEF setup
  <2> QED
    BY <2>1, <2>2, <2>3
<1>4. CASE loop
  <2>0. /\ UNCHANGED <<simulator, memory, nubots>>
        /\ camera \in Thread /\ camera.frame \in 0 .. MaxFrames
        /\ \/ camera' = [at |-> "scene", frame |-> camera.frame + 1, todo |-> camera.todo,
                            pose_writer |-> camera.pose_writer]
                /\ camera.frame < MaxFrames
           \/ camera' = [at |-> "end", frame |-> camera.frame, todo |-> camera.todo,
                            pose_writer |-> camera.pose_writer]
    BY <1>0, <1>4 DEF loop, Thread, Goto
  <2>1. TypeOK'
    <3>1. camera' \in Thread
      BY <2>0 DEF Thread, Frame
    <3> QED
      BY <2>0, <3>1 DEF TypeOK, nubots
  <2>2. WriterInv'
    <3>1. /\ UNCHANGED <<life, image>> /\ (Up' <=> Up) /\ At("loop")
          /\ ~Begun /\ ~At("copy") /\ ~At("copy")'
      BY <1>0, <1>4, <2>0 DEF loop, Up, At, Begun, simulator, memory
    <3>2. CASE camera' = [at |-> "scene", frame |-> camera.frame + 1, todo |-> camera.todo,
                            pose_writer |-> camera.pose_writer]
      BY <1>0, <2>0, <3>1, <3>2 DEF WriterInv, Begun
    <3>3. CASE camera' = [at |-> "end", frame |-> camera.frame, todo |-> camera.todo,
                            pose_writer |-> camera.pose_writer]
      BY <1>0, <3>1, <3>3 DEF WriterInv, Begun
    <3> QED
      BY <2>0, <3>2, <3>3
  <2>3. EvenIsWhole' /\ ReaderInv' /\ AcceptedFramesAreWhole'
    BY <1>4, SameImage, SameReader DEF loop
  <2> QED
    BY <2>1, <2>2, <2>3
<1>5. CASE read_scene
  <2>1. TypeOK'
    BY <1>5 DEF TypeOK, nubots, Thread, At, Goto, read_scene
  <2>2. WriterInv'
    BY <1>0, <1>5 DEF WriterInv, Thread, Goto, read_scene, Up, At, Begun, Lives
  <2>3. EvenIsWhole' /\ ReaderInv' /\ AcceptedFramesAreWhole'
    BY <1>5, SameImage, SameReader DEF read_scene
  <2> QED
    BY <2>1, <2>2, <2>3
<1>6. CASE lock_pose
  <2>1. TypeOK'
    BY <1>6 DEF TypeOK, nubots, Thread, At, Goto, lock_pose
  <2>2. WriterInv'
    BY <1>0, <1>6 DEF WriterInv, Thread, Goto, lock_pose, Up, At, Begun, Lives
  <2>3. EvenIsWhole' /\ ReaderInv' /\ AcceptedFramesAreWhole'
    BY <1>6, SameImage, SameReader DEF lock_pose
  <2> QED
    BY <2>1, <2>2, <2>3
<1>7. CASE publish_pose
  <2>1. TypeOK'
    BY <1>7 DEF TypeOK, nubots, Thread, At, Goto, publish_pose
  <2>2. WriterInv'
    BY <1>0, <1>7 DEF WriterInv, Thread, Goto, publish_pose, Up, At, Begun, Lives
  <2>3. EvenIsWhole' /\ ReaderInv' /\ AcceptedFramesAreWhole'
    BY <1>7, SameImage, SameReader DEF publish_pose
  <2> QED
    BY <2>1, <2>2, <2>3
<1>8. CASE finish
  <2>1. TypeOK'
    <3>1. camera' = [at |-> "done", frame |-> camera.frame, todo |-> camera.todo,
                     pose_writer |-> FALSE]
      BY <1>0, <1>8 DEF finish, Thread
    <3>2. camera' \in Thread
      BY <1>0, <3>1 DEF Thread
    <3>3. linked' = 0 /\ (pose_linked' = 0 \/ pose_linked' = pose_linked) /\ 0 \in 0 .. life
      BY <1>0, <1>8 DEF finish
    <3>4. linked' \in 0 .. life /\ pose_linked' \in 0 .. life
      BY <3>3 DEF TypeOK
    <3> QED
      BY <1>8, <3>2, <3>4 DEF TypeOK, nubots, finish
  <2>2. WriterInv'
    BY <1>0, <1>8 DEF WriterInv, Thread, Goto, finish, Up, At, Begun, Lives
  <2>3. EvenIsWhole' /\ ReaderInv' /\ AcceptedFramesAreWhole'
    BY <1>8, SameImage, SameReader DEF finish
  <2> QED
    BY <2>1, <2>2, <2>3
<1>9. CASE open_write
  <2> DEFINE s  == image[life].seqlock
             im == [seqlock |-> s + 1, pixels |-> image[life].pixels]
  <2>1. /\ camera.frame > 0 /\ s = 2 * camera.frame - 2
        /\ camera'.at = "copy" /\ camera'.frame = camera.frame /\ camera'.todo = Pieces
        /\ camera' \in Thread
    BY <1>0, <1>9 DEF open_write, At, Up, WriterInv, Begun, Thread
  <2>2. Written(im)
    BY <1>0, <1>9, SeqlockWritten DEF open_write, Odd
  <2>3. s + 1 \in 0 .. 2 * MaxFrames /\ (s + 1) % 2 = 1
    BY <1>0, <2>1
  <2>4. im \in Image
    BY <1>0, <2>3 DEF Image
  <2>5. TypeOK'
    <3>1. image' \in [Lives -> Image]
      BY <1>0, <2>2, <2>4 DEF Written, TypeOK
    <3>2. UNCHANGED <<simulator, names, pose_mutex, nubots>>
      BY <1>9 DEF open_write
    <3> QED
      BY <1>0, <2>1, <3>1, <3>2 DEF TypeOK, nubots
  <2>6. WriterInv'
    BY <1>0, <1>9, <2>1, <2>2 DEF open_write, Written, WriterInv, Up, At, Begun, Lives
  <2>7. EvenIsWhole'
    BY <1>0, <2>2, <2>3, <2>4, OthersStayWhole
  <2>8. ReaderInv' /\ AcceptedFramesAreWhole'
    BY <1>0, <1>9, <2>2, <2>4, ReaderNotices DEF open_write
  <2> QED
    BY <2>5, <2>6, <2>7, <2>8
<1>10. CASE copy_piece
  <2>1. PICK p \in camera.todo :
          /\ image' = [image EXCEPT ![life].pixels[p] = camera.frame]
          /\ camera' = [camera EXCEPT !.todo = @ \ {p}]
    BY <1>10 DEF copy_piece
  <2> DEFINE px == [image[life].pixels EXCEPT ![p] = camera.frame]
             s  == image[life].seqlock
             im == [seqlock |-> s, pixels |-> px]
  <2>2. /\ camera.frame > 0 /\ s = 2 * camera.frame - 1
        /\ camera'.at = "copy" /\ camera'.frame = camera.frame
        /\ camera'.todo = camera.todo \ {p} /\ p \in Pieces
        /\ camera' \in Thread
    BY <1>0, <1>10, <2>1 DEF copy_piece, At, Up, WriterInv, Thread
  <2>3. Written(im)
    BY <1>0, <2>1, PieceWritten
  <2>4. s % 2 = 1
    BY <1>0, <2>2
  <2>5. px \in Copy /\ im \in Image
    BY <1>0, <2>2 DEF Copy, Image, Frame
  <2>6. \A q \in Pieces \ camera'.todo : px[q] = camera.frame
    BY <1>0, <1>10, <2>2 DEF WriterInv, copy_piece, At, Image, Copy
  <2> HIDE DEF px
  <2>7. TypeOK'
    <3>1. image' \in [Lives -> Image]
      BY <1>0, <2>3, <2>5 DEF Written, TypeOK
    <3>2. UNCHANGED <<simulator, names, pose_mutex, nubots>>
      BY <1>10 DEF copy_piece
    <3> QED
      BY <1>0, <2>2, <3>1, <3>2 DEF TypeOK, nubots
  <2>8. WriterInv'
    <3>1. /\ image'[life].seqlock = s /\ image'[life].pixels = px
          /\ \A g \in Lives \ {life} : image'[g] = image[g]
      BY <1>0, <2>3 DEF Written
    <3>2. life' = life
      BY <1>10 DEF copy_piece
    <3> QED
      BY <1>0, <2>2, <2>6, <3>1, <3>2 DEF WriterInv, Up, At, Begun, Lives
  <2>9. EvenIsWhole'
    BY <1>0, <2>3, <2>4, <2>5, OthersStayWhole
  <2>10. ReaderInv' /\ AcceptedFramesAreWhole'
    BY <1>0, <1>10, <2>3, <2>4, <2>5, ReaderNotices DEF copy_piece
  <2> QED
    BY <2>7, <2>8, <2>9, <2>10
<1>11. CASE close_write
  <2> DEFINE s  == image[life].seqlock
             im == [seqlock |-> s + 1, pixels |-> image[life].pixels]
  <2>1. /\ camera.frame > 0 /\ s = 2 * camera.frame - 1
        /\ camera'.at = "loop" /\ camera'.frame = camera.frame /\ camera' \in Thread
        /\ \A q \in Pieces : image[life].pixels[q] = camera.frame
    BY <1>0, <1>11 DEF close_write, At, Goto, Up, WriterInv, Begun, Thread
  <2>2. Written(im)
    BY <1>0, <1>11, SeqlockWritten DEF close_write, Even
  <2>3. s + 1 \in 0 .. 2 * MaxFrames /\ (s + 1) \div 2 = camera.frame
    BY <1>0, <2>1
  <2>4. im \in Image
    BY <1>0, <2>3 DEF Image
  <2>5. TypeOK'
    <3>1. image' \in [Lives -> Image]
      BY <1>0, <2>2, <2>4 DEF Written, TypeOK
    <3>2. UNCHANGED <<simulator, names, pose_mutex, nubots>>
      BY <1>11 DEF close_write
    <3> QED
      BY <1>0, <2>1, <3>1, <3>2 DEF TypeOK, nubots
  <2>6. WriterInv'
    BY <1>0, <1>11, <2>1, <2>2 DEF close_write, Written, WriterInv, Up, At, Begun, Lives
  <2>7. EvenIsWhole'
    BY <1>0, <2>1, <2>2, <2>3, <2>4, OthersStayWhole
  <2>8. ReaderInv' /\ AcceptedFramesAreWhole'
    BY <1>0, <1>11, <2>2, <2>4, ReaderNotices DEF close_write
  <2> QED
    BY <2>5, <2>6, <2>7, <2>8
<1> QED
  BY <1>1, <1>2, <1>3, <1>4, <1>5, <1>6, <1>7, <1>8, <1>9, <1>10, <1>11 DEF Render

-----------------------------------------------------------------------------
(* NUbots *)

LEMMA NubotsInductive ==
  ASSUME IInv, Nubots
  PROVE  IInv'
<1> USE CameraAssumption DEF IInv, memory, names, simulator
<1>0. WriterInv' /\ EvenIsWhole'
  BY SameImage DEF Nubots, map_image, begin_read, read_piece, end_read,
     lock_pose_to_read, read_pose, kill_nubots, WriterInv, Up, At, Begun, Lives
<1>1. /\ following # 0 => following \in Lives
      /\ image \in [Lives -> Image] /\ reader \in Reading
  BY DEF TypeOK, Lives
<1>2. CASE map_image
  <2>1. TypeOK'
    BY <1>2 DEF map_image, TypeOK
  <2>2. ReaderInv' /\ AcceptedFramesAreWhole'
    BY <1>2 DEF map_image, ReaderInv, AcceptedFramesAreWhole
  <2> QED
    BY <1>0, <2>1, <2>2
<1>3. CASE begin_read
  <2> DEFINE s == image[following].seqlock
  <2>1. /\ following \in Lives /\ s \in 0 .. 2 * MaxFrames /\ s % 2 = 0
        /\ reader' = [at |-> "copy", seq |-> s, copy |-> reader.copy, todo |-> Pieces]
    BY <1>1, <1>3 DEF begin_read, Image, Reading
  <2>2. TypeOK'
    BY <1>1, <1>3, <2>1 DEF begin_read, TypeOK, Reading
  <2>3. ReaderInv' /\ AcceptedFramesAreWhole'
    BY <1>3, <2>1 DEF begin_read, ReaderInv, AcceptedFramesAreWhole
  <2> QED
    BY <1>0, <2>2, <2>3
<1>4. CASE read_piece
  <2>1. PICK p \in reader.todo :
          reader' = [reader EXCEPT !.todo = @ \ {p},
                                   !.copy[p] = image[following].pixels[p]]
    BY <1>4 DEF read_piece
  <2> DEFINE c == [reader.copy EXCEPT ![p] = image[following].pixels[p]]
             s == image[following].seqlock
  <2>2. /\ reader.at = "copy" /\ following # 0 /\ following \in Lives /\ p \in Pieces
        /\ reader.copy \in Copy /\ image[following] \in Image
    BY <1>1, <1>4 DEF read_piece, ReaderInv, Reading
  <2>3. reader' = [at |-> "copy", seq |-> reader.seq, copy |-> c, todo |-> reader.todo \ {p}]
    BY <1>1, <2>1, <2>2 DEF Reading
  <2>4. c \in Copy
    BY <2>2 DEF Copy, Image
  <2>5. s = reader.seq => \A q \in Pieces \ reader'.todo : c[q] = reader.seq \div 2
    <3> SUFFICES ASSUME s = reader.seq, NEW q \in Pieces \ reader'.todo
                 PROVE  c[q] = reader.seq \div 2
      OBVIOUS
    <3>1. image[following].pixels[p] = reader.seq \div 2
      BY <2>2 DEF EvenIsWhole, ReaderInv
    <3>2. q # p => reader.copy[q] = reader.seq \div 2
      BY <2>2, <2>3 DEF ReaderInv
    <3> QED
      BY <2>2, <3>1, <3>2 DEF Copy
  <2> HIDE DEF c
  <2>6. TypeOK'
    BY <1>1, <1>4, <2>3, <2>4 DEF read_piece, TypeOK, Reading
  <2>7. ReaderInv' /\ AcceptedFramesAreWhole'
    BY <1>4, <2>2, <2>3, <2>5 DEF read_piece, ReaderInv, AcceptedFramesAreWhole
  <2> QED
    BY <1>0, <2>6, <2>7
<1>5. CASE end_read
  <2>1. /\ reader.at = "copy" /\ reader.todo = {} /\ following # 0
        /\ \/ /\ image[following].seqlock = reader.seq
              /\ got' = reader.copy
              /\ reader' = [at |-> "idle", seq |-> reader.seq, copy |-> Blank, todo |-> {}]
           \/ reader' = Closed /\ got' = got
    BY <1>1, <1>5 DEF end_read, Reading, ReaderInv
  <2>2. TypeOK'
    BY <1>1, <1>5, <2>1, Values DEF end_read, TypeOK, Reading
  <2>3. ReaderInv'
    BY <1>5, <2>1 DEF end_read, ReaderInv, Closed
  <2>4. AcceptedFramesAreWhole'
    BY <1>5, <2>1 DEF end_read, ReaderInv, AcceptedFramesAreWhole
  <2> QED
    BY <1>0, <2>2, <2>3, <2>4
<1>6. CASE lock_pose_to_read
  <2>1. TypeOK'
    <3>1. pose_reader' \in 0 .. life
      BY <1>6 DEF lock_pose_to_read, TypeOK
    <3>2. pose_mutex' \in [Lives -> {"none", "free", "camera", "reader", "dead"}]
      BY <1>6 DEF lock_pose_to_read, TypeOK
    <3> QED
      BY <1>6, <3>1, <3>2 DEF lock_pose_to_read, TypeOK
  <2>2. ReaderInv' /\ AcceptedFramesAreWhole'
    BY <1>6 DEF lock_pose_to_read, ReaderInv, AcceptedFramesAreWhole
  <2> QED
    BY <1>0, <2>1, <2>2
<1>7. CASE read_pose
  <2>1. TypeOK'
    <3>1. pose_reader' \in 0 .. life
      BY <1>7 DEF read_pose, TypeOK
    <3>2. pose_mutex' \in [Lives -> {"none", "free", "camera", "reader", "dead"}]
      BY <1>7 DEF read_pose, TypeOK
    <3> QED
      BY <1>7, <3>1, <3>2 DEF read_pose, TypeOK
  <2>2. ReaderInv' /\ AcceptedFramesAreWhole'
    BY <1>7 DEF read_pose, ReaderInv, AcceptedFramesAreWhole
  <2> QED
    BY <1>0, <2>1, <2>2
<1>8. CASE kill_nubots
  <2>1. TypeOK'
    BY <1>8, Values DEF kill_nubots, Orphan, TypeOK
  <2>2. ReaderInv' /\ AcceptedFramesAreWhole'
    BY <1>8 DEF kill_nubots, ReaderInv, AcceptedFramesAreWhole, Closed, Blank
  <2> QED
    BY <1>0, <2>1, <2>2
<1> QED
  BY <1>2, <1>3, <1>4, <1>5, <1>6, <1>7, <1>8 DEF Nubots

-----------------------------------------------------------------------------
(* The theorems *)

\* The inductive invariant holds in every reachable state.
THEOREM Invariance == Spec => []IInv
<1>1. IInv /\ [Next]_vars => IInv'
  <2> SUFFICES ASSUME IInv, [Next]_vars PROVE IInv'
    OBVIOUS
  <2>1. CASE UNCHANGED vars
    <3>1. TypeOK'
      BY <2>1 DEF IInv, TypeOK, vars, simulator, memory, names, nubots
    <3>2. WriterInv'
      BY <2>1 DEF IInv, WriterInv, Up, At, Begun, vars, simulator, memory, names
    <3> QED
      BY <2>1, <3>1, <3>2, SameImage, SameReader DEF IInv, vars, memory
  <2> QED
    BY <2>1, SimulatorInductive, RenderInductive, NubotsInductive DEF Next
<1> QED
  BY <1>1, InitIInv, PTL DEF Spec

\* Type correctness: no sequence number and no frame leaves its range.
THEOREM TypeCorrect == Spec => []TypeOK
<1>1. IInv => TypeOK
  BY DEF IInv
<1> QED
  BY <1>1, Invariance, PTL

\* K1Camera never accepts a mix of two frames, in however many pieces a frame
\* is copied and whoever is killed in the middle of it.
THEOREM FramesAreWhole == Spec => []AcceptedFramesAreWhole
<1>1. IInv => AcceptedFramesAreWhole
  BY DEF IInv
<1> QED
  BY <1>1, Invariance, PTL

-----------------------------------------------------------------------------
(* The names *)

\* A name of this life is one its writer is going to remove, or that of a
\* segment whose constructor failed.
NamesInv ==
  /\ At("start") => linked # life /\ ~camera.pose_writer
  /\ At("start") \/ At("wait") \/ At("setup") => pose_linked # life
  /\ Up /\ pose_linked = life => camera.pose_writer \/ "pose" \in unmade
  /\ At("done") => ~camera.pose_writer /\ (linked = life => "image" \in unmade)

LEMMA NamesInductive ==
  ASSUME TypeOK, Up => life \in Lives, NamesInv, [Next]_vars
  PROVE  NamesInv'
<1> USE CameraAssumption DEF memory, names
<1>0. /\ life \in Nat /\ linked \in 0 .. life /\ pose_linked \in 0 .. life
      /\ camera \in Thread
  BY DEF TypeOK
<1>1. CASE start
  <2>1. /\ life' = life + 1 /\ linked' = linked /\ pose_linked' = pose_linked
        /\ camera'.at = "start" /\ ~camera'.pose_writer
    BY <1>1 DEF start, Off
  <2> QED
    BY <1>0, <2>1 DEF NamesInv, At, Up
<1>2. ASSUME UNCHANGED <<life, camera, linked, pose_linked, unmade>> PROVE NamesInv'
  BY <1>2 DEF NamesInv, At, Up
<1>3. ASSUME camera' = Off PROVE NamesInv'
  BY <1>3 DEF NamesInv, At, Up, Off
<1>4. CASE create_image
  BY <1>0, <1>4 DEF create_image, NamesInv, At, Up, Goto, Thread, simulator, Lives
<1>5. CASE setup
  <2>1. life' = life /\ linked' = linked /\ life # 0
    BY <1>5 DEF setup, At, Up, simulator, Lives
  <2>2. PICK place \in {"loop", "end"} :
          \/ /\ pose_linked' = life
             /\ camera' = [camera EXCEPT !.at = place, !.pose_writer = TRUE]
          \/ pose_linked' = 0 /\ Goto(place)
          \/ pose_linked' = life /\ "pose" \in unmade' /\ Goto(place)
    BY <1>5 DEF setup
  <2>3. /\ camera'.at = place
        /\ \/ camera'.pose_writer = TRUE
           \/ pose_linked' = 0
           \/ "pose" \in unmade'
    BY <1>0, <2>2 DEF Goto, Thread
  <2> QED
    BY <2>1, <2>3 DEF NamesInv, At, Up
<1>6. CASE finish
  BY <1>0, <1>6 DEF finish, NamesInv, At, Up, Thread, simulator, Lives
<1>7. ASSUME UNCHANGED <<life, linked, pose_linked, unmade>>, Up, Up',
             camera'.pose_writer = camera.pose_writer,
             camera'.at \notin {"start", "wait", "done"},
             camera'.at = "setup" => camera.at = "wait"
      PROVE  NamesInv'
  BY <1>7 DEF NamesInv, At, Up
<1>8. CASE \/ wait_for_handles \/ loop \/ read_scene \/ lock_pose \/ publish_pose
           \/ open_write \/ copy_piece \/ close_write
  <2>1. UNCHANGED <<life, linked, pose_linked, unmade>>
    BY <1>8 DEF wait_for_handles, loop, read_scene, lock_pose, publish_pose, open_write,
                copy_piece, close_write, simulator
  <2>2. /\ Up /\ Up' /\ camera'.pose_writer = camera.pose_writer
        /\ camera'.at \notin {"start", "wait", "done"}
        /\ camera'.at = "setup" => camera.at = "wait"
    BY <1>0, <1>8 DEF wait_for_handles, loop, read_scene, lock_pose, publish_pose, open_write,
                copy_piece, close_write, At, Up, Goto, Thread
  <2> QED
    BY <1>7, <2>1, <2>2
<1>9. CASE Nubots \/ UNCHANGED vars
  BY <1>2, <1>9 DEF Nubots, map_image, begin_read, read_piece, end_read, lock_pose_to_read,
                    read_pose, kill_nubots, vars, simulator
<1>10. CASE Simulator
  BY <1>1, <1>2, <1>3, <1>10
     DEF Simulator, load_model, handles, begin_shutdown, unload, stop_camera, exit,
         kill_simulator
<1> QED
  BY <1>4, <1>5, <1>6, <1>8, <1>9, <1>10 DEF Next, Render

\* A simulator that ends in order leaves no segment of its own behind, for any
\* number of lives, but one that its constructor could not finish.
THEOREM NothingLeft == Spec => NothingIsLeftBehind
<1>1. Init => NamesInv
  BY DEF Init, NamesInv, Off, At, Up
<1>2. IInv /\ NamesInv /\ [Next]_vars => NamesInv'
  BY NamesInductive DEF IInv, WriterInv
<1>3. NamesInv /\ [Next]_vars =>
        [exit => /\ linked = life => "image" \in unmade
                 /\ pose_linked = life => "pose" \in unmade]_vars
  BY DEF NamesInv, exit, At, Up
<1> QED
  BY <1>1, <1>2, <1>3, Invariance, PTL DEF Spec, NothingIsLeftBehind

-----------------------------------------------------------------------------
(* The refinement *)

LEMMA SamePublished ==
  ASSUME UNCHANGED <<life, image, following, got>>
  PROVE  UNCHANGED Feed!vars
  BY DEF Feed!vars

\* Every step is one of FrameFeed's or none of them.
LEMMA StepRefines ==
  ASSUME IInv, IInv', Next
  PROVE  Feed!Next \/ UNCHANGED Feed!vars
<1> DEFINE frames == [g \in Lives |-> image[g].seqlock \div 2]
           piece  == CHOOSE p \in Pieces : TRUE
<1> USE CameraAssumption DEF memory, names, simulator, nubots
<1>0. piece \in Pieces
  OBVIOUS
<1>1. CASE start
  BY <1>1 DEF start, Lives, Feed!Next, Feed!Start, IInv, TypeOK
<1>2. CASE Simulator /\ UNCHANGED life
  BY <1>2, SamePublished DEF Simulator, start, load_model, handles, begin_shutdown, unload,
                     stop_camera, exit, kill_simulator
<1>3. CASE \/ create_image \/ wait_for_handles \/ setup \/ loop \/ read_scene
           \/ lock_pose \/ publish_pose \/ finish
  BY <1>3, SamePublished DEF create_image, wait_for_handles, setup, loop, read_scene,
                     lock_pose, publish_pose, finish
<1>4. CASE begin_read \/ read_piece \/ lock_pose_to_read \/ read_pose
  BY <1>4, SamePublished DEF begin_read, read_piece, lock_pose_to_read, read_pose
<1>5. CASE map_image
  <2>1. got' = got /\ got[piece] = 0 /\ linked \in 0 .. life
    BY <1>0, <1>5 DEF map_image, IInv, ReaderInv, TypeOK, Blank
  <2> QED
    BY <1>5, <2>1 DEF map_image, Feed!Next, Feed!Follow
<1>6. CASE kill_nubots
  <2>1. got'[piece] = 0 /\ 0 \in 0 .. life
    BY <1>0, <1>6 DEF kill_nubots, IInv, TypeOK, Blank
  <2> QED
    BY <1>6, <2>1 DEF kill_nubots, Feed!Next, Feed!Follow
<1>7. CASE end_read
  <2>1. CASE image[following].seqlock = reader.seq
    <3>1. /\ reader.at = "copy" /\ reader.todo = {} /\ following \in Lives /\ following # 0
          /\ got' = reader.copy
      BY <1>7, <2>1 DEF end_read, IInv, ReaderInv, TypeOK, Lives
    <3>2. got'[piece] = frames[following]
      BY <1>0, <2>1, <3>1 DEF IInv, ReaderInv
    <3> QED
      BY <1>7, <3>1, <3>2 DEF end_read, Feed!Next, Feed!Receive
  <2>2. CASE image[following].seqlock # reader.seq
    BY <1>7, <2>2, SamePublished DEF end_read
  <2> QED
    BY <2>1, <2>2
<1>8. CASE open_write \/ copy_piece \/ close_write
  <2>1. /\ Up /\ life \in Lives /\ image \in [Lives -> Image]
        /\ image[life].seqlock \in Nat /\ camera.frame \in Nat
    BY <1>8 DEF open_write, copy_piece, close_write, At, Up, IInv, WriterInv, TypeOK,
                Image, Thread, Frame
  <2> DEFINE s == image[life].seqlock
  <2>2. CASE open_write
    <3>1. Written([seqlock |-> s + 1, pixels |-> image[life].pixels])
      BY <2>1, <2>2, SeqlockWritten DEF open_write, Odd
    <3>2. (s + 1) \div 2 = s \div 2
      BY <2>1, <2>2 DEF open_write, At, IInv, WriterInv, Begun
    <3>3. frames' = frames
      BY <2>1, <3>1, <3>2 DEF Written
    <3> QED
      BY <2>2, <3>3 DEF open_write, Feed!vars
  <2>3. CASE copy_piece
    <3>1. PICK p \in camera.todo :
            image' = [image EXCEPT ![life].pixels[p] = camera.frame]
      BY <2>3 DEF copy_piece
    <3>2. Written([seqlock |-> s, pixels |-> [image[life].pixels EXCEPT ![p] = camera.frame]])
      BY <2>1, <3>1, PieceWritten
    <3>3. frames' = frames
      BY <2>1, <3>2 DEF Written
    <3> QED
      BY <2>3, <3>3 DEF copy_piece, Feed!vars
  <2>4. CASE close_write
    <3>1. Written([seqlock |-> s + 1, pixels |-> image[life].pixels])
      BY <2>1, <2>4, SeqlockWritten DEF close_write, Even
    <3>2. (s + 1) \div 2 = (s \div 2) + 1
      <4>1. s = 2 * camera.frame - 1 /\ camera.frame > 0
        BY <2>1, <2>4 DEF close_write, At, IInv, WriterInv
      <4>2. (s + 1) \div 2 = camera.frame /\ s \div 2 = camera.frame - 1
        BY <2>1, <4>1
      <4> QED
        BY <2>1, <4>2
    <3>3. frames' = [frames EXCEPT ![life] = @ + 1]
      BY <2>1, <3>1, <3>2 DEF Written
    <3> QED
      BY <2>1, <2>4, <3>3 DEF close_write, Feed!Next, Feed!Publish
  <2> QED
    BY <1>8, <2>2, <2>3, <2>4
<1>9. life' = life \/ start
  BY DEF Next, Simulator, Render, Nubots, load_model, handles, begin_shutdown, unload,
         stop_camera, exit, kill_simulator, create_image, wait_for_handles, setup, loop,
         read_scene, lock_pose, publish_pose, open_write, copy_piece, close_write, finish,
         map_image, begin_read, read_piece, end_read, lock_pose_to_read, read_pose,
         kill_nubots
<1> QED
  BY <1>1, <1>2, <1>3, <1>4, <1>5, <1>6, <1>7, <1>8, <1>9 DEF Next, Render, Nubots

\* Segments, sequence lock, kills and restarts together are FrameFeed: what the
\* reader accepts is the newest frame of the life it follows.
THEOREM ImplementsFeed == Spec => ImplementsFrameFeed
<1>1. Init => Feed!Init
  <2>1. 0 \div 2 = 0 /\ (CHOOSE p \in Pieces : TRUE) \in Pieces
    BY CameraAssumption
  <2> QED
    BY <2>1 DEF Init, Feed!Init, NoImage, Blank
<1>2. IInv /\ IInv' /\ [Next]_vars => [Feed!Next]_Feed!vars
  <2>1. UNCHANGED vars => UNCHANGED Feed!vars
    BY SamePublished DEF vars, simulator, memory, nubots
  <2> QED
    BY <2>1, StepRefines
<1> QED
  BY <1>1, <1>2, Invariance, PTL DEF Spec, ImplementsFrameFeed, Feed!Spec
=============================================================================
