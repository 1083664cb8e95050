----------------------------- MODULE FrameFeed -----------------------------
(***************************************************************************)
(* What the reader of the camera's frames may rely on: each life of the    *)
(* simulator is a feed of its own, the reader follows one feed at a time   *)
(* and only ever receives the frame that is the newest of that feed at     *)
(* that moment, whole.  Nothing here knows of shared memory, sequence      *)
(* locks or half-written frames; CameraSegments implements it.             *)
(***************************************************************************)
EXTENDS Naturals

CONSTANT Lives  \* the lives of the simulator, counted from 1

VARIABLES
  life,       \* the newest life, 0 before the first
  published,  \* the number of frames each life has published
  following,  \* the feed the reader follows, 0 = none
  got         \* the last frame received from it, 0 = none

vars == <<life, published, following, got>>

Init ==
  /\ life = 0 /\ published = [g \in Lives |-> 0]
  /\ following = 0 /\ got = 0

Start ==
  /\ life + 1 \in Lives
  /\ life' = life + 1
  /\ UNCHANGED <<published, following, got>>

Publish ==
  /\ life \in Lives
  /\ published' = [published EXCEPT ![life] = @ + 1]
  /\ UNCHANGED <<life, following, got>>

\* 0: the reader goes away.
Follow ==
  /\ following' \in 0 .. life
  /\ got' = 0
  /\ UNCHANGED <<life, published>>

Receive ==
  /\ following # 0
  /\ got' = published[following]
  /\ UNCHANGED <<life, published, following>>

Next == Start \/ Publish \/ Follow \/ Receive

Spec == Init /\ [][Next]_vars
=============================================================================
