------------------------------ MODULE MCViewer ------------------------------
(* simulation.yaml, the shipped scenes' keyframes (centimetres) and two more *)
(* scenes: one without keyframes, one whose file is not there.               *)
EXTENDS Viewer

Flag(flag)      == [flag |-> flag, value |-> <<>>]
Value(flag, v)  == [flag |-> flag, value |-> <<v>>]

MCYaml ==
  [field |-> "middle", keyframe |-> "ready", rtf |-> 1,
   game |-> [field |-> "middle", length |-> 1400, width |-> 900,
             centre_circle_radius |-> 150, penalty_mark_distance |-> 200,
             attacker |-> [x |-> -200, y |-> 0],
             goalkeeper |-> [x |-> -650, y |-> 0],
             wings |-> <<[x |-> -300, y |-> 250], [x |-> -300, y |-> -250]>>,
             sideline_offset |-> 30, sideline_spacing |-> 80]]

At(x, y, stance) == Robot([x |-> x, y |-> y, yaw |-> 0], stance)

K1 == [ready |-> At(0, 0, "ready"), lying_front |-> At(0, 0, "lying")]

Keys(kickoff, corner) ==
  [key \in {"ready", "lying_front", "kickoff", "own_bottom_left"} |->
     CASE key = "kickoff" -> kickoff [] key = "own_bottom_left" -> corner [] OTHER -> K1[key]]

Scene(file, ball, keys) ==
  [file |-> file, home |-> At(0, 0, "zeros"), ball |-> ball, keys |-> keys]

MCScenes ==
  [field \in {"middle", "kidsize", "no-field", "bare", "missing"} |->
     CASE field = "middle"   -> Scene(TRUE, <<138>>,
            Keys(At(-300, 0, "ready"), At(-600, -400, "ready")))
       [] field = "kidsize"  -> Scene(TRUE, <<138>>,
            Keys(At(-271, 0, "ready"), At(-350, -250, "ready")))
       [] field = "no-field" -> Scene(TRUE, <<>>, K1)
       [] field = "bare"     -> Scene(TRUE, <<>>, <<>>)
       [] field = "missing"  -> Scene(FALSE, <<>>, <<>>)]

FreeRun == Value("--rtf", 0)

Games  == {Value("--game", n) : n \in 0 .. 12}
Robots == {Value("--robots", n) : n \in {0, 1, 2, 20, 21}}
Fields == {Value("--field", f) : f \in DOMAIN MCScenes \cup {"unknown"}}
Keyframes == {Value("--keyframe", k) :
               k \in {"lying_front", "kickoff", "own_bottom_left", "unknown"}}
Args == Games \cup Robots \cup Fields \cup Keyframes
        \cup {Flag("--on-field-positions"), Flag("--game"), Flag("--help"), FreeRun}

Headless == <<Flag("--headless"), FreeRun>>

\* Free runs without a window with up to two further arguments, or 20 robots on
\* any field at any keyframe; paced ones; windows on an empty field, with copies,
\* on a match and without a scene.
MCCommandLines ==
  {Headless \o args : args \in BoundedSeq(Args, 2)}
  \cup {Headless \o <<f, k, Value("--robots", 20)>> : f \in Fields, k \in Keyframes}
  \cup {<<Flag("--headless")>>, <<Flag("--headless"), Value("--rtf", 2)>>}
  \cup {<<FreeRun>>, <<FreeRun, Value("--field", "missing")>>,
        <<FreeRun, Value("--robots", 2), Value("--field", "bare")>>,
        <<FreeRun, Value("--game", 1), Value("--keyframe", "lying_front")>>}

\* The shipped numbers allow what the proof of StartIsLegal asks of them.
ASSUME ShippedNumbersFit == FormationFits /\ SidelinesFit /\ GridFits /\ LimitsKept

MCWindow == {<<FreeRun>>}
=============================================================================
