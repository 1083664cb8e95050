------------------------------- MODULE Viewer -------------------------------
(***************************************************************************)
(* module::Viewer beside the simulation: the window, the mouse that pulls  *)
(* at a body (select it with a double click, then ctrl and drag), the keys *)
(* that reset, kick and close.  Everything runs on the main thread: the    *)
(* tick polls GLFW, whose callbacks run in any number, then applies the    *)
(* perturbation under the sim mutex.                                       *)
(*                                                                         *)
(* Camera moves, overlay and drawing are left out, and so is how hard a    *)
(* drag pulls.  X_Y is a mistaken variant of X that Spec never uses.       *)
(***************************************************************************)
EXTENDS SimCore

CONSTANT Buttons   \* of the mouse: left, right

VARIABLES
  window,       \* not yet or never there, open, asked to close, gone
  scene_ready,
  main,         \* the main thread: idle, or polling in its tick
  select,       \* pert.select: the selected body, 0 for none
  active,       \* pert.active: what a drag does to it, if one is on
  buttons,      \* the buttons that are down
  last_click,   \* the button last pressed, if any
  viewer_shutdown,
  \* --- history, for the properties only
  hands_off     \* no button has been pressed since Backspace

mouse == <<select, active, buttons, last_click, hands_off>>

viewer == <<window, scene_ready, main, mouse, viewer_shutdown>>

vars == <<simvars, viewer>>

TypeOK ==
  /\ SimTypeOK
  /\ window \in {"none", "open", "closing", "gone"}
  /\ scene_ready \in BOOLEAN
  /\ main \in {"idle", "poll"}
  /\ select \in Bodies \cup {0}
  /\ active \in {"no", "translate", "rotate"}
  /\ buttons \subseteq Buttons
  /\ last_click \subseteq Buttons
  /\ viewer_shutdown \in BOOLEAN
  /\ hands_off \in BOOLEAN

Init ==
  /\ Start
  /\ window = "none" /\ scene_ready = FALSE /\ main = "idle"
  /\ select = 0 /\ active = "no" /\ buttons = {} /\ last_click = {}
  /\ viewer_shutdown = FALSE /\ hands_off = FALSE

\* on<Startup, MainThread>: no window if it is not wanted, or cannot be had.
open_window ==
  /\ Running /\ startup = "viewer" /\ startup' = "done"
  /\ window' \in IF cli.headless THEN {"none"} ELSE {"none", "open"}
  /\ UNCHANGED <<process, options, scenery, moved, xfrc_applied, physics, resets,
                 ending, scene_ready, main, mouse, viewer_shutdown>>

\* on<Trigger<SimHandles>, MainThread>
cache_handles ==
  /\ Running /\ startup = "done" /\ main = "idle" /\ handles = "emitted" /\ ~cli.headless
  /\ handles' = "cached"
  /\ scene_ready' = (window \in {"open", "closing"})
  /\ UNCHANGED <<process, options, startup, data, world, start, moved,
                 xfrc_applied, physics, resets, ending, window, main, mouse,
                 viewer_shutdown>>

\* Touching mjData through a cached pointer once it has been freed may do
\* anything; the model lets it crash or have no effect.
TouchesData == process' \in IF data = "freed" THEN {"running", "crashed"} ELSE {process}

-----------------------------------------------------------------------------
(* The tick, every 16 ms *)

tick ==
  /\ Running /\ startup = "done" /\ main = "idle" /\ window \in {"open", "closing"}
  /\ IF window = "closing" THEN shutting_down' = TRUE /\ UNCHANGED main
                           ELSE main' = "poll" /\ UNCHANGED shutting_down
  /\ UNCHANGED <<process, options, startup, scenery, moved, xfrc_applied, physics,
                 resets, simulation_shutdown, window, scene_ready, mouse,
                 viewer_shutdown>>

Perturbed_AnySelect ==
  IF active # "no" THEN xfrc_applied \cup {select} ELSE xfrc_applied \ {select}

Perturbed_NeverCleared ==
  IF select = 0 \/ active = "no" THEN xfrc_applied ELSE xfrc_applied \cup {select}

\* What a tick makes of the forces: pull at the selected body, or let go of it.
Perturbed ==
  IF select = 0 THEN xfrc_applied
  ELSE IF active # "no" THEN xfrc_applied \cup {select}
  ELSE xfrc_applied \ {select}

apply ==
  /\ Running /\ main = "poll" /\ main' = "idle"
  /\ IF scene_ready THEN xfrc_applied' = Perturbed /\ TouchesData
                    ELSE UNCHANGED <<xfrc_applied, process>>
  /\ UNCHANGED <<options, startup, scenery, moved, physics, resets, ending, window,
                 scene_ready, mouse, viewer_shutdown>>

-----------------------------------------------------------------------------
(* GLFW's callbacks, in the poll *)

InPoll == Running /\ main = "poll"

escape ==
  /\ InPoll /\ window' = "closing"
  /\ UNCHANGED <<simvars, scene_ready, main, mouse, viewer_shutdown>>

end_perturb == active' = "no"

backspace_KeepsDrag ==
  /\ InPoll /\ resets < MaxResets
  /\ resets' = resets + 1
  /\ hands_off' = TRUE
  /\ UNCHANGED <<process, options, startup, scenery, moved, xfrc_applied, physics,
                 ending, window, scene_ready, main, select, active, buttons,
                 last_click, viewer_shutdown>>

\* Backspace ends the drag and asks for a reset.
backspace ==
  /\ InPoll /\ resets < MaxResets
  /\ end_perturb
  /\ resets' = resets + 1
  /\ hands_off' = TRUE
  /\ UNCHANGED <<process, options, startup, scenery, moved, xfrc_applied, physics,
                 ending, window, scene_ready, main, select, buttons, last_click,
                 viewer_shutdown>>

\* F gives the main robot a push.
kick ==
  /\ InPoll /\ handles = "cached"
  /\ moved' = TRUE /\ TouchesData
  /\ UNCHANGED <<options, startup, scenery, xfrc_applied, physics, resets, ending,
                 window, scene_ready, main, mouse, viewer_shutdown>>

\* mouse_button_cb ends every drag on a release, of any button.
release(b) ==
  /\ InPoll /\ b \in buttons
  /\ buttons' = buttons \ {b}
  /\ IF handles = "cached" THEN end_perturb ELSE UNCHANGED active
  /\ UNCHANGED <<simvars, window, scene_ready, main, select, last_click,
                 viewer_shutdown, hands_off>>

\* Ctrl and a button on a selected body begin a drag.
Dragging(down, ctrl) ==
  IF ~ctrl \/ select = 0 THEN active
  ELSE IF "right" \in down THEN "translate"
  ELSE IF "left" \in down THEN "rotate" ELSE active

\* A second click on the same button, soon enough, selects the body under the
\* cursor: 0 is the world body, whose select ends no drag; nothing is -1.
Picked == Bodies \cup {0, -1}

press(b) ==
  /\ InPoll /\ b \notin buttons
  /\ buttons' = buttons \cup {b}
  /\ hands_off' = FALSE
  /\ IF handles # "cached" THEN UNCHANGED <<process, select, active, last_click>>
     ELSE /\ last_click' = {b}
          /\ TouchesData
          /\ \E ctrl \in BOOLEAN, double \in BOOLEAN, body \in Picked :
               /\ double => last_click = {b}
               /\ select' = IF ~double THEN select
                            ELSE IF body = -1 THEN 0 ELSE body
               /\ active' = IF double /\ body = -1 THEN "no"
                            ELSE Dragging(buttons', ctrl)
  /\ UNCHANGED <<options, startup, scenery, moved, xfrc_applied, physics, resets,
                 ending, window, scene_ready, main, viewer_shutdown>>

-----------------------------------------------------------------------------
\* on<Shutdown, MainThread>
close_window ==
  /\ Running /\ shutting_down /\ main = "idle" /\ ~viewer_shutdown
  /\ viewer_shutdown' = TRUE
  /\ scene_ready' = FALSE
  /\ window' = IF window = "none" THEN "none" ELSE "gone"
  /\ UNCHANGED <<simvars, main, mouse>>

Simulation ==
  \/ load_and_start
  \/ wake \/ physics_step \/ pace \/ pass_time
  \/ reset \/ handle_signal \/ stop \/ unload

Next ==
  \/ Simulation /\ UNCHANGED viewer
  \/ open_window \/ cache_handles \/ tick \/ apply \/ close_window
  \/ escape \/ backspace \/ kick
  \/ \E b \in Buttons : press(b) \/ release(b)

\* The tick comes every 16 ms and its poll returns.
Fairness == WF_vars(tick) /\ WF_vars(apply)

Spec == Init /\ [][Next]_vars /\ Fairness

-----------------------------------------------------------------------------
(* Properties *)

\* Backspace in the middle of a drag leaves no force pinned: once the reset is
\* done and until a button is pressed again, nothing pulls at any body, whether
\* the poll or the reset came first.
ResetUnpinsDrag ==
  hands_off /\ resets = 0 /\ data = "loaded" => xfrc_applied = {}

LetGo(b) == select = b /\ active = "no" /\ b \in xfrc_applied

\* The force on a body that has been let go of is cleared, as long as it stays
\* selected and the window open.
SelectedForceEnds ==
  \A b \in Bodies :
    LetGo(b) ~> \/ ~LetGo(b)
                \/ process # "running" \/ window # "open" \/ shutting_down

\* What end_perturb's comment promises: with every button up, a tick leaves no
\* stray force on any body.
NoStrayForce ==
  [][ apply /\ scene_ready /\ buttons = {} => xfrc_applied' = {} ]_vars
=============================================================================
