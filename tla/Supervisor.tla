----------------------------- MODULE Supervisor -----------------------------
(***************************************************************************)
(* The sim-side referee: module::Supervisor watches the GameController's   *)
(* broadcasts and teleports the ball and the robots.  A datagram may be    *)
(* lost, delivered late or delivered twice; its packet_number is not       *)
(* looked at.  The handler runs on a pool thread and writes mjData under   *)
(* the sim mutex, which the physics thread holds while it steps.           *)
(*                                                                         *)
(* A body is where it was last put: what physics makes of it afterwards is *)
(* left out.  The GameController and the network are external.             *)
(* X_Y is a mistaken variant of X that Spec never uses.                    *)
(***************************************************************************)
EXTENDS Integers, FiniteSets

CONSTANTS
  Robots,       \* the managed robots
  Config,       \* their RobotConfig
  Teams,        \* the ids of the two teams, by place in the first half
  Penalties,    \* penalty states other than UNPENALISED
  ResetBallOn,  \* the optional resets that are on
  MaxChanges,   \* bound on what happens in the match
  MaxWire       \* bound on the datagrams under way

Slot == {0, 1}

ASSUME SupervisorAssumption ==
  /\ Teams \in [Slot -> Nat] /\ Teams[0] # Teams[1]
  /\ Config \in [Robots -> [team_id : Nat \cup {-1}, team_index : Int]]
  /\ ResetBallOn \subseteq {"finished", "goal", "half_change"}
  /\ MaxChanges \in Nat /\ MaxWire \in Nat \ {0}

VARIABLES
  game,      \* the match, as the GameController has it
  wire,      \* datagrams under way
  handles,   \* how many of model_, data_, sim_mutex_ are stored
  job,       \* the packet the UDP reaction is at work on
  mutex,     \* who holds the sim mutex
  prev_,     \* the last packet processed
  placed,    \* where each robot was last put
  \* --- history, for the properties only
  centred,   \* the time of the packet that last had the ball centred
  undone,    \* robots a reset has taken from their penalty pose
  stale      \* a packet has been processed after a newer one

vars == <<game, wire, handles, job, mutex, prev_, placed, centred, undone, stale>>

-----------------------------------------------------------------------------
State == {"INITIAL", "READY", "SET", "PLAYING", "FINISHED"}

UNPENALISED == "UNPENALISED"

PenaltyState == Penalties \cup {UNPENALISED}

Team == [team_id : {Teams[i] : i \in Slot}, score : 0 .. MaxChanges, penalty_state : PenaltyState]

\* at (the number of changes so far) and since (when the state was entered)
\* are not in the packet: they date it for the properties.
Packet == [at : 0 .. MaxChanges, since : 0 .. MaxChanges, state : State,
           first_half : BOOLEAN, teams : [Slot -> Team]]

NoPacket == [state |-> "UNKNOWN_STATE"]
Noise    == [state |-> "noise"]

Pose == {"spawn", "home", "penalty"}

TypeOK ==
  /\ game \in Packet
  /\ wire \subseteq Packet /\ Cardinality(wire) <= MaxWire
  /\ handles \in 0 .. 3
  /\ job \in [at : {"idle", "lock", "ball", "robots"},
              pkt : Packet \cup {NoPacket}]
  /\ mutex \in {"free", "physics", "supervisor"}
  /\ prev_ \in Packet \cup {NoPacket}
  /\ placed \in [Robots -> Pose]
  /\ centred \in -1 .. MaxChanges
  /\ undone \subseteq Robots
  /\ stale \in BOOLEAN

Idle == [at |-> "idle", pkt |-> NoPacket]

\* The match may be at any point when the simulator starts.
Init ==
  /\ \E state \in State :
       game = [at |-> 0, since |-> 0, state |-> state, first_half |-> TRUE,
               teams |-> [i \in Slot |-> [team_id |-> Teams[i], score |-> 0,
                                          penalty_state |-> UNPENALISED]]]
  /\ wire = {} /\ handles = 0 /\ job = Idle /\ mutex = "free"
  /\ prev_ = NoPacket /\ placed = [r \in Robots |-> "spawn"]
  /\ centred = -1 /\ undone = {} /\ stale = FALSE

-----------------------------------------------------------------------------
(* The GameController and the network *)

Enter(state) ==
  [game EXCEPT !.at = @ + 1, !.since = game.at + 1, !.state = state]

Kickoff ==
  \E s \in {<<"INITIAL", "READY">>, <<"READY", "SET">>, <<"SET", "PLAYING">>,
            <<"PLAYING", "FINISHED">>} :
    game.state = s[1] /\ game' = Enter(s[2])

Goal ==
  /\ game.state = "PLAYING"
  /\ \E i \in Slot : game' = [Enter("READY") EXCEPT !.teams[i].score = @ + 1]

\* The teams change sides, and with them their places in the packet.
SecondHalf ==
  /\ game.state = "FINISHED" /\ game.first_half
  /\ game' = [Enter("INITIAL") EXCEPT
                !.first_half = FALSE,
                !.teams = [i \in Slot |-> game.teams[1 - i]]]

Penalise ==
  \E i \in Slot, p \in PenaltyState :
    /\ game.teams[i].penalty_state # p
    /\ game' = [game EXCEPT !.at = @ + 1, !.teams[i].penalty_state = p]

play ==
  /\ game.at < MaxChanges
  /\ Kickoff \/ Goal \/ SecondHalf \/ Penalise
  /\ UNCHANGED <<wire, handles, job, mutex, prev_, placed, centred, undone, stale>>

broadcast ==
  /\ game \notin wire
  /\ Cardinality(wire) < MaxWire
  /\ wire' = wire \cup {game}
  /\ UNCHANGED <<game, handles, job, mutex, prev_, placed, centred, undone, stale>>

lose(d) ==
  /\ wire' = wire \ {d}
  /\ UNCHANGED <<game, handles, job, mutex, prev_, placed, centred, undone, stale>>

-----------------------------------------------------------------------------
(* The Supervisor's reactions, each on a pool thread *)

store_handle_Again ==
  /\ handles' = handles + 1
  /\ UNCHANGED <<game, wire, job, mutex, prev_, placed, centred, undone, stale>>

store_handle_NoMutex ==
  /\ handles < 2
  /\ handles' = handles + 1
  /\ UNCHANGED <<game, wire, job, mutex, prev_, placed, centred, undone, stale>>

\* Trigger<SimHandles>, once: three stores another thread can get between.
store_handle ==
  /\ handles < 3
  /\ handles' = handles + 1
  /\ UNCHANGED <<game, wire, job, mutex, prev_, placed, centred, undone, stale>>

try_parse(d) == d # Noise

\* UDP, Single: a datagram that comes while an earlier one is at work is
\* dropped, and so is one that comes before the model is there.  It stays on
\* the wire: it may come again.
receive(d) ==
  /\ job = Idle
  /\ try_parse(d)
  /\ handles = 3
  /\ job' = [at |-> "lock", pkt |-> d]
  /\ UNCHANGED <<game, wire, handles, mutex, prev_, placed, centred, undone, stale>>

lock_Forgotten == mutex' = mutex

lock_sim_mutex == mutex = "free" /\ mutex' = "supervisor"

\* lock_guard in the UDP reaction.
lock ==
  /\ job.at = "lock"
  /\ lock_sim_mutex
  /\ job' = [job EXCEPT !.at = "ball"]
  /\ UNCHANGED <<game, wire, handles, prev_, placed, centred, undone, stale>>

score_increased_First(old, new) == new.teams[0].score > old.teams[0].score
score_increased(old, new) ==
  \E i \in Slot : new.teams[i].score > old.teams[i].score

center_ball_Always(old, new) == new.state \in {"READY", "PLAYING"}
center_ball(old, new) ==
  \/ /\ new.state # old.state
     /\ \/ new.state \in {"READY", "PLAYING"}
        \/ new.state = "FINISHED" /\ "finished" \in ResetBallOn
  \/ /\ old # NoPacket
     /\ \/ "goal" \in ResetBallOn /\ score_increased(old, new)
        \/ "half_change" \in ResetBallOn /\ new.first_half # old.first_half

place_ball ==
  /\ job.at = "ball"
  /\ centred' = IF center_ball(prev_, job.pkt) THEN job.pkt.at ELSE centred
  /\ job' = [job EXCEPT !.at = "robots"]
  /\ UNCHANGED <<game, wire, handles, mutex, prev_, placed, undone, stale>>

\* The packet's entry for a robot's team: by id if there is one, else by place.
resolve_team(pkt, rc) ==
  IF rc.team_id # -1 THEN {i \in Slot : pkt.teams[i].team_id = rc.team_id}
                     ELSE Slot \cap {rc.team_index}

penalty(pkt, r) ==
  IF pkt = NoPacket \/ resolve_team(pkt, Config[r]) = {} THEN UNPENALISED
  ELSE pkt.teams[CHOOSE i \in resolve_team(pkt, Config[r]) : TRUE].penalty_state

moved_NotFirst(r, pkt) ==
  prev_ # NoPacket /\ penalty(prev_, r) # penalty(pkt, r)
moved_NoReturn(r, pkt) ==
  penalty(prev_, r) # penalty(pkt, r) /\ penalty(pkt, r) # UNPENALISED
moved(r, pkt) ==
  resolve_team(pkt, Config[r]) # {} /\ penalty(prev_, r) # penalty(pkt, r)

apply_robot(r, pkt) ==
  IF ~moved(r, pkt) THEN placed[r]
  ELSE IF penalty(pkt, r) = UNPENALISED THEN "home" ELSE "penalty"

\* apply_robot for each robot, prev_ = pkt, and the lock_guard's end.
apply_robots ==
  /\ job.at = "robots"
  /\ placed' = [r \in Robots |-> apply_robot(r, job.pkt)]
  /\ undone' = {r \in undone : ~moved(r, job.pkt)}
  /\ stale' = (stale \/ (prev_ # NoPacket /\ job.pkt.at < prev_.at))
  /\ prev_' = job.pkt
  /\ job' = Idle /\ mutex' = "free"
  /\ UNCHANGED <<game, wire, handles, centred>>

-----------------------------------------------------------------------------
(* Simulation *)

\* The physics thread holds the mutex while it steps.
physics_lock ==
  /\ mutex = "free" /\ mutex' = "physics"
  /\ UNCHANGED <<game, wire, handles, job, prev_, placed, centred, undone, stale>>

step ==
  /\ mutex = "physics" /\ mutex' = "free"
  /\ UNCHANGED <<game, wire, handles, job, prev_, placed, centred, undone, stale>>

\* The reaction to a SimResetRequest puts every body back, under the mutex; the
\* Supervisor does not hear of it.
reset ==
  /\ mutex = "free"
  /\ placed' = [r \in Robots |-> "spawn"]
  /\ undone' = undone \cup {r \in Robots : placed[r] = "penalty"}
  /\ UNCHANGED <<game, wire, handles, job, mutex, prev_, centred, stale>>

-----------------------------------------------------------------------------
Handler == lock \/ place_ball \/ apply_robots

Next ==
  \/ play
  \/ broadcast
  \/ \E d \in wire : lose(d)
  \/ store_handle
  \/ \E d \in wire \cup {Noise} : receive(d)
  \/ Handler
  \/ physics_lock \/ step \/ reset

\* The GameController repeats its packet and the network does not lose every
\* copy; no datagram stays under way for ever.  The pool runs what is ready, a
\* mutex that is free again and again is given to the handler in the end.
Spec ==
  /\ Init /\ [][Next]_vars
  /\ WF_vars(store_handle)
  /\ WF_vars(broadcast)
  /\ WF_vars(\E d \in wire : d # game /\ lose(d))
  /\ SF_vars(receive(game) /\ game \in wire)
  /\ SF_vars(lock) /\ WF_vars(place_ball) /\ WF_vars(apply_robots)
  /\ WF_vars(step)

-----------------------------------------------------------------------------
(* Properties *)

\* What the physics thread can see while it holds the mutex.
Visible == mutex # "supervisor"

Penalised(r) == penalty(prev_, r) # UNPENALISED

\* A robot the last packet has penalised was put on the side line, however
\* many packets before it were lost or came late, unless a reset undid it.
PenalisedRobotsAreOut ==
  Visible => \A r \in Robots : Penalised(r) => placed[r] = "penalty" \/ r \in undone

\* A robot that is not penalised, or no longer, does not stay on the side line.
OthersAreIn ==
  Visible => \A r \in Robots : ~Penalised(r) => placed[r] # "penalty"

\* Once the Supervisor has seen READY or PLAYING, the ball has been centred for
\* it, even when every packet between two kick-offs was lost.
KickoffFromCentre ==
  Visible /\ prev_.state \in {"READY", "PLAYING"} => centred >= prev_.since

\* A ball in play is left alone: packets that come in order have it centred
\* once for each kick-off.
BallInPlayIsLeftAlone ==
  /\ ~stale /\ job.at = "ball"
  /\ job.pkt.state = "PLAYING" /\ prev_ # NoPacket
  /\ job.pkt.at >= prev_.at /\ centred >= job.pkt.since
  => ~center_ball(prev_, job.pkt)

\* The physics thread never works on a half-applied packet.
PhysicsSeesWholePackets ==
  mutex = "physics" => job.at \notin {"ball", "robots"}

\* Whatever the network does meanwhile, a penalty that stands takes the robot
\* to the side line.
PenaltiesAreEnforced ==
  \A r \in Robots :
    <>[](penalty(game, r) # UNPENALISED)
      => <>[](placed[r] = "penalty" \/ r \in undone)
=============================================================================
