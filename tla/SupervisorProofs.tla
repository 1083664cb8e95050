-------------------------- MODULE SupervisorProofs --------------------------
(***************************************************************************)
(* The Supervisor's promises about robots and mutex, for any number of     *)
(* robots, any configuration of theirs, any optional resets, and a match   *)
(* and a network of any length: whatever is lost, late or delivered twice. *)
(***************************************************************************)
EXTENDS Supervisor, FiniteSetTheorems, TLAPS

-----------------------------------------------------------------------------
(* The inductive invariant *)

\* Every packet of the match has both teams, in either order: so a robot that
\* one packet has an entry for has one in all of them.
BothTeams(d) == {d.teams[i].team_id : i \in Slot} = {Teams[i] : i \in Slot}

PacketInv ==
  /\ BothTeams(game)
  /\ \A d \in wire : BothTeams(d)
  /\ job.at # "idle" => job.pkt \in Packet /\ BothTeams(job.pkt)
  /\ prev_ # NoPacket => prev_ \in Packet /\ BothTeams(prev_)

\* A goal takes a change of the match.
ScoreInv == \A i \in Slot : game.teams[i].score <= game.at

WireInv == IsFiniteSet(wire)

MutexInv == mutex = "supervisor" <=> job.at \in {"ball", "robots"}

\* Robots are where the last packet processed and the resets since have them.
RobotInv ==
  \A r \in Robots :
    /\ Penalised(r) => placed[r] = "penalty" \/ r \in undone
    /\ ~Penalised(r) => placed[r] # "penalty"

IInv == TypeOK /\ PacketInv /\ ScoreInv /\ WireInv /\ MutexInv /\ RobotInv

-----------------------------------------------------------------------------
(* The match *)

LEMMA EnterType ==
  ASSUME game \in Packet, game.at < MaxChanges, NEW s \in State
  PROVE  /\ Enter(s) = [at |-> game.at + 1, since |-> game.at + 1, state |-> s,
                        first_half |-> game.first_half, teams |-> game.teams]
         /\ Enter(s) \in Packet
<1>1. /\ game.at \in 0 .. MaxChanges /\ game.at + 1 \in 0 .. MaxChanges
      /\ game.first_half \in BOOLEAN /\ game.teams \in [Slot -> Team]
  BY SupervisorAssumption DEF Packet
<1>2. Enter(s) = [at |-> game.at + 1, since |-> game.at + 1, state |-> s,
                  first_half |-> game.first_half, teams |-> game.teams]
  <2>1. PICK g : g = Enter(s)
    OBVIOUS
  <2>2. g = [at |-> game.at + 1, since |-> game.at + 1, state |-> s,
             first_half |-> game.first_half, teams |-> game.teams]
    BY <2>1 DEF Enter, Packet
  <2> QED
    BY <2>1, <2>2
<1> QED
  BY <1>1, <1>2 DEF Packet

GameInv == game \in Packet /\ BothTeams(game) /\ ScoreInv

\* How far a kick-off has come.
Rank == [INITIAL |-> 0, READY |-> 1, SET |-> 2, PLAYING |-> 3, FINISHED |-> 4]

SameScores(d, e) == \A i \in Slot : d.teams[i].score = e.teams[i].score

\* Nothing but penalties lies between d and e.
SamePeriod(d, e) ==
  /\ d.since = e.since /\ d.state = e.state
  /\ d.first_half = e.first_half /\ SameScores(d, e)

\* What a change of the match from d to e can be: a penalty, a step of the
\* kick-off, a goal or the change of ends.
Change(d, e) ==
  /\ e.at = d.at + 1
  /\ \/ SamePeriod(d, e)
     \/ /\ e.since = e.at
        /\ \/ /\ e.first_half = d.first_half
              /\ SameScores(d, e) /\ Rank[d.state] < Rank[e.state]
           \/ /\ e.first_half = d.first_half /\ ~SameScores(d, e)
              /\ \A i \in Slot : d.teams[i].score <= e.teams[i].score
           \/ d.first_half /\ ~e.first_half

LEMMA KickoffInductive ==
  ASSUME GameInv, game.at < MaxChanges, Kickoff
  PROVE  GameInv' /\ Change(game, game')
<1>1. PICK s \in State : game' = Enter(s) /\ Rank[game.state] < Rank[s]
  BY DEF Kickoff, State, Rank
<1>2. game' = [at |-> game.at + 1, since |-> game.at + 1, state |-> s,
               first_half |-> game.first_half, teams |-> game.teams]
      /\ game' \in Packet
  BY <1>1, EnterType DEF GameInv
<1>3. game'.teams = game.teams /\ game'.at = game.at + 1
  BY <1>2
<1>4. game.at \in Int /\ \A i \in Slot : game.teams[i].score \in Int
  BY SupervisorAssumption DEF GameInv, Packet, Team
<1>5. BothTeams(game)'
  BY <1>3 DEF GameInv, BothTeams
<1>6. ScoreInv'
  BY <1>3, <1>4 DEF GameInv, ScoreInv
<1>7. Change(game, game')
  BY <1>1, <1>2 DEF Change, SameScores
<1> QED
  BY <1>2, <1>5, <1>6, <1>7 DEF GameInv

LEMMA GoalInductive ==
  ASSUME GameInv, game.at < MaxChanges, Goal
  PROVE  GameInv' /\ Change(game, game')
<1>1. PICK i \in Slot : game' = [Enter("READY") EXCEPT !.teams[i].score = @ + 1]
  BY DEF Goal
<1> DEFINE t == game.teams[i]
           u == [team_id |-> t.team_id, score |-> t.score + 1,
                 penalty_state |-> t.penalty_state]
<1>2. /\ game.teams \in [Slot -> Team] /\ t \in Team /\ t.score \in Nat /\ t.score <= game.at
      /\ game.at \in Nat /\ MaxChanges \in Nat /\ game.first_half \in BOOLEAN
  BY SupervisorAssumption DEF GameInv, ScoreInv, Packet, Team
<1>3. u \in Team /\ u = [t EXCEPT !.score = t.score + 1]
  BY <1>2 DEF Team, GameInv
<1>4. game' = [at |-> game.at + 1, since |-> game.at + 1, state |-> "READY",
               first_half |-> game.first_half, teams |-> [game.teams EXCEPT ![i] = u]]
  BY <1>1, <1>2, <1>3, EnterType DEF State, GameInv
<1>5. [game.teams EXCEPT ![i] = u] \in [Slot -> Team]
  BY <1>2, <1>3
<1>6. game' \in Packet
  BY <1>2, <1>4, <1>5 DEF Packet, State, GameInv
<1>7. \A j \in Slot : /\ game'.teams[j].team_id = game.teams[j].team_id
                      /\ game'.teams[j].score <= game'.at
  BY <1>2, <1>4 DEF GameInv, ScoreInv, Team
<1>8. Change(game, game')
  <2>1. \A j \in Slot :
          game'.teams[j].score = IF j = i THEN game.teams[j].score + 1
                                          ELSE game.teams[j].score
    BY <1>2, <1>4
  <2>2. \A j \in Slot : game.teams[j].score \in Int
    BY <1>2 DEF Team
  <2> QED
    BY <1>4, <2>1, <2>2 DEF Change, SameScores
<1> QED
  BY <1>6, <1>7, <1>8 DEF GameInv, BothTeams, ScoreInv

LEMMA SecondHalfInductive ==
  ASSUME GameInv, game.at < MaxChanges, SecondHalf
  PROVE  GameInv' /\ Change(game, game')
<1> DEFINE swapped == [i \in Slot |-> game.teams[1 - i]]
<1>1. /\ game.teams \in [Slot -> Team] /\ game.at \in Nat /\ MaxChanges \in Nat
      /\ \A i \in Slot : game.teams[i].score \in Int
  BY SupervisorAssumption DEF GameInv, Packet, Team
<1>2. game' = [at |-> game.at + 1, since |-> game.at + 1, state |-> "INITIAL",
               first_half |-> FALSE, teams |-> swapped]
  <2>1. PICK r : r = Enter("INITIAL")
    OBVIOUS
  <2>2. r = [at |-> game.at + 1, since |-> game.at + 1, state |-> "INITIAL",
             first_half |-> game.first_half, teams |-> game.teams]
    BY <2>1, EnterType DEF State, GameInv
  <2>3. game' = [r EXCEPT !.first_half = FALSE, !.teams = swapped]
    BY <2>1 DEF SecondHalf
  <2> QED
    BY <2>2, <2>3
<1>3. swapped \in [Slot -> Team] /\ swapped[0] = game.teams[1] /\ swapped[1] = game.teams[0]
  BY <1>1 DEF Slot
<1> HIDE DEF swapped
<1>4. game' \in Packet
  BY <1>1, <1>2, <1>3 DEF Packet, State, GameInv
<1>5. BothTeams(game)'
  BY <1>2, <1>3 DEF GameInv, BothTeams, Slot
<1>6. ScoreInv'
  BY <1>1, <1>2, <1>3 DEF GameInv, ScoreInv, Slot
<1>7. Change(game, game')
  <2>1. game.first_half
    BY DEF SecondHalf
  <2>2. ~game'.first_half /\ game'.since = game'.at /\ game'.at = game.at + 1
    BY <1>2
  <2> QED
    BY <2>1, <2>2 DEF Change
<1> QED
  BY <1>4, <1>5, <1>6, <1>7 DEF GameInv

LEMMA PenaliseInductive ==
  ASSUME GameInv, game.at < MaxChanges, Penalise
  PROVE  GameInv' /\ Change(game, game')
<1>1. PICK i \in Slot, p \in PenaltyState :
        game' = [game EXCEPT !.at = @ + 1, !.teams[i].penalty_state = p]
  BY DEF Penalise
<1> DEFINE t == game.teams[i]
           u == [team_id |-> t.team_id, score |-> t.score, penalty_state |-> p]
<1>2. /\ game.teams \in [Slot -> Team] /\ t \in Team
      /\ game.at \in Nat /\ MaxChanges \in Nat /\ game \in Packet
      /\ \A j \in Slot : game.teams[j].score \in Int
  BY SupervisorAssumption DEF GameInv, Packet, Team
<1>3. u \in Team /\ u = [t EXCEPT !.penalty_state = p]
  BY <1>2 DEF Team
<1>4. game' = [at |-> game.at + 1, since |-> game.since, state |-> game.state,
               first_half |-> game.first_half, teams |-> [game.teams EXCEPT ![i] = u]]
  BY <1>1, <1>2, <1>3 DEF Packet
<1>5. [game.teams EXCEPT ![i] = u] \in [Slot -> Team]
  BY <1>2, <1>3
<1>6. game' \in Packet
  BY <1>2, <1>4, <1>5 DEF Packet, GameInv
<1>7. \A j \in Slot : /\ game'.teams[j].team_id = game.teams[j].team_id
                      /\ game'.teams[j].score <= game'.at
  BY <1>2, <1>4 DEF GameInv, ScoreInv, Team
<1>8. Change(game, game')
  <2>1. \A j \in Slot : game'.teams[j].score = game.teams[j].score
    BY <1>2, <1>4
  <2> QED
    BY <1>4, <2>1 DEF Change, SamePeriod, SameScores
<1> QED
  BY <1>6, <1>7, <1>8 DEF GameInv, BothTeams, ScoreInv

LEMMA InitIInv == Init => IInv
<1> SUFFICES ASSUME Init PROVE IInv
  OBVIOUS
<1> DEFINE team(i) == [team_id |-> Teams[i], score |-> 0, penalty_state |-> UNPENALISED]
<1>1. PICK state \in State :
        game = [at |-> 0, since |-> 0, state |-> state, first_half |-> TRUE,
                teams |-> [i \in Slot |-> team(i)]]
  BY DEF Init
<1>2. \A i \in Slot : team(i) \in Team
  BY SupervisorAssumption DEF Team, PenaltyState
<1>3. game \in Packet
  BY <1>1, <1>2, SupervisorAssumption DEF Packet
<1>4. BothTeams(game) /\ ScoreInv
  BY <1>1 DEF BothTeams, ScoreInv
<1>5. IsFiniteSet(wire) /\ Cardinality(wire) <= MaxWire
  BY FS_EmptySet, SupervisorAssumption DEF Init
<1>6. TypeOK
  <2>1. /\ job \in [at : {"idle", "lock", "ball", "robots"}, pkt : Packet \cup {NoPacket}]
        /\ placed \in [Robots -> Pose]
    BY DEF Init, Idle, Pose
  <2>2. centred \in -1 .. MaxChanges /\ handles \in 0 .. 3
    BY SupervisorAssumption DEF Init
  <2> QED
    BY <1>3, <1>5, <2>1, <2>2 DEF Init, TypeOK
<1>7. PacketInv /\ MutexInv
  BY <1>4 DEF Init, PacketInv, MutexInv, Idle
<1>8. RobotInv
  BY DEF Init, RobotInv, Penalised, penalty
<1> QED
  BY <1>4, <1>5, <1>6, <1>7, <1>8 DEF IInv, WireInv

-----------------------------------------------------------------------------
(* The robots *)

\* What a robot has an entry in, it has an entry in always.
LEMMA SameEntry ==
  ASSUME NEW d, NEW e, NEW r \in Robots, BothTeams(d), BothTeams(e)
  PROVE  resolve_team(d, Config[r]) = {} <=> resolve_team(e, Config[r]) = {}
<1>1. \A t : (\E i \in Slot : d.teams[i].team_id = t)
              <=> (\E i \in Slot : e.teams[i].team_id = t)
  BY DEF BothTeams
<1> QED
  BY <1>1 DEF resolve_team

\* The whole packet is applied: who is penalised goes out, who no longer is
\* goes home, and the others are where they belong already.
LEMMA PacketApplied ==
  ASSUME IInv, apply_robots
  PROVE  RobotInv'
<1> SUFFICES ASSUME NEW r \in Robots
             PROVE  /\ Penalised(r)' => placed'[r] = "penalty" \/ r \in undone'
                    /\ ~Penalised(r)' => placed'[r] # "penalty"
  BY DEF RobotInv
<1> DEFINE pkt == job.pkt
<1>1. prev_' = pkt /\ BothTeams(pkt) /\ (prev_ # NoPacket => BothTeams(prev_))
  BY DEF apply_robots, IInv, PacketInv
<1>2. /\ placed'[r] = apply_robot(r, pkt)
      /\ r \in undone' <=> r \in undone /\ ~moved(r, pkt)
  BY DEF apply_robots
<1>3. Penalised(r)' <=> penalty(pkt, r) # UNPENALISED
  BY <1>1 DEF Penalised, penalty, resolve_team
<1>4. /\ Penalised(r) => placed[r] = "penalty" \/ r \in undone
      /\ ~Penalised(r) => placed[r] # "penalty"
  BY DEF IInv, RobotInv
<1>5. CASE moved(r, pkt)
  BY <1>2, <1>3, <1>5 DEF apply_robot
<1>6. CASE ~moved(r, pkt)
  <2>1. penalty(pkt, r) = penalty(prev_, r)
    <3>1. CASE resolve_team(pkt, Config[r]) = {}
      BY <1>1, <3>1, SameEntry DEF penalty
    <3>2. CASE resolve_team(pkt, Config[r]) # {}
      BY <1>6, <3>2 DEF moved
    <3> QED
      BY <3>1, <3>2
  <2> QED
    BY <1>2, <1>3, <1>4, <1>6, <2>1 DEF apply_robot, Penalised
<1> QED
  BY <1>5, <1>6

-----------------------------------------------------------------------------
LEMMA StepInductive ==
  ASSUME IInv, Next
  PROVE  IInv'
<1> USE DEF IInv
<1>0. /\ Cardinality(wire) \in Nat /\ MaxWire \in Nat /\ MaxChanges \in Nat
      /\ job.pkt \in Packet \cup {NoPacket} /\ job.at \in {"idle", "lock", "ball", "robots"}
  BY FS_CardinalityType, SupervisorAssumption DEF WireInv, TypeOK
<1>1. UNCHANGED <<prev_, placed, undone>> => RobotInv'
  BY DEF RobotInv, Penalised, penalty, resolve_team
<1>2. UNCHANGED game => ScoreInv' /\ BothTeams(game)'
  BY DEF ScoreInv, PacketInv, BothTeams
<1>3. CASE play
  <2>1. game' \in Packet /\ BothTeams(game)' /\ ScoreInv'
    BY <1>3, KickoffInductive, GoalInductive, SecondHalfInductive, PenaliseInductive
    DEF play, GameInv, TypeOK, PacketInv
  <2>2. TypeOK'
    BY <1>3, <2>1 DEF play, TypeOK
  <2>3. PacketInv' /\ WireInv' /\ MutexInv'
    BY <1>3, <2>1 DEF play, PacketInv, WireInv, MutexInv
  <2> QED
    BY <1>1, <1>3, <2>1, <2>2, <2>3 DEF play
<1>4. CASE broadcast
  <2>1. IsFiniteSet(wire') /\ Cardinality(wire') = Cardinality(wire) + 1
    BY <1>4, FS_AddElement DEF broadcast, WireInv
  <2>2. TypeOK'
    BY <1>0, <1>4, <2>1 DEF broadcast, TypeOK
  <2>3. PacketInv' /\ WireInv' /\ MutexInv'
    BY <1>2, <1>4, <2>1 DEF broadcast, PacketInv, WireInv, MutexInv
  <2> QED
    BY <1>1, <1>2, <1>4, <2>2, <2>3 DEF broadcast
<1>5. ASSUME NEW d \in wire, lose(d) PROVE IInv'
  <2>1. IsFiniteSet(wire') /\ Cardinality(wire') <= Cardinality(wire)
    <3>1. IsFiniteSet(wire \ {d}) /\ Cardinality(wire \ {d}) = Cardinality(wire) - 1
      BY FS_RemoveElement DEF WireInv
    <3> QED
      BY <1>0, <1>5, <3>1 DEF lose
  <2>2. TypeOK'
    <3>1. Cardinality(wire') \in Nat
      BY <2>1, FS_CardinalityType
    <3> QED
      BY <1>0, <1>5, <2>1, <3>1 DEF lose, TypeOK
  <2>3. PacketInv' /\ WireInv' /\ MutexInv'
    BY <1>2, <1>5, <2>1 DEF lose, PacketInv, WireInv, MutexInv
  <2> QED
    BY <1>1, <1>2, <1>5, <2>2, <2>3 DEF lose
<1>6. CASE store_handle
  <2>1. TypeOK'
    BY <1>6 DEF store_handle, TypeOK
  <2>2. PacketInv' /\ WireInv' /\ MutexInv'
    BY <1>2, <1>6 DEF store_handle, PacketInv, WireInv, MutexInv
  <2> QED
    BY <1>1, <1>2, <1>6, <2>1, <2>2 DEF store_handle
<1>7. ASSUME NEW d \in wire \cup {Noise}, receive(d) PROVE IInv'
  <2>1. /\ d \in wire /\ d \in Packet /\ BothTeams(d)
        /\ job' = [at |-> "lock", pkt |-> d] /\ job.at = "idle"
    BY <1>7 DEF receive, try_parse, PacketInv, TypeOK, Idle
  <2>2. TypeOK'
    BY <1>7, <2>1 DEF receive, TypeOK
  <2>3. PacketInv' /\ WireInv' /\ MutexInv'
    BY <1>2, <1>7, <2>1 DEF receive, PacketInv, WireInv, MutexInv
  <2> QED
    BY <1>1, <1>2, <1>7, <2>2, <2>3 DEF receive
<1>8. CASE lock
  <2>1. job' = [at |-> "ball", pkt |-> job.pkt] /\ job.at = "lock" /\ mutex' = "supervisor"
    BY <1>8 DEF lock, lock_sim_mutex, TypeOK
  <2>2. TypeOK'
    BY <1>0, <1>8, <2>1 DEF lock, TypeOK
  <2>3. PacketInv' /\ WireInv' /\ MutexInv'
    BY <1>2, <1>8, <2>1 DEF lock, PacketInv, WireInv, MutexInv
  <2> QED
    BY <1>1, <1>2, <1>8, <2>2, <2>3 DEF lock
<1>9. CASE place_ball
  <2>1. job' = [at |-> "robots", pkt |-> job.pkt] /\ job.at = "ball"
    BY <1>9 DEF place_ball, TypeOK
  <2>2. centred' \in -1 .. MaxChanges
    <3>1. job.pkt.at \in 0 .. MaxChanges
      BY <2>1 DEF PacketInv, Packet
    <3> QED
      BY <1>0, <1>9, <3>1 DEF place_ball, TypeOK
  <2>3. TypeOK'
    BY <1>0, <1>9, <2>1, <2>2 DEF place_ball, TypeOK
  <2>4. PacketInv' /\ WireInv' /\ MutexInv'
    BY <1>2, <1>9, <2>1 DEF place_ball, PacketInv, WireInv, MutexInv
  <2> QED
    BY <1>1, <1>2, <1>9, <2>3, <2>4 DEF place_ball
<1>10. CASE apply_robots
  <2>1. job' = Idle /\ job.at = "robots" /\ job.pkt \in Packet /\ BothTeams(job.pkt)
    BY <1>10 DEF apply_robots, PacketInv
  <2>2. TypeOK'
    <3>1. placed' \in [Robots -> Pose] /\ undone' \subseteq Robots
      BY <1>10 DEF apply_robots, apply_robot, Pose, TypeOK
    <3>2. stale' \in BOOLEAN
      BY <1>10 DEF apply_robots
    <3> QED
      BY <1>10, <2>1, <3>1, <3>2 DEF apply_robots, TypeOK, Idle
  <2>3. PacketInv' /\ WireInv' /\ MutexInv'
    BY <1>2, <1>10, <2>1 DEF apply_robots, PacketInv, WireInv, MutexInv, Idle
  <2> QED
    BY <1>2, <1>10, <2>2, <2>3, PacketApplied DEF apply_robots
<1>11. CASE physics_lock \/ step
  <2>1. TypeOK'
    BY <1>11 DEF physics_lock, step, TypeOK
  <2>2. PacketInv' /\ WireInv' /\ MutexInv'
    BY <1>2, <1>11 DEF physics_lock, step, PacketInv, WireInv, MutexInv
  <2> QED
    BY <1>1, <1>2, <1>11, <2>1, <2>2 DEF physics_lock, step
<1>12. CASE reset
  <2>1. TypeOK'
    BY <1>12 DEF reset, TypeOK, Pose
  <2>2. PacketInv' /\ WireInv' /\ MutexInv'
    BY <1>2, <1>12 DEF reset, PacketInv, WireInv, MutexInv
  <2>3. RobotInv'
    BY <1>12 DEF reset, RobotInv, Penalised, penalty, resolve_team, TypeOK
  <2> QED
    BY <1>2, <1>12, <2>1, <2>2, <2>3 DEF reset
<1> QED
  BY <1>3, <1>4, <1>5, <1>6, <1>7, <1>8, <1>9, <1>10, <1>11, <1>12 DEF Next, Handler

-----------------------------------------------------------------------------
(* The theorems *)

\* The inductive invariant holds in every reachable state.
THEOREM Invariance == Spec => []IInv
<1>1. IInv /\ UNCHANGED vars => IInv'
  <2> SUFFICES ASSUME IInv, UNCHANGED vars PROVE IInv'
    OBVIOUS
  <2> USE DEF IInv, vars
  <2>1. TypeOK' /\ WireInv' /\ MutexInv'
    BY DEF TypeOK, WireInv, MutexInv
  <2>2. BothTeams(game)' /\ ScoreInv'
    BY DEF PacketInv, BothTeams, ScoreInv
  <2>3. PacketInv'
    BY <2>2 DEF PacketInv
  <2>4. RobotInv'
    BY DEF RobotInv, Penalised, penalty, resolve_team
  <2> QED
    BY <2>1, <2>2, <2>3, <2>4
<1>2. IInv /\ [Next]_vars => IInv'
  BY <1>1, StepInductive
<1> QED
  BY <1>2, InitIInv, PTL DEF Spec

\* Type correctness: what the Supervisor works on is a packet of the match.
THEOREM TypeCorrect == Spec => []TypeOK
<1>1. IInv => TypeOK
  BY DEF IInv
<1> QED
  BY <1>1, Invariance, PTL

\* Whoever the last packet has penalised was put on the side line, or a reset
\* undid it; however many packets before were lost, late or repeated.
THEOREM PenalisedOut == Spec => []PenalisedRobotsAreOut
<1>1. IInv => PenalisedRobotsAreOut
  BY DEF IInv, RobotInv, PenalisedRobotsAreOut
<1> QED
  BY <1>1, Invariance, PTL

\* Nobody else is left there.
THEOREM OthersIn == Spec => []OthersAreIn
<1>1. IInv => OthersAreIn
  BY DEF IInv, RobotInv, OthersAreIn
<1> QED
  BY <1>1, Invariance, PTL

\* The physics thread never steps a half-applied packet.
THEOREM WholePackets == Spec => []PhysicsSeesWholePackets
<1>1. IInv => PhysicsSeesWholePackets
  BY DEF IInv, MutexInv, PhysicsSeesWholePackets
<1> QED
  BY <1>1, Invariance, PTL
=============================================================================
