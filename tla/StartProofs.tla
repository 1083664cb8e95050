----------------------------- MODULE StartProofs -----------------------------
(***************************************************************************)
(* Every start and every reset is legal, for every set of command lines,   *)
(* simulation.yaml and set of scenes whose numbers leave room for it.      *)
(* What spread_in_half's rounds and parse_cli's loop compute enters as a   *)
(* hypothesis on the constants (FormationFits, LimitsKept), which TLC      *)
(* evaluates; that the lines beside the field, the mirrored team, the grid *)
(* of copies, the keyframes and the resets keep to it is proved.           *)
(***************************************************************************)
EXTENDS ViewerProofs

-----------------------------------------------------------------------------
(* Distances *)

\* Two points that differ enough in x or in y are apart.
LEMMA ApartIfFar ==
  ASSUME NEW p, NEW q, IsPoint(p), IsPoint(q), MinGap \in Nat,
         \/ p.x - q.x >= MinGap \/ q.x - p.x >= MinGap
         \/ p.y - q.y >= MinGap \/ q.y - p.y >= MinGap
  PROVE  Apart(p, q)
<1>1. ASSUME NEW a \in Int, a >= MinGap \/ -a >= MinGap
      PROVE  a * a >= MinGap * MinGap
  <2>1. CASE a >= MinGap
    <3>1. a * a >= a * MinGap /\ a * MinGap >= MinGap * MinGap
      BY <2>1
    <3> QED
      BY <3>1
  <2>2. CASE -a >= MinGap
    <3>1. (-a) * (-a) >= (-a) * MinGap /\ (-a) * MinGap >= MinGap * MinGap
      BY <2>2
    <3> QED
      BY <3>1
  <2> QED
    BY <1>1, <2>1, <2>2
<1>2. ASSUME NEW a \in Int
      PROVE  a * a \in Int /\ a * a >= 0
  OBVIOUS
<1> DEFINE dx == p.x - q.x
           dy == p.y - q.y
<1>3. /\ dx \in Int /\ dy \in Int
      /\ dx >= MinGap \/ -dx >= MinGap \/ dy >= MinGap \/ -dy >= MinGap
  BY DEF IsPoint
<1>4. MinGap * MinGap \in Int
  OBVIOUS
<1>5. SquaredDistance(p, q) = dx * dx + dy * dy
  BY DEF SquaredDistance
<1> HIDE DEF dx, dy
<1>6. dx * dx >= MinGap * MinGap \/ dy * dy >= MinGap * MinGap
  BY <1>1, <1>3
<1> QED
  BY <1>2, <1>3, <1>4, <1>5, <1>6 DEF Apart

\* A distance is the same both ways, and for two points mirrored together.
LEMMA ApartSymmetric ==
  ASSUME NEW p, NEW q, IsPoint(p), IsPoint(q), Apart(p, q)
  PROVE  Apart(q, p) /\ Apart(Mirrored(p), Mirrored(q))
<1>1. ASSUME NEW a \in Int, NEW b \in Int
      PROVE  /\ (a - b) * (a - b) = (b - a) * (b - a)
             /\ ((-a) - (-b)) * ((-a) - (-b)) = (a - b) * (a - b)
  OBVIOUS
<1>2. /\ SquaredDistance(q, p) = SquaredDistance(p, q)
      /\ SquaredDistance(Mirrored(p), Mirrored(q)) = SquaredDistance(p, q)
  BY <1>1 DEF SquaredDistance, IsPoint, Mirrored, Facing
<1> QED
  BY <1>2 DEF Apart

LEMMA MirroredPoint ==
  ASSUME NEW p, IsPoint(p)
  PROVE  /\ IsPoint(Mirrored(p)) /\ Mirrored(p).x = -p.x /\ Mirrored(p).y = -p.y
         /\ InCentreCircle(Mirrored(p)) <=> InCentreCircle(p)
<1>1. IsPoint(Mirrored(p)) /\ Mirrored(p).x = -p.x /\ Mirrored(p).y = -p.y
  BY DEF IsPoint, Mirrored, Facing
<1>2. ASSUME NEW a \in Int
      PROVE  ((-a) - 0) * ((-a) - 0) = (a - 0) * (a - 0)
  OBVIOUS
<1>3. SquaredDistance(Mirrored(p), Origin) = SquaredDistance(p, Origin)
  BY <1>1, <1>2 DEF SquaredDistance, IsPoint, Origin
<1> QED
  BY <1>1, <1>3 DEF InCentreCircle

\* A point farther from the x axis than the circle's radius is outside it.
LEMMA BeyondCircle ==
  ASSUME NEW p, IsPoint(p), SimulationYaml.game.centre_circle_radius \in Nat,
         \/ p.y > SimulationYaml.game.centre_circle_radius
         \/ -p.y > SimulationYaml.game.centre_circle_radius
  PROVE  ~InCentreCircle(p)
<1> DEFINE r == SimulationYaml.game.centre_circle_radius
<1>1. ASSUME NEW a \in Int, NEW b \in Nat, a > b
      PROVE  a * a > b * b
  <2>1. a * a >= a * (b + 1) /\ a * (b + 1) >= (b + 1) * (b + 1)
    BY <1>1
  <2>2. (b + 1) * (b + 1) = b * b + 2 * b + 1
    OBVIOUS
  <2> QED
    BY <1>1, <2>1, <2>2
<1>2. ASSUME NEW a \in Int
      PROVE  a * a \in Int /\ a * a >= 0 /\ (-a) * (-a) = a * a /\ a - 0 = a
  OBVIOUS
<1>3. p.x \in Int /\ p.y \in Int /\ -p.y \in Int /\ r \in Nat
  BY DEF IsPoint
<1>4. p.y * p.y > r * r
  <2>1. CASE p.y > r
    BY <1>1, <1>3, <2>1
  <2>2. CASE -p.y > r
    BY <1>1, <1>2, <1>3, <2>2
  <2> QED
    BY <2>1, <2>2
<1>5. SquaredDistance(p, Origin) = p.x * p.x + p.y * p.y
  BY <1>2, <1>3 DEF SquaredDistance, Origin
<1>6. r * r \in Int /\ p.y * p.y \in Int /\ p.x * p.x \in Int /\ p.x * p.x >= 0
  BY <1>2, <1>3
<1>7. SquaredDistance(p, Origin) > r * r
  BY <1>4, <1>5, <1>6
<1> QED
  BY <1>5, <1>6, <1>7 DEF InCentreCircle

-----------------------------------------------------------------------------
(* The lines beside the field *)

Line  == SimulationYaml.game.width \div 2 + SimulationYaml.game.sideline_offset
First == SimulationYaml.game.penalty_mark_distance - SimulationYaml.game.length \div 2

\* The side and the slot of the i-th of a team, from 0, as LineUp has them.
SideOf(i) == IF (i \div 2) % 2 = 0 THEN -1 ELSE 1
SlotOf(i) == (i \div 4) * 2 + (i % 2)

LEMMA SlotTypes ==
  ASSUME NEW i \in 0 .. MAX_GAME_SIZE - 1
  PROVE  SideOf(i) \in {-1, 1} /\ SlotOf(i) \in 0 .. 5
  BY DEF SideOf, SlotOf, MAX_GAME_SIZE

\* Two of a team do not share both.
LEMMA SlotsDiffer ==
  ASSUME NEW i \in 0 .. MAX_GAME_SIZE - 1, NEW j \in 0 .. MAX_GAME_SIZE - 1, i # j
  PROVE  SideOf(i) # SideOf(j) \/ SlotOf(i) # SlotOf(j)
<1>1. i \in 0 .. 10 /\ j \in 0 .. 10
  BY DEF MAX_GAME_SIZE
<1> QED
  BY <1>1 DEF SideOf, SlotOf

\* Where the line-up puts its i-th robot.
LEMMA LineUpPlaces ==
  ASSUME SidelinesFit, NEW n \in 1 .. MAX_GAME_SIZE, NEW i \in 1 .. n
  PROVE  LET p == LineUp(SimulationYaml.game, n)[i]
         IN  /\ IsPoint(p)
             /\ p.x = First + SlotOf(i - 1) * SimulationYaml.game.sideline_spacing
             /\ p.y = SideOf(i - 1) * Line
<1>1. i - 1 \in 0 .. MAX_GAME_SIZE - 1
  BY DEF MAX_GAME_SIZE
<1>2. /\ First \in Int /\ Line \in Int /\ SimulationYaml.game.sideline_spacing \in Int
  BY DEF SidelinesFit, First, Line
<1>3. LineUp(SimulationYaml.game, n)[i]
        = Facing([x |-> First + SlotOf(i - 1) * SimulationYaml.game.sideline_spacing,
                  y |-> SideOf(i - 1) * Line], -SideOf(i - 1))
  BY DEF LineUp, First, Line, SideOf, SlotOf
<1>4. SideOf(i - 1) \in Int /\ SlotOf(i - 1) \in Int
  BY <1>1, SlotTypes
<1>5. /\ SlotOf(i - 1) * SimulationYaml.game.sideline_spacing \in Int
      /\ SideOf(i - 1) * Line \in Int
  BY <1>2, <1>4
<1> HIDE DEF First, Line
<1> QED
  BY <1>2, <1>3, <1>5 DEF Facing, IsPoint

\* A team that lines up fits beside its half.
LEMMA LineUpFits ==
  ASSUME SidelinesFit, NEW n \in 1 .. MAX_GAME_SIZE
  PROVE  TeamFits(LineUp(SimulationYaml.game, n), n)
<1> DEFINE team == LineUp(SimulationYaml.game, n)
           sp   == SimulationYaml.game.sideline_spacing
           r    == SimulationYaml.game.centre_circle_radius
<1>1. /\ sp \in Int /\ Line \in Int /\ First \in Int /\ r \in Nat /\ MinGap \in Nat
      /\ sp >= MinGap /\ Line > r /\ 2 * Line >= MinGap
      /\ First + 5 * sp < 0 /\ 2 * (First + 5 * sp) <= -MinGap
  BY DEF SidelinesFit, First, Line
<1>2. ASSUME NEW i \in 1 .. n
      PROVE  /\ IsPoint(team[i])
             /\ SideOf(i - 1) \in {-1, 1} /\ SlotOf(i - 1) \in 0 .. 5
             /\ team[i].x = First + SlotOf(i - 1) * sp
             /\ team[i].y = Line \/ team[i].y = -Line
             /\ (team[i].y = Line) <=> (SideOf(i - 1) = 1)
  <2>1. i - 1 \in 0 .. MAX_GAME_SIZE - 1
    BY DEF MAX_GAME_SIZE
  <2>2. SideOf(i - 1) \in {-1, 1} /\ SlotOf(i - 1) \in 0 .. 5
    BY <2>1, SlotTypes
  <2>3. /\ IsPoint(team[i]) /\ team[i].x = First + SlotOf(i - 1) * sp
        /\ team[i].y = SideOf(i - 1) * Line
    BY LineUpPlaces
  <2>4. Line > 0
    BY <1>1
  <2> HIDE DEF team, sp
  <2>5. CASE SideOf(i - 1) = 1
    BY <1>1, <2>2, <2>3, <2>5
  <2>6. CASE SideOf(i - 1) = -1
    <3>1. team[i].y = -Line
      BY <1>1, <2>3, <2>6
    <3>2. -Line # Line
      BY <1>1, <2>4
    <3> QED
      BY <2>2, <2>3, <2>6, <3>1, <3>2
  <2> QED
    BY <2>2, <2>5, <2>6
<1> HIDE DEF team
<1>3. ASSUME NEW m \in 0 .. 5
      PROVE  m * sp \in Int /\ m * sp <= 5 * sp
  BY <1>1
<1>4. ASSUME NEW i \in 1 .. n
      PROVE  /\ team[i].x \in Int /\ team[i].x < 0 /\ 2 * team[i].x <= -MinGap
             /\ ~InCentreCircle(team[i])
  <2>1. team[i].x \in Int /\ team[i].x <= First + 5 * sp
    <3> HIDE DEF sp
    <3> QED
      BY <1>1, <1>2, <1>3
  <2>2. team[i].x < 0 /\ 2 * team[i].x <= -MinGap
    <3> HIDE DEF sp
    <3> QED
      BY <1>1, <2>1
  <2>3. team[i].y > r \/ -team[i].y > r
    BY <1>1, <1>2
  <2> QED
    BY <1>1, <1>2, <2>1, <2>2, <2>3, BeyondCircle
<1>5. ASSUME NEW i \in 1 .. n, NEW j \in 1 .. n, i # j
      PROVE  Apart(team[i], team[j])
  <2>1. SideOf(i - 1) # SideOf(j - 1) \/ SlotOf(i - 1) # SlotOf(j - 1)
    <3>1. i - 1 \in 0 .. MAX_GAME_SIZE - 1 /\ j - 1 \in 0 .. MAX_GAME_SIZE - 1
      BY DEF MAX_GAME_SIZE
    <3>2. i - 1 # j - 1
      BY <1>5
    <3> QED
      BY <3>1, <3>2, SlotsDiffer
  <2>2. CASE SideOf(i - 1) # SideOf(j - 1)
    <3>1. team[i].y - team[j].y = 2 * Line \/ team[j].y - team[i].y = 2 * Line
      BY <1>1, <1>2, <2>2
    <3> QED
      BY <1>1, <1>2, <3>1, ApartIfFar
  <2>3. CASE SlotOf(i - 1) # SlotOf(j - 1)
    <3> DEFINE a == SlotOf(i - 1)
               b == SlotOf(j - 1)
    <3>1. a \in 0 .. 5 /\ b \in 0 .. 5 /\ a # b
      BY <1>2, <2>3
    <3>2. team[i].x = First + a * sp /\ team[j].x = First + b * sp
      BY <1>2
    <3> HIDE DEF a, b, sp
    <3>3. a * sp - b * sp = (a - b) * sp
      BY <1>1, <3>1
    <3>4. (a - b) * sp >= sp \/ (b - a) * sp >= sp
      BY <1>1, <3>1
    <3>5. team[i].x - team[j].x >= MinGap \/ team[j].x - team[i].x >= MinGap
      BY <1>1, <3>1, <3>2, <3>3, <3>4
    <3> QED
      BY <1>1, <1>2, <3>5, ApartIfFar
  <2> QED
    BY <2>1, <2>2, <2>3
<1>6. ASSUME NEW i \in 1 .. n, NEW j \in 1 .. n
      PROVE  Apart(team[i], Mirrored(team[j]))
  <2>1. IsPoint(Mirrored(team[j])) /\ Mirrored(team[j]).x = -team[j].x
    BY <1>2, MirroredPoint
  <2>2. Mirrored(team[j]).x - team[i].x >= MinGap
    <3> HIDE DEF sp
    <3> QED
      BY <1>1, <1>4, <2>1
  <2> QED
    BY <1>1, <1>2, <2>1, <2>2, ApartIfFar
<1> QED
  BY <1>2, <1>4, <1>5, <1>6 DEF TeamFits, team

-----------------------------------------------------------------------------
(* The positions of a match: a team that fits, and its mirror image *)

LEMMA GameFits ==
  ASSUME NEW team, NEW n \in Nat, TeamFits(team, n), NEW spawns,
         spawns = [k \in 0 .. 2 * n - 1 |->
                    IF k < n THEN team[k + 1] ELSE Mirrored(team[k - n + 1])]
  PROVE  /\ \A k \in 0 .. 2 * n - 1 :
              /\ IsPoint(spawns[k]) /\ ~InCentreCircle(spawns[k])
              /\ IF 2 * k < 2 * n THEN spawns[k].x < 0 ELSE spawns[k].x > 0
         /\ \A j, k \in 0 .. 2 * n - 1 : j # k => Apart(spawns[j], spawns[k])
<1>1. ASSUME NEW k \in 0 .. 2 * n - 1, k < n
      PROVE  k + 1 \in 1 .. n /\ spawns[k] = team[k + 1]
  BY <1>1
<1>2. ASSUME NEW k \in 0 .. 2 * n - 1, ~(k < n)
      PROVE  k - n + 1 \in 1 .. n /\ spawns[k] = Mirrored(team[k - n + 1])
  BY <1>2
<1>3. ASSUME NEW i \in 1 .. n
      PROVE  /\ IsPoint(team[i]) /\ team[i].x < 0 /\ ~InCentreCircle(team[i])
             /\ IsPoint(Mirrored(team[i])) /\ Mirrored(team[i]).x > 0
             /\ ~InCentreCircle(Mirrored(team[i]))
  <2>1. IsPoint(team[i]) /\ team[i].x < 0 /\ ~InCentreCircle(team[i])
    BY DEF TeamFits
  <2>2. team[i].x \in Int
    BY <2>1 DEF IsPoint
  <2> QED
    BY <2>1, <2>2, MirroredPoint
<1>4. ASSUME NEW k \in 0 .. 2 * n - 1
      PROVE  /\ IsPoint(spawns[k]) /\ ~InCentreCircle(spawns[k])
             /\ IF 2 * k < 2 * n THEN spawns[k].x < 0 ELSE spawns[k].x > 0
  <2>1. CASE k < n
    BY <1>1, <1>3, <2>1
  <2>2. CASE ~(k < n)
    BY <1>2, <1>3, <2>2
  <2> QED
    BY <2>1, <2>2
<1>5. ASSUME NEW j \in 0 .. 2 * n - 1, NEW k \in 0 .. 2 * n - 1, j # k
      PROVE  Apart(spawns[j], spawns[k])
  <2>1. CASE j < n /\ k < n
    <3>1. j + 1 # k + 1
      BY <1>5
    <3> QED
      BY <1>1, <2>1, <3>1 DEF TeamFits
  <2>2. CASE j < n /\ ~(k < n)
    BY <1>1, <1>2, <2>2 DEF TeamFits
  <2>3. CASE ~(j < n) /\ k < n
    <3>1. Apart(spawns[k], spawns[j])
      BY <1>1, <1>2, <2>3 DEF TeamFits
    <3> QED
      BY <1>4, <3>1, ApartSymmetric
  <2>4. CASE ~(j < n) /\ ~(k < n)
    <3>1. j - n + 1 # k - n + 1
      BY <1>5
    <3>2. Apart(team[j - n + 1], team[k - n + 1])
      BY <1>2, <2>4, <3>1 DEF TeamFits
    <3> QED
      BY <1>2, <1>3, <2>4, <3>2, ApartSymmetric
  <2> QED
    BY <2>1, <2>2, <2>3, <2>4
<1> QED
  BY <1>4, <1>5

-----------------------------------------------------------------------------
(* The grid of copies *)

\* Column and row of the k-th copy; rows come in pairs, one on each side.
ColOf(k)  == (k - 1) % 5
RowOf(k)  == (k - 1) \div 5
PairOf(k) == RowOf(k) \div 2
PartOf(k)  == RowOf(k) % 2

LEMMA Halves ==
  ASSUME NEW m \in Nat
  PROVE  m \div 2 \in Nat /\ m % 2 \in {0, 1} /\ m = 2 * (m \div 2) + (m % 2)
<1>1. m \div 2 \in Nat
  OBVIOUS
<1>2. m % 2 \in 0 .. 1
  OBVIOUS
<1>3. m = 2 * (m \div 2) + (m % 2)
  OBVIOUS
<1> QED
  BY <1>1, <1>2, <1>3

LEMMA GridCell ==
  ASSUME NEW k \in Nat \ {0}
  PROVE  /\ ColOf(k) \in 0 .. 4 /\ RowOf(k) \in Nat
         /\ k - 1 = 5 * RowOf(k) + ColOf(k)
  BY DEF ColOf, RowOf

\* How far copy k stands from the x axis, on its side of it.
LEMMA GridSlot ==
  ASSUME NEW k \in Nat \ {0}
  PROVE  /\ PairOf(k) \in Nat /\ PartOf(k) \in {0, 1} /\ IsPoint(extra_spawn(k))
         /\ RowOf(k) = 2 * PairOf(k) + PartOf(k)
         /\ extra_spawn(k).x = 150 * ColOf(k) - 300
         /\ PartOf(k) = 0 => extra_spawn(k).y = 120 + 120 * PairOf(k)
         /\ PartOf(k) = 1 => extra_spawn(k).y = -(120 + 120 * PairOf(k))
<1>1. RowOf(k) \in Nat /\ ColOf(k) \in 0 .. 4
  BY GridCell
<1>2. PairOf(k) \in Nat /\ PartOf(k) \in {0, 1} /\ RowOf(k) = 2 * PairOf(k) + PartOf(k)
  BY <1>1, Halves DEF PairOf, PartOf
<1>3. /\ extra_spawn(k).x = 150 * ColOf(k) - 300
      /\ extra_spawn(k).y = (IF PartOf(k) = 0 THEN 1 ELSE -1) * (120 + 120 * PairOf(k))
  BY DEF extra_spawn, ColOf, RowOf, PairOf, PartOf
<1>4. /\ PartOf(k) = 0 => extra_spawn(k).y = 120 + 120 * PairOf(k)
      /\ PartOf(k) = 1 => extra_spawn(k).y = -(120 + 120 * PairOf(k))
  BY <1>2, <1>3
<1>5. IsPoint(extra_spawn(k))
  BY <1>1, <1>2, <1>3, <1>4 DEF IsPoint
<1> QED
  BY <1>2, <1>3, <1>4, <1>5

\* No two copies touch, however many there are.
LEMMA GridApart ==
  ASSUME MinGap \in 0 .. 120, NEW j \in Nat \ {0}, NEW k \in Nat \ {0}, j # k
  PROVE  Apart(extra_spawn(j), extra_spawn(k))
<1> DEFINE a == PairOf(j)
           b == PairOf(k)
           p == extra_spawn(j)
           q == extra_spawn(k)
           s == PartOf(j)
           t == PartOf(k)
<1>1. /\ ColOf(j) \in 0 .. 4 /\ RowOf(j) \in Nat /\ j - 1 = 5 * RowOf(j) + ColOf(j)
      /\ ColOf(k) \in 0 .. 4 /\ RowOf(k) \in Nat /\ k - 1 = 5 * RowOf(k) + ColOf(k)
  BY GridCell
<1>2. /\ a \in Nat /\ IsPoint(p) /\ p.x = 150 * ColOf(j) - 300
      /\ s \in {0, 1} /\ RowOf(j) = 2 * a + s
      /\ s = 0 => p.y = 120 + 120 * a
      /\ s = 1 => p.y = -(120 + 120 * a)
  BY GridSlot
<1>3. /\ b \in Nat /\ IsPoint(q) /\ q.x = 150 * ColOf(k) - 300
      /\ t \in {0, 1} /\ RowOf(k) = 2 * b + t
      /\ t = 0 => q.y = 120 + 120 * b
      /\ t = 1 => q.y = -(120 + 120 * b)
  BY GridSlot
<1> HIDE DEF a, b, p, q, s, t
<1>4. \/ p.x - q.x >= MinGap \/ q.x - p.x >= MinGap
      \/ p.y - q.y >= MinGap \/ q.y - p.y >= MinGap
  <2>1. CASE ColOf(j) # ColOf(k)
    BY <1>1, <1>2, <1>3, <2>1
  <2>2. CASE ColOf(j) = ColOf(k)
    <3>1. s # t \/ a # b
      BY <1>1, <1>2, <1>3, <2>2
    <3>2. CASE s # t
      BY <1>2, <1>3, <3>2
    <3>3. CASE s = t /\ a # b
      BY <1>2, <1>3, <3>3
    <3> QED
      BY <3>1, <3>2, <3>3
  <2> QED
    BY <2>1, <2>2
<1> QED
  BY <1>2, <1>3, <1>4, ApartIfFar DEF p, q

-----------------------------------------------------------------------------
(* The configuration and what is placed by it *)

StartFits == FormationFits /\ SidelinesFit /\ GridFits /\ LimitsKept

\* What the command line and simulation.yaml make of each other.
Chosen ==
  \E args \in CommandLines :
    /\ cli = parse_cli(args) /\ ~cli.exit
    /\ field_name(cli) \in DOMAIN Scenes
    /\ config = build_sim_config(cli)

\* A process that has not exited was configured, and stays as it was.
ChosenInv == (process = "exited" /\ data = "none") \/ Chosen

\* The consequent of StartIsLegal, of any placement w.
LegalPlacement(w) ==
  /\ \A j, k \in DOMAIN w.robot : j # k => Apart(w.robot[j], w.robot[k])
  /\ cli.game > 0 =>
       /\ scene.ball # <<>> => w.ball + Head(scene.ball) = 0
       /\ \A k \in DOMAIN w.robot :
            /\ IF 2 * k < config.robots THEN w.robot[k].x < 0 ELSE w.robot[k].x > 0
            /\ ~InCentreCircle(w.robot[k])

\* Points at the same place are as far from the others, and from the centre.
LEMMA SamePlace ==
  ASSUME NEW p, NEW q, NEW r, NEW s, p.x = r.x, p.y = r.y, q.x = s.x, q.y = s.y
  PROVE  /\ Apart(r, s) => Apart(p, q)
         /\ InCentreCircle(p) => InCentreCircle(r)
  BY DEF Apart, InCentreCircle, SquaredDistance

\* The robots of every configuration, and where place_robots puts them.
LEMMA PlacedDomain ==
  DOMAIN place_robots(reset_data).robot = 0 .. config.robots - 1
<1>1. DOMAIN reset_data.robot = 0 .. config.robots - 1
  BY DEF reset_data, mj_resetData, mj_resetDataKeyframe
<1> QED
  BY <1>1 DEF place_robots

LEMMA PlacedAt ==
  ASSUME NEW k \in 0 .. config.robots - 1, k > 0 \/ config.spawns # <<>>
  PROVE  /\ place_robots(reset_data).robot[k].x = spawn_pose(k).x
         /\ place_robots(reset_data).robot[k].y = spawn_pose(k).y
<1>1. k \in DOMAIN reset_data.robot
  BY DEF reset_data, mj_resetData, mj_resetDataKeyframe
<1>2. CASE k > 0
  BY <1>1, <1>2 DEF place_robots, Robot
<1>3. CASE ~(k > 0)
  <2>1. k = 0 /\ config.spawns # <<>>
    BY <1>3
  <2> QED
    BY <1>1, <2>1 DEF place_robots, Robot
<1> QED
  BY <1>2, <1>3

\* Without a match the main robot starts at home or in a keyframe.
LEMMA MainRobot ==
  ASSUME config.robots \in Nat \ {0}, config.spawns = <<>>
  PROVE  place_robots(reset_data).robot[0]
           \in {scene.home} \cup {scene.keys[key] : key \in DOMAIN scene.keys}
<1>1. 0 \in 0 .. config.robots - 1
  OBVIOUS
<1>2. place_robots(reset_data).robot[0] = reset_data.robot[0]
  BY <1>1 DEF place_robots, reset_data, mj_resetData, mj_resetDataKeyframe
<1>3. CASE reset_key = <<>>
  BY <1>1, <1>2, <1>3 DEF reset_data, mj_resetData
<1>4. CASE reset_key # <<>>
  <2>1. PICK key \in DOMAIN scene.keys : reset_key = <<key>>
    BY <1>4 DEF reset_key, HasKey
  <2>2. Head(reset_key) = key
    BY <2>1
  <2>3. reset_data.robot[0] = scene.keys[key]
    BY <1>1, <1>4, <2>2 DEF reset_data, mj_resetDataKeyframe
  <2> QED
    BY <1>2, <2>3
<1> QED
  BY <1>3, <1>4

\* Without a match: a robot in its keyframe, and copies on the grid.
LEMMA CopiesAreLegal ==
  ASSUME StartFits, Chosen, cli.game = 0
  PROVE  LegalPlacement(place_robots(reset_data))
<1> DEFINE w == place_robots(reset_data)
<1>1. PICK args \in CommandLines :
        /\ cli = parse_cli(args) /\ ~cli.exit /\ field_name(cli) \in DOMAIN Scenes
        /\ config = build_sim_config(cli)
  BY DEF Chosen
<1>2. cli.robots \in 1 .. MAX_ROBOTS
  BY <1>1 DEF StartFits, LimitsKept
<1>3. /\ config.robots = cli.robots /\ config.spawns = <<>>
      /\ config.field = field_name(cli)
  <2>1. ~(cli.game > 0)
    OBVIOUS
  <2> QED
    BY <1>1, <2>1 DEF build_sim_config
<1>4. config.robots \in Nat \ {0} /\ config.field \in DOMAIN Scenes
  BY <1>1, <1>2, <1>3 DEF MAX_ROBOTS
<1>5. MinGap \in 0 .. 120
  BY DEF StartFits, GridFits
<1>6. w.robot[0] \in {scene.home} \cup {scene.keys[key] : key \in DOMAIN scene.keys}
  BY <1>3, <1>4, MainRobot
<1>7. /\ IsPoint(w.robot[0])
      /\ \A k \in 1 .. MAX_ROBOTS - 1 : Apart(w.robot[0], extra_spawn(k))
  <2> HIDE DEF w
  <2> QED
    BY <1>4, <1>6 DEF StartFits, GridFits, scene
<1>8. DOMAIN w.robot = 0 .. config.robots - 1
  BY PlacedDomain
<1>9. ASSUME NEW k \in DOMAIN w.robot, k # 0
      PROVE  /\ k \in 1 .. MAX_ROBOTS - 1 /\ IsPoint(extra_spawn(k))
             /\ w.robot[k].x = extra_spawn(k).x /\ w.robot[k].y = extra_spawn(k).y
  <2>1. k \in 0 .. config.robots - 1 /\ k > 0 /\ k \in Nat \ {0}
    BY <1>4, <1>8, <1>9
  <2>2. k \in 1 .. MAX_ROBOTS - 1
    <3>1. config.robots \in 1 .. 20
      BY <1>2, <1>3 DEF MAX_ROBOTS
    <3>2. k \in 1 .. 19
      BY <2>1, <3>1
    <3> QED
      BY <3>2 DEF MAX_ROBOTS
  <2>3. spawn_pose(k) = extra_spawn(k)
    BY <1>3 DEF spawn_pose
  <2> QED
    BY <2>1, <2>2, <2>3, PlacedAt, GridSlot
<1> HIDE DEF w
<1>10. ASSUME NEW j \in DOMAIN w.robot, NEW k \in DOMAIN w.robot, j # k
       PROVE  Apart(w.robot[j], w.robot[k])
  <2>1. CASE j = 0
    <3>1. /\ Apart(w.robot[0], extra_spawn(k))
          /\ w.robot[k].x = extra_spawn(k).x /\ w.robot[k].y = extra_spawn(k).y
      BY <1>7, <1>9, <1>10, <2>1
    <3> QED
      BY <2>1, <3>1, SamePlace
  <2>2. CASE k = 0
    <3>1. Apart(extra_spawn(j), w.robot[0])
      BY <1>7, <1>9, <1>10, <2>2, ApartSymmetric
    <3> QED
      BY <1>9, <1>10, <2>2, <3>1, SamePlace
  <2>3. CASE j # 0 /\ k # 0
    <3>1. j \in Nat \ {0} /\ k \in Nat \ {0}
      BY <1>4, <1>8, <2>3
    <3>2. Apart(extra_spawn(j), extra_spawn(k))
      BY <1>5, <1>10, <3>1, GridApart
    <3> QED
      BY <1>9, <2>3, <3>2, SamePlace
  <2> QED
    BY <2>1, <2>2, <2>3
<1> QED
  BY <1>10 DEF LegalPlacement, w

\* In a match: two teams that fit, and the ball on the centre mark.
LEMMA MatchIsLegal ==
  ASSUME StartFits, Chosen, cli.game # 0
  PROVE  LegalPlacement(place_robots(reset_data))
<1> DEFINE w == place_robots(reset_data)
           n == cli.game
<1>1. PICK args \in CommandLines :
        /\ cli = parse_cli(args) /\ ~cli.exit /\ field_name(cli) \in DOMAIN Scenes
        /\ config = build_sim_config(cli)
  BY DEF Chosen
<1>2. n \in 1 .. MAX_GAME_SIZE
  <2>1. n \in 0 .. MAX_GAME_SIZE
    BY <1>1 DEF StartFits, LimitsKept
  <2> QED
    BY <2>1 DEF MAX_GAME_SIZE
<1>3. n \in Nat /\ n > 0
  BY <1>2 DEF MAX_GAME_SIZE
<1>4. /\ config.robots = 2 * n /\ config.field = field_name(cli)
      /\ config.spawns = game(SimulationYaml.game, n, cli.on_field_positions)
  BY <1>1, <1>3 DEF build_sim_config
<1> DEFINE team == IF cli.on_field_positions THEN KickoffPositions(SimulationYaml.game, n)
                                             ELSE LineUp(SimulationYaml.game, n)
<1>5. TeamFits(team, n)
  <2>1. TeamFits(KickoffPositions(SimulationYaml.game, n), n)
    BY <1>2 DEF StartFits, FormationFits
  <2>2. TeamFits(LineUp(SimulationYaml.game, n), n)
    BY <1>2, LineUpFits DEF StartFits
  <2> QED
    BY <2>1, <2>2
<1>6. config.spawns = [k \in 0 .. 2 * n - 1 |->
                        IF k < n THEN team[k + 1] ELSE Mirrored(team[k - n + 1])]
  BY <1>4 DEF game
<1> HIDE DEF team, n
<1>7. /\ \A k \in 0 .. 2 * n - 1 :
           /\ IsPoint(config.spawns[k]) /\ ~InCentreCircle(config.spawns[k])
           /\ IF 2 * k < 2 * n THEN config.spawns[k].x < 0 ELSE config.spawns[k].x > 0
      /\ \A j, k \in 0 .. 2 * n - 1 : j # k => Apart(config.spawns[j], config.spawns[k])
  BY <1>3, <1>5, <1>6, GameFits
<1>8. config.spawns # <<>>
  <2>1. 0 \in DOMAIN config.spawns
    BY <1>3, <1>6
  <2>2. 0 \notin DOMAIN <<>>
    OBVIOUS
  <2> QED
    BY <2>1, <2>2
<1>9. DOMAIN w.robot = 0 .. 2 * n - 1
  BY <1>4, PlacedDomain
<1>10. ASSUME NEW k \in 0 .. 2 * n - 1
       PROVE  w.robot[k].x = config.spawns[k].x /\ w.robot[k].y = config.spawns[k].y
  <2>1. spawn_pose(k) = config.spawns[k]
    BY <1>8 DEF spawn_pose
  <2>2. k \in 0 .. config.robots - 1
    BY <1>4
  <2> QED
    BY <1>8, <2>1, <2>2, PlacedAt
<1>11. scene.ball # <<>> => w.ball + Head(scene.ball) = 0
  <2>1. scene.ball \in Seq(Int)
    BY <1>1, <1>4 DEF StartFits, GridFits, scene
  <2>2. w.ball = IF scene.ball = <<>> THEN 0 ELSE -Head(scene.ball)
    BY <1>8 DEF place_robots, place_ball_on_centre_mark
  <2>3. CASE scene.ball # <<>>
    <3>1. Head(scene.ball) \in Int
      BY <2>1, <2>3
    <3> QED
      BY <2>2, <2>3, <3>1
  <2> QED
    BY <2>3
<1> HIDE DEF w
<1>12. ASSUME NEW j \in DOMAIN w.robot, NEW k \in DOMAIN w.robot, j # k
       PROVE  Apart(w.robot[j], w.robot[k])
  BY <1>7, <1>9, <1>10, <1>12, SamePlace
<1>13. ASSUME NEW k \in DOMAIN w.robot
       PROVE  /\ IF 2 * k < config.robots THEN w.robot[k].x < 0 ELSE w.robot[k].x > 0
              /\ ~InCentreCircle(w.robot[k])
  <2>1. k \in 0 .. 2 * n - 1
    BY <1>9
  <2>2. w.robot[k].x = config.spawns[k].x /\ w.robot[k].y = config.spawns[k].y
    BY <1>10, <2>1
  <2>3. InCentreCircle(w.robot[k]) => InCentreCircle(config.spawns[k])
    BY <2>2, SamePlace
  <2> QED
    BY <1>4, <1>7, <2>1, <2>2, <2>3
<1> QED
  BY <1>11, <1>12, <1>13 DEF LegalPlacement, w

-----------------------------------------------------------------------------
(* The theorem *)

LEMMA ChosenInductive ==
  ASSUME ChosenInv, [Next]_vars
  PROVE  ChosenInv'
<1>1. UNCHANGED options
  BY DEF Next, Simulation, load_and_start, wake, physics_step, pace, pass_time,
         reset, handle_signal, stop, unload, open_window, cache_handles, tick, apply,
         close_window, escape, backspace, kick, press, release, simvars, vars
<1>2. Chosen => Chosen'
  BY <1>1 DEF Chosen, options
<1>3. CASE process = "exited"
  BY <1>2, <1>3 DEF ChosenInv, Next, Simulation, load_and_start, wake, physics_step,
         pace, pass_time, reset, handle_signal, stop, unload, open_window,
         cache_handles, tick, apply, close_window, escape, backspace, kick, press,
         release, InPoll, Running, vars, simvars, scenery
<1> QED
  BY <1>2, <1>3 DEF ChosenInv

\* Every start, and every reset of it: no two robots touch, and a match is set up
\* for its kick-off, for every field, keyframe, number of copies and team.
THEOREM StartLegal ==
  ASSUME StartFits
  PROVE  Spec => []StartIsLegal
<1>1. Init => ChosenInv
  <2> SUFFICES ASSUME Init PROVE ChosenInv
    OBVIOUS
  <2>1. PICK args \in CommandLines :
          LET opts == parse_cli(args)
              ok   == ~opts.exit /\ field_name(opts) \in DOMAIN Scenes
          IN  IF ok
              THEN process = "running" /\ cli = opts /\ config = build_sim_config(opts)
              ELSE process = "exited" /\ cli = CliOptions /\ config = NoConfig
    BY DEF Init, Start
  <2>2. data = "none"
    BY DEF Init, Start
  <2> QED
    BY <2>1, <2>2 DEF ChosenInv, Chosen
<1>2. ChosenInv /\ [Next]_vars => ChosenInv'
  BY ChosenInductive
<1>3. ViewerInv /\ ChosenInv => StartIsLegal
  <2> SUFFICES ASSUME ViewerInv, ChosenInv, Placed PROVE StartIsLegal
    BY DEF StartIsLegal
  <2>1. Chosen /\ world = place_robots(reset_data)
    BY DEF ViewerInv, StartInv, ChosenInv, Placed
  <2>2. LegalPlacement(world)
    BY <2>1, CopiesAreLegal, MatchIsLegal
  <2> QED
    BY <2>2 DEF LegalPlacement, StartIsLegal, InOwnHalf
<1> QED
  BY <1>1, <1>2, <1>3, Invariance, PTL DEF Spec
=============================================================================
