------------------------------ MODULE Placement ------------------------------
(***************************************************************************)
(* Where the robots stand when a simulation starts: the default grid of    *)
(* the extra robots (extra_spawn) and the positions of a match             *)
(* (config::game, with spread_in_half).  Lengths are centimetres, yaws are *)
(* quarter turns from +x.  Robots and poses are numbered from 0, as there. *)
(* The grid spread_in_half samples is Step wide and relaxed Iterations     *)
(* times: 10 and 100 in the code.                                          *)
(***************************************************************************)
EXTENDS Integers, Sequences, FiniteSets, FiniteSetsExt

CONSTANTS Step, Iterations

ASSUME PlacementAssumption == Step \in Nat \ {0} /\ Iterations \in Nat

Position == [x : Int, y : Int]

SquaredDistance(p, q) == (p.x - q.x) * (p.x - q.x) + (p.y - q.y) * (p.y - q.y)

\* The slot of extra robot k: rows of five, on alternate sides of the x axis.
extra_spawn(k) ==
  LET col == (k - 1) % 5
      row == (k - 1) \div 5
      side == IF row % 2 = 0 THEN 1 ELSE -1
  IN  [x |-> 150 * col - 300, y |-> side * (120 + 120 * (row \div 2)), yaw |-> 0]

-----------------------------------------------------------------------------
(* spread_in_half *)

\* The centres of the grid cells of the -x half that are outside the circle.
Samples(field) ==
  LET xs == {x \in {Step \div 2 - field.length \div 2 + i * Step :
                     i \in 0 .. field.length \div Step} : x < 0}
      ys == {y \in {Step \div 2 - field.width \div 2 + i * Step :
                     i \in 0 .. field.width \div Step} : 2 * y < field.width}
  IN  {p \in [x : xs, y : ys] :
         SquaredDistance(p, [x |-> 0, y |-> 0])
           > field.centre_circle_radius * field.centre_circle_radius}

\* The samples are visited column by column.
Before(p, q) == p.x < q.x \/ (p.x = q.x /\ p.y < q.y)

\* The robot p belongs to: the first of the closest.
nearest(robots, p) ==
  CHOOSE r \in DOMAIN robots :
    \A s \in DOMAIN robots :
      \/ SquaredDistance(p, robots[r]) < SquaredDistance(p, robots[s])
      \/ SquaredDistance(p, robots[r]) = SquaredDistance(p, robots[s]) /\ r <= s

\* The sample farthest from every robot, the first of several.
Farthest(samples, robots) ==
  LET gap == [p \in samples |->
               IF robots = <<>> THEN 0
               ELSE SquaredDistance(p, robots[nearest(robots, p)])]
      far == {p \in samples : \A q \in samples : gap[p] >= gap[q]}
  IN  CHOOSE p \in far : \A q \in far : p = q \/ Before(p, q)

Centroid(cell) ==
  [x |-> MapThenSumSet(LAMBDA p : p.x, cell) \div Cardinality(cell),
   y |-> MapThenSumSet(LAMBDA p : p.y, cell) \div Cardinality(cell)]

\* Each free robot moves to the middle of the samples that belong to it.
Relaxed(samples, robots, nfixed) ==
  LET cell(r)  == {p \in samples : nearest(robots, p) = r}
      settled(r) == IF cell(r) = {} THEN robots[r] ELSE Centroid(cell(r))
  IN  SubSeq(robots, 1, nfixed)
      \o [i \in 1 .. Len(robots) - nfixed |-> settled(nfixed + i)]

\* Robots are added at the farthest samples, then relaxed.
spread_in_half(fixed, free, field) ==
  LET samples == Samples(field)
      seeded[robots \in Seq(Position)] ==
        IF Len(robots) >= Len(fixed) + free THEN robots
        ELSE seeded[Append(robots, Farthest(samples, robots))]
      relaxed[i \in 0 .. Iterations, robots \in Seq(Position)] ==
        IF i = 0 THEN robots
        ELSE relaxed[i - 1, Relaxed(samples, robots, Len(fixed))]
  IN  SubSeq(relaxed[Iterations, seeded[fixed]], Len(fixed) + 1, Len(fixed) + free)

-----------------------------------------------------------------------------
(* game: one team's poses in its own -x half, then the other's, mirrored    *)
(* through the centre and turned round.                                    *)

Facing(p, yaw) == [x |-> p.x, y |-> p.y, yaw |-> yaw % 4]

KickoffPositions(cfg, n) ==
  LET fixed == SubSeq(<<cfg.attacker, cfg.goalkeeper>> \o cfg.wings, 1,
                      IF n < Len(cfg.wings) + 2 THEN n ELSE Len(cfg.wings) + 2)
      team  == fixed \o spread_in_half(fixed, n - Len(fixed), cfg)
  IN  [i \in 1 .. n |-> Facing(team[i], 0)]

LineUp_SlotOfPair(cfg, n) ==
  [j \in 1 .. n |->
    LET i    == j - 1
        side == IF (i \div 2) % 2 = 0 THEN -1 ELSE 1
    IN  Facing([x |-> cfg.penalty_mark_distance - cfg.length \div 2
                      + (i \div 4) * cfg.sideline_spacing,
                y |-> side * (cfg.width \div 2 + cfg.sideline_offset)], -side)]

\* Two at a time on alternate sides, -y first, from the penalty mark on.
LineUp(cfg, n) ==
  [j \in 1 .. n |->
    LET i    == j - 1
        side == IF (i \div 2) % 2 = 0 THEN -1 ELSE 1
        slot == (i \div 4) * 2 + (i % 2)
    IN  Facing([x |-> cfg.penalty_mark_distance - cfg.length \div 2
                      + slot * cfg.sideline_spacing,
                y |-> side * (cfg.width \div 2 + cfg.sideline_offset)], -side)]

Mirrored(p) == Facing([x |-> -p.x, y |-> -p.y], p.yaw + 2)

\* spawns, numbered from 0.
game(cfg, n, on_field) ==
  LET team == IF on_field THEN KickoffPositions(cfg, n) ELSE LineUp(cfg, n)
  IN  [k \in 0 .. 2 * n - 1 |->
        IF k < n THEN team[k + 1] ELSE Mirrored(team[k - n + 1])]
=============================================================================
