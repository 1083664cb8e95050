----------------------- MODULE MCLocomotionController -----------------------
EXTENDS LocomotionController

\* Toppling over; lying across something, down by its tilt alone; kneeling with
\* an upright trunk, down by its height alone.
MCAttitudes ==
  {[tilt |-> 1, spinning |-> TRUE,  low |-> FALSE],
   [tilt |-> 2, spinning |-> FALSE, low |-> FALSE],
   [tilt |-> 0, spinning |-> FALSE, low |-> TRUE]}
=============================================================================
