------------------------ MODULE MCLocomotionHistory -------------------------
EXTENDS LocomotionHistory

MCAttitudes == {[tilt |-> 0, spinning |-> FALSE, low |-> FALSE]}
=============================================================================
