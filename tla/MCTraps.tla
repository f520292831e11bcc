------------------------------- MODULE MCTraps -------------------------------
EXTENDS Traps
=============================================================================
