------------------------- MODULE MCSessionRegistry -------------------------
\* Instances of SessionRegistry for TLC.
EXTENDS SessionRegistry, TLC

InstanceSymmetry == Permutations(Instances)
=============================================================================
