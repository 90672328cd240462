------------------------- MODULE MCPluginScheduler -------------------------
\* Instances of PluginScheduler for TLC.
EXTENDS PluginScheduler, TLC

InstanceSymmetry == Permutations(Instances)
=============================================================================
