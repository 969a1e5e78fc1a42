---------------------------- MODULE MCBridgeCalls ----------------------------
EXTENDS BridgeCalls, TLC

AllMethods == Methods
ThreadSymmetry == Permutations(Threads)
=============================================================================
