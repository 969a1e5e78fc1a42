------------------------------ MODULE MCLoader ------------------------------
EXTENDS Loader
CONSTANTS p1, p2, p3
=============================================================================
