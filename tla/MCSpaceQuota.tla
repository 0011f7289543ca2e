------------------------------ MODULE MCSpaceQuota ------------------------------
EXTENDS SpaceQuota, TLC

\* Sessions run the same code.
SessionSymmetry == Permutations(Sessions)
===============================================================================
