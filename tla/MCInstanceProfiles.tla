-------------------------- MODULE MCInstanceProfiles --------------------------
EXTENDS InstanceProfiles

CONSTANTS i1, i2, A, B, e1, s1, c1
=============================================================================
