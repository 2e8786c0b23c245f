------------------------------ MODULE MCDeploy ------------------------------
EXTENDS DeployProperties, TLC
CONSTANTS s1, s2, s3, r1, r2, r3
MCSymmetry == Permutations(Run) \cup Permutations(Sha)
=============================================================================
