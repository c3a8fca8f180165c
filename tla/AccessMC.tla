------------------------------ MODULE AccessMC ------------------------------
EXTENDS Access
CONSTANTS k1, k2
=============================================================================
