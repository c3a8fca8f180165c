----------------------------- MODULE ShutdownMC -----------------------------
EXTENDS Shutdown
CONSTANTS c1, c2
=============================================================================
