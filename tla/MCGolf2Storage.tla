-------------------------- MODULE MCGolf2Storage --------------------------
EXTENDS Golf2Storage

CONSTANT a1
=============================================================================
