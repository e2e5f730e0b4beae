-------------------------- MODULE MCWorkspaceLock --------------------------
EXTENDS WorkspaceLock

CONSTANTS p1, p2, p3
============================================================================
