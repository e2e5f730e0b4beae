----------------------- MODULE MCWorkspaceTransaction -----------------------
EXTENDS WorkspaceTransaction

CONSTANTS d1, d2, w1, w2
============================================================================
