--------------------------- MODULE MCWorkspaceSync ---------------------------
\* Small instances of WorkspaceSync.
EXTENDS WorkspaceSync, TLC
Symmetric == Permutations(Logins)
=============================================================================
