---------------------------- MODULE MCWorkspacePool ----------------------------
EXTENDS WorkspacePool
================================================================================
