-------------------------- MODULE MCWorkspaceLock --------------------------
(* Instances of WorkspaceLock for TLC.                                      *)
EXTENDS WorkspaceLock

CONSTANTS p1, p2, workspace, other, none, nolock

TwoProcs == {p1, p2}
TwoLocks == {workspace, other}
OneLock == {workspace}
=============================================================================
