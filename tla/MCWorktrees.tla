----------------------------- MODULE MCWorktrees -----------------------------
(* Instances of Worktrees for TLC.                                          *)
EXTENDS Worktrees

CONSTANTS p1, p2, none, flat, nested, temp, space, noid

TwoProcs == {p1, p2}
FlatKey == {flat}
NestedKey == {nested}
TempIds == {temp}
OneSpace == {space}
NoSpaces == {}
NestedIn == [k \in {nested} |-> space]
NestedNowhere == [k \in {} |-> space]
=============================================================================
