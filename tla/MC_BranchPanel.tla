--------------------------- MODULE MC_BranchPanel ---------------------------
(***************************************************************************)
(* Model-checking instance of BranchPanel: two shas, so that a push can  *)
(* move the branch off the PR's recorded sha, and three outside events    *)
(* (a close, a reopen, a push, a deletion, a child's refetch, a failed    *)
(* request).  Once they are spent and nothing is in flight the panel      *)
(* waits for the user: the run does not check for deadlock.              *)
(***************************************************************************)
EXTENDS BranchPanel, TLC

CONSTANTS a, b

MCShas == {a, b}
MCMaxEvents == 3
=============================================================================
