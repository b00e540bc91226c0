------------------------- MODULE MC_AIReviewPoller -------------------------
(***************************************************************************)
(* Model-checking instance of AIReviewPoller.  Three closure slots are     *)
(* enough: with four, no reachable state has more than three closures      *)
(* alive (the current one, one torn down while its refetch is in flight,   *)
(* and one whose timer fired before the effect re-ran).                    *)
(***************************************************************************)
EXTENDS AIReviewPoller, TLC

CONSTANTS p1, p2, s1, s2, s3

\* Two repositories, so that a path change aborts fetches of another key.
MCPaths == {p1, p2}
\* One repository (with the undefined path) for the run that checks the
\* liveness property as well: symmetry is unsound for it, and without
\* symmetry two paths take minutes.
MCOnePath == {p1}
MCSlots == {s1, s2, s3}
\* One push per repository: a newer review can overtake an older one.
MCMaxRev == 1

\* Closure slots are interchangeable (the safety-only violation runs).
SlotSymmetry == Permutations(MCSlots)
=============================================================================
