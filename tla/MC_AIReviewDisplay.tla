-------------------------- MODULE MC_AIReviewDisplay --------------------------
(* Model-checking instance of AIReviewDisplay: None is a model value, and   *)
(* every review value of the derivation tables is an input.                 *)
EXTENDS AIReviewDisplay
=============================================================================
