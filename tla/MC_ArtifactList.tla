--------------------------- MODULE MC_ArtifactList ---------------------------
(***************************************************************************)
(* Model-checking instance of ArtifactList: three artifacts of two        *)
(* formats, pages of one artifact, and one search term matching two of   *)
(* them, so that a search, a filter and the plain list have different    *)
(* page counts.  A URL can open page 1 or 2.                              *)
(***************************************************************************)
EXTENDS ArtifactList, TLC

CONSTANTS raw, helm, q1

MCArtifacts == {1, 2, 3}
MCFormats == {raw, helm}
MCFormat == (1 :> raw) @@ (2 :> helm) @@ (3 :> raw)
MCQueries == {q1}
MCMatch == (q1 :> {1, 2})
MCLimit == 1
MCMaxPage == 2
=============================================================================
