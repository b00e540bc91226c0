------------------------- MODULE MC_AIProviderList -------------------------
(***************************************************************************)
(* Model-checking instance of AIProviderList: two provider ids, pages of  *)
(* one row so that two pages exist with two providers, one search term    *)
(* that matches a single provider, and two server changes (one for the  *)
(* liveness run).                                                          *)
(***************************************************************************)
EXTENDS AIProviderList, TLC

CONSTANTS q1

MCIds == {1, 2}
MCLimit == 1
MCMaxPage == 2
MCQueries == {q1}
MCMatch == [q \in MCQueries |-> {1}]
\* Two mutations at once, each applied: their refetches can race.
MCMaxVer == 2
MCMaxMuts == 2
\* One mutation: enough for a change that must reach the list.
MCOneChange == 1
=============================================================================
