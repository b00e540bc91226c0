-------------------------- MODULE MC_AISettingsForm --------------------------
(***************************************************************************)
(* Model-checking instance of AISettingsForm: four saves, enough for two  *)
(* PATCHes to be in flight together when nothing holds the second back,  *)
(* and for saves after failed ones.                                       *)
(***************************************************************************)
EXTENDS AISettingsForm, TLC

MCMaxSaves == 4
=============================================================================
