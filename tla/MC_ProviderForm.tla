---------------------------- MODULE MC_ProviderForm ----------------------------
(***************************************************************************)
(* One provider id, created and then updated again and again.  Besides   *)
(* the defaults the select fills in, the user may type an endpoint with a *)
(* leading space or another scheme, a model name with a leading space or  *)
(* with a dot (as in "gpt-3.5"), and a token.                             *)
(***************************************************************************)
EXTENDS ProviderForm

MCIds == {1}
MCInputs == [f \in {"endpoint", "model"} |->
               IF f = "endpoint" THEN {" https://a.io", "ftp://a.io"}
                                 ELSE {" gpt-4o", "gpt-3.5"}]
MCTokens == {"t"}

=============================================================================
