--------------------------- MODULE MC_ModalSubmit ---------------------------
(***************************************************************************)
(* Model-checking instance of ModalSubmit: the two create dialogs, which  *)
(* read useMutate's live loading, and UpdateAIModal, whose memoised       *)
(* dialog reads a captured one.  Three requests in flight per dialog let  *)
(* a cancelled dialog's request overlap two submits of the next one.      *)
(***************************************************************************)
EXTENDS ModalSubmit, TLC

CONSTANTS create, prompt, update

MCLive == {create, prompt}
MCUpdate == {update}
MCMaxInFlight == 3
=============================================================================
