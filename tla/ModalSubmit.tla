----------------------------- MODULE ModalSubmit -----------------------------
(***************************************************************************)
(* The submit path of the AI provider dialogs: NewAIModalButton (create a  *)
(* provider), NewAIModalPromptButton (create a prompt) and UpdateAIModal   *)
(* (update a provider).  Each dialog is a function memoised by            *)
(* useModalHook on its deps and called by the modal root while it is      *)
(* shown.  The submit button is disabled while useMutate's loading is     *)
(* true; the two create dialogs call useMutate inside the dialog and read *)
(* its live state, UpdateAIModal calls it in the hook around the dialog,  *)
(* so the dialog reads the loading its memoised closure captured.         *)
(* A submit runs Formik's validation and then handleSubmit, which awaits  *)
(* the request, and on success hides the dialog and calls the caller's    *)
(* callback; on failure it shows a toast and the dialog stays open.       *)
(***************************************************************************)
EXTENDS Naturals

CONSTANTS
    Modals,       \* the dialogs
    Captured,     \* the dialogs whose button reads a captured loading
    MaxInFlight   \* bound on the requests one dialog has in flight

ASSUME ModalAssumption ==
    /\ Captured \subseteq Modals
    /\ MaxInFlight \in Nat \ {0}

VARIABLES
    isOpen,    \* isOpen[m]: the dialog is shown
    loading,   \* loading[m]: useMutate's loading state
    memo,      \* memo[m]: the loading the memoised dialog function captured
    cur,       \* cur[m]: requests in flight sent from the dialog now shown
    old        \* old[m]: requests in flight sent from a dialog since closed

vars == <<isOpen, loading, memo, cur, old>>

Counts == 0..MaxInFlight

TypeOK ==
    /\ isOpen \in [Modals -> BOOLEAN]
    /\ loading \in [Modals -> BOOLEAN]
    /\ memo \in [Modals -> BOOLEAN]
    /\ cur \in [Modals -> Counts]
    /\ old \in [Modals -> Counts]

-----------------------------------------------------------------------------
\* The loading the submit button reads: disabled={loading}.
ButtonLoading(m) == IF m \in Captured THEN memo[m] ELSE loading[m]

Init ==
    /\ isOpen = [m \in Modals |-> FALSE]
    /\ loading = [m \in Modals |-> FALSE]
    /\ memo = [m \in Modals |-> FALSE]
    /\ cur = [m \in Modals |-> 0]
    /\ old = [m \in Modals |-> 0]

(***************************************************************************)
(* openModal.  A create dialog mounts afresh, with useMutate's state      *)
(* reset.  UpdateAIModal's openModal sets ai to the row; when that is a   *)
(* new object the deps [ai] change and the dialog function is memoised    *)
(* again with the hook's current loading, otherwise the old one stays.    *)
(***************************************************************************)
Open(m) ==
    /\ ~isOpen[m]
    /\ isOpen' = [isOpen EXCEPT ![m] = TRUE]
    /\ IF m \in Captured
       THEN memo' \in {memo, [memo EXCEPT ![m] = loading[m]]}
            /\ UNCHANGED loading
       ELSE loading' = [loading EXCEPT ![m] = FALSE] /\ UNCHANGED memo
    /\ cur' = [cur EXCEPT ![m] = 0]
    /\ old' = [old EXCEPT ![m] = @ + cur[m]]

\* Mutant: the submit button without disabled={loading}.
SubmitIgnoringLoading(m) ==
    /\ isOpen[m]
    /\ cur[m] + old[m] < MaxInFlight
    /\ cur' = [cur EXCEPT ![m] = @ + 1]
    /\ loading' = [loading EXCEPT ![m] = TRUE]
    /\ UNCHANGED <<isOpen, memo, old>>

(***************************************************************************)
(* A click on the enabled submit button: Formik validates (in microtasks, *)
(* before the next click can arrive) and handleSubmit calls mutate, which *)
(* sets loading.                                                           *)
(***************************************************************************)
Submit(m) ==
    /\ isOpen[m]
    /\ ~ButtonLoading(m)
    /\ cur[m] + old[m] < MaxInFlight
    /\ cur' = [cur EXCEPT ![m] = @ + 1]
    /\ loading' = [loading EXCEPT ![m] = TRUE]
    /\ UNCHANGED <<isOpen, memo, old>>

\* Mutant: a settled request taken off the wrong dialog's count.
SettleSwappingCounts(m, fromCur, ok) ==
    /\ IF fromCur THEN cur[m] > 0 ELSE old[m] > 0
    /\ cur' = IF fromCur THEN cur ELSE [cur EXCEPT ![m] = @ - 1]
    /\ old' = IF fromCur THEN [old EXCEPT ![m] = @ - 1] ELSE old
    /\ loading' = IF fromCur \/ m \in Captured
                  THEN [loading EXCEPT ![m] = FALSE] ELSE loading
    /\ isOpen' = IF ok THEN [isOpen EXCEPT ![m] = FALSE] ELSE isOpen
    /\ UNCHANGED memo

\* Mutant: loading cleared only when the request succeeds.
SettleKeepingLoadingOnError(m, fromCur, ok) ==
    /\ IF fromCur THEN cur[m] > 0 ELSE old[m] > 0
    /\ cur' = IF fromCur THEN [cur EXCEPT ![m] = @ - 1] ELSE cur
    /\ old' = IF fromCur THEN old ELSE [old EXCEPT ![m] = @ - 1]
    /\ loading' = IF ok /\ (fromCur \/ m \in Captured)
                  THEN [loading EXCEPT ![m] = FALSE] ELSE loading
    /\ isOpen' = IF ok THEN [isOpen EXCEPT ![m] = FALSE] ELSE isOpen
    /\ UNCHANGED memo

(***************************************************************************)
(* A request settles.  useMutate clears loading, unless it belongs to a   *)
(* create dialog that has since unmounted.  On success handleSubmit's     *)
(* continuation calls hideModal, which hides whatever dialog of that     *)
(* button is shown, and then the caller's callback.                       *)
(***************************************************************************)
Settle(m, fromCur, ok) ==
    /\ IF fromCur THEN cur[m] > 0 ELSE old[m] > 0
    /\ cur' = IF fromCur THEN [cur EXCEPT ![m] = @ - 1] ELSE cur
    /\ old' = IF fromCur THEN old ELSE [old EXCEPT ![m] = @ - 1]
    /\ loading' = IF fromCur \/ m \in Captured
                  THEN [loading EXCEPT ![m] = FALSE] ELSE loading
    /\ isOpen' = IF ok THEN [isOpen EXCEPT ![m] = FALSE] ELSE isOpen
    /\ UNCHANGED memo

\* The cancel button or the dialog's onClose: hideModal.
Close(m) ==
    /\ isOpen[m]
    /\ isOpen' = [isOpen EXCEPT ![m] = FALSE]
    /\ UNCHANGED <<loading, memo, cur, old>>

Next ==
    \E m \in Modals :
        \/ Open(m)
        \/ Submit(m)
        \/ \E fromCur, ok \in BOOLEAN : Settle(m, fromCur, ok)
        \/ Close(m)

\* Requests settle; the user gets no fairness.
Spec == Init /\ [][Next]_vars
            /\ \A m \in Modals :
                  WF_vars(\E fromCur, ok \in BOOLEAN : Settle(m, fromCur, ok))

-----------------------------------------------------------------------------
(* Properties.                                                             *)

(***************************************************************************)
(* The dialog shown never has two requests in flight: the button's        *)
(* disabled={loading} holds back a second submit until the first settles.*)
(***************************************************************************)
NoDoubleSubmit == \A m \in Modals : cur[m] <= 1

(***************************************************************************)
(* A disabled submit button does not stay disabled: once the requests    *)
(* settle, the dialog shown can be submitted again (or it is gone).      *)
(***************************************************************************)
SubmitEventuallyReenabled ==
    \A m \in Modals :
        isOpen[m] /\ ButtonLoading(m) ~> ~isOpen[m] \/ ~ButtonLoading(m)

=============================================================================
