---------------------------- MODULE AISettingsForm ----------------------------
(***************************************************************************)
(* The repository's AI settings page (AISettings).  useGet loads the      *)
(* settings; the Formik form starts from them and holds one toggle,       *)
(* aiReviewEnable.  Save submits the form: handleSubmit PATCHes the       *)
(* setting and on success resets the form to the value the server         *)
(* answered, so that the form is clean again.  The onSubmit arrow does    *)
(* not return handleSubmit's promise, so Formik ends isSubmitting at once *)
(* and the save button, disabled={formik.isSubmitting}, is enabled while  *)
(* the PATCH is in flight.  The LoadingSpinner shown while isUpdating    *)
(* does not disable the form: nothing in the code stops a second save.    *)
(***************************************************************************)
EXTENDS Naturals

CONSTANTS
    MaxSaves,       \* bound on the saves of a behaviour
    None

ASSUME SettingsAssumption ==
    /\ MaxSaves \in Nat
    /\ None \notin BOOLEAN

VARIABLES
    srv,       \* the server's ai_review_enabled
    provider,  \* the space has an AI provider (space_ai_provider # 0)
    loaded,    \* useGet's aiSettings?.ai_review_enabled, or None
    initial,   \* Formik's initialValues.aiReviewEnable
    values,    \* Formik's values.aiReviewEnable
    updating,  \* useMutate's loading (isUpdating)
    patches,   \* PATCH requests in flight: [id, val, st]
    saves,     \* saves so far
    overlapped \* history: a save was sent while an earlier PATCH was in flight

vars == <<srv, provider, loaded, initial, values, updating, patches, saves,
          overlapped>>

Patch == [id : 1..MaxSaves, val : BOOLEAN, st : {"sent", "ok", "failed"}]

TypeOK ==
    /\ srv \in BOOLEAN
    /\ provider \in BOOLEAN
    /\ loaded \in BOOLEAN \cup {None}
    /\ initial \in BOOLEAN
    /\ values \in BOOLEAN
    /\ updating \in BOOLEAN
    /\ patches \subseteq Patch
    /\ saves \in 0..MaxSaves
    /\ overlapped \in BOOLEAN

-----------------------------------------------------------------------------
\* The user can reach the form: it is rendered once the settings loaded.
Usable == loaded # None

\* Mutant: Formik mounted before the settings load, from undefined values.
InitMountingEarly ==
    /\ srv \in BOOLEAN
    /\ provider \in BOOLEAN
    /\ loaded = None
    /\ initial = loaded
    /\ values = loaded
    /\ updating = FALSE
    /\ patches = {}
    /\ saves = 0
    /\ overlapped = FALSE

Init ==
    /\ srv \in BOOLEAN
    /\ provider \in BOOLEAN
    /\ loaded = None
    /\ initial = FALSE
    /\ values = FALSE
    /\ updating = FALSE
    /\ patches = {}
    /\ saves = 0
    /\ overlapped = FALSE

\* useGet's settings arrive and Formik mounts with them as initialValues.
Load ==
    /\ loaded = None
    /\ loaded' = srv
    /\ initial' = srv
    /\ values' = srv
    /\ UNCHANGED <<srv, provider, updating, patches, saves, overlapped>>

\* The user flips the toggle.
Toggle ==
    /\ Usable
    /\ values' = ~values
    /\ UNCHANGED <<srv, provider, loaded, initial, updating, patches, saves,
                   overlapped>>

(***************************************************************************)
(* Save: the button is disabled when the space has no AI provider, and    *)
(* otherwise only while isSubmitting, which Formik ends as soon as the    *)
(* onSubmit arrow returns.  handleSubmit sends the PATCH.                 *)
(***************************************************************************)
Save ==
    /\ Usable
    /\ provider
    /\ saves < MaxSaves
    /\ patches' = patches \cup {[id |-> saves + 1, val |-> values, st |-> "sent"]}
    /\ updating' = TRUE
    /\ saves' = saves + 1
    /\ overlapped' = (overlapped \/ patches # {})
    /\ UNCHANGED <<srv, provider, loaded, initial, values>>

\* The server applies a PATCH and answers the new setting, or fails it.
Apply(p) ==
    /\ p.st = "sent"
    /\ \/ srv' = p.val /\ patches' = (patches \ {p}) \cup {[p EXCEPT !.st = "ok"]}
       \/ UNCHANGED srv /\ patches' = (patches \ {p}) \cup {[p EXCEPT !.st = "failed"]}
    /\ UNCHANGED <<provider, loaded, initial, values, updating, saves, overlapped>>

\* Mutant: the form reset to the settings loaded with the page.
SettleResettingToLoaded(p) ==
    /\ p.st # "sent"
    /\ patches' = patches \ {p}
    /\ updating' = FALSE
    /\ IF p.st = "ok"
       THEN initial' = loaded /\ values' = loaded
       ELSE UNCHANGED <<initial, values>>
    /\ UNCHANGED <<srv, provider, loaded, saves, overlapped>>

(***************************************************************************)
(* The PATCH settles: useMutate clears isUpdating; on success handleSubmit *)
(* resets the form to the answered value (new initialValues and values),  *)
(* on failure it shows a toast and the form keeps the user's edit.        *)
(***************************************************************************)
Settle(p) ==
    /\ p.st # "sent"
    /\ patches' = patches \ {p}
    /\ updating' = FALSE
    /\ IF p.st = "ok"
       THEN initial' = p.val /\ values' = p.val
       ELSE UNCHANGED <<initial, values>>
    /\ UNCHANGED <<srv, provider, loaded, saves, overlapped>>

Next ==
    \/ Load
    \/ Toggle
    \/ Save
    \/ \E p \in patches : Apply(p) \/ Settle(p)

Spec == Init /\ [][Next]_vars

-----------------------------------------------------------------------------
(* Properties.                                                             *)

(***************************************************************************)
(* A clean form shows what the server holds: once no PATCH is in flight,  *)
(* a form that is not dirty (NavigationCheck lets the user leave without  *)
(* a warning) shows the server's setting.  TLC violates it: onSubmit lets *)
(* a second save start while the first PATCH is in flight, and the two    *)
(* resetForm calls of handleSubmit land in the order the PATCHes settle.  *)
(***************************************************************************)
CleanFormMatchesServer ==
    loaded # None /\ patches = {} /\ values = initial => initial = srv

(***************************************************************************)
(* Overlap is the only way to a wrong clean form: as long as every save   *)
(* was sent after the previous PATCH settled, a clean form with nothing   *)
(* in flight shows the server's setting, however saves fail or succeed,  *)
(* and whatever the user toggled while a PATCH was in flight (handleSubmit *)
(* and its resetForm with the server's answer).                           *)
(***************************************************************************)
SerialSavesKeepFormClean ==
    ~overlapped => CleanFormMatchesServer

=============================================================================
