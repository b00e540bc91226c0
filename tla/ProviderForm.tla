----------------------------- MODULE ProviderForm -----------------------------
(***************************************************************************)
(* The form of the AI provider dialogs, and what it sends.  The create    *)
(* dialog (NewAIModalButton) starts from empty fields; choosing a provider *)
(* in its select fills the endpoint and model from providerDefaults.  The *)
(* update dialog (UpdateAIModal) starts from the provider row it was      *)
(* opened on, with an empty token.  On submit Formik validates the values *)
(* with the yup schema of the dialog, whose fields are trim()med before    *)
(* they are tested, and only if that passes calls handleSubmit, which     *)
(* sends the values as typed.  The server stores what it is sent.  The    *)
(* request's own life (loading, failure, hide) is ModalSubmit's; here a    *)
(* sent request succeeds.  Strings are TLA+ strings: the checks below are *)
(* the code's trim, required, min/max and regular expressions on them.    *)
(***************************************************************************)
EXTENDS Naturals, Sequences

CONSTANTS
    Ids,       \* provider ids the server can hand out
    Inputs,    \* Inputs[f]: the strings a user may type into field f
    Tokens,    \* the strings a user may type into the token field
    None

ASSUME FormAssumption ==
    /\ Inputs \in [{"endpoint", "model"} -> SUBSET STRING]
    /\ Tokens \subseteq STRING
    /\ None \notin STRING

VARIABLES
    dialog,   \* "none", "create" or "update": the dialog shown
    target,   \* the id the update dialog was opened on (the hook's ai)
    values,   \* Formik's values
    invalid,  \* the last submit failed validation (errors are shown)
    stored    \* stored[i]: the server's provider i, or None

vars == <<dialog, target, values, invalid, stored>>

\* The select's items: Gemini and Anthropic are commented out of the list.
Offered == {"openai", "azure", "deepseek"}

\* providerDefaults: the endpoint and model a provider choice fills in.
ProviderDefaults ==
    [p \in {"openai", "azure", "deepseek", "gemini", "anthropic"} |->
       CASE p = "openai"   -> [endpoint |-> "https://api.openai.com/v1",
                               model |-> "gpt-4o-mini"]
         [] p = "azure"    -> [endpoint |-> "", model |-> "gpt-4o-mini"]
         [] p = "deepseek" -> [endpoint |-> "https://api.deepseek.com/v1",
                               model |-> "deepseek-chat"]
         [] p = "gemini"   -> [endpoint |-> "https://api.gemini.com/v1",
                               model |-> "gemini-2.0-flash-exp"]
         [] p = "anthropic" -> [endpoint |-> "https://api.anthropic.com/v1",
                                model |-> "claude-3-5-sonnet-20241022"]]

Strings(f) == Inputs[f] \cup {ProviderDefaults[p][f] : p \in Offered} \cup {""}
Providers == Offered \cup {""}

Values == [provider : Providers, endpoint : Strings("endpoint"),
           model : Strings("model"), token : Tokens \cup {""}]

TypeOK ==
    /\ dialog \in {"none", "create", "update"}
    /\ target \in Ids \cup {None}
    /\ values \in Values
    /\ invalid \in BOOLEAN
    /\ stored \in [Ids -> Values \cup {None}]

-----------------------------------------------------------------------------
(* The string operations of the schema.                                    *)

Char(s, i) == SubSeq(s, i, i)
IsIn(c, chars) == \E i \in 1..Len(chars) : Char(chars, i) = c
Letter(c) == IsIn(c, "abcdefghijklmnopqrstuvwxyzABCDEFGHIJKLMNOPQRSTUVWXYZ")
Alnum(c) == Letter(c) \/ IsIn(c, "0123456789")

\* String.prototype.trim, for the white space a text field can hold.
Trim(s) ==
    LET kept == {i \in 1..Len(s) : Char(s, i) \notin {" ", "\t"}}
        first == CHOOSE i \in kept : \A j \in kept : i <= j
        last == CHOOSE i \in kept : \A j \in kept : j <= i
    IN IF kept = {} THEN "" ELSE SubSeq(s, first, last)

\* /^https?:\/\/.*$/
EndpointPattern(s) ==
    \/ Len(s) >= 7 /\ SubSeq(s, 1, 7) = "http://"
    \/ Len(s) >= 8 /\ SubSeq(s, 1, 8) = "https://"

\* /^[a-zA-Z][a-zA-Z0-9]*([-][a-zA-Z0-9]+)*$/
ModelPattern(s) ==
    /\ Len(s) >= 1
    /\ Letter(Char(s, 1))
    /\ \A i \in 1..Len(s) : Alnum(Char(s, i)) \/ Char(s, i) = "-"
    /\ Char(s, Len(s)) # "-"
    /\ \A i \in 1..Len(s) - 1 : ~(Char(s, i) = "-" /\ Char(s, i + 1) = "-")

\* The schema's tests on the trimmed endpoint, model and token.
Accepts(e, m, t) ==
    /\ e # "" /\ EndpointPattern(e)
    /\ m # "" /\ Len(m) >= 3 /\ Len(m) <= 30 /\ ModelPattern(m)
    /\ t # ""

\* The create dialog's validationSchema.
CreateSchema(v) == Accepts(Trim(v.endpoint), Trim(v.model), Trim(v.token))

\* Mutant: the update schema's fields without .trim().
UpdateSchemaWithoutTrim(v) == Accepts(v.endpoint, v.model, v.token)

\* The update dialog's validationSchema, a copy of the create one.
UpdateSchema(v) == Accepts(Trim(v.endpoint), Trim(v.model), Trim(v.token))

-----------------------------------------------------------------------------
Empty == [provider |-> "", endpoint |-> "", model |-> "", token |-> ""]

Init ==
    /\ dialog = "none"
    /\ target = None
    /\ values = Empty
    /\ invalid = FALSE
    /\ stored = [i \in Ids |-> None]

\* The create dialog mounts with formInitialValues.
OpenCreate ==
    /\ dialog = "none"
    /\ dialog' = "create"
    /\ values' = Empty
    /\ invalid' = FALSE
    /\ UNCHANGED <<target, stored>>

\* openModal on a row: ai is the row's provider, the token starts empty.
OpenUpdate(i) ==
    /\ dialog = "none"
    /\ stored[i] # None
    /\ dialog' = "update"
    /\ target' = i
    /\ values' = [stored[i] EXCEPT !.token = ""]
    /\ invalid' = FALSE
    /\ UNCHANGED stored

\* Mutant: the select storing the item's label instead of its value.
SelectProviderStoringLabel(p) ==
    /\ dialog = "create"
    /\ values' = [values EXCEPT !.provider = IF p = "openai" THEN "OpenAI"
                                             ELSE IF p = "azure" THEN "Azure"
                                             ELSE "DeepSeek",
                                !.endpoint = ProviderDefaults[p].endpoint,
                                !.model = ProviderDefaults[p].model]
    /\ UNCHANGED <<dialog, target, invalid, stored>>

\* The provider select: its value, then the onChange that fills defaults.
SelectProvider(p) ==
    /\ dialog = "create"
    /\ values' = [values EXCEPT !.provider = p,
                                !.endpoint = ProviderDefaults[p].endpoint,
                                !.model = ProviderDefaults[p].model]
    /\ UNCHANGED <<dialog, target, invalid, stored>>

\* The user types into a text field.
Edit(f, s) ==
    /\ dialog # "none"
    /\ values' = [values EXCEPT ![f] = s]
    /\ UNCHANGED <<dialog, target, invalid, stored>>

(***************************************************************************)
(* Submit.  Formik runs the dialog's schema; if it fails the errors are   *)
(* shown and nothing is sent.  Otherwise handleSubmit sends the values as *)
(* typed: a create stores a new provider under an id the server chooses,  *)
(* an update replaces the endpoint, model and token of its target.        *)
(***************************************************************************)
Submit ==
    /\ dialog # "none"
    /\ IF dialog = "create"
       THEN IF CreateSchema(values)
            THEN \E i \in Ids :
                    /\ stored[i] = None
                    /\ stored' = [stored EXCEPT ![i] = values]
                    /\ dialog' = "none" /\ invalid' = FALSE
            ELSE invalid' = TRUE /\ UNCHANGED <<dialog, stored>>
       ELSE IF UpdateSchema(values)
            THEN /\ stored' = [stored EXCEPT ![target] =
                                 [@ EXCEPT !.endpoint = values.endpoint,
                                           !.model = values.model,
                                           !.token = values.token]]
                 /\ dialog' = "none" /\ invalid' = FALSE
            ELSE invalid' = TRUE /\ UNCHANGED <<dialog, stored>>
    /\ UNCHANGED <<target, values>>

\* Cancel or the dialog's onClose.
Close ==
    /\ dialog # "none"
    /\ dialog' = "none"
    /\ UNCHANGED <<target, values, invalid, stored>>

Next ==
    \/ OpenCreate
    \/ \E i \in Ids : OpenUpdate(i)
    \/ \E p \in Offered : SelectProvider(p)
    \/ \E f \in {"endpoint", "model"} : \E s \in Inputs[f] : Edit(f, s)
    \/ \E t \in Tokens : Edit("token", t)
    \/ Submit
    \/ Close

Spec == Init /\ [][Next]_vars

-----------------------------------------------------------------------------
(* Properties.                                                             *)

(***************************************************************************)
(* A provider the create dialog stored can be edited: the update dialog   *)
(* opened on it, with a token typed in, accepts the values it starts from. *)
(* The two dialogs' schemas, and what create sends, must agree for this.  *)
(***************************************************************************)
StoredProviderEditable ==
    \A i \in Ids : \A t \in Tokens :
        stored[i] # None => UpdateSchema([stored[i] EXCEPT !.token = t])
                            \/ Trim(t) = ""

(***************************************************************************)
(* What the server is sent is what the schema describes: every stored     *)
(* endpoint starts with http:// or https:// and every stored model matches *)
(* the model expression.                                                   *)
(***************************************************************************)
SentMatchesSchema ==
    \A i \in Ids :
        stored[i] # None =>
            EndpointPattern(stored[i].endpoint) /\ ModelPattern(stored[i].model)

=============================================================================
