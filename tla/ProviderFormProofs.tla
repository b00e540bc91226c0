-------------------------- MODULE ProviderFormProofs --------------------------
(***************************************************************************)
(* Proofs about the form of the AI provider dialogs, for any provider ids *)
(* and any strings the user may type.  The schema's string tests (trim,   *)
(* the patterns) are never unfolded: the argument only needs that both    *)
(* dialogs run the same tests and that the token test is the last one.    *)
(***************************************************************************)
EXTENDS ProviderForm, TLAPS

(***************************************************************************)
(* The inductive invariant.  Every stored provider passes the update      *)
(* dialog's schema, and the update dialog is only ever open on a stored   *)
(* provider.  StoredProviderEditable alone is not inductive: it says      *)
(* nothing of the stored token, which an update's schema also tests.     *)
(***************************************************************************)
StoredValid == \A i \in Ids : stored[i] # None => UpdateSchema(stored[i])
UpdTarget == dialog = "update" => target \in Ids /\ stored[target] # None

IInv == TypeOK /\ StoredValid /\ UpdTarget

\* The schemas test only the endpoint, the model and the token, and the
\* create dialog's is the update dialog's.
LEMMA SchemaFields ==
    ASSUME NEW v, NEW w,
           v.endpoint = w.endpoint, v.model = w.model, v.token = w.token
    PROVE  /\ UpdateSchema(v) = UpdateSchema(w)
           /\ CreateSchema(v) = UpdateSchema(v)
BY DEF UpdateSchema, CreateSchema

\* The fields the select fills in are ones the form can hold.
LEMMA DefaultsType ==
    ASSUME NEW p \in Offered
    PROVE  /\ ProviderDefaults[p].endpoint \in Strings("endpoint")
           /\ ProviderDefaults[p].model \in Strings("model")
BY DEF Strings

LEMMA InitIInv == Init => IInv
<1> SUFFICES ASSUME Init PROVE IInv
  OBVIOUS
<1>1. values \in Values
  BY DEF Init, Empty, Values, Providers, Strings
<1>2. TypeOK
  BY <1>1 DEF Init, TypeOK
<1>3. QED
  BY <1>2 DEF Init, IInv, StoredValid, UpdTarget

LEMMA NextIInv == IInv /\ [Next]_vars => IInv'
<1> SUFFICES ASSUME IInv, [Next]_vars PROVE IInv'
  OBVIOUS
<1> USE DEF IInv
<1>1. CASE OpenCreate
  <2>1. values' \in Values
    BY <1>1 DEF OpenCreate, Empty, Values, Providers, Strings
  <2>2. QED
    BY <1>1, <2>1 DEF OpenCreate, TypeOK, StoredValid, UpdTarget
<1>2. ASSUME NEW i \in Ids, OpenUpdate(i) PROVE IInv'
  <2>1. stored[i] \in Values
    BY <1>2 DEF OpenUpdate, TypeOK
  <2>2. values' \in Values
    BY <1>2, <2>1, FormAssumption DEF OpenUpdate, Values
  <2>3. QED
    BY <1>2, <2>2 DEF OpenUpdate, TypeOK, StoredValid, UpdTarget
<1>3. ASSUME NEW p \in Offered, SelectProvider(p) PROVE IInv'
  <2>1. values' \in Values
    BY <1>3, DefaultsType DEF SelectProvider, TypeOK, Values, Providers
  <2>2. QED
    BY <1>3, <2>1 DEF SelectProvider, TypeOK, StoredValid, UpdTarget
<1>4. ASSUME NEW f \in {"endpoint", "model"}, NEW s \in Inputs[f], Edit(f, s)
      PROVE  IInv'
  <2>1. values' \in Values
    BY <1>4 DEF Edit, TypeOK, Values, Strings
  <2>2. QED
    BY <1>4, <2>1 DEF Edit, TypeOK, StoredValid, UpdTarget
<1>5. ASSUME NEW t \in Tokens, Edit("token", t) PROVE IInv'
  <2>1. values' \in Values
    BY <1>5 DEF Edit, TypeOK, Values
  <2>2. QED
    BY <1>5, <2>1 DEF Edit, TypeOK, StoredValid, UpdTarget
<1>6. CASE Submit
  <2>1. UNCHANGED <<target, values>>
    BY <1>6 DEF Submit
  <2>2. CASE dialog = "create" /\ CreateSchema(values)
    <3>1. PICK i \in Ids : /\ stored[i] = None
                           /\ stored' = [stored EXCEPT ![i] = values]
                           /\ dialog' = "none" /\ invalid' = FALSE
      BY <1>6, <2>2 DEF Submit
    <3>2. UpdateSchema(values)
      BY <2>2, SchemaFields
    <3>3. TypeOK'
      BY <2>1, <3>1 DEF TypeOK
    <3>4. StoredValid'
      BY <3>1, <3>2 DEF StoredValid
    <3>5. QED
      BY <3>1, <3>3, <3>4 DEF UpdTarget
  <2>3. CASE dialog = "update" /\ UpdateSchema(values)
    <3> DEFINE new == [stored[target] EXCEPT !.endpoint = values.endpoint,
                                             !.model = values.model,
                                             !.token = values.token]
    <3>1. target \in Ids /\ stored[target] \in Values
      BY <2>3 DEF UpdTarget, TypeOK
    <3>2. stored' = [stored EXCEPT ![target] = new]
          /\ dialog' = "none" /\ invalid' = FALSE
      BY <1>6, <2>3 DEF Submit
    <3>3. new \in Values
      BY <3>1 DEF TypeOK, Values
    <3>4. new.endpoint = values.endpoint /\ new.model = values.model
          /\ new.token = values.token
      BY <3>1 DEF Values
    <3>5. UpdateSchema(new)
      BY <2>3, <3>4, SchemaFields
    <3>6. TypeOK'
      BY <2>1, <3>1, <3>2, <3>3 DEF TypeOK
    <3>7. StoredValid'
      BY <3>1, <3>2, <3>5 DEF StoredValid
    <3>8. QED
      BY <3>2, <3>6, <3>7 DEF UpdTarget
  <2>4. CASE ~(dialog = "create" /\ CreateSchema(values))
             /\ ~(dialog = "update" /\ UpdateSchema(values))
    <3>1. invalid' = TRUE /\ UNCHANGED <<dialog, stored>>
      BY <1>6, <2>4 DEF Submit, TypeOK
    <3>2. QED
      BY <2>1, <3>1 DEF TypeOK, StoredValid, UpdTarget
  <2>5. QED
    BY <2>2, <2>3, <2>4
<1>7. CASE Close
  BY <1>7 DEF Close, TypeOK, StoredValid, UpdTarget
<1>8. CASE UNCHANGED vars
  BY <1>8 DEF vars, TypeOK, StoredValid, UpdTarget
<1>9. QED
  BY <1>1, <1>2, <1>3, <1>4, <1>5, <1>6, <1>7, <1>8 DEF Next

(***************************************************************************)
(* A provider the create dialog stored can always be edited: UpdateAIModal *)
(* opened on it, once a token is typed in, accepts the endpoint and model  *)
(* it starts from, because handleSubmit only sends values that passed a   *)
(* schema with the update dialog's tests.  It holds for any strings the   *)
(* user types, through any number of creates and updates.                 *)
(***************************************************************************)
THEOREM StoredProviderEditableProved == Spec => []StoredProviderEditable
<1>1. IInv => StoredProviderEditable
  <2> SUFFICES ASSUME IInv, NEW i \in Ids, NEW t \in Tokens, stored[i] # None,
                      Trim(t) # ""
               PROVE  UpdateSchema([stored[i] EXCEPT !.token = t])
    BY DEF StoredProviderEditable
  <2>1. stored[i] \in Values /\ UpdateSchema(stored[i])
    BY DEF IInv, TypeOK, StoredValid
  <2>2. [stored[i] EXCEPT !.token = t].endpoint = stored[i].endpoint
        /\ [stored[i] EXCEPT !.token = t].model = stored[i].model
        /\ [stored[i] EXCEPT !.token = t].token = t
    BY <2>1 DEF Values
  <2>3. QED
    BY <2>1, <2>2 DEF UpdateSchema, Accepts
<1>2. QED
  BY InitIInv, NextIInv, <1>1, PTL DEF Spec

(***************************************************************************)
(* Every reachable state of the dialogs is well typed: the form only holds *)
(* what the user typed or the select filled in, and an update replaces    *)
(* fields of a stored provider, never of an empty slot.                   *)
(***************************************************************************)
THEOREM FormTypeCorrect == Spec => []TypeOK
<1>1. IInv => TypeOK
  BY DEF IInv
<1>2. QED
  BY InitIInv, NextIInv, <1>1, PTL DEF Spec
=============================================================================
