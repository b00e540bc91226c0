------------------------- MODULE ModalSubmitProofs -------------------------
(***************************************************************************)
(* Proofs about the submit path of the AI provider dialogs, for every set *)
(* of dialogs and every bound on the requests in flight.                  *)
(***************************************************************************)
EXTENDS ModalSubmit, TLAPS

(***************************************************************************)
(* The inductive invariant.  For a dialog whose button reads useMutate's  *)
(* live loading, a request sent from the dialog shown keeps loading set   *)
(* until it settles; NoDoubleSubmit alone is not inductive, because a     *)
(* Submit from a state with cur = 1 and loading cleared would break it.   *)
(***************************************************************************)
LiveLoading ==
    \A m \in Modals \ Captured : cur[m] <= 1 /\ (cur[m] = 1 => loading[m])

\* Open moves the dialog's requests to old, so the sum is what is bounded.
InFlightBound == \A m \in Modals : cur[m] + old[m] <= MaxInFlight

IInv == TypeOK /\ InFlightBound /\ LiveLoading

LEMMA InitIInv == Init => IInv
<1> SUFFICES ASSUME Init PROVE IInv
  OBVIOUS
<1>1. 0 \in Counts
  BY ModalAssumption DEF Counts
<1>2. TypeOK
  BY <1>1, Zenon DEF Init, TypeOK
<1>3. \A m \in Modals : cur[m] = 0 /\ old[m] = 0
  BY DEF Init
<1>4. InFlightBound /\ LiveLoading
  BY <1>3, ModalAssumption DEF InFlightBound, LiveLoading
<1>5. QED
  BY <1>2, <1>4 DEF IInv

LEMMA NextIInv == IInv /\ [Next]_vars => IInv'
<1> SUFFICES ASSUME IInv, [Next]_vars PROVE IInv'
  OBVIOUS
<1> USE ModalAssumption DEF IInv, TypeOK, Counts
<1>1. ASSUME NEW m \in Modals, Open(m) PROVE IInv'
  <2>1. memo' \in [Modals -> BOOLEAN] /\ loading' \in [Modals -> BOOLEAN]
    <3>1. CASE m \in Captured
      BY <1>1, <3>1 DEF Open
    <3>2. CASE m \notin Captured
      BY <1>1, <3>2 DEF Open
    <3>3. QED
      BY <3>1, <3>2
  <2>2. cur' \in [Modals -> Counts] /\ old' \in [Modals -> Counts]
        /\ InFlightBound'
    BY <1>1 DEF Open, InFlightBound
  <2>3. isOpen' \in [Modals -> BOOLEAN]
    BY <1>1 DEF Open
  <2>4. LiveLoading'
    BY <1>1 DEF Open, LiveLoading
  <2>5. QED
    BY <2>1, <2>2, <2>3, <2>4
<1>2. ASSUME NEW m \in Modals, Submit(m) PROVE IInv'
  <2>1. TypeOK' /\ InFlightBound'
    BY <1>2 DEF Submit, InFlightBound
  <2>2. m \notin Captured => cur[m] = 0
    BY <1>2 DEF Submit, ButtonLoading, LiveLoading
  <2>3. LiveLoading'
    BY <1>2, <2>2 DEF Submit, LiveLoading
  <2>4. QED
    BY <2>1, <2>3
<1>3. ASSUME NEW m \in Modals, NEW fromCur \in BOOLEAN, NEW ok \in BOOLEAN,
             Settle(m, fromCur, ok)
      PROVE  IInv'
  <2>1. TypeOK' /\ InFlightBound'
    BY <1>3 DEF Settle, InFlightBound
  <2>2. CASE fromCur
    BY <1>3, <2>1, <2>2 DEF Settle, LiveLoading
  <2>3. CASE ~fromCur
    BY <1>3, <2>1, <2>3 DEF Settle, LiveLoading
  <2>4. QED
    BY <2>2, <2>3
<1>4. ASSUME NEW m \in Modals, Close(m) PROVE IInv'
  BY <1>4 DEF Close, InFlightBound, LiveLoading
<1>5. CASE UNCHANGED vars
  BY <1>5 DEF vars, InFlightBound, LiveLoading
<1>6. QED
  BY <1>1, <1>2, <1>3, <1>4, <1>5 DEF Next

(***************************************************************************)
(* When every dialog's button reads useMutate's live loading (the two     *)
(* create dialogs), no dialog shown ever has two requests in flight:      *)
(* disabled={loading} in NewAIModalButton and NewAIModalPromptButton      *)
(* holds back a second submit, for any number of dialogs and requests.    *)
(***************************************************************************)
THEOREM NoDoubleSubmitProved ==
    ASSUME Captured = {}
    PROVE  Spec => []NoDoubleSubmit
<1>1. IInv => NoDoubleSubmit
  BY DEF IInv, LiveLoading, NoDoubleSubmit
<1>2. QED
  BY InitIInv, NextIInv, <1>1, PTL DEF Spec

(***************************************************************************)
(* Every reachable state of the dialogs is well typed, for any set of     *)
(* dialogs, any of them reading a captured loading: in particular Open,   *)
(* which moves the shown dialog's requests to old, never takes old past   *)
(* MaxInFlight, because Submit bounds cur + old.                          *)
(***************************************************************************)
THEOREM ModalTypeCorrect == Spec => []TypeOK
<1>1. IInv => TypeOK
  BY DEF IInv
<1>2. QED
  BY InitIInv, NextIInv, <1>1, PTL DEF Spec

=============================================================================
