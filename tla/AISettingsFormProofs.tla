------------------------ MODULE AISettingsFormProofs ------------------------
(***************************************************************************)
(* Proofs about the repository AI settings form, for every bound on saves: *)
(* its type invariant, and that a clean form shows the server's value as   *)
(* long as no save was sent while an earlier PATCH was in flight.          *)
(***************************************************************************)
EXTENDS AISettingsForm, TLAPS

(***************************************************************************)
(* The inductive invariant.  The form is not mounted before a save can    *)
(* start.  Until two PATCHes overlap: at most one PATCH is in flight; a   *)
(* PATCH the server applied has set the server's value; and, until an     *)
(* applied PATCH settles, Formik's initial value is the server's.         *)
(***************************************************************************)
Single == \A p, q \in patches : p = q
MountedFirst == loaded = None => patches = {}
AppliedSrv == \A p \in patches : p.st = "ok" => srv = p.val
InitialSrv == loaded # None /\ (\A p \in patches : p.st # "ok") => initial = srv
Serial == Single /\ AppliedSrv /\ InitialSrv

IInv == TypeOK /\ MountedFirst /\ (~overlapped => Serial)

LEMMA InitIInv == Init => IInv
<1> SUFFICES ASSUME Init PROVE IInv
  OBVIOUS
<1>1. saves \in 0..MaxSaves
  BY SettingsAssumption DEF Init
<1>2. TypeOK
  BY <1>1, Zenon DEF Init, TypeOK
<1>3. patches = {} /\ loaded = None
  BY DEF Init
<1>4. QED
  BY <1>2, <1>3, Zenon DEF IInv, Serial, Single, MountedFirst, AppliedSrv, InitialSrv

\* A PATCH record with a new status is still a PATCH record.
LEMMA PatchStatus ==
    ASSUME NEW p \in Patch, NEW s \in {"sent", "ok", "failed"}
    PROVE  /\ [p EXCEPT !.st = s] \in Patch
           /\ [p EXCEPT !.st = s].val = p.val
           /\ [p EXCEPT !.st = s].st = s
BY DEF Patch

\* Type correctness of a step, for the IInv proof and the typing theorem.
LEMMA NextType == TypeOK /\ [Next]_vars => TypeOK'
<1> SUFFICES ASSUME TypeOK, [Next]_vars PROVE TypeOK'
  OBVIOUS
<1>1. CASE Load
  BY <1>1, Zenon DEF Load, TypeOK
<1>2. CASE Toggle
  BY <1>2, Zenon DEF Toggle, TypeOK
<1>3. CASE Save
  <2>1. saves + 1 \in 1..MaxSaves /\ saves' \in 0..MaxSaves
    BY <1>3, SettingsAssumption DEF Save, TypeOK
  <2>2. [id |-> saves + 1, val |-> values, st |-> "sent"] \in Patch
    BY <2>1 DEF TypeOK, Patch
  <2>3. overlapped' \in BOOLEAN
    BY <1>3 DEF Save
  <2>4. QED
    BY <1>3, <2>1, <2>2, <2>3, Zenon DEF Save, TypeOK
<1>4. ASSUME NEW p \in patches, Apply(p) PROVE TypeOK'
  <2>1. p \in Patch
    BY DEF TypeOK
  <2>2. [p EXCEPT !.st = "ok"] \in Patch /\ [p EXCEPT !.st = "failed"] \in Patch
    BY <2>1, PatchStatus
  <2>3. p.val \in BOOLEAN
    BY <2>1 DEF Patch
  <2>4. QED
    BY <1>4, <2>2, <2>3, Zenon DEF Apply, TypeOK
<1>5. ASSUME NEW p \in patches, Settle(p) PROVE TypeOK'
  <2>1. p.val \in BOOLEAN
    BY DEF TypeOK, Patch
  <2>2. QED
    BY <1>5, <2>1, Zenon DEF Settle, TypeOK
<1>6. CASE UNCHANGED vars
  BY <1>6, Zenon DEF vars, TypeOK
<1>7. QED
  BY <1>1, <1>2, <1>3, <1>4, <1>5, <1>6 DEF Next

LEMMA NextIInv == IInv /\ [Next]_vars => IInv'
<1> SUFFICES ASSUME IInv, [Next]_vars PROVE IInv'
  OBVIOUS
<1>0. TypeOK'
  BY NextType DEF IInv
<1> USE DEF IInv
<1>1. CASE Load
  \* before the settings load nothing is in flight
  <2>1. patches = {} /\ patches' = {}
    BY <1>1 DEF Load, MountedFirst
  <2>2. QED
    BY <1>0, <1>1, <2>1, Zenon DEF Load, Serial, Single, MountedFirst,
       AppliedSrv, InitialSrv
<1>2. CASE Toggle
  BY <1>0, <1>2, Zenon DEF Toggle, Serial, Single, MountedFirst,
     AppliedSrv, InitialSrv
<1>3. CASE Save
  <2>1. MountedFirst'
    BY <1>3 DEF Save, Usable, MountedFirst
  <2>2. CASE overlapped'
    BY <1>0, <2>1, <2>2
  <2>3. CASE ~overlapped'
    \* nothing was in flight, so the new PATCH is the only one
    <3> DEFINE new == [id |-> saves + 1, val |-> values, st |-> "sent"]
    <3>1. ~overlapped /\ patches = {} /\ patches' = {new}
      BY <1>3, <2>3 DEF Save
    <3>2. loaded # None /\ initial = srv
      BY <1>3, <3>1, Zenon DEF Save, Usable, Serial, InitialSrv
    <3>3. new.st = "sent" /\ new.st # "ok"
      OBVIOUS
    <3>4. Serial'
      BY <1>3, <3>1, <3>2, <3>3, Zenon DEF Save, Serial, Single, AppliedSrv,
         InitialSrv
    <3>5. QED
      BY <1>0, <2>1, <3>4
  <2>4. QED
    BY <2>2, <2>3
<1>4. ASSUME NEW p \in patches, Apply(p)
      PROVE  IInv'
  <2>1. MountedFirst' /\ overlapped' = overlapped
    BY <1>4 DEF Apply, MountedFirst
  <2>2. CASE overlapped
    BY <1>0, <2>1, <2>2
  <2>3. CASE ~overlapped
    <3>1. patches = {p}
      BY <2>3 DEF Serial, Single
    <3>2. p \in Patch /\ p.st = "sent" /\ loaded # None
      BY <1>4, <3>1 DEF Apply, TypeOK, MountedFirst
    <3>3. CASE srv' = p.val /\ patches' = (patches \ {p}) \cup {[p EXCEPT !.st = "ok"]}
      <4> DEFINE q == [p EXCEPT !.st = "ok"]
      <4>1. patches' = {q} /\ q.val = p.val /\ q.st = "ok"
        BY <3>1, <3>2, <3>3, PatchStatus
      <4>2. Serial'
        BY <1>4, <3>2, <3>3, <4>1, Zenon DEF Apply, Serial, Single,
           AppliedSrv, InitialSrv
      <4>3. QED
        BY <1>0, <2>1, <4>2
    <3>4. CASE UNCHANGED srv /\ patches' = (patches \ {p}) \cup {[p EXCEPT !.st = "failed"]}
      <4> DEFINE q == [p EXCEPT !.st = "failed"]
      <4>1. patches' = {q} /\ q.st = "failed"
        BY <3>1, <3>2, <3>4, PatchStatus
      <4>2. initial = srv
        BY <2>3, <3>1, <3>2 DEF Serial, InitialSrv
      <4>3. Serial'
        BY <1>4, <3>2, <3>4, <4>1, <4>2, Zenon DEF Apply, Serial, Single,
           AppliedSrv, InitialSrv
      <4>4. QED
        BY <1>0, <2>1, <4>3
    <3>5. QED
      BY <1>4, <3>3, <3>4 DEF Apply
  <2>4. QED
    BY <2>2, <2>3
<1>5. ASSUME NEW p \in patches, Settle(p)
      PROVE  IInv'
  <2>1. MountedFirst' /\ overlapped' = overlapped
    BY <1>5 DEF Settle, MountedFirst
  <2>2. CASE overlapped
    BY <1>0, <2>1, <2>2
  <2>3. CASE ~overlapped
    <3>1. patches = {p} /\ patches' = {}
      BY <1>5, <2>3 DEF Settle, Serial, Single
    <3>2. p \in Patch /\ loaded # None
      BY <3>1 DEF TypeOK, MountedFirst
    <3>3. CASE p.st = "ok"
      <4>1. initial' = srv /\ srv' = srv
        BY <1>5, <2>3, <3>3, Zenon DEF Settle, Serial, AppliedSrv
      <4>2. Serial'
        BY <1>5, <3>1, <3>2, <4>1, Zenon DEF Settle, Serial, Single,
           AppliedSrv, InitialSrv
      <4>3. QED
        BY <1>0, <2>1, <4>2
    <3>4. CASE p.st # "ok"
      <4>1. initial = srv
        BY <2>3, <3>1, <3>2, <3>4 DEF Serial, InitialSrv
      <4>2. Serial'
        BY <1>5, <3>1, <3>2, <3>4, <4>1, Zenon DEF Settle, Serial, Single,
           AppliedSrv, InitialSrv
      <4>3. QED
        BY <1>0, <2>1, <4>2
    <3>5. QED
      BY <3>3, <3>4
  <2>4. QED
    BY <2>2, <2>3
<1>6. CASE UNCHANGED vars
  BY <1>0, <1>6, Zenon DEF vars, Serial, Single, MountedFirst, AppliedSrv,
     InitialSrv
<1>7. QED
  BY <1>1, <1>2, <1>3, <1>4, <1>5, <1>6 DEF Next

(***************************************************************************)
(* As long as every save of AISettings was sent after the previous PATCH  *)
(* settled, a clean form with no PATCH in flight shows the server's       *)
(* setting (handleSubmit and its resetForm), for every number of saves.   *)
(***************************************************************************)
THEOREM SerialSavesProved == Spec => []SerialSavesKeepFormClean
<1>1. IInv => SerialSavesKeepFormClean
  BY DEF IInv, Serial, InitialSrv, SerialSavesKeepFormClean, CleanFormMatchesServer
<1>2. QED
  BY InitIInv, NextIInv, <1>1, PTL DEF Spec

(***************************************************************************)
(* Every reachable state of the settings form is well typed: the PATCH ids *)
(* stay within the save bound, and a settle resets Formik to a Boolean    *)
(* answered value.                                                         *)
(***************************************************************************)
THEOREM SettingsTypeCorrect == Spec => []TypeOK
<1>1. Init => TypeOK
  BY InitIInv DEF IInv
<1>2. QED
  BY <1>1, NextType, PTL DEF Spec
=============================================================================
