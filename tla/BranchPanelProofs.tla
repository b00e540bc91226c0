-------------------------- MODULE BranchPanelProofs --------------------------
(***************************************************************************)
(* Proofs about the source-branch actions of PullRequestOverviewPanel, for *)
(* every set of shas and every bound on the events from outside.           *)
(***************************************************************************)
EXTENDS BranchPanel, TLAPS

\* A dry run's answer replaces its status and keeps its kind.
LEMMA DryStatus ==
    ASSUME NEW d \in DryRun, NEW r \in {"sent"} \cup DryResults
    PROVE  [d EXCEPT !.st = r] \in DryRun
BY DEF DryRun

(***************************************************************************)
(* Every reachable state of the panel is well typed: in particular useGet *)
(* stores a sha as data and only a 404 or another failure as the error,   *)
(* the effects only ever add create and delete dry runs, and each dry     *)
(* run keeps its kind through its answer.                                 *)
(***************************************************************************)
THEOREM BranchTypeCorrect == Spec => []TypeOK
<1>1. Init => TypeOK
  <2> SUFFICES ASSUME Init PROVE TypeOK
    OBVIOUS
  <2>1. events \in 0..MaxEvents /\ pend \subseteq Effects /\ dry \subseteq DryRun
    BY BranchAssumption DEF Init
  <2>2. branch \in Shas \cup {None} /\ data \in Shas \cup {None}
        /\ error \in {None, "404", "other"} /\ req \in {"idle", "sent"} \cup Answers
    BY DEF Init
  <2>3. QED
    BY <2>1, <2>2, Zenon DEF Init, TypeOK
<1>2. TypeOK /\ [Next]_vars => TypeOK'
  <2> SUFFICES ASSUME TypeOK, [Next]_vars PROVE TypeOK'
    OBVIOUS
  <2> USE BranchAssumption DEF TypeOK
  <2>1. ASSUME NEW s \in States, SetState(s) PROVE TypeOK'
    BY <2>1 DEF SetState, Effects
  <2>2. ASSUME NEW s \in Shas, Push(s) PROVE TypeOK'
    BY <2>2 DEF Push
  <2>3. CASE DeleteElsewhere
    BY <2>3 DEF DeleteElsewhere
  <2>4. CASE UpdateSourceSha
    BY <2>4 DEF UpdateSourceSha, Effects
  <2>5. CASE ChildRefetch
    BY <2>5 DEF ChildRefetch
  <2>6. CASE AnswerFetch
    BY <2>6 DEF AnswerFetch, Answers
  <2>7. CASE FailFetch
    BY <2>7 DEF FailFetch, Answers
  <2>8. CASE DeliverFetch
    <3>1. CASE req \in Shas
      BY <2>8, <3>1 DEF DeliverFetch, Effects
    <3>2. CASE req \notin Shas
      <4>1. req \in {"404", "other"}
        BY <2>8, <3>2 DEF DeliverFetch, Answers
      <4>2. QED
        BY <2>8, <3>2, <4>1 DEF DeliverFetch, Effects
    <3>3. QED
      BY <3>1, <3>2
  <2>9. CASE Commit
    <3>1. dry' \subseteq DryRun
      BY <2>9 DEF Commit, DryRun
    <3>2. req' \in {"idle", "sent"} \cup Answers /\ isDeleted' \in BOOLEAN
      BY <2>9 DEF Commit
    <3>3. QED
      BY <2>9, <3>1, <3>2 DEF Commit
  <2>10. ASSUME NEW d \in dry, AnswerDry(d) PROVE TypeOK'
    <3>1. PICK r \in IF (d.kind = "create") = (branch = None)
                     THEN RuleAnswers ELSE {"failed"} :
              dry' = (dry \ {d}) \cup {[d EXCEPT !.st = r]}
      BY <2>10 DEF AnswerDry
    <3>2. r \in {"sent"} \cup DryResults
      BY DEF RuleAnswers, DryResults
    <3>3. [d EXCEPT !.st = r] \in DryRun
      BY <3>2, DryStatus
    <3>4. QED
      BY <2>10, <3>1, <3>3 DEF AnswerDry
  <2>11. ASSUME NEW d \in dry, FailDry(d) PROVE TypeOK'
    <3>1. [d EXCEPT !.st = "failed"] \in DryRun
      BY DryStatus DEF DryResults
    <3>2. QED
      BY <2>11, <3>1 DEF FailDry
  <2>12. ASSUME NEW d \in dry, DeliverDry(d) PROVE TypeOK'
    <3>0. Shown(d.st) \in BOOLEAN
      BY DEF Shown
    <3>1. showRestore' \in BOOLEAN /\ showDelete' \in BOOLEAN
      BY <2>12, <3>0 DEF DeliverDry
    <3>2. QED
      BY <2>12, <3>1 DEF DeliverDry
  <2>13. CASE UNCHANGED vars
    BY <2>13 DEF vars
  <2>14. QED
    BY <2>1, <2>2, <2>3, <2>4, <2>5, <2>6, <2>7, <2>8, <2>9, <2>10, <2>11,
       <2>12, <2>13 DEF Next
<1>3. QED
  BY <1>1, <1>2, PTL DEF Spec
=============================================================================
