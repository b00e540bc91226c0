----------------------------- MODULE BranchPanel -----------------------------
(***************************************************************************)
(* The source-branch actions of PullRequestOverviewPanel.  A lazy useGet   *)
(* fetches the PR's source branch; three effects follow it:                *)
(*   E1 [isMerged, isClosed]: a merged or closed PR refetches the branch;  *)
(*   E2 [error]: a 404 marks the branch deleted and dry-runs its           *)
(*       re-creation, whose answer decides the restore button;             *)
(*   E3 [sourceBranch, source_sha]: a branch still at the PR's source sha  *)
(*       dry-runs its deletion, whose answer decides the delete button.    *)
(* The PR's state and source sha come from the parent; the branch lives on *)
(* the server and can change under the panel (a push, a deletion          *)
(* elsewhere), and the children may call refetchBranch at any time.       *)
(***************************************************************************)
EXTENDS Naturals

CONSTANTS
    Shas,        \* commit shas
    None,        \* no branch (deleted), no data, no error
    MaxEvents    \* bound on the events from outside the panel

ASSUME BranchAssumption ==
    /\ None \notin Shas
    /\ MaxEvents \in Nat

VARIABLES
    prState,    \* pullReqMetadata.state
    srcSha,     \* pullReqMetadata.source_sha
    branch,     \* the server's source branch: its sha, or None when deleted
    bypass,     \* the server's rules let this user bypass them
    data,       \* useGet's sourceBranch?.sha
    error,      \* useGet's error: None, "404" or "other"
    req,        \* the branch fetch: "idle", "sent", or its answer
    dry,        \* dry-run mutations in flight: [kind, st]
    pend,       \* the effects whose deps changed since they last ran
    showDelete, \* showDeleteBranchButton
    showRestore,\* showRestoreBranchButton
    isDeleted,  \* isSourceBranchDeleted
    events      \* events from outside the panel so far: changes of the
                \* PR or the branch, children's refetches, failed requests

vars == <<prState, srcSha, branch, bypass, data, error, req, dry, pend,
          showDelete, showRestore, isDeleted, events>>

States == {"open", "merged", "closed"}
Effects == {"E1", "E2", "E3"}
\* What the fetch can answer: the branch's sha, a 404, or another failure.
Answers == Shas \cup {"404", "other"}
\* What a dry run can answer: rule violations the user may bypass, ones
\* the user may not bypass, none at all, or a rejected request.
DryResults == {"allow", "deny", "clean", "failed"}
DryRun == [kind : {"create", "delete"}, st : {"sent"} \cup DryResults]

TypeOK ==
    /\ prState \in States
    /\ srcSha \in Shas
    /\ branch \in Shas \cup {None}
    /\ bypass \in BOOLEAN
    /\ data \in Shas \cup {None}
    /\ error \in {None, "404", "other"}
    /\ req \in {"idle", "sent"} \cup Answers
    /\ dry \subseteq DryRun
    /\ pend \subseteq Effects
    /\ showDelete \in BOOLEAN
    /\ showRestore \in BOOLEAN
    /\ isDeleted \in BOOLEAN
    /\ events \in 0..MaxEvents

-----------------------------------------------------------------------------
\* isMerged || isClosed.
Finished(s) == s \in {"merged", "closed"}

\* The flag a dry run's answer sets: rule_violations the user may bypass or
\* none at all show the button, ones the user may not bypass hide it.
Shown(st) == st \in {"allow", "clean"}

\* The rule check the server runs on a dry run whose request is valid.
RuleAnswers == IF bypass THEN {"allow", "clean"} ELSE {"deny"}

Init ==
    /\ prState \in States
    /\ srcSha \in Shas
    /\ branch \in {srcSha, None}
    /\ bypass \in BOOLEAN
    /\ data = None
    /\ error = None
    /\ req = "idle"
    /\ dry = {}
    /\ pend = Effects
    /\ showDelete = FALSE
    /\ showRestore = FALSE
    /\ isDeleted = FALSE
    /\ events = 0

\* Mutant: E1's deps without isClosed.
SetStateOnlyMerged(s) ==
    /\ events < MaxEvents
    /\ s # prState
    /\ prState' = s
    /\ pend' = IF (s = "merged") # (prState = "merged")
               THEN pend \cup {"E1"} ELSE pend
    /\ events' = events + 1
    /\ UNCHANGED <<srcSha, branch, bypass, data, error, req, dry,
                   showDelete, showRestore, isDeleted>>

(***************************************************************************)
(* The parent passes a PR in a new state (merged, closed or reopened).   *)
(* E1 is due when isMerged or isClosed changes.                          *)
(***************************************************************************)
SetState(s) ==
    /\ events < MaxEvents
    /\ s # prState
    /\ prState' = s
    /\ pend' = IF <<s = "merged", s = "closed">> #
                  <<prState = "merged", prState = "closed">>
               THEN pend \cup {"E1"} ELSE pend
    /\ events' = events + 1
    /\ UNCHANGED <<srcSha, branch, bypass, data, error, req, dry,
                   showDelete, showRestore, isDeleted>>

\* Someone pushes sha s to the source branch, re-creating it if deleted.
Push(s) ==
    /\ events < MaxEvents
    /\ branch # s
    /\ branch' = s
    /\ events' = events + 1
    /\ UNCHANGED <<prState, srcSha, bypass, data, error, req, dry, pend,
                   showDelete, showRestore, isDeleted>>

\* Someone deletes the source branch.
DeleteElsewhere ==
    /\ events < MaxEvents
    /\ branch # None
    /\ branch' = None
    /\ events' = events + 1
    /\ UNCHANGED <<prState, srcSha, bypass, data, error, req, dry, pend,
                   showDelete, showRestore, isDeleted>>

\* The parent refreshes an open PR, which now records the branch's head
\* (the server follows the source branch of open PRs only).
UpdateSourceSha ==
    /\ prState = "open"
    /\ branch \in Shas
    /\ srcSha # branch
    /\ srcSha' = branch
    /\ pend' = pend \cup {"E3"}
    /\ UNCHANGED <<prState, branch, bypass, data, error, req, dry,
                   showDelete, showRestore, isDeleted, events>>

\* A child (the actions box or the branch section) calls refetchBranch.
ChildRefetch ==
    /\ events < MaxEvents
    /\ req' = "sent"
    /\ events' = events + 1
    /\ UNCHANGED <<prState, srcSha, branch, bypass, data, error, dry, pend,
                   showDelete, showRestore, isDeleted>>

-----------------------------------------------------------------------------
(* The branch fetch.                                                       *)

\* Mutant: a missing branch answered as undefined data instead of a 404.
AnswerFetchWithoutNotFound ==
    /\ req = "sent"
    /\ req' = branch
    /\ UNCHANGED <<prState, srcSha, branch, bypass, data, error, dry, pend,
                   showDelete, showRestore, isDeleted, events>>

AnswerFetch ==
    /\ req = "sent"
    /\ req' = IF branch = None THEN "404" ELSE branch
    /\ UNCHANGED <<prState, srcSha, branch, bypass, data, error, dry, pend,
                   showDelete, showRestore, isDeleted, events>>

FailFetch ==
    /\ events < MaxEvents
    /\ req = "sent"
    /\ req' = "other"
    /\ events' = events + 1
    /\ UNCHANGED <<prState, srcSha, branch, bypass, data, error, dry, pend,
                   showDelete, showRestore, isDeleted>>

(***************************************************************************)
(* useGet stores the answer: a new data object (E3 is due) with the error *)
(* cleared, or a new error object (E2 is due) with the data kept or       *)
(* cleared.                                                                *)
(***************************************************************************)
DeliverFetch ==
    /\ req \in Answers
    /\ req' = "idle"
    /\ IF req \in Shas
       THEN /\ data' = req /\ error' = None
            /\ pend' = pend \cup {"E3"} \cup
                       (IF error # None THEN {"E2"} ELSE {})
       ELSE /\ error' = req /\ data' \in {data, None}
            /\ pend' = pend \cup {"E2"} \cup
                       (IF data' # data THEN {"E3"} ELSE {})
    /\ UNCHANGED <<prState, srcSha, branch, bypass, dry,
                   showDelete, showRestore, isDeleted, events>>

(***************************************************************************)
(* React commits: the due effects run in order with this render's values. *)
(* E1 refetches (useGet aborts the fetch in flight); E2 on a 404 marks    *)
(* the branch deleted and dry-runs createBranch; E3 on a matching sha     *)
(* dry-runs deleteBranch.                                                 *)
(***************************************************************************)
Commit ==
    /\ pend # {}
    /\ req' = IF "E1" \in pend /\ Finished(prState) THEN "sent" ELSE req
    /\ isDeleted' = IF "E2" \in pend /\ error = "404" THEN TRUE ELSE isDeleted
    /\ dry' = dry \cup
              (IF "E2" \in pend /\ error = "404"
               THEN {[kind |-> "create", st |-> "sent"]} ELSE {}) \cup
              (IF "E3" \in pend /\ data = srcSha
               THEN {[kind |-> "delete", st |-> "sent"]} ELSE {})
    /\ pend' = {}
    /\ UNCHANGED <<prState, srcSha, branch, bypass, data, error,
                   showDelete, showRestore, events>>

-----------------------------------------------------------------------------
(* The dry runs.                                                           *)

(***************************************************************************)
(* The server answers a dry run with its rule check; creating a branch    *)
(* that exists or deleting one that does not is rejected.                 *)
(***************************************************************************)
AnswerDry(d) ==
    /\ d.st = "sent"
    /\ \E r \in IF (d.kind = "create") = (branch = None)
                THEN RuleAnswers ELSE {"failed"} :
          dry' = (dry \ {d}) \cup {[d EXCEPT !.st = r]}
    /\ UNCHANGED <<prState, srcSha, branch, bypass, data, error, req, pend,
                   showDelete, showRestore, isDeleted, events>>

FailDry(d) ==
    /\ events < MaxEvents
    /\ d.st = "sent"
    /\ dry' = (dry \ {d}) \cup {[d EXCEPT !.st = "failed"]}
    /\ events' = events + 1
    /\ UNCHANGED <<prState, srcSha, branch, bypass, data, error, req, pend,
                   showDelete, showRestore, isDeleted>>

(***************************************************************************)
(* The .then sets the button's flag; a rejected dry run has no .catch and *)
(* sets nothing.                                                           *)
(***************************************************************************)
DeliverDry(d) ==
    /\ d.st # "sent"
    /\ dry' = dry \ {d}
    /\ showRestore' = IF d.kind = "create" /\ d.st # "failed"
                      THEN Shown(d.st) ELSE showRestore
    /\ showDelete' = IF d.kind = "delete" /\ d.st # "failed"
                     THEN Shown(d.st) ELSE showDelete
    /\ UNCHANGED <<prState, srcSha, branch, bypass, data, error, req, pend,
                   isDeleted, events>>

-----------------------------------------------------------------------------
Next ==
    \/ \E s \in States : SetState(s)
    \/ \E s \in Shas : Push(s)
    \/ DeleteElsewhere
    \/ UpdateSourceSha
    \/ ChildRefetch
    \/ AnswerFetch \/ FailFetch \/ DeliverFetch
    \/ Commit
    \/ \E d \in dry : AnswerDry(d) \/ FailDry(d) \/ DeliverDry(d)

(***************************************************************************)
(* React flushes effects, requests are answered and promises settle.  The *)
(* parent, the server's other users and the children get no fairness.     *)
(***************************************************************************)
Spec ==
    /\ Init /\ [][Next]_vars
    /\ WF_vars(Commit)
    /\ WF_vars(AnswerFetch \/ FailFetch)
    /\ WF_vars(DeliverFetch)
    /\ WF_vars(\E d \in dry : AnswerDry(d) \/ FailDry(d))
    /\ WF_vars(\E d \in dry : DeliverDry(d))

-----------------------------------------------------------------------------
(* Properties.                                                             *)

(***************************************************************************)
(* A closed PR whose branch the panel has not fetched yet comes to offer  *)
(* the action the branch calls for: restore if the source branch is gone, *)
(* delete if it is still at the PR's source sha, whenever the rules let   *)
(* the user bypass them -- unless something from outside intervenes      *)
(* first (the PR or the branch changes, a request fails: a failed fetch  *)
(* or dry run has no retry).                                              *)
(***************************************************************************)
BranchActionOffered ==
    \A n \in 0..MaxEvents :
        (/\ prState = "closed" /\ bypass /\ branch \in {None, srcSha}
         /\ data = None /\ error = None /\ req \in {"idle", "sent"}
         /\ events = n)
            ~> (IF branch = None THEN showRestore ELSE showDelete) \/ events > n

=============================================================================
