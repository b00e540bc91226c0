--------------------------- MODULE AIReviewPoller ---------------------------
(***************************************************************************)
(* The AI-review status poller of a pull-request page:                    *)
(* usePRAIReviews (src/web/src/hooks/usePRAIReviews.tsx) as mounted by     *)
(* AIReviewSection.                                                        *)
(*                                                                         *)
(* The hook holds the last response of GET .../last-aireview (useGet's     *)
(* `data`), derives `complete` from it during render, and runs a polling   *)
(* effect keyed on [repoMetadata.path, complete].  Every run of that       *)
(* effect creates a closure with its own `tornDown` flag and timer handle; *)
(* the cleanup of the previous run tears that closure down.  A closure     *)
(* whose refetch is still in flight outlives its teardown, so several      *)
(* closures exist at once: they live in the slots `clo`, `cur` names the   *)
(* one that is not torn down.  useGet's own fetch (on mount and whenever   *)
(* the path changes) is `auto`.                                            *)
(*                                                                         *)
(* A request is answered by the server at some moment (a snapshot of its   *)
(* review for that key) and the answer is delivered later, so answers may  *)
(* be delivered in any order.  React re-runs the effect in a step of its   *)
(* own (Commit) after the render that changed its dependencies.            *)
(***************************************************************************)
EXTENDS Naturals, FiniteSets

CONSTANTS
    Paths,      \* repository paths the page may show
    NoPath,     \* repoMetadata.path undefined
    None,       \* absent value: no data, no request, no closure
    Slots,      \* closure slots (closures alive at once)
    MaxRev      \* bound on the pushes the server sees per repository

ASSUME ConstAssumption ==
    /\ NoPath \notin Paths
    /\ None \notin Slots
    /\ MaxRev \in Nat

VARIABLES
    mounted,    \* AIReviewSection (and so the hook) is mounted
    path,       \* repoMetadata.path of the latest render
    srv,        \* the server's last AI review of each repository
    data,       \* useGet's data: the last response applied
    deps,       \* dependencies of the last committed polling effect
    cur,        \* slot of the closure that is not torn down
    clo,        \* closures: captured deps, pending timer, in-flight refetch
    auto        \* useGet's own fetch in flight

vars == <<mounted, path, srv, data, deps, cur, clo, auto>>

PathOrNone == Paths \cup {NoPath}
Revs == 0..MaxRev

\* A review as the endpoint returns it (status pending/success/error).
Result == [key : Paths, rev : Revs, status : {"pending", "success", "error"}]

\* A request in flight: "sent" until the server answers, then the answer;
\* "failed" is a transport error or a 404 (useGet sets `error`, not data).
Exchange == [key : PathOrNone, rev : Revs, status : {"sent", "failed"}]
              \cup Result

Closure == [path : PathOrNone, complete : BOOLEAN,
            timer : BOOLEAN, req : Exchange \cup {None}]

Deps == [path : PathOrNone, complete : BOOLEAN]

TypeOK ==
    /\ mounted \in BOOLEAN
    /\ path \in PathOrNone
    /\ srv \in [Paths -> [rev : Revs,
                          status : {"none", "pending", "success", "error"}]]
    /\ data \in Result \cup {None}
    /\ deps \in Deps \cup {None}
    /\ cur \in Slots \cup {None}
    /\ clo \in [Slots -> Closure \cup {None}]
    /\ auto \in Exchange \cup {None}

-----------------------------------------------------------------------------
(* Render-time derivations.                                                *)

\* useMemo: setComplete(true) whenever data is truthy, false otherwise.
Complete == data # None

\* The dependencies [repoMetadata?.path, complete] of the current render.
RenderDeps == [path |-> path, complete |-> Complete]

\* The polling effect must re-run (React compares its dependencies).
Dirty == mounted /\ deps # RenderDeps

Sent(k) == [key |-> k, rev |-> 0, status |-> "sent"]

\* A closure that is torn down and has neither timer nor request is garbage.
Tidy(c) == IF c # None /\ ~c.timer /\ c.req = None THEN None ELSE c

-----------------------------------------------------------------------------
(* Initial state: the first render, before React commits its effects.      *)

Init ==
    /\ mounted = TRUE
    /\ path \in PathOrNone
    /\ srv \in [Paths -> [rev : {0},
                          status : {"none", "pending", "success", "error"}]]
    /\ data = None
    /\ deps = None
    /\ cur = None
    /\ clo = [s \in Slots |-> None]
    /\ auto = None

(***************************************************************************)
(* Commit: React runs the effects of a render whose dependencies changed.  *)
(* useGet's effect (on mount or a new path) aborts every fetch of the old  *)
(* path and starts its own; the polling effect's cleanup sets tornDown and *)
(* clears the pending timer, and the new run captures the current deps and *)
(* schedules pollingFn.                                                    *)
(***************************************************************************)
Commit ==
    /\ Dirty
    /\ LET keyChanged == deps = None \/ deps.path # path
           cleaned == [s \in Slots |->
                        IF clo[s] = None THEN None
                        ELSE Tidy([clo[s] EXCEPT
                               !.timer = IF s = cur THEN FALSE ELSE @,
                               !.req   = IF keyChanged THEN None ELSE @])]
       IN \E s \in Slots :
            /\ cleaned[s] = None
            /\ clo' = [cleaned EXCEPT ![s] = [path |-> path,
                                             complete |-> Complete,
                                             timer |-> TRUE, req |-> None]]
            /\ cur' = s
            /\ auto' = IF keyChanged THEN Sent(path) ELSE auto
    /\ deps' = RenderDeps
    /\ UNCHANGED <<mounted, path, srv, data>>

\* Mutant: pollingFn without the !complete test.
FireIgnoringComplete(s) ==
    /\ clo[s] # None
    /\ clo[s].timer
    /\ LET c == clo[s] IN
       clo' = [clo EXCEPT ![s] =
                 IF c.path # NoPath /\ s = cur
                 THEN [c EXCEPT !.timer = FALSE, !.req = Sent(c.path)]
                 ELSE IF s = cur THEN [c EXCEPT !.timer = FALSE]
                 ELSE Tidy([c EXCEPT !.timer = FALSE])]
    /\ UNCHANGED <<mounted, path, srv, data, deps, cur, auto>>

(***************************************************************************)
(* pollingFn, when the timer of closure s fires: refetch only when the     *)
(* captured path is set, the captured complete is false and the closure is *)
(* not torn down; otherwise the chain ends.                                *)
(***************************************************************************)
Fire(s) ==
    /\ clo[s] # None
    /\ clo[s].timer
    /\ LET c == clo[s] IN
       clo' = [clo EXCEPT ![s] =
                 IF c.path # NoPath /\ ~c.complete /\ s = cur
                 THEN [c EXCEPT !.timer = FALSE, !.req = Sent(c.path)]
                 ELSE IF s = cur THEN [c EXCEPT !.timer = FALSE]
                 ELSE Tidy([c EXCEPT !.timer = FALSE])]
    /\ UNCHANGED <<mounted, path, srv, data, deps, cur, auto>>

\* What the server may answer to a request for key k: its review for k
\* (a 404 when it has none), or a transport failure.
Replies(k) ==
    {[key |-> k, rev |-> 0, status |-> "failed"]} \cup
      (IF k # NoPath /\ srv[k].status # "none"
       THEN {[key |-> k, rev |-> srv[k].rev, status |-> srv[k].status]}
       ELSE {})

\* The server answers useGet's own fetch.
AnswerAuto ==
    /\ auto # None
    /\ auto.status = "sent"
    /\ auto' \in Replies(auto.key)
    /\ UNCHANGED <<mounted, path, srv, data, deps, cur, clo>>

\* The server answers the refetch of closure s.
AnswerPoll(s) ==
    /\ clo[s] # None
    /\ clo[s].req # None
    /\ clo[s].req.status = "sent"
    /\ \E r \in Replies(clo[s].req.key) : clo' = [clo EXCEPT ![s].req = r]
    /\ UNCHANGED <<mounted, path, srv, data, deps, cur, auto>>

\* Mutant: an error response stored as data.
AppliedStoringErrors(a) ==
    IF a.status = "failed" THEN {data, a} ELSE
    {[key |-> a.key, rev |-> a.rev, status |-> a.status]}

\* useGet's setState on a response: a review replaces data; on an error
\* the library may keep or clear data.
Applied(a) ==
    IF a.status = "failed" THEN {data, None}
    ELSE {[key |-> a.key, rev |-> a.rev, status |-> a.status]}

\* useGet's own fetch settles.
DeliverAuto ==
    /\ auto # None
    /\ auto.status # "sent"
    /\ data' \in Applied(auto)
    /\ auto' = None
    /\ UNCHANGED <<mounted, path, srv, deps, cur, clo>>

\* Mutant: .then reschedules without checking tornDown.
DeliverPollIgnoringTeardown(s) ==
    /\ clo[s] # None
    /\ clo[s].req # None
    /\ clo[s].req.status # "sent"
    /\ data' \in Applied(clo[s].req)
    /\ clo' = [clo EXCEPT ![s] = [@ EXCEPT !.req = None, !.timer = TRUE]]
    /\ UNCHANGED <<mounted, path, srv, deps, cur, auto>>

\* Mutant: .then never schedules the next pollingFn.
DeliverPollWithoutReschedule(s) ==
    /\ clo[s] # None
    /\ clo[s].req # None
    /\ clo[s].req.status # "sent"
    /\ data' \in Applied(clo[s].req)
    /\ clo' = [clo EXCEPT ![s] =
                 IF s = cur THEN [@ EXCEPT !.req = None]
                 ELSE Tidy([@ EXCEPT !.req = None])]
    /\ UNCHANGED <<mounted, path, srv, deps, cur, auto>>

(***************************************************************************)
(* The refetch of closure s settles: useGet applies the response, then the *)
(* .then callback schedules the next pollingFn unless tornDown.            *)
(***************************************************************************)
DeliverPoll(s) ==
    /\ clo[s] # None
    /\ clo[s].req # None
    /\ clo[s].req.status # "sent"
    /\ data' \in Applied(clo[s].req)
    /\ clo' = [clo EXCEPT ![s] =
                 IF s = cur THEN [@ EXCEPT !.req = None, !.timer = TRUE]
                 ELSE Tidy([@ EXCEPT !.req = None])]
    /\ UNCHANGED <<mounted, path, srv, deps, cur, auto>>

-----------------------------------------------------------------------------
(* The environment.                                                        *)

\* The page re-renders with another repository path.
ChangePath(p) ==
    /\ mounted
    /\ p # path
    /\ path' = p
    /\ UNCHANGED <<mounted, srv, data, deps, cur, clo, auto>>

\* A push to the pull request starts a new AI review on the server.
Push(k) ==
    /\ srv[k].rev < MaxRev
    /\ srv' = [srv EXCEPT ![k] = [rev |-> @.rev + 1, status |-> "pending"]]
    /\ UNCHANGED <<mounted, path, data, deps, cur, clo, auto>>

\* The server finishes the pending review.
Finish(k) ==
    /\ srv[k].status = "pending"
    /\ \E st \in {"success", "error"} : srv' = [srv EXCEPT ![k].status = st]
    /\ UNCHANGED <<mounted, path, data, deps, cur, clo, auto>>

\* The section unmounts: the effect cleanups run and useGet aborts.
Unmount ==
    /\ mounted
    /\ mounted' = FALSE
    /\ clo' = [s \in Slots |-> None]
    /\ cur' = None
    /\ auto' = None
    /\ UNCHANGED <<path, srv, data, deps>>

\* A new instance of the section mounts.
Remount ==
    /\ ~mounted
    /\ mounted' = TRUE
    /\ data' = None
    /\ deps' = None
    /\ UNCHANGED <<path, srv, cur, clo, auto>>

-----------------------------------------------------------------------------
Next ==
    \/ Commit
    \/ \E s \in Slots : Fire(s) \/ AnswerPoll(s) \/ DeliverPoll(s)
    \/ AnswerAuto \/ DeliverAuto
    \/ \E p \in PathOrNone : ChangePath(p)
    \/ \E k \in Paths : Push(k) \/ Finish(k)
    \/ Unmount \/ Remount

(***************************************************************************)
(* Fairness: React flushes pending effects, browser timers fire, and every *)
(* request is eventually answered or fails and its promise settles.  The   *)
(* user, the server's reviews and pushes get no fairness.                  *)
(***************************************************************************)
Fairness ==
    /\ WF_vars(Commit)
    /\ \A s \in Slots : WF_vars(Fire(s)) /\ WF_vars(AnswerPoll(s))
                                          /\ WF_vars(DeliverPoll(s))
    /\ WF_vars(AnswerAuto) /\ WF_vars(DeliverAuto)

Spec == Init /\ [][Next]_vars /\ Fairness

-----------------------------------------------------------------------------
(* Properties.                                                             *)

\* Some fetch (useGet's own or a refetch) for key p is in flight.
InFlight(p) ==
    \/ auto # None /\ auto.key = p
    \/ \E s \in Slots : clo[s] # None /\ clo[s].req # None
                        /\ clo[s].req.key = p

\* No fetch at all is in flight.
Quiet ==
    /\ auto = None
    /\ \A s \in Slots : clo[s] = None \/ clo[s].req = None

\* A closure holds a refetch that is still unsettled.
Polling(s) == clo[s] # None /\ clo[s].req # None

(***************************************************************************)
(* Teardown stops the timer chain (the cleanup's clearTimeout and the      *)
(* !tornDown check in the refetch's .then): no closure other than the      *)
(* current one ever holds a pending timer, even when its refetch settles   *)
(* after the effect re-ran.                                                *)
(***************************************************************************)
NoTimerAfterTeardown ==
    \A s \in Slots : s # cur /\ clo[s] # None => ~clo[s].timer

(***************************************************************************)
(* pollingFn never issues a refetch while the hook already holds data,     *)
(* except in the window after the render that received the data and       *)
(* before React re-runs the effect with the new `complete`.                *)
(***************************************************************************)
NoPollWhileHoldingData ==
    [][\A s \in Slots : ~Polling(s) /\ Polling(s)' => (data = None \/ Dirty)]_vars

(***************************************************************************)
(* While the section is mounted on a repository and holds no data, polling *)
(* never dies: whenever nothing is in flight, a fetch for that repository  *)
(* is eventually issued (unless data arrives, the path changes or the      *)
(* section unmounts).  This rests on the reschedule in the refetch's .then *)
(* and on the effect re-running when `complete` falls back to false.       *)
(***************************************************************************)
IncompletePollContinues ==
    \A p \in Paths :
        (mounted /\ path = p /\ data = None /\ Quiet)
            ~> (InFlight(p) \/ data # None \/ ~mounted \/ path # p)

(***************************************************************************)
(* Spec 4.1: a response that is not terminal (status pending) keeps the    *)
(* poller going.  Checked in a settled state for the current repository.   *)
(***************************************************************************)
PendingKeepsPolling ==
    (/\ mounted /\ ~Dirty /\ data # None /\ data.key = path
     /\ data.status = "pending" /\ cur # None)
        => clo[cur].timer \/ Polling(cur) \/ auto # None

(***************************************************************************)
(* Spec 3 and 8.1: at most one request of the view is in flight at a time *)
(* (useGet's own fetch and the poller's refetches together).               *)
(***************************************************************************)
AtMostOneInFlight ==
    Cardinality({s \in Slots : Polling(s)}) + (IF auto # None THEN 1 ELSE 0) <= 1

\* Order of reviews of one repository: later pushes, and within a push a
\* finished review after a pending one.
Rank(d) == 2 * d.rev + (IF d.status = "pending" THEN 0 ELSE 1)

(***************************************************************************)
(* The TODO at the refetch: "an ongoing refetch ... overwrites the new     *)
(* one".  The shown review of a repository never goes back to an older     *)
(* one.                                                                    *)
(***************************************************************************)
ResultNeverRegresses ==
    [][data # None /\ data' # None /\ data'.key = data.key
         => Rank(data') >= Rank(data)]_vars

=============================================================================
