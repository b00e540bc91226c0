------------------------ MODULE AIReviewPollerProofs ------------------------
(***************************************************************************)
(* Proofs about the AI-review poller, for every set of repositories, every *)
(* number of closure slots and every bound on pushes.                      *)
(***************************************************************************)
EXTENDS AIReviewPoller, TLAPS

\* Tidying a closure keeps it a closure or drops it.
LEMMA TidyType ==
    ASSUME NEW c \in Closure \cup {None}
    PROVE  Tidy(c) \in Closure \cup {None}
BY DEF Tidy

\* The request records the model builds are exchanges.
LEMMA SentType ==
    ASSUME NEW k \in PathOrNone
    PROVE  Sent(k) \in Exchange
BY ConstAssumption DEF Sent, Exchange, Revs

LEMMA RepliesType ==
    ASSUME TypeOK, NEW k \in PathOrNone
    PROVE  Replies(k) \subseteq Exchange
<1>1. [key |-> k, rev |-> 0, status |-> "failed"] \in Exchange
  BY ConstAssumption DEF Exchange, Revs
<1>2. ASSUME k # NoPath, srv[k].status # "none"
      PROVE  [key |-> k, rev |-> srv[k].rev, status |-> srv[k].status] \in Result
  <2>1. k \in Paths
    BY <1>2 DEF PathOrNone
  <2>2. srv[k] \in [rev : Revs, status : {"none", "pending", "success", "error"}]
    BY <2>1 DEF TypeOK
  <2>3. QED
    BY <1>2, <2>1, <2>2 DEF Result
<1>3. QED
  BY <1>1, <1>2 DEF Replies, Exchange

LEMMA AppliedType ==
    ASSUME TypeOK, NEW a \in Exchange, a.status # "sent"
    PROVE  Applied(a) \subseteq Result \cup {None}
<1>1. CASE a.status = "failed"
  BY <1>1 DEF Applied, TypeOK
<1>2. CASE a.status # "failed"
  <2>1. a \in Result
    BY <1>2 DEF Exchange
  <2>2. [key |-> a.key, rev |-> a.rev, status |-> a.status] \in Result
    BY <2>1 DEF Result
  <2>3. QED
    BY <1>2, <2>2 DEF Applied
<1>3. QED
  BY <1>1, <1>2

\* A closure with its timer or request changed within their types.
LEMMA ClosureUpdate ==
    ASSUME NEW c \in Closure, NEW t \in BOOLEAN, NEW r \in Exchange \cup {None}
    PROVE  /\ [c EXCEPT !.timer = t] \in Closure
           /\ [c EXCEPT !.req = r] \in Closure
           /\ [c EXCEPT !.timer = t, !.req = r] \in Closure
BY DEF Closure

-----------------------------------------------------------------------------
(***************************************************************************)
(* Type correctness: every step keeps every variable in its type; in       *)
(* particular the closures rebuilt by an effect commit, and the data a     *)
(* settled request writes, are well formed.                                *)
(***************************************************************************)
THEOREM TypeCorrect == Spec => []TypeOK
<1>1. Init => TypeOK
  BY ConstAssumption DEF Init, TypeOK, Revs
<1>2. TypeOK /\ [Next]_vars => TypeOK'
  <2> SUFFICES ASSUME TypeOK, [Next]_vars PROVE TypeOK'
    OBVIOUS
  <2>1. CASE Commit
    <3> DEFINE keyChanged == deps = None \/ deps.path # path
               cleaned == [s \in Slots |->
                            IF clo[s] = None THEN None
                            ELSE Tidy([clo[s] EXCEPT
                                   !.timer = IF s = cur THEN FALSE ELSE @,
                                   !.req   = IF keyChanged THEN None ELSE @])]
    <3>1. cleaned \in [Slots -> Closure \cup {None}]
      <4> SUFFICES ASSUME NEW s \in Slots, clo[s] # None
                   PROVE  Tidy([clo[s] EXCEPT
                                   !.timer = IF s = cur THEN FALSE ELSE @,
                                   !.req   = IF keyChanged THEN None ELSE @])
                          \in Closure \cup {None}
        OBVIOUS
      <4>1. clo[s] \in Closure
        BY DEF TypeOK
      <4>2. [clo[s] EXCEPT !.timer = IF s = cur THEN FALSE ELSE @,
                           !.req   = IF keyChanged THEN None ELSE @]
            \in Closure
        BY <4>1 DEF Closure
      <4>3. QED
        BY <4>2, TidyType
    <3>2. [path |-> path, complete |-> Complete, timer |-> TRUE, req |-> None]
            \in Closure
      BY DEF TypeOK, Closure, Complete
    <3>3. PICK s \in Slots :
            /\ cleaned[s] = None
            /\ clo' = [cleaned EXCEPT ![s] = [path |-> path,
                                             complete |-> Complete,
                                             timer |-> TRUE, req |-> None]]
            /\ cur' = s
            /\ auto' = IF keyChanged THEN Sent(path) ELSE auto
      BY <2>1 DEF Commit
    <3>4. clo' \in [Slots -> Closure \cup {None}]
      BY <3>1, <3>2, <3>3
    <3>5. auto' \in Exchange \cup {None}
      BY <3>3, SentType DEF TypeOK
    <3>6. deps' \in Deps \cup {None}
      BY <2>1 DEF Commit, RenderDeps, Deps, TypeOK, Complete
    <3>7. QED
      BY <2>1, <3>3, <3>4, <3>5, <3>6 DEF Commit, TypeOK
  <2>2. ASSUME NEW s \in Slots, Fire(s) PROVE TypeOK'
    <3>1. clo[s] \in Closure
      BY <2>2 DEF Fire, TypeOK
    <3>2. Sent(clo[s].path) \in Exchange
      BY <3>1, SentType DEF Closure
    <3>3. [clo[s] EXCEPT !.timer = FALSE] \in Closure
      BY <3>1, ClosureUpdate
    <3>4. [clo[s] EXCEPT !.timer = FALSE, !.req = Sent(clo[s].path)] \in Closure
      BY <3>1, <3>2, ClosureUpdate
    <3>5. Tidy([clo[s] EXCEPT !.timer = FALSE]) \in Closure \cup {None}
      BY <3>3, TidyType
    <3>6. clo' \in [Slots -> Closure \cup {None}]
      BY <2>2, <3>3, <3>4, <3>5 DEF Fire, TypeOK
    <3>7. QED
      BY <2>2, <3>6 DEF Fire, TypeOK
  <2>3. ASSUME NEW s \in Slots, AnswerPoll(s) PROVE TypeOK'
    <3>1. clo[s] \in Closure
      BY <2>3 DEF AnswerPoll, TypeOK
    <3>2. clo[s].req.key \in PathOrNone
      BY <2>3, <3>1 DEF AnswerPoll, Closure, Exchange, Result, PathOrNone
    <3>3. PICK r \in Replies(clo[s].req.key) : clo' = [clo EXCEPT ![s].req = r]
      BY <2>3 DEF AnswerPoll
    <3>4. r \in Exchange
      BY <3>2, RepliesType
    <3>5. [clo[s] EXCEPT !.req = r] \in Closure
      BY <3>1, <3>4, ClosureUpdate
    <3>6. clo' \in [Slots -> Closure \cup {None}]
      BY <3>3, <3>5 DEF TypeOK
    <3>7. QED
      BY <2>3, <3>6 DEF AnswerPoll, TypeOK
  <2>4. ASSUME NEW s \in Slots, DeliverPoll(s) PROVE TypeOK'
    <3>1. clo[s] \in Closure
      BY <2>4 DEF DeliverPoll, TypeOK
    <3>2. data' \in Result \cup {None}
      BY <2>4, <3>1, AppliedType DEF DeliverPoll, Closure
    <3>3. [clo[s] EXCEPT !.req = None, !.timer = TRUE] \in Closure
      BY <3>1 DEF Closure
    <3>4. Tidy([clo[s] EXCEPT !.req = None]) \in Closure \cup {None}
      BY <3>1, ClosureUpdate, TidyType
    <3>5. clo' \in [Slots -> Closure \cup {None}]
      BY <2>4, <3>3, <3>4 DEF DeliverPoll, TypeOK
    <3>6. QED
      BY <2>4, <3>2, <3>5 DEF DeliverPoll, TypeOK
  <2>5. CASE AnswerAuto
    <3>1. auto.key \in PathOrNone
      BY <2>5 DEF AnswerAuto, TypeOK, Exchange, Result, PathOrNone
    <3>2. QED
      BY <2>5, <3>1, RepliesType DEF AnswerAuto, TypeOK
  <2>6. CASE DeliverAuto
    BY <2>6, AppliedType DEF DeliverAuto, TypeOK
  <2>7. ASSUME NEW p \in PathOrNone, ChangePath(p) PROVE TypeOK'
    BY <2>7 DEF ChangePath, TypeOK
  <2>8. ASSUME NEW k \in Paths, Push(k) PROVE TypeOK'
    BY <2>8, ConstAssumption DEF Push, TypeOK, Revs
  <2>9. ASSUME NEW k \in Paths, Finish(k) PROVE TypeOK'
    BY <2>9 DEF Finish, TypeOK
  <2>10. CASE Unmount
    BY <2>10 DEF Unmount, TypeOK
  <2>11. CASE Remount
    BY <2>11 DEF Remount, TypeOK
  <2>12. CASE UNCHANGED vars
    BY <2>12 DEF vars, TypeOK
  <2>13. QED
    BY <2>1, <2>2, <2>3, <2>4, <2>5, <2>6, <2>7, <2>8, <2>9, <2>10, <2>11,
       <2>12 DEF Next
<1>3. QED
  BY <1>1, <1>2, PTL DEF Spec

-----------------------------------------------------------------------------
\* Tidying never gives a closure a timer.
LEMMA TidyTimer ==
    ASSUME NEW c \in Closure, ~c.timer
    PROVE  Tidy(c) = None \/ ~Tidy(c).timer
BY DEF Tidy

(***************************************************************************)
(* Teardown stops the timer chain, for any number of closure slots: the    *)
(* effect cleanup clears the current closure's timer before a new closure  *)
(* becomes current, and the refetch's .then re-arms a timer only for the   *)
(* closure that is not torn down.  Together with TypeOK the property is    *)
(* inductive.                                                              *)
(***************************************************************************)
THEOREM TeardownStopsTimers == Spec => []NoTimerAfterTeardown
<1>1. Init => NoTimerAfterTeardown
  BY DEF Init, NoTimerAfterTeardown
<1>2. TypeOK /\ NoTimerAfterTeardown /\ [Next]_vars => NoTimerAfterTeardown'
  <2> SUFFICES ASSUME TypeOK, NoTimerAfterTeardown, [Next]_vars
               PROVE  NoTimerAfterTeardown'
    OBVIOUS
  <2>1. CASE Commit
    <3> DEFINE keyChanged == deps = None \/ deps.path # path
               cleaned == [s \in Slots |->
                            IF clo[s] = None THEN None
                            ELSE Tidy([clo[s] EXCEPT
                                   !.timer = IF s = cur THEN FALSE ELSE @,
                                   !.req   = IF keyChanged THEN None ELSE @])]
    <3>1. PICK s \in Slots :
            /\ cleaned[s] = None
            /\ clo' = [cleaned EXCEPT ![s] = [path |-> path,
                                             complete |-> Complete,
                                             timer |-> TRUE, req |-> None]]
            /\ cur' = s
      BY <2>1 DEF Commit
    <3>2. ASSUME NEW t \in Slots, t # s, cleaned[t] # None
          PROVE  ~cleaned[t].timer
      <4> DEFINE e == [clo[t] EXCEPT !.timer = IF t = cur THEN FALSE ELSE @,
                                     !.req   = IF keyChanged THEN None ELSE @]
      <4>1. clo[t] # None
        BY <3>2
      <4>2. clo[t] \in Closure
        BY <4>1 DEF TypeOK
      <4>3. e \in Closure
        BY <4>2 DEF Closure
      <4>4. ~e.timer
        <5>1. CASE t = cur
          BY <4>2, <5>1 DEF Closure
        <5>2. CASE t # cur
          BY <4>1, <4>2, <5>2 DEF NoTimerAfterTeardown, Closure
        <5>3. QED
          BY <5>1, <5>2
      <4>5. cleaned[t] = Tidy(e)
        BY <4>1
      <4>6. QED
        BY <3>2, <4>4, <4>5 DEF Tidy
    <3>3. QED
      BY <3>1, <3>2 DEF NoTimerAfterTeardown
  <2>2. ASSUME NEW s \in Slots, Fire(s) PROVE NoTimerAfterTeardown'
    <3>1. clo' = [clo EXCEPT ![s] = clo'[s]] /\ cur' = cur
      BY <2>2 DEF Fire, TypeOK
    <3>2. CASE s = cur
      BY <3>1, <3>2 DEF NoTimerAfterTeardown, TypeOK
    <3>3. CASE s # cur
      <4>1. clo[s] \in Closure
        BY <2>2 DEF Fire, TypeOK
      <4>2. [clo[s] EXCEPT !.timer = FALSE] \in Closure
        BY <4>1, ClosureUpdate
      <4>3. clo'[s] = Tidy([clo[s] EXCEPT !.timer = FALSE])
        BY <2>2, <3>3 DEF Fire, TypeOK
      <4>4. clo'[s] = None \/ ~clo'[s].timer
        BY <4>2, <4>3, TidyTimer DEF Closure
      <4>5. QED
        BY <3>1, <4>4 DEF NoTimerAfterTeardown, TypeOK
    <3>4. QED
      BY <3>2, <3>3
  <2>3. ASSUME NEW s \in Slots, AnswerPoll(s) PROVE NoTimerAfterTeardown'
    <3>1. PICK r \in Replies(clo[s].req.key) : clo' = [clo EXCEPT ![s].req = r]
      BY <2>3 DEF AnswerPoll
    <3>2. clo[s] \in Closure
      BY <2>3 DEF AnswerPoll, TypeOK
    <3>3. QED
      BY <2>3, <3>1, <3>2 DEF AnswerPoll, NoTimerAfterTeardown, TypeOK, Closure
  <2>4. ASSUME NEW s \in Slots, DeliverPoll(s) PROVE NoTimerAfterTeardown'
    <3>1. clo' = [clo EXCEPT ![s] = clo'[s]] /\ cur' = cur
      BY <2>4 DEF DeliverPoll, TypeOK
    <3>2. CASE s = cur
      BY <3>1, <3>2 DEF NoTimerAfterTeardown, TypeOK
    <3>3. CASE s # cur
      <4>1. clo[s] \in Closure /\ ~clo[s].timer
        BY <2>4, <3>3 DEF DeliverPoll, TypeOK, NoTimerAfterTeardown
      <4>2. [clo[s] EXCEPT !.req = None] \in Closure
            /\ ~[clo[s] EXCEPT !.req = None].timer
        BY <4>1 DEF Closure
      <4>3. clo'[s] = Tidy([clo[s] EXCEPT !.req = None])
        BY <2>4, <3>3 DEF DeliverPoll, TypeOK
      <4>4. clo'[s] = None \/ ~clo'[s].timer
        BY <4>2, <4>3, TidyTimer
      <4>5. QED
        BY <3>1, <4>4 DEF NoTimerAfterTeardown, TypeOK
    <3>4. QED
      BY <3>2, <3>3
  <2>5. CASE AnswerAuto \/ DeliverAuto
    BY <2>5 DEF AnswerAuto, DeliverAuto, NoTimerAfterTeardown
  <2>6. ASSUME NEW p \in PathOrNone, ChangePath(p) PROVE NoTimerAfterTeardown'
    BY <2>6 DEF ChangePath, NoTimerAfterTeardown
  <2>7. ASSUME NEW k \in Paths, Push(k) \/ Finish(k) PROVE NoTimerAfterTeardown'
    BY <2>7 DEF Push, Finish, NoTimerAfterTeardown
  <2>8. CASE Unmount \/ Remount
    BY <2>8 DEF Unmount, Remount, NoTimerAfterTeardown
  <2>9. CASE UNCHANGED vars
    BY <2>9 DEF vars, NoTimerAfterTeardown
  <2>10. QED
    BY <2>1, <2>2, <2>3, <2>4, <2>5, <2>6, <2>7, <2>8, <2>9 DEF Next
<1>3. QED
  BY <1>1, <1>2, TypeCorrect, PTL DEF Spec

-----------------------------------------------------------------------------
(***************************************************************************)
(* The current closure captured the dependencies React last committed: the *)
(* effect's run creates it with them, and only its timer and request      *)
(* change afterwards; an unmounted section has no current closure, so a   *)
(* remount (which forgets the committed deps) leaves none behind.          *)
(***************************************************************************)
CurCaptured ==
    cur # None /\ clo[cur] # None =>
        /\ mounted
        /\ clo[cur].path = deps.path /\ clo[cur].complete = deps.complete

\* A closure keeps its captured deps when its timer or request changes.
LEMMA ClosureKeepsDeps ==
    ASSUME NEW c \in Closure, NEW t, NEW r
    PROVE  /\ [c EXCEPT !.timer = t].path = c.path
           /\ [c EXCEPT !.timer = t].complete = c.complete
           /\ [c EXCEPT !.req = r].path = c.path
           /\ [c EXCEPT !.req = r].complete = c.complete
           /\ [c EXCEPT !.timer = t, !.req = r].path = c.path
           /\ [c EXCEPT !.timer = t, !.req = r].complete = c.complete
BY DEF Closure

LEMMA CurCapturedStep ==
    TypeOK /\ CurCaptured /\ [Next]_vars => CurCaptured'
<1> SUFFICES ASSUME TypeOK, CurCaptured, [Next]_vars PROVE CurCaptured'
  OBVIOUS
<1>1. CASE Commit
  <2>1. PICK s \in Slots :
          /\ clo'[s] = [path |-> path, complete |-> Complete,
                        timer |-> TRUE, req |-> None]
          /\ cur' = s
    <3>1. PICK s \in Slots :
            /\ clo' = [[t \in Slots |->
                         IF clo[t] = None THEN None
                         ELSE Tidy([clo[t] EXCEPT
                                !.timer = IF t = cur THEN FALSE ELSE @,
                                !.req = IF deps = None \/ deps.path # path
                                        THEN None ELSE @])]
                       EXCEPT ![s] = [path |-> path, complete |-> Complete,
                                      timer |-> TRUE, req |-> None]]
            /\ cur' = s
      BY <1>1 DEF Commit
    <3>2. QED
      BY <3>1
  <2>2. mounted' /\ deps' = RenderDeps
    BY <1>1 DEF Commit, Dirty
  <2>3. clo'[cur'].path = deps'.path /\ clo'[cur'].complete = deps'.complete
    BY <2>1, <2>2 DEF RenderDeps
  <2>4. QED
    BY <2>2, <2>3 DEF CurCaptured
<1>2. ASSUME NEW s \in Slots, Fire(s) PROVE CurCaptured'
  <2>1. UNCHANGED <<mounted, deps, cur>> /\ clo' = [clo EXCEPT ![s] = clo'[s]]
    BY <1>2 DEF Fire, TypeOK
  <2>2. CASE s = cur
    <3>1. clo[s] \in Closure
      BY <1>2 DEF Fire, TypeOK
    <3>2. clo'[s].path = clo[s].path /\ clo'[s].complete = clo[s].complete
      BY <1>2, <2>2, <3>1, ClosureKeepsDeps DEF Fire
    <3>3. QED
      BY <1>2, <2>1, <2>2, <3>2 DEF Fire, CurCaptured
  <2>3. CASE s # cur
    <3>1. CASE cur = None
      BY <2>1, <3>1 DEF CurCaptured
    <3>2. CASE cur # None
      BY <2>1, <2>3, <3>2 DEF CurCaptured, TypeOK
    <3>3. QED
      BY <3>1, <3>2
  <2>4. QED
    BY <2>2, <2>3
<1>3. ASSUME NEW s \in Slots, AnswerPoll(s) PROVE CurCaptured'
  <2>1. PICK r \in Replies(clo[s].req.key) : clo' = [clo EXCEPT ![s].req = r]
    BY <1>3 DEF AnswerPoll
  <2>2. clo[s] \in Closure
    BY <1>3 DEF AnswerPoll, TypeOK
  <2>3. QED
    BY <1>3, <2>1, <2>2 DEF AnswerPoll, CurCaptured, TypeOK, Closure
<1>4. ASSUME NEW s \in Slots, DeliverPoll(s) PROVE CurCaptured'
  <2>1. UNCHANGED <<mounted, deps, cur>> /\ clo' = [clo EXCEPT ![s] = clo'[s]]
    BY <1>4 DEF DeliverPoll, TypeOK
  <2>2. CASE s = cur
    <3>1. clo[s] \in Closure
      BY <1>4 DEF DeliverPoll, TypeOK
    <3>2. clo'[s] = [clo[s] EXCEPT !.req = None, !.timer = TRUE]
      BY <1>4, <2>2 DEF DeliverPoll, TypeOK
    <3>3. clo'[s].path = clo[s].path /\ clo'[s].complete = clo[s].complete
      BY <3>1, <3>2 DEF Closure
    <3>4. QED
      BY <1>4, <2>1, <2>2, <3>3 DEF DeliverPoll, CurCaptured
  <2>3. CASE s # cur
    <3>1. CASE cur = None
      BY <2>1, <3>1 DEF CurCaptured
    <3>2. CASE cur # None
      BY <2>1, <2>3, <3>2 DEF CurCaptured, TypeOK
    <3>3. QED
      BY <3>1, <3>2
  <2>4. QED
    BY <2>2, <2>3
<1>5. CASE AnswerAuto \/ DeliverAuto
  BY <1>5 DEF AnswerAuto, DeliverAuto, CurCaptured
<1>6. ASSUME NEW p \in PathOrNone, ChangePath(p) PROVE CurCaptured'
  BY <1>6 DEF ChangePath, CurCaptured
<1>7. ASSUME NEW k \in Paths, Push(k) \/ Finish(k) PROVE CurCaptured'
  BY <1>7 DEF Push, Finish, CurCaptured
<1>8. CASE Unmount
  BY <1>8 DEF Unmount, CurCaptured
<1>9. CASE Remount
  BY <1>9 DEF Remount, CurCaptured
<1>10. CASE UNCHANGED vars
  BY <1>10 DEF vars, CurCaptured
<1>11. QED
  BY <1>1, <1>2, <1>3, <1>4, <1>5, <1>6, <1>7, <1>8, <1>9, <1>10 DEF Next

\* A step of NoPollWhileHoldingData: a closure that starts polling does so
\* with no data held, or before the effect re-ran with the new complete.
NoPollStep ==
    \A s \in Slots : ~Polling(s) /\ Polling(s)' => (data = None \/ Dirty)

\* Tidying a closure with no request leaves no request.
LEMMA TidyNoReq ==
    ASSUME NEW c \in Closure, c.req = None
    PROVE  Tidy(c) = None \/ Tidy(c).req = None
BY DEF Tidy

LEMMA PollStep ==
    TypeOK /\ CurCaptured /\ [Next]_vars => [NoPollStep]_vars
<1> SUFFICES ASSUME TypeOK, CurCaptured, [Next]_vars,
                    NEW s \in Slots, ~Polling(s), Polling(s)'
             PROVE  data = None \/ Dirty
  BY DEF NoPollStep
<1>1. clo[s] = None \/ clo[s].req = None
  BY DEF Polling
<1>2. CASE Commit
  BY <1>2 DEF Commit
<1>3. ASSUME NEW t \in Slots, Fire(t) PROVE data = None \/ Dirty
  <2>1. CASE t # s
    BY <1>3, <2>1, <1>1 DEF Fire, Polling, TypeOK
  <2>2. CASE t = s
    <3>1. clo[s] \in Closure /\ clo[s].req = None
      BY <1>1, <1>3, <2>2 DEF Fire, TypeOK
    <3>2. CASE clo[s].path # NoPath /\ ~clo[s].complete /\ s = cur
      \* pollingFn refetches: the captured complete is the committed one
      <4>0. cur # None /\ clo[cur] # None
        BY <1>3, <2>2, <3>2, ConstAssumption DEF Fire
      <4>1. mounted /\ clo[cur].complete = deps.complete
        BY <4>0 DEF CurCaptured
      <4>2. ~Dirty => deps = RenderDeps
        BY <4>1 DEF Dirty
      <4>3. ~deps.complete
        BY <3>2, <4>1
      <4>4. ~Dirty => deps.complete = Complete
        BY <4>2 DEF RenderDeps
      <4>5. ~Dirty => ~Complete
        BY <4>3, <4>4
      <4>6. QED
        BY <4>5 DEF Complete
    <3>3. CASE ~(clo[s].path # NoPath /\ ~clo[s].complete /\ s = cur) /\ s = cur
      <4>1. clo'[s] = [clo[s] EXCEPT !.timer = FALSE]
        BY <1>3, <2>2, <3>3 DEF Fire, TypeOK
      <4>2. QED
        BY <3>1, <4>1 DEF Polling, Closure
    <3>4. CASE s # cur
      <4>1. [clo[s] EXCEPT !.timer = FALSE] \in Closure
            /\ [clo[s] EXCEPT !.timer = FALSE].req = None
        BY <3>1 DEF Closure
      <4>2. clo'[s] = Tidy([clo[s] EXCEPT !.timer = FALSE])
        BY <1>3, <2>2, <3>4 DEF Fire, TypeOK
      <4>3. QED
        BY <4>1, <4>2, TidyNoReq DEF Polling
    <3>5. QED
      BY <3>2, <3>3, <3>4
  <2>3. QED
    BY <2>1, <2>2
<1>4. ASSUME NEW t \in Slots, AnswerPoll(t) PROVE data = None \/ Dirty
  <2>1. PICK r \in Replies(clo[t].req.key) : clo' = [clo EXCEPT ![t].req = r]
    BY <1>4 DEF AnswerPoll
  <2>2. t # s
    BY <1>1, <1>4 DEF AnswerPoll
  <2>3. QED
    BY <1>1, <2>1, <2>2 DEF Polling, TypeOK
<1>5. ASSUME NEW t \in Slots, DeliverPoll(t) PROVE data = None \/ Dirty
  <2>1. CASE t # s
    BY <1>5, <2>1, <1>1 DEF DeliverPoll, Polling, TypeOK
  <2>2. CASE t = s
    <3>1. clo[s] \in Closure
      BY <1>5, <2>2 DEF DeliverPoll, TypeOK
    <3>2. [clo[s] EXCEPT !.req = None] \in Closure
          /\ [clo[s] EXCEPT !.req = None].req = None
          /\ [clo[s] EXCEPT !.req = None, !.timer = TRUE].req = None
      BY <3>1 DEF Closure
    <3>3. clo'[s] = [clo[s] EXCEPT !.req = None, !.timer = TRUE]
          \/ clo'[s] = Tidy([clo[s] EXCEPT !.req = None])
      BY <1>5, <2>2 DEF DeliverPoll, TypeOK
    <3>4. QED
      BY <3>2, <3>3, TidyNoReq DEF Polling
  <2>3. QED
    BY <2>1, <2>2
<1>6. CASE AnswerAuto \/ DeliverAuto
  BY <1>1, <1>6 DEF AnswerAuto, DeliverAuto, Polling
<1>7. ASSUME NEW p \in PathOrNone, ChangePath(p) PROVE data = None \/ Dirty
  BY <1>1, <1>7 DEF ChangePath, Polling
<1>8. ASSUME NEW k \in Paths, Push(k) \/ Finish(k) PROVE data = None \/ Dirty
  BY <1>1, <1>8 DEF Push, Finish, Polling
<1>9. CASE Unmount \/ Remount
  BY <1>1, <1>9 DEF Unmount, Remount, Polling
<1>10. CASE UNCHANGED vars
  BY <1>1, <1>10 DEF vars, Polling
<1>11. QED
  BY <1>2, <1>3, <1>4, <1>5, <1>6, <1>7, <1>8, <1>9, <1>10 DEF Next

(***************************************************************************)
(* pollingFn never issues a refetch while the hook holds data, except in   *)
(* the window between the render that received the data and React's re-run *)
(* of the effect with the new complete: a refetch starts only from the     *)
(* current closure whose captured complete is false, and that closure     *)
(* captured the committed deps.  For any repositories, slots and pushes.  *)
(***************************************************************************)
THEOREM NoPollWhileHoldingDataProved == Spec => NoPollWhileHoldingData
<1>1. Init => CurCaptured
  BY DEF Init, CurCaptured
<1>2. QED
  BY <1>1, CurCapturedStep, PollStep, TypeCorrect, PTL
     DEF Spec, NoPollWhileHoldingData, NoPollStep

=============================================================================
