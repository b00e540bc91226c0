------------------------- MODULE ArtifactListProofs -------------------------
(***************************************************************************)
(* Proofs about the artifact page, for any artifacts, formats, search     *)
(* terms, page size and page bound.                                       *)
(***************************************************************************)
EXTENDS ArtifactList, FiniteSetTheorems, TLAPS

(***************************************************************************)
(* The inductive invariant.  Every fetch in flight is for the parameters  *)
(* of the latest render, because each change of them aborts the others;  *)
(* the header's search box and drop-down always show those parameters,   *)
(* because every callback sets the header's copy and the page's state in *)
(* one step; and a list shown without an error for other parameters      *)
(* still has a fetch in flight that will replace it or raise the error.  *)
(* TypeOK alone is not inductive: an answered fetch must carry the         *)
(* server's snapshot for the list useGet sets from it to be well typed.   *)
(***************************************************************************)
AtCurrent(par) == par.page = page /\ par.query = query /\ par.filter = filter
InFlightCurrent == \A x \in fetches : AtCurrent(x.par)
HeaderCurrent == Shows(Current)
StaleWhileLoading == ~err /\ list # None /\ ~AtCurrent(list.par) => fetches # {}

AnsweredHasSnap == \A x \in fetches : x.st = "ok" => x.snap \in Snapshot

IInv == TypeOK /\ AnsweredHasSnap /\ InFlightCurrent /\ HeaderCurrent /\ StaleWhileLoading


\* What the server answers for any parameters is a snapshot of the artifacts.
LEMMA AnswerType ==
    ASSUME NEW par \in Params
    PROVE  Answer(par) \in Snapshot
<1> DEFINE S == Selected(par.query, par.filter)
<1>1. S \subseteq Artifacts
  BY DEF Selected
<1>2. Cardinality(S) \in 0..Cardinality(Artifacts)
  BY <1>1, ArtifactAssumption, FS_Subset, FS_CardinalityType
<1>3. PageOf(S, par.page) \subseteq Artifacts
  BY <1>1 DEF PageOf
<1>4. QED
  BY <1>2, <1>3 DEF Answer, Snapshot

\* A fetch of the latest render's parameters, just sent, is well typed.
LEMMA RefetchType ==
    ASSUME NEW par \in Params
    PROVE  /\ Refetch(par) \subseteq [par : Params, st : {"sent", "failed"} \cup {"ok"},
                                      snap : Snapshot \cup {None}]
           /\ \A x \in Refetch(par) : x.par = par
           /\ Refetch(par) # {}
BY DEF Refetch

LEMMA InitIInv == Init => IInv
<1> SUFFICES ASSUME Init PROVE IInv
  OBVIOUS
<1>1. Current \in Params
  BY DEF Init, Current, Params, AllQueries
<1>2. TypeOK
  <2>1. fetches \subseteq [par : Params, st : {"sent", "failed"} \cup {"ok"},
                          snap : Snapshot \cup {None}]
    BY <1>1, RefetchType DEF Init
  <2>2. hdrQuery \in Queries \cup {EmptyQuery} /\ hdrFilter \in Filters
    BY DEF Init
  <2>3. page \in Pages /\ query \in AllQueries /\ filter \in Filters
    BY DEF Init, AllQueries
  <2>4. list \in [par : Params, snap : Snapshot] \cup {None} /\ err \in BOOLEAN
    BY DEF Init
  <2>5. QED
    BY <2>1, <2>2, <2>3, <2>4 DEF TypeOK
<1>3. InFlightCurrent /\ AnsweredHasSnap
  BY DEF Init, InFlightCurrent, AtCurrent, Current, AnsweredHasSnap, Refetch
<1>4. HeaderCurrent
  BY DEF Init, HeaderCurrent, Shows, Current
<1>5. StaleWhileLoading
  BY DEF Init, StaleWhileLoading
<1>6. QED
  BY <1>2, <1>3, <1>4, <1>5 DEF IInv


LEMMA NextIInv == IInv /\ [Next]_vars => IInv'
<1> SUFFICES ASSUME IInv, [Next]_vars PROVE IInv'
  OBVIOUS
<1> USE DEF IInv
<1>0. 1 \in Pages
  BY ArtifactAssumption DEF Pages
<1>1. ASSUME NEW q \in AllQueries, Search(q) PROVE IInv'
  <2> DEFINE par == [Current EXCEPT !.query = q, !.page = 1]
  <2>1. par.page = 1 /\ par.query = q /\ par.filter = filter
    BY DEF Current
  <2>2. par \in Params
    BY <1>0, <2>1 DEF Current, Params, TypeOK
  <2>3. fetches' = Refetch(par)
    BY <1>1 DEF Search
  <2>4. par.page = page' /\ par.query = query' /\ par.filter = filter'
    BY <1>1, <2>1 DEF Search, AtCurrent
  <2>5. TypeOK'
    <3>1. fetches' \subseteq [par : Params, st : {"sent", "failed"} \cup {"ok"},
                             snap : Snapshot \cup {None}]
      BY <2>2, <2>3, RefetchType
    <3>2. hdrQuery' \in Queries \cup {EmptyQuery} /\ query' \in AllQueries
      BY <1>1 DEF Search, TypeOK, AllQueries
    <3>3. page' \in Pages /\ filter' \in Filters /\ hdrFilter' \in Filters
      BY <1>0, <1>1 DEF Search, TypeOK
    <3>4. list' \in [par : Params, snap : Snapshot] \cup {None} /\ err' \in BOOLEAN
      BY <1>1 DEF Search, TypeOK
    <3>5. QED
      BY <3>1, <3>2, <3>3, <3>4 DEF TypeOK
  <2>6. AnsweredHasSnap' /\ InFlightCurrent' /\ StaleWhileLoading'
    <3>1. AnsweredHasSnap'
      BY <2>3 DEF AnsweredHasSnap, Refetch
    <3>2. InFlightCurrent'
      <4>1. \A x \in fetches' : x.par = par
        BY <2>3 DEF Refetch
      <4>2. QED
        BY <4>1, <2>4, Zenon DEF InFlightCurrent, AtCurrent
    <3>3. StaleWhileLoading'
      BY <2>3 DEF StaleWhileLoading, Refetch
    <3>4. QED
      BY <3>1, <3>2, <3>3
  <2>7. HeaderCurrent'
    BY <1>1 DEF Search, HeaderCurrent, Shows, Current
  <2>8. QED
    BY <2>5, <2>6, <2>7
<1>2. ASSUME NEW f \in Filters, SetFilter(f) PROVE IInv'
  <2> DEFINE par == [Current EXCEPT !.filter = f, !.page = 1]
  <2>1. par.page = 1 /\ par.query = query /\ par.filter = f
    BY DEF Current
  <2>2. par \in Params
    BY <1>0, <2>1 DEF Current, Params, TypeOK
  <2>3. fetches' = Refetch(par)
    BY <1>2 DEF SetFilter
  <2>4. par.page = page' /\ par.query = query' /\ par.filter = filter'
    BY <1>2, <2>1 DEF SetFilter, AtCurrent
  <2>5. TypeOK'
    <3>1. fetches' \subseteq [par : Params, st : {"sent", "failed"} \cup {"ok"},
                             snap : Snapshot \cup {None}]
      BY <2>2, <2>3, RefetchType
    <3>2. hdrQuery' \in Queries \cup {EmptyQuery} /\ query' \in AllQueries
      BY <1>2 DEF SetFilter, TypeOK, AllQueries
    <3>3. page' \in Pages /\ filter' \in Filters /\ hdrFilter' \in Filters
      BY <1>0, <1>2 DEF SetFilter, TypeOK
    <3>4. list' \in [par : Params, snap : Snapshot] \cup {None} /\ err' \in BOOLEAN
      BY <1>2 DEF SetFilter, TypeOK
    <3>5. QED
      BY <3>1, <3>2, <3>3, <3>4 DEF TypeOK
  <2>6. AnsweredHasSnap' /\ InFlightCurrent' /\ StaleWhileLoading'
    <3>1. AnsweredHasSnap'
      BY <2>3 DEF AnsweredHasSnap, Refetch
    <3>2. InFlightCurrent'
      <4>1. \A x \in fetches' : x.par = par
        BY <2>3 DEF Refetch
      <4>2. QED
        BY <4>1, <2>4, Zenon DEF InFlightCurrent, AtCurrent
    <3>3. StaleWhileLoading'
      BY <2>3 DEF StaleWhileLoading, Refetch
    <3>4. QED
      BY <3>1, <3>2, <3>3
  <2>7. HeaderCurrent'
    BY <1>2 DEF SetFilter, HeaderCurrent, Shows, Current
  <2>8. QED
    BY <2>5, <2>6, <2>7
<1>3. ASSUME NEW p \in Pages, SetPage(p) PROVE IInv'
  <2> DEFINE par == [Current EXCEPT !.page = p]
  <2>1. par.page = p /\ par.query = query /\ par.filter = filter
    BY DEF Current
  <2>2. par \in Params
    BY <1>0, <2>1 DEF Current, Params, TypeOK
  <2>3. fetches' = Refetch(par)
    BY <1>3 DEF SetPage
  <2>4. par.page = page' /\ par.query = query' /\ par.filter = filter'
    BY <1>3, <2>1 DEF SetPage, AtCurrent
  <2>5. TypeOK'
    <3>1. fetches' \subseteq [par : Params, st : {"sent", "failed"} \cup {"ok"},
                             snap : Snapshot \cup {None}]
      BY <2>2, <2>3, RefetchType
    <3>2. hdrQuery' \in Queries \cup {EmptyQuery} /\ query' \in AllQueries
      BY <1>3 DEF SetPage, TypeOK, AllQueries
    <3>3. page' \in Pages /\ filter' \in Filters /\ hdrFilter' \in Filters
      BY <1>0, <1>3 DEF SetPage, TypeOK
    <3>4. list' \in [par : Params, snap : Snapshot] \cup {None} /\ err' \in BOOLEAN
      BY <1>3 DEF SetPage, TypeOK
    <3>5. QED
      BY <3>1, <3>2, <3>3, <3>4 DEF TypeOK
  <2>6. AnsweredHasSnap' /\ InFlightCurrent' /\ StaleWhileLoading'
    <3>1. AnsweredHasSnap'
      BY <2>3 DEF AnsweredHasSnap, Refetch
    <3>2. InFlightCurrent'
      <4>1. \A x \in fetches' : x.par = par
        BY <2>3 DEF Refetch
      <4>2. QED
        BY <4>1, <2>4, Zenon DEF InFlightCurrent, AtCurrent
    <3>3. StaleWhileLoading'
      BY <2>3 DEF StaleWhileLoading, Refetch
    <3>4. QED
      BY <3>1, <3>2, <3>3
  <2>7. HeaderCurrent'
    BY <1>3 DEF SetPage, HeaderCurrent, Shows, Current
  <2>8. QED
    BY <2>5, <2>6, <2>7
<1>4. ASSUME NEW x \in fetches, AnswerFetch(x) PROVE IInv'
  <2>1. x.par \in Params /\ AtCurrent(x.par)
    BY DEF TypeOK, InFlightCurrent
  <2>2. Answer(x.par) \in Snapshot
    BY <2>1, AnswerType
  <2>3. UNCHANGED <<page, query, filter>>
    BY <1>4 DEF AnswerFetch
  <2> DEFINE ok == [x EXCEPT !.st = "ok", !.snap = Answer(x.par)]
              failed == [x EXCEPT !.st = "failed"]
  <2>4. /\ fetches' \subseteq fetches \cup {ok, failed}
        /\ ok.par = x.par /\ ok.st = "ok" /\ ok.snap \in Snapshot
        /\ ok \in [par : Params, st : {"sent", "failed"} \cup {"ok"},
                   snap : Snapshot \cup {None}]
        /\ failed.par = x.par /\ failed.st = "failed"
        /\ failed \in [par : Params, st : {"sent", "failed"} \cup {"ok"},
                       snap : Snapshot \cup {None}]
    <3>1. fetches' \subseteq fetches \cup {ok, failed}
      BY <1>4 DEF AnswerFetch
    <3>2. x \in [par : Params, st : {"sent", "failed"} \cup {"ok"},
                 snap : Snapshot \cup {None}]
      BY DEF TypeOK
    <3>3. QED
      BY <2>1, <2>2, <3>1, <3>2
  <2>5. fetches' # {}
    BY <1>4 DEF AnswerFetch
  <2>6. TypeOK'
    BY <1>4, <2>4 DEF AnswerFetch, TypeOK
  <2>7. AnsweredHasSnap' /\ InFlightCurrent'
    BY <2>1, <2>2, <2>3, <2>4 DEF AnsweredHasSnap, InFlightCurrent, AtCurrent
  <2>8. HeaderCurrent' /\ StaleWhileLoading'
    BY <1>4, <2>3, <2>5 DEF AnswerFetch, HeaderCurrent, Shows, Current,
       StaleWhileLoading, AtCurrent
  <2>9. QED
    BY <2>6, <2>7, <2>8
<1>5. ASSUME NEW x \in fetches, DeliverFetch(x) PROVE IInv'
  <2>1. x.par \in Params /\ AtCurrent(x.par)
    BY DEF TypeOK, InFlightCurrent
  <2>2. UNCHANGED <<page, query, filter>> /\ fetches' \subseteq fetches
    BY <1>5 DEF DeliverFetch, Current
  <2>3. AnsweredHasSnap' /\ InFlightCurrent' /\ HeaderCurrent'
    BY <1>5, <2>2 DEF DeliverFetch, AnsweredHasSnap, InFlightCurrent, AtCurrent,
       HeaderCurrent, Shows, Current
  <2>4. CASE x.st = "ok"
    <3>1. x.snap \in Snapshot
      BY <2>4 DEF AnsweredHasSnap
    <3>2. list' = [par |-> x.par, snap |-> x.snap] /\ err' = FALSE
      BY <1>5, <2>4 DEF DeliverFetch
    <3>3. TypeOK'
      BY <1>5, <2>1, <2>2, <3>1, <3>2 DEF DeliverFetch, TypeOK
    <3>4. StaleWhileLoading'
      BY <2>1, <2>2, <3>2 DEF StaleWhileLoading, AtCurrent
    <3>5. QED
      BY <2>3, <3>3, <3>4
  <2>5. CASE x.st # "ok"
    <3>1. list' \in {list, None} /\ err' = TRUE
      BY <1>5, <2>5 DEF DeliverFetch
    <3>2. TypeOK'
      BY <1>5, <2>2, <3>1 DEF DeliverFetch, TypeOK
    <3>3. StaleWhileLoading'
      BY <3>1 DEF StaleWhileLoading
    <3>4. QED
      BY <2>3, <3>2, <3>3
  <2>6. QED
    BY <2>4, <2>5
<1>6. CASE UNCHANGED vars
  BY <1>6 DEF vars, TypeOK, AnsweredHasSnap, InFlightCurrent, AtCurrent,
     HeaderCurrent, Shows, Current, StaleWhileLoading
<1>7. QED
  BY <1>1, <1>2, <1>3, <1>4, <1>5, <1>6 DEF Next

(***************************************************************************)
(* Once nothing is in flight and no error is shown, the artifact table    *)
(* shows the page, search term and format that the pagination, the       *)
(* header's search box and its drop-down show (SpaceArtifactList's useGet *)
(* with abort-on-change, and the header callbacks that reset the page),  *)
(* for any artifacts, page size and interleaving of fetches.              *)
(***************************************************************************)
THEOREM ListShowsCurrentParamsProved == Spec => []ListShowsCurrentParams
<1>1. IInv => ListShowsCurrentParams
  BY DEF IInv, StaleWhileLoading, AtCurrent, HeaderCurrent, Shows, Current,
     Settled, ListShowsCurrentParams
<1>2. QED
  BY InitIInv, NextIInv, <1>1, PTL DEF Spec

(***************************************************************************)
(* Every reachable state of the artifact page is well typed: in           *)
(* particular every list useGet sets is a page of the server's artifacts  *)
(* with their count.                                                      *)
(***************************************************************************)
THEOREM ArtifactTypeCorrect == Spec => []TypeOK
<1>1. IInv => TypeOK
  BY DEF IInv
<1>2. QED
  BY InitIInv, NextIInv, <1>1, PTL DEF Spec

-----------------------------------------------------------------------------
(***************************************************************************)
(* Refinement of ListView.  Beyond IInv it needs one more fact: a fetch   *)
(* the server answered holds the server's answer for its own parameters  *)
(* (the artifacts do not change while the page is shown).                *)
(***************************************************************************)
AnsweredIsAnswer == \A x \in fetches : x.st = "ok" => x.snap = Answer(x.par)

\* Parameters that agree with page, query and filter are the current ones.
LEMMA CurrentParams ==
    ASSUME NEW par \in Params, AtCurrent(par)
    PROVE  par = Current
BY DEF Params, AtCurrent, Current

LEMMA AnsweredStep ==
    TypeOK /\ AnsweredIsAnswer /\ [Next]_vars => AnsweredIsAnswer'
<1> SUFFICES ASSUME TypeOK, AnsweredIsAnswer, [Next]_vars PROVE AnsweredIsAnswer'
  OBVIOUS
<1>1. CASE \E q \in AllQueries : Search(q)
  BY <1>1 DEF Search, Refetch, AnsweredIsAnswer
<1>2. CASE \E f \in Filters : SetFilter(f)
  BY <1>2 DEF SetFilter, Refetch, AnsweredIsAnswer
<1>3. CASE \E p \in Pages : SetPage(p)
  BY <1>3 DEF SetPage, Refetch, AnsweredIsAnswer
<1>4. ASSUME NEW x \in fetches, AnswerFetch(x) PROVE AnsweredIsAnswer'
  <2> DEFINE ok == [x EXCEPT !.st = "ok", !.snap = Answer(x.par)]
             failed == [x EXCEPT !.st = "failed"]
  <2>1. x \in [par : Params, st : {"sent", "failed"} \cup {"ok"},
               snap : Snapshot \cup {None}]
    BY DEF TypeOK
  <2>2. ok.par = x.par /\ ok.snap = Answer(x.par) /\ failed.st = "failed"
    BY <2>1
  <2>3. fetches' \subseteq fetches \cup {ok, failed}
    BY <1>4 DEF AnswerFetch
  <2>4. QED
    BY <2>2, <2>3 DEF AnsweredIsAnswer
<1>5. ASSUME NEW x \in fetches, DeliverFetch(x) PROVE AnsweredIsAnswer'
  BY <1>5 DEF DeliverFetch, AnsweredIsAnswer
<1>6. CASE UNCHANGED vars
  BY <1>6 DEF vars, AnsweredIsAnswer
<1>7. QED
  BY <1>1, <1>2, <1>3, <1>4, <1>5, <1>6 DEF Next

\* Every step of the page is a step of ListView or leaves its state alone.
LEMMA RefineStep ==
    IInv /\ AnsweredIsAnswer /\ [Next]_vars => [View!Next]_View!vars
<1> SUFFICES ASSUME IInv, AnsweredIsAnswer, [Next]_vars
             PROVE  [View!Next]_View!vars
  OBVIOUS
<1>1. Current' \in Params
  <2>1. TypeOK'
    BY NextIInv DEF IInv
  <2>2. QED
    BY <2>1 DEF TypeOK, Current, Params
<1>2. CASE \/ \E q \in AllQueries : Search(q)
           \/ \E f \in Filters : SetFilter(f)
           \/ \E p \in Pages : SetPage(p)
  \* the user's steps move the parameters and leave the list
  <2>1. UNCHANGED <<list, err>>
    BY <1>2 DEF Search, SetFilter, SetPage
  <2>2. QED
    BY <1>1, <2>1 DEF View!Next, View!Navigate
<1>3. ASSUME NEW x \in fetches, AnswerFetch(x) PROVE [View!Next]_View!vars
  BY <1>3 DEF AnswerFetch, View!vars, Current
<1>4. ASSUME NEW x \in fetches, DeliverFetch(x) PROVE [View!Next]_View!vars
  <2>1. UNCHANGED <<page, query, filter>>
    BY <1>4 DEF DeliverFetch
  <2>2. Current' = Current
    BY <2>1 DEF Current
  <2>3. CASE x.st = "ok"
    \* the answer delivered is for the parameters still on screen
    <3>1. x.par \in Params /\ AtCurrent(x.par)
      BY DEF IInv, TypeOK, InFlightCurrent
    <3>2. x.par = Current
      BY <3>1, CurrentParams
    <3>3. x.snap = Answer(x.par)
      BY <2>3 DEF AnsweredIsAnswer
    <3>4. list' = [par |-> Current, snap |-> Answer(Current)] /\ err' = FALSE
      BY <1>4, <2>3, <3>2, <3>3 DEF DeliverFetch
    <3>5. QED
      BY <2>2, <3>4 DEF View!Next, View!Show
  <2>4. CASE x.st # "ok"
    <3>1. list' \in {list, None} /\ err' = TRUE
      BY <1>4, <2>4 DEF DeliverFetch
    <3>2. QED
      BY <2>2, <3>1 DEF View!Next, View!Fail
  <2>5. QED
    BY <2>3, <2>4
<1>5. CASE UNCHANGED vars
  BY <1>5 DEF vars, View!vars, Current
<1>6. QED
  BY <1>2, <1>3, <1>4, <1>5 DEF Next

(***************************************************************************)
(* The artifact page implements ListView under the mapping par <- Current:  *)
(* every list the table shows, settled or not, is the server's answer for  *)
(* the page, search term and format on screen when it is applied, for any  *)
(* artifacts and any interleaving of fetches, answers and user changes.    *)
(***************************************************************************)
THEOREM ListImplementsViewProved == Spec => ListImplementsView
<1>1. Init => View!Init
  <2> SUFFICES ASSUME Init PROVE View!Init
    OBVIOUS
  <2>1. Current \in Params
    BY DEF Init, Current, Params, AllQueries
  <2>2. QED
    BY <2>1 DEF Init, View!Init
<1>2. Init => AnsweredIsAnswer
  BY DEF Init, Refetch, AnsweredIsAnswer
<1>3. Spec => [](IInv /\ AnsweredIsAnswer)
  BY InitIInv, NextIInv, <1>2, AnsweredStep, PTL DEF Spec, IInv
<1>4. QED
  BY <1>1, <1>3, RefineStep, PTL DEF Spec, ListImplementsView, View!Spec

=============================================================================
