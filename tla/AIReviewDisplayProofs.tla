------------------------ MODULE AIReviewDisplayProofs ------------------------
(***************************************************************************)
(* Proofs about how AIReviewSection presents the last AI review: its type  *)
(* invariant, and that its settled title is the one determineStatusMessage *)
(* gives for the data on screen, for every sequence of data the fetches   *)
(* and polls deliver.                                                      *)
(***************************************************************************)
EXTENDS AIReviewDisplay, TLAPS

(***************************************************************************)
(* The inductive invariant.  The [prData] effect leaves the message of     *)
(* the prData it last ran with, and the [data] effect leaves prData equal  *)
(* to the data it last ran with, when that data was a review.              *)
(* TitleFollowsData alone is not inductive: a Commit from a state where    *)
(* the effects disagree with their last inputs would break it.             *)
(***************************************************************************)
MsgOfRanPr == ranPr # None => msg = StatusMessage(ranPr)
PrOfRanData == ranData # None => prData = ranData

IInv == TypeOK /\ MsgOfRanPr /\ PrOfRanData

\* The useMemo sets a colour of the table, or keeps the one it had.
LEMMA HookColorType ==
    ASSUME NEW d \in Review \cup {None}, NEW old \in Colors
    PROVE  HookColor(d, old) \in Colors
BY DEF HookColor, Colors, Review, Statuses, ReviewStatuses

\* determineStatusMessage gives a title of the section and a colour.
LEMMA StatusMessageType ==
    ASSUME NEW d \in Review
    PROVE  StatusMessage(d) \in Message
<1> DEFINE Msgs == {[title |-> "approved", color |-> "GREEN_800"],
                   [title |-> "rejected", color |-> "RED_700"],
                   [title |-> "ignore", color |-> "GREY_450"],
                   [title |-> "unknown", color |-> "GREY_450"],
                   [title |-> "oldVersion", color |-> "GREY_450"]}
<1>1. StatusMessage(d) \in Msgs
  BY Zenon DEF StatusMessage
<1>2. Msgs \subseteq Message
  BY DEF Message, Colors, Titles
<1>3. QED
  BY <1>1, <1>2

LEMMA InitIInv == Init => IInv
<1> SUFFICES ASSUME Init PROVE IInv
  OBVIOUS
<1>1. msg \in Message /\ hookColor \in Colors
  BY DEF Init, Message, Colors, Titles
<1>2. TypeOK
  BY <1>1 DEF Init, TypeOK
<1>3. QED
  BY <1>2 DEF Init, IInv, MsgOfRanPr, PrOfRanData

LEMMA NextIInv == IInv /\ [Next]_vars => IInv'
<1> SUFFICES ASSUME IInv, [Next]_vars PROVE IInv'
  OBVIOUS
<1> USE DEF IInv
<1>1. ASSUME NEW d \in Review \cup {None}, Receive(d) PROVE IInv'
  <2>1. hookColor' \in Colors
    BY <1>1, HookColorType DEF Receive, TypeOK
  <2>2. QED
    BY <1>1, <2>1 DEF Receive, TypeOK, MsgOfRanPr, PrOfRanData
<1>2. CASE Commit
  <2>1. prData' \in Review \cup {None}
    BY <1>2 DEF Commit, TypeOK
  <2>2. msg' \in Message
    BY <1>2, StatusMessageType DEF Commit, TypeOK
  <2>3. TypeOK'
    BY <1>2, <2>1, <2>2 DEF Commit, TypeOK
  <2>4. MsgOfRanPr'
    \* the [prData] effect reruns exactly when prData moved since its last run
    <3>1. CASE prData # ranPr /\ prData # None
      BY <1>2, <3>1 DEF Commit, MsgOfRanPr
    <3>2. CASE prData = ranPr
      BY <1>2, <3>2 DEF Commit, MsgOfRanPr
    <3>3. CASE prData = None
      BY <1>2, <3>3 DEF Commit, MsgOfRanPr
    <3>4. QED
      BY <3>1, <3>2, <3>3
  <2>5. PrOfRanData'
    <3>1. CASE data # ranData /\ data # None
      BY <1>2, <3>1 DEF Commit, PrOfRanData
    <3>2. CASE data = ranData
      BY <1>2, <3>2 DEF Commit, PrOfRanData
    <3>3. CASE data = None
      BY <1>2, <3>3 DEF Commit, PrOfRanData
    <3>4. QED
      BY <3>1, <3>2, <3>3
  <2>6. QED
    BY <2>3, <2>4, <2>5
<1>3. CASE UNCHANGED vars
  BY <1>3 DEF vars, TypeOK, MsgOfRanPr, PrOfRanData
<1>4. QED
  BY <1>1, <1>2, <1>3 DEF Next

(***************************************************************************)
(* Once AIReviewSection's effects have run, the title and colour it shows  *)
(* are determineStatusMessage's for the data on screen, whatever data the  *)
(* fetches and polls delivered before: the chained [data] and [prData]     *)
(* effects never leave an older review's title behind.                     *)
(***************************************************************************)
THEOREM TitleFollowsDataProved == Spec => []TitleFollowsData
<1>1. IInv => TitleFollowsData
  BY DEF IInv, MsgOfRanPr, PrOfRanData, Settled, TitleFollowsData
<1>2. QED
  BY InitIInv, NextIInv, <1>1, PTL DEF Spec

(***************************************************************************)
(* Every reachable state of the review display is well typed: the hook's  *)
(* useMemo only sets colours of its table, and the section's message is    *)
(* always one determineStatusMessage can produce, or the empty initial one.*)
(***************************************************************************)
THEOREM DisplayTypeCorrect == Spec => []TypeOK
<1>1. IInv => TypeOK
  BY DEF IInv
<1>2. QED
  BY InitIInv, NextIInv, <1>1, PTL DEF Spec
-----------------------------------------------------------------------------
\* A step of HookColorFollowsSpec.
HookColorStep ==
    data' # data =>
        IF Terminal(data') THEN Family(hookColor') = SpecColor(data')
                           ELSE hookColor' = hookColor

\* The useMemo's colour for a review is the one of the spec's table row.
LEMMA HookColorRow ==
    ASSUME NEW d \in Review \cup {None}, NEW old
    PROVE  IF Terminal(d) THEN Family(HookColor(d, old)) = SpecColor(d)
                          ELSE HookColor(d, old) = old
<1>1. CASE d = None
  BY <1>1 DEF Terminal, HookColor
<1>2. CASE d # None /\ d.status = "error"
  <2>1. d.review_status = "none"
    BY <1>2 DEF Review, Statuses
  <2>2. QED
    BY <1>2, <2>1 DEF Terminal, HookColor, Family, SpecColor
<1>3. CASE d # None /\ d.status = "success"
  <2>1. d.review_status \in ReviewStatuses
    BY <1>3 DEF Review, Statuses
  <2>2. QED
    BY <1>3, <2>1 DEF Terminal, HookColor, Family, SpecColor, ReviewStatuses
<1>4. CASE d # None /\ d.status = "pending"
  BY <1>4 DEF Terminal, HookColor
<1>5. QED
  BY <1>1, <1>2, <1>3, <1>4 DEF Review, Statuses

(***************************************************************************)
(* usePRAIReviews' colour follows the spec's derivation table for every    *)
(* review the fetches and polls deliver: a terminal result sets the colour *)
(* of its row, and pending or absent data leaves the colour as it was.     *)
(* Only a render with new data changes the data, and it runs the useMemo.  *)
(***************************************************************************)
THEOREM HookColorFollowsSpecProved == Spec => HookColorFollowsSpec
<1>1. [Next]_vars => [HookColorStep]_vars
  <2> SUFFICES ASSUME [Next]_vars, data' # data PROVE HookColorStep
    BY DEF HookColorStep
  <2>1. CASE \E d \in Review \cup {None} : Receive(d)
    <3>1. PICK d \in Review \cup {None} : Receive(d)
      BY <2>1
    <3>2. data' = d /\ hookColor' = HookColor(d, hookColor)
      BY <3>1 DEF Receive
    <3>3. QED
      BY <3>2, HookColorRow DEF HookColorStep
  <2>2. CASE Commit
    BY <2>2 DEF Commit
  <2>3. CASE UNCHANGED vars
    BY <2>3 DEF vars
  <2>4. QED
    BY <2>1, <2>2, <2>3 DEF Next
<1>2. QED
  BY <1>1, PTL DEF Spec, HookColorFollowsSpec, HookColorStep

=============================================================================
