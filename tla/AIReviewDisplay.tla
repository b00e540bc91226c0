--------------------------- MODULE AIReviewDisplay ---------------------------
(***************************************************************************)
(* How the last AI review is presented.  The hook usePRAIReviews derives a *)
(* colour from its data in a useMemo that sets state during render;        *)
(* AIReviewSection copies the data into prData in one effect and derives   *)
(* the title and its colour from prData in a second effect; AIStatusCircle *)
(* and the AI review tab (PullRequestAIReview) render straight from the    *)
(* data.  The data itself changes under the components (fetches, polls):   *)
(* it is an input here.                                                    *)
(***************************************************************************)
EXTENDS Naturals

CONSTANT None

VARIABLES
    data,       \* useGet's data as the latest render sees it
    hookColor,  \* usePRAIReviews' color state
    prData,     \* AIReviewSection's prData state
    msg,        \* AIReviewSection's statusMessage state
    ranData,    \* the data the [data] effect last ran with
    ranPr       \* the prData the [prData] effect last ran with

vars == <<data, hookColor, prData, msg, ranData, ranPr>>

Statuses == {"pending", "success", "error"}
ReviewStatuses == {"approved", "rejected", "ignore", "unknown", "none"}

\* TypesAIRequest, reduced to the two fields every derivation reads: only a
\* successful review carries a review_status ("none": a server too old to
\* send one).
Review == [status : {"success"}, review_status : ReviewStatuses] \cup
          [status : Statuses \ {"success"}, review_status : {"none"}]

Colors == {"", "GREEN_500", "GREEN_800", "RED_700", "RED_900", "GREY_450",
           "GREY_600"}
Titles == {"", "oldVersion", "approved", "rejected", "ignore", "unknown"}
Message == [color : Colors, title : Titles]

TypeOK ==
    /\ data \in Review \cup {None}
    /\ hookColor \in Colors
    /\ prData \in Review \cup {None}
    /\ msg \in Message
    /\ ranData \in Review \cup {None}
    /\ ranPr \in Review \cup {None}

-----------------------------------------------------------------------------
(* The derivations, one operator per function of the code.                 *)

\* Mutant: the useMemo without its status = "success" test.
HookColorIgnoringStatus(d, old) ==
    CASE d = None                     -> old
      [] d.status = "error"           -> "RED_900"
      [] d.review_status = "approved" -> "GREEN_800"
      [] d.review_status = "rejected" -> "RED_900"
      [] OTHER                        -> "GREY_600"

\* usePRAIReviews' useMemo: the colour it sets for d; pending data sets none.
\* The status is only read once data is known to be there.
HookColor(d, old) ==
    IF d = None THEN old
    ELSE IF d.status = "error" THEN "RED_900"
    ELSE IF d.status = "success"
         THEN CASE d.review_status = "approved" -> "GREEN_800"
                [] d.review_status = "rejected" -> "RED_900"
                [] OTHER                        -> "GREY_600"
    ELSE old

\* Mutant: the title taken from the raw review_status.
StatusMessageFromReviewStatus(d) ==
    [title |-> d.review_status, color |-> "GREY_450"]

\* determineStatusMessage: the section's title and its colour.
StatusMessage(d) ==
    CASE d.status = "success" /\ d.review_status = "approved" ->
            [title |-> "approved", color |-> "GREEN_800"]
      [] d.status = "success" /\ d.review_status = "rejected" ->
            [title |-> "rejected", color |-> "RED_700"]
      [] d.status = "success" /\ d.review_status = "ignore" ->
            [title |-> "ignore", color |-> "GREY_450"]
      [] d.status = "success" /\ d.review_status = "unknown" ->
            [title |-> "unknown", color |-> "GREY_450"]
      [] OTHER -> [title |-> "oldVersion", color |-> "GREY_450"]

\* PullRequestAIReview: the tab shows its error page for every review
\* whose status is not success.
TabShowsError(d) == d.status # "success"

-----------------------------------------------------------------------------
Init ==
    /\ data = None
    /\ hookColor = "GREEN_500"
    /\ prData = None
    /\ msg = [color |-> "", title |-> ""]
    /\ ranData = None
    /\ ranPr = None

(***************************************************************************)
(* A render with new data: the useMemo of usePRAIReviews runs during the   *)
(* render and sets the colour.                                             *)
(***************************************************************************)
Receive(d) ==
    /\ d # data
    /\ data' = d
    /\ hookColor' = HookColor(d, hookColor)
    /\ UNCHANGED <<prData, msg, ranData, ranPr>>

\* Mutant: the [prData] effect sets the message only while none is shown.
CommitKeepingFirstMessage ==
    /\ data # ranData \/ prData # ranPr
    /\ prData' = IF data # ranData /\ data # None THEN data ELSE prData
    /\ msg' = IF prData # ranPr /\ prData # None /\ msg.title = ""
              THEN StatusMessage(prData) ELSE msg
    /\ ranData' = data
    /\ ranPr' = prData
    /\ UNCHANGED <<data, hookColor>>

(***************************************************************************)
(* React commits the render: the [data] effect copies truthy data into     *)
(* prData, and the [prData] effect, with the prData of the same render,    *)
(* recomputes the status message.  Each effect runs only if its dependency *)
(* changed since it last ran.                                              *)
(***************************************************************************)
Commit ==
    /\ data # ranData \/ prData # ranPr
    /\ prData' = IF data # ranData /\ data # None THEN data ELSE prData
    /\ msg' = IF prData # ranPr /\ prData # None
              THEN StatusMessage(prData) ELSE msg
    /\ ranData' = data
    /\ ranPr' = prData
    /\ UNCHANGED <<data, hookColor>>

Next ==
    \/ \E d \in Review \cup {None} : Receive(d)
    \/ Commit

Spec == Init /\ [][Next]_vars /\ WF_vars(Commit)

-----------------------------------------------------------------------------
(* Properties.                                                             *)

\* No effect of the section is pending.
Settled == data = ranData /\ prData = ranPr

Terminal(d) == d # None /\ d.status \in {"success", "error"}

\* The colour family of a colour token, and the one the spec's table gives.
Family(c) ==
    CASE c \in {"GREEN_500", "GREEN_800"} -> "green"
      [] c \in {"RED_700", "RED_900"}     -> "red"
      [] c \in {"GREY_450", "GREY_600"}   -> "grey"
      [] OTHER                            -> "none"
SpecColor(d) ==
    CASE d.status = "error"           -> "red"
      [] d.review_status = "approved" -> "green"
      [] d.review_status = "rejected" -> "red"
      [] OTHER                        -> "grey"

(***************************************************************************)
(* Once the section's effects have run, the title it shows is the one      *)
(* determineStatusMessage gives for the data on screen: the two chained    *)
(* effects ([data] -> prData, [prData] -> statusMessage) never leave an    *)
(* older review's title behind.                                            *)
(***************************************************************************)
TitleFollowsData ==
    Settled /\ data # None => msg = StatusMessage(data)

(***************************************************************************)
(* The hook's colour follows the spec's derivation table: a terminal       *)
(* result sets the colour of its row, and pending or absent data leaves    *)
(* the colour unchanged.                                                   *)
(***************************************************************************)
HookColorFollowsSpec ==
    [][data' # data =>
         IF Terminal(data') THEN Family(hookColor') = SpecColor(data')
                            ELSE hookColor' = hookColor]_vars

(***************************************************************************)
(* The section's title is coloured as the spec's table says for every      *)
(* terminal result (error: red).                                           *)
(***************************************************************************)
SectionColorMatchesSpec ==
    Settled /\ Terminal(data) => Family(msg.color) = SpecColor(data)

(***************************************************************************)
(* The AI review tab shows its error page only for a review whose status   *)
(* is error; the spec says a pending result causes no update.              *)
(***************************************************************************)
TabErrorOnlyForError ==
    data # None /\ TabShowsError(data) => data.status = "error"

=============================================================================
