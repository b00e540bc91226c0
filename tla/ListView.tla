------------------------------- MODULE ListView -------------------------------
(***************************************************************************)
(* What a paginated, searchable list page promises, whatever the requests *)
(* behind it: the user moves between query parameters, and the list only  *)
(* ever takes the server's answer for the parameters on screen at that    *)
(* moment, or shows an error, keeping or dropping what it showed.  No     *)
(* answer for parameters the user has left is ever shown.                 *)
(***************************************************************************)
CONSTANTS
    Params,     \* the query parameters the page can be on
    Answer(_),  \* Answer(p): what the server answers for parameters p
    None        \* no list

VARIABLES
    par,        \* the parameters on screen
    list,       \* the list shown, with the parameters it answers, or None
    err         \* an error is shown

vars == <<par, list, err>>

Init ==
    /\ par \in Params
    /\ list = None
    /\ err = FALSE

\* The user moves to other parameters; the list stays until replaced.
Navigate ==
    /\ par' \in Params
    /\ UNCHANGED <<list, err>>

\* The answer for the parameters on screen is shown.
Show ==
    /\ list' = [par |-> par, snap |-> Answer(par)]
    /\ err' = FALSE
    /\ UNCHANGED par

\* A request fails: the error is shown, the list kept or dropped.
Fail ==
    /\ list' \in {list, None}
    /\ err' = TRUE
    /\ UNCHANGED par

Next == Navigate \/ Show \/ Fail

Spec == Init /\ [][Next]_vars
=============================================================================
