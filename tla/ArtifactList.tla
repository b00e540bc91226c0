----------------------------- MODULE ArtifactList -----------------------------
(***************************************************************************)
(* The space's artifact page: SpaceArtifactList with its header.  The list *)
(* is a useGet over [page, searchTerm, format filter]; a change of any of  *)
(* them aborts the fetch in flight and fetches again.  The header's search *)
(* box and format drop-down report to callbacks that set the new term or  *)
(* filter and go back to page 1 in the same render; the pagination sets   *)
(* the page.  The filter is a user preference, so a visit starts from the *)
(* stored one; the page can start from the URL.  The artifacts themselves *)
(* do not change while the page is shown.                                 *)
(***************************************************************************)
EXTENDS Naturals, FiniteSets

CONSTANTS
    Artifacts,   \* artifact ids (naturals: the list is ordered by id)
    Format,      \* Format[a]: the format of artifact a
    Formats,     \* the formats the drop-down offers, ArtifactFormat
    All,         \* ArtifactFilterFormatOption.ALL
    Queries,     \* non-empty search terms
    Match,       \* Match[q]: the artifacts whose name matches q
    NoQuery,     \* searchTerm undefined (never searched)
    EmptyQuery,  \* searchTerm '' (the search box was cleared)
    Limit,       \* LIST_FETCHING_LIMIT
    MaxPage,     \* the highest page a URL can open
    None

ASSUME ArtifactAssumption ==
    /\ Artifacts \subseteq Nat /\ IsFiniteSet(Artifacts)
    /\ Format \in [Artifacts -> Formats]
    /\ All \notin Formats
    /\ Match \in [Queries -> SUBSET Artifacts]
    /\ {NoQuery, EmptyQuery, None} \cap Queries = {}
    /\ Limit \in Nat \ {0}
    /\ MaxPage \in Nat \ {0}

VARIABLES
    page,     \* usePageIndex state
    query,    \* searchTerm state
    filter,   \* the format filter preference
    list,     \* useGet's data with the parameters it was fetched for, or None
    err,      \* useGet's error
    fetches,  \* fetches in flight (aborted ones are gone)
    hdrQuery, \* the header's own searchTerm state, shown in its search box
    hdrFilter \* the header's own copy of the filter preference, shown in
              \* its drop-down

vars == <<page, query, filter, list, err, fetches, hdrQuery, hdrFilter>>

Filters == Formats \cup {All}
AllQueries == Queries \cup {NoQuery, EmptyQuery}
Pages == 1..MaxPage
Params == [page : Pages, query : AllQueries, filter : Filters]
Snapshot == [items : SUBSET Artifacts, total : 0..Cardinality(Artifacts)]

TypeOK ==
    /\ page \in Pages
    /\ query \in AllQueries
    /\ filter \in Filters
    /\ list \in [par : Params, snap : Snapshot] \cup {None}
    /\ err \in BOOLEAN
    /\ fetches \subseteq [par : Params, st : {"sent", "failed"} \cup {"ok"},
                         snap : Snapshot \cup {None}]
    /\ hdrQuery \in Queries \cup {EmptyQuery}
    /\ hdrFilter \in Filters

-----------------------------------------------------------------------------
(* The server's list endpoint.                                             *)

\* The artifacts a search term and a format filter select.
Selected(q, f) ==
    {a \in Artifacts : /\ q \in Queries => a \in Match[q]
                       /\ f # All => Format[a] = f}

\* Page p of the selection, ordered by id.
PageOf(S, p) ==
    {a \in S : Cardinality({b \in S : b <= a}) \in ((p - 1) * Limit + 1)..(p * Limit)}

Answer(par) ==
    [items |-> PageOf(Selected(par.query, par.filter), par.page),
     total |-> Cardinality(Selected(par.query, par.filter))]

\* The pages ResourceListingPagination offers for a response's total.
PageCount(total) == IF total = 0 THEN 1 ELSE (total + Limit - 1) \div Limit

Current == [page |-> page, query |-> query, filter |-> filter]

\* The parameters par as the page shows them: the pagination's page, the
\* header's search box (undefined shows as '') and its drop-down.
Shows(par) ==
    /\ par.page = page
    /\ par.filter = hdrFilter
    /\ IF par.query = NoQuery THEN hdrQuery = EmptyQuery ELSE hdrQuery = par.query

\* useGet on new parameters: abort every fetch in flight, fetch again.
Refetch(par) == {[par |-> par, st |-> "sent", snap |-> None]}

-----------------------------------------------------------------------------
Init ==
    /\ page \in Pages
    /\ query = NoQuery
    /\ filter \in Filters
    /\ list = None
    /\ err = FALSE
    /\ fetches = Refetch(Current)
    /\ hdrQuery = EmptyQuery
    /\ hdrFilter = filter

\* Mutant: a new search that leaves the older fetches running.
SearchWithoutAbort(q) ==
    /\ q # NoQuery
    /\ [query |-> q, page |-> 1] # [query |-> query, page |-> page]
    /\ hdrQuery' = q
    /\ query' = q
    /\ page' = 1
    /\ fetches' = fetches \cup Refetch([Current EXCEPT !.query = q, !.page = 1])
    /\ UNCHANGED <<filter, list, err, hdrFilter>>

\* onSearchTermChanged: setSearchTerm(value) and setPage(1).
Search(q) ==
    /\ q # NoQuery
    /\ [query |-> q, page |-> 1] # [query |-> query, page |-> page]
    /\ hdrQuery' = q
    /\ query' = q
    /\ page' = 1
    /\ fetches' = Refetch([Current EXCEPT !.query = q, !.page = 1])
    /\ UNCHANGED <<filter, list, err, hdrFilter>>

\* Mutant: the filter left out of the list's queryParams.
SetFilterWithoutRefetch(f) ==
    /\ [filter |-> f, page |-> 1] # [filter |-> filter, page |-> page]
    /\ hdrFilter' = f
    /\ filter' = f
    /\ page' = 1
    /\ fetches' = IF page = 1 THEN fetches
                  ELSE Refetch([Current EXCEPT !.page = 1])
    /\ UNCHANGED <<query, list, err, hdrQuery>>

\* onArtifactFormatFilterChanged: setFilter(value) and setPage(1).
SetFilter(f) ==
    /\ [filter |-> f, page |-> 1] # [filter |-> filter, page |-> page]
    /\ hdrFilter' = f
    /\ filter' = f
    /\ page' = 1
    /\ fetches' = Refetch([Current EXCEPT !.filter = f, !.page = 1])
    /\ UNCHANGED <<query, list, err, hdrQuery>>

\* Mutant: the pagination's zero-based pageIndex stored as the page.
SetPageZeroBased(p) ==
    /\ list # None
    /\ p \in 1..PageCount(list.snap.total)
    /\ p # page
    /\ page' = p - 1
    /\ fetches' = Refetch([Current EXCEPT !.page = p - 1])
    /\ UNCHANGED <<query, filter, list, err, hdrQuery, hdrFilter>>

\* The pagination under the list: one of the pages the last response has.
SetPage(p) ==
    /\ list # None
    /\ p \in 1..PageCount(list.snap.total)
    /\ p # page
    /\ page' = p
    /\ fetches' = Refetch([Current EXCEPT !.page = p])
    /\ UNCHANGED <<query, filter, list, err, hdrQuery, hdrFilter>>

AnswerFetch(x) ==
    /\ x.st = "sent"
    /\ \/ fetches' = (fetches \ {x}) \cup
                     {[x EXCEPT !.st = "ok", !.snap = Answer(x.par)]}
       \/ fetches' = (fetches \ {x}) \cup {[x EXCEPT !.st = "failed"]}
    /\ UNCHANGED <<page, query, filter, list, err, hdrQuery, hdrFilter>>

\* Mutant: a failed fetch is never applied.
DeliverOnlyAnswers(x) ==
    /\ x.st = "ok"
    /\ fetches' = fetches \ {x}
    /\ list' = [par |-> x.par, snap |-> x.snap] /\ err' = FALSE
    /\ UNCHANGED <<page, query, filter, hdrQuery, hdrFilter>>

\* useGet applies a response; on an error it may keep or clear its data.
DeliverFetch(x) ==
    /\ x.st # "sent"
    /\ fetches' = fetches \ {x}
    /\ IF x.st = "ok"
       THEN list' = [par |-> x.par, snap |-> x.snap] /\ err' = FALSE
       ELSE list' \in {list, None} /\ err' = TRUE
    /\ UNCHANGED <<page, query, filter, hdrQuery, hdrFilter>>

Next ==
    \/ \E q \in AllQueries : Search(q)
    \/ \E f \in Filters : SetFilter(f)
    \/ \E p \in Pages : SetPage(p)
    \/ \E x \in fetches : AnswerFetch(x) \/ DeliverFetch(x)

\* Fetches are answered and applied; the user gets no fairness.
Spec ==
    /\ Init /\ [][Next]_vars
    /\ WF_vars(\E x \in fetches : AnswerFetch(x))
    /\ WF_vars(\E x \in fetches : DeliverFetch(x))

-----------------------------------------------------------------------------
(* Properties.                                                             *)

Settled == fetches = {}

(***************************************************************************)
(* Once nothing is in flight and no error is shown, the table shows the   *)
(* artifacts of the page, search term and format the pagination, the      *)
(* search box and the drop-down show.                                      *)
(***************************************************************************)
ListShowsCurrentParams ==
    Settled /\ ~err /\ list # None => Shows(list.par)

(***************************************************************************)
(* The "no results" card (an empty page for a search term) means that no  *)
(* artifact matches: a new search never lands on a page past the end of   *)
(* its results.                                                            *)
(***************************************************************************)
NoResultMeansNoMatch ==
    Settled /\ ~err /\ list # None /\ list.par.query \in Queries
        /\ list.snap.items = {}
        => list.snap.total = 0

(***************************************************************************)
(* The list eventually catches up with what the header shows: a search   *)
(* term or filter the user has settled on is eventually fetched and       *)
(* shown, or an error is.                                                 *)
(***************************************************************************)
ListCatchesUp ==
    <>[][UNCHANGED <<page, hdrQuery, hdrFilter>>]_vars =>
        <>[]((list # None /\ Shows(list.par)) \/ err)

-----------------------------------------------------------------------------
(* The page implements ListView: the parameters on screen are page, query *)
(* and filter; the fetches are hidden.                                     *)

View == INSTANCE ListView WITH par <- Current

(***************************************************************************)
(* Every list the table ever shows, not only a settled one, is the        *)
(* server's answer for the page, search term and format of that moment:   *)
(* useGet's abort on a change of its queryParams keeps an answer for      *)
(* parameters the user has left from ever reaching the table.             *)
(***************************************************************************)
ListImplementsView == View!Spec

=============================================================================
