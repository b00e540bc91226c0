---------------------------- MODULE AIProviderList ----------------------------
(***************************************************************************)
(* The space's AI provider page (SpaceAIList) with the mutations it        *)
(* starts: create (NewAIModalButton), update (UpdateAIModal), and the row  *)
(* menu's test, set-default and delete.  The list is a useGet over         *)
(* [page, searchTerm]; a change of either aborts the fetches in flight and *)
(* starts a new one.  Every mutation, when it succeeds, calls the refetch  *)
(* of the render in which the user started it, so its refetch asks for    *)
(* the page and search term of that moment.  The server is modelled from   *)
(* the endpoints' contract: it applies a mutation or rejects it.           *)
(***************************************************************************)
EXTENDS Naturals, FiniteSets

CONSTANTS
    Ids,        \* provider ids (naturals: the list is ordered by id)
    Limit,      \* LIST_FETCHING_LIMIT, the page size
    MaxPage,    \* the last page the pagination offers
    Queries,    \* non-empty search terms
    Match,      \* Match[q]: the ids whose provider matches search term q
    NoQuery,    \* searchTerm undefined (the page has never been searched)
    EmptyQuery, \* searchTerm '' (the search box was cleared)
    MaxVer,     \* bound on the server's changes
    MaxMuts,    \* bound on the mutations in flight at once
    None

ASSUME ListAssumption ==
    /\ Ids \subseteq Nat /\ IsFiniteSet(Ids)
    /\ Limit \in Nat \ {0}
    /\ MaxPage \in Nat \ {0}
    /\ Match \in [Queries -> SUBSET Ids]
    /\ {NoQuery, EmptyQuery, None} \cap Queries = {}
    /\ MaxVer \in Nat /\ MaxMuts \in Nat

VARIABLES
    prov,     \* the providers the server holds
    dflt,     \* the server's default provider
    ver,      \* the server's version: one more per applied mutation
    page,     \* usePageIndex state
    query,    \* searchTerm state
    list,     \* useGet's data, the snapshot it shows, or None
    err,      \* useGet's error: the latest delivered list fetch failed
    loading,  \* useGet's loading: set by a fetch's start, cleared by its end
    fetches,  \* list fetches in flight
    muts      \* mutations in flight

vars == <<prov, dflt, ver, page, query, list, err, loading, fetches, muts>>

Pages == 1..MaxPage
AllQueries == Queries \cup {NoQuery, EmptyQuery}
Vers == 0..MaxVer
Ops == {"create", "update", "test", "default", "delete"}

\* A response to a list fetch: one page of rows, the total the pagination
\* reads from the response headers, the default row, the server version.
Snapshot == [items : SUBSET Ids, total : 0..Cardinality(Ids),
             dflt : Ids \cup {None}, ver : Vers]
Fetch == [page : Pages, query : AllQueries, st : {"sent", "ok", "failed"},
          snap : Snapshot \cup {None}]
Mutation == [op : Ops, id : Ids \cup {None}, page : Pages,
             query : AllQueries, loading : BOOLEAN,
             st : {"sent", "ok", "failed"}]

TypeOK ==
    /\ prov \subseteq Ids
    /\ dflt \in prov \cup {None}
    /\ ver \in Vers
    /\ page \in Pages
    /\ query \in AllQueries
    /\ list \in [page : Pages, query : AllQueries, snap : Snapshot] \cup {None}
    /\ err \in BOOLEAN
    /\ loading \in BOOLEAN
    /\ fetches \subseteq Fetch
    /\ muts \subseteq Mutation

-----------------------------------------------------------------------------
(* The server's list endpoint.                                             *)

\* The providers a search term selects; an absent or empty term selects all.
Selected(q) == IF q \in Queries THEN prov \cap Match[q] ELSE prov

\* The position of id i among the selected providers, ordered by id.
Position(i, S) == Cardinality({j \in S : j <= i})

\* The rows of page p for search term q.
PageRows(p, q) ==
    {i \in Selected(q) : Position(i, Selected(q)) \in
                            ((p - 1) * Limit + 1)..(p * Limit)}

Sent(p, q) == [page |-> p, query |-> q, st |-> "sent", snap |-> None]

-----------------------------------------------------------------------------
Init ==
    /\ prov \in SUBSET Ids
    /\ dflt \in prov \cup {None}
    /\ ver = 0
    /\ page \in Pages
    /\ query = NoQuery
    /\ list = None
    /\ err = FALSE
    /\ loading = TRUE
    /\ fetches = {Sent(page, query)}
    /\ muts = {}

\* Mutant: the pagination's zero-based pageIndex stored as the page.
SetPageZeroBased(p) ==
    /\ p # page
    /\ page' = p - 1
    /\ fetches' = {Sent(p - 1, query)}
    /\ loading' = TRUE
    /\ UNCHANGED <<prov, dflt, ver, query, list, err, muts>>

\* The user changes page (ResourceListingPagination calls setPage): useGet
\* aborts the fetches in flight and fetches the new page.
SetPage(p) ==
    /\ p # page
    /\ page' = p
    /\ fetches' = {Sent(p, query)}
    /\ loading' = TRUE
    /\ UNCHANGED <<prov, dflt, ver, query, list, err, muts>>

\* The user types in the search box (setQuery={setSearchTerm}): the page
\* stays where it is.
SetSearch(q) ==
    /\ q # query
    /\ q # NoQuery
    /\ query' = q
    /\ fetches' = {Sent(page, q)}
    /\ loading' = TRUE
    /\ UNCHANGED <<prov, dflt, ver, page, list, err, muts>>

\* The server answers a list fetch, or the request fails.
AnswerFetch(f) ==
    /\ f.st = "sent"
    /\ \/ fetches' = (fetches \ {f}) \cup
           {[f EXCEPT !.st = "ok",
                      !.snap = [items |-> PageRows(f.page, f.query),
                                total |-> Cardinality(Selected(f.query)),
                                dflt |-> dflt, ver |-> ver]]}
       \/ fetches' = (fetches \ {f}) \cup {[f EXCEPT !.st = "failed"]}
    /\ UNCHANGED <<prov, dflt, ver, page, query, list, err, loading, muts>>

\* useGet applies the response; on an error it may keep or clear its data.
DeliverFetch(f) ==
    /\ f.st # "sent"
    /\ fetches' = fetches \ {f}
    /\ IF f.st = "ok"
       THEN list' = [page |-> f.page, query |-> f.query, snap |-> f.snap]
            /\ err' = FALSE
       ELSE list' \in {list, None} /\ err' = TRUE
    /\ loading' = FALSE
    /\ UNCHANGED <<prov, dflt, ver, page, query, muts>>

-----------------------------------------------------------------------------
(* Mutations.                                                              *)

\* The rows the table shows: none while PageBody shows an error or no list.
Rows == IF list = None \/ err THEN {} ELSE list.snap.items

\* A mutation started now: its callbacks hold this render's refetch, which
\* captured the render's page, search term and loading state.
Started(op, i) ==
    [op |-> op, id |-> i, page |-> page, query |-> query, loading |-> loading,
     st |-> "sent"]

\* NewAIModalButton's handleSubmit: createAIProvider.
Create ==
    /\ Cardinality(muts) < MaxMuts
    /\ ~err
    /\ muts' = muts \cup {Started("create", None)}
    /\ UNCHANGED <<prov, dflt, ver, page, query, list, err, loading, fetches>>

\* A row menu item: Edit submits UpdateAIModal's updateSecret; Test,
\* Set default (offered only for a row that is not the default) and Delete
\* are confirmed and send their request.
RowAction(op, i) ==
    /\ Cardinality(muts) < MaxMuts
    /\ i \in Rows
    /\ op = "default" => list.snap.dflt # i
    /\ muts' = muts \cup {Started(op, i)}
    /\ UNCHANGED <<prov, dflt, ver, page, query, list, err, loading, fetches>>

\* The server applies mutation m and answers ok, or rejects it.
ApplyMutation(m) ==
    /\ m.st = "sent"
    /\ ver < MaxVer
    /\ \/ /\ m.op = "create"
          /\ \E i \in Ids \ prov : prov' = prov \cup {i}
          /\ dflt' = dflt
       \/ /\ m.op = "delete" /\ m.id \in prov
          /\ prov' = prov \ {m.id}
          /\ dflt' = IF dflt = m.id THEN None ELSE dflt
       \/ /\ m.op = "default" /\ m.id \in prov
          /\ dflt' = m.id
          /\ prov' = prov
       \/ /\ m.op \in {"update", "test"} /\ m.id \in prov
          /\ UNCHANGED <<prov, dflt>>
    /\ ver' = ver + 1
    /\ muts' = (muts \ {m}) \cup {[m EXCEPT !.st = "ok"]}
    /\ UNCHANGED <<page, query, list, err, loading, fetches>>

RejectMutation(m) ==
    /\ m.st = "sent"
    /\ muts' = (muts \ {m}) \cup {[m EXCEPT !.st = "failed"]}
    /\ UNCHANGED <<prov, dflt, ver, page, query, list, err, loading, fetches>>

\* The fetches after a refetch for page p and term q captured in a render
\* whose loading was l: useGet aborts the requests in flight only when
\* that render saw one loading.
Refetched(p, q, l) ==
    IF l THEN {Sent(p, q)} ELSE fetches \cup {Sent(p, q)}

\* Mutant: the delete's .then shows its toast but never refetches.
SettleWithoutDeleteRefetch(m) ==
    /\ m.st # "sent"
    /\ muts' = muts \ {m}
    /\ IF m.st = "ok" /\ m.op # "delete"
       THEN fetches' = Refetched(m.page, m.query, m.loading) /\ loading' = TRUE
       ELSE UNCHANGED <<fetches, loading>>
    /\ UNCHANGED <<prov, dflt, ver, page, query, list, err>>

(***************************************************************************)
(* The mutation's promise settles: on success the callback (onSuccess,     *)
(* postUpdate.current, or the .then of the row action) calls the refetch   *)
(* it captured, for the page and search term of the moment it started; on *)
(* failure the toast is all.                                               *)
(***************************************************************************)
Settle(m) ==
    /\ m.st # "sent"
    /\ muts' = muts \ {m}
    /\ IF m.st = "ok"
       THEN fetches' = Refetched(m.page, m.query, m.loading) /\ loading' = TRUE
       ELSE UNCHANGED <<fetches, loading>>
    /\ UNCHANGED <<prov, dflt, ver, page, query, list, err>>

-----------------------------------------------------------------------------
Next ==
    \/ \E p \in Pages : SetPage(p)
    \/ \E q \in AllQueries : SetSearch(q)
    \/ \E f \in fetches : AnswerFetch(f) \/ DeliverFetch(f)
    \/ Create
    \/ \E op \in Ops \ {"create"}, i \in Ids : RowAction(op, i)
    \/ \E m \in muts : ApplyMutation(m) \/ RejectMutation(m) \/ Settle(m)

(***************************************************************************)
(* Requests are answered and their promises settle; the user and the      *)
(* server's choice of answer get no fairness.                             *)
(***************************************************************************)
Fairness ==
    /\ WF_vars(\E f \in fetches : AnswerFetch(f))
    /\ WF_vars(\E f \in fetches : DeliverFetch(f))
    /\ WF_vars(\E m \in muts : ApplyMutation(m) \/ RejectMutation(m))
    /\ WF_vars(\E m \in muts : Settle(m))

Spec == Init /\ [][Next]_vars /\ Fairness

-----------------------------------------------------------------------------
(* Properties.                                                             *)

\* Nothing is in flight: what the page shows is final.
Settled == fetches = {} /\ muts = {}

\* A step the user takes: paging, searching, or starting a mutation.
UserStep ==
    \/ \E p \in Pages : SetPage(p)
    \/ \E q \in AllQueries : SetSearch(q)
    \/ Create
    \/ \E op \in Ops \ {"create"}, i \in Ids : RowAction(op, i)

(***************************************************************************)
(* Every change a mutation makes on the server eventually reaches the      *)
(* list: if the server reaches version v, the list at some point shows a  *)
(* snapshot of version v or later, or the page shows a fetch error.  It   *)
(* is claimed once the user stops acting: each page or search change      *)
(* aborts the fetch in flight, so a user who never stops can starve it.   *)
(***************************************************************************)
ChangesReachList ==
    <>[][~UserStep]_vars =>
        \A v \in Vers :
            <>(ver >= v) => <>((list # None /\ list.snap.ver >= v) \/ err)

(***************************************************************************)
(* Once nothing is in flight and no error is shown, the list shows the    *)
(* page and search term the pagination and the search box show.           *)
(***************************************************************************)
ListShowsCurrentQuery ==
    Settled /\ ~err /\ list # None => list.page = page /\ list.query = query

(***************************************************************************)
(* Once nothing is in flight and no error is shown, the list shows the    *)
(* server's current providers, not an earlier version.                    *)
(***************************************************************************)
SettledListIsFresh ==
    Settled /\ ~err /\ list # None => list.snap.ver = ver

(***************************************************************************)
(* The "no providers found" card (no search term) and the "no results"    *)
(* card (a search term) appear only when no provider matches: never for   *)
(* a page past the end of a non-empty list.                               *)
(***************************************************************************)
EmptyCardsTruthful ==
    Settled /\ list # None /\ list.snap.items = {} /\ list.query # EmptyQuery
        => list.snap.total = 0

=============================================================================
