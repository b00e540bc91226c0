------------------------- MODULE AIProviderListProofs -------------------------
(***************************************************************************)
(* Proofs about the space's AI provider page, for any provider ids,       *)
(* search terms, page size, page bound and bounds on the server's changes *)
(* and on the mutations in flight.                                        *)
(***************************************************************************)
EXTENDS AIProviderList, FiniteSetTheorems, TLAPS

(***************************************************************************)
(* The inductive invariant.  TypeOK alone is not inductive: a fetch the   *)
(* server answered must carry a snapshot for the list useGet sets from it *)
(* to be well typed.                                                       *)
(***************************************************************************)
AnsweredHasSnap == \A f \in fetches : f.st = "ok" => f.snap \in Snapshot

IInv == TypeOK /\ AnsweredHasSnap

\* What the list endpoint answers from a well-typed server is a snapshot.
LEMMA AnswerType ==
    ASSUME TypeOK, NEW p \in Pages, NEW q \in AllQueries
    PROVE  [items |-> PageRows(p, q), total |-> Cardinality(Selected(q)),
            dflt |-> dflt, ver |-> ver] \in Snapshot
<1>1. Selected(q) \subseteq Ids
  BY DEF TypeOK, Selected
<1>2. Cardinality(Selected(q)) \in 0..Cardinality(Ids)
  BY <1>1, ListAssumption, FS_Subset, FS_CardinalityType
<1>3. PageRows(p, q) \subseteq Ids
  BY <1>1 DEF PageRows
<1>4. dflt \in Ids \cup {None} /\ ver \in Vers
  BY DEF TypeOK
<1>5. QED
  BY <1>2, <1>3, <1>4 DEF Snapshot

\* A fetch just sent for a page and a search term is a list fetch.
LEMMA SentType ==
    ASSUME NEW p \in Pages, NEW q \in AllQueries
    PROVE  Sent(p, q) \in Fetch
BY DEF Sent, Fetch

\* A mutation with a new status is still a mutation.
LEMMA MutStatus ==
    ASSUME NEW m \in Mutation, NEW s \in {"sent", "ok", "failed"}
    PROVE  [m EXCEPT !.st = s] \in Mutation
BY DEF Mutation

LEMMA InitIInv == Init => IInv
<1> SUFFICES ASSUME Init PROVE IInv
  OBVIOUS
<1>1. fetches \subseteq Fetch /\ AnsweredHasSnap
  BY SentType DEF Init, AllQueries, AnsweredHasSnap, Sent
<1>2. prov \subseteq Ids /\ dflt \in prov \cup {None} /\ ver \in Vers
  BY ListAssumption DEF Init, Vers
<1>3. page \in Pages /\ query \in AllQueries /\ list = None /\ muts = {}
  BY DEF Init, AllQueries
<1>4. QED
  BY <1>1, <1>2, <1>3 DEF Init, IInv, TypeOK

LEMMA NextIInv == IInv /\ [Next]_vars => IInv'
<1> SUFFICES ASSUME IInv, [Next]_vars PROVE IInv'
  OBVIOUS
<1> USE DEF IInv
<1>1. ASSUME NEW p \in Pages, SetPage(p) PROVE IInv'
  <2>1. Sent(p, query) \in Fetch /\ Sent(p, query).st = "sent"
    BY SentType DEF TypeOK, Sent
  <2>2. QED
    BY <1>1, <2>1 DEF SetPage, TypeOK, AnsweredHasSnap
<1>2. ASSUME NEW q \in AllQueries, SetSearch(q) PROVE IInv'
  <2>1. Sent(page, q) \in Fetch /\ Sent(page, q).st = "sent"
    BY SentType DEF TypeOK, Sent
  <2>2. QED
    BY <1>2, <2>1 DEF SetSearch, TypeOK, AnsweredHasSnap
<1>3. ASSUME NEW f \in fetches, AnswerFetch(f) PROVE IInv'
  <2>1. f \in Fetch
    BY DEF TypeOK
  <2> DEFINE snap == [items |-> PageRows(f.page, f.query),
                      total |-> Cardinality(Selected(f.query)),
                      dflt |-> dflt, ver |-> ver]
             ok == [f EXCEPT !.st = "ok", !.snap = snap]
             failed == [f EXCEPT !.st = "failed"]
  <2>2. snap \in Snapshot
    BY <2>1, AnswerType DEF Fetch
  <2>3. /\ ok \in Fetch /\ ok.st = "ok" /\ ok.snap \in Snapshot
        /\ failed \in Fetch /\ failed.st = "failed"
    BY <2>1, <2>2 DEF Fetch
  <2>4. fetches' \subseteq fetches \cup {ok, failed}
    BY <1>3 DEF AnswerFetch
  <2>5. QED
    BY <1>3, <2>3, <2>4 DEF AnswerFetch, TypeOK, AnsweredHasSnap
<1>4. ASSUME NEW f \in fetches, DeliverFetch(f) PROVE IInv'
  <2>1. f \in Fetch /\ fetches' \subseteq fetches /\ loading' = FALSE
    BY <1>4 DEF DeliverFetch, TypeOK
  <2>2. AnsweredHasSnap'
    BY <2>1 DEF AnsweredHasSnap
  <2>3. CASE f.st = "ok"
    <3>1. f.snap \in Snapshot
      BY <2>3 DEF AnsweredHasSnap
    <3>2. list' = [page |-> f.page, query |-> f.query, snap |-> f.snap]
          /\ err' = FALSE
      BY <1>4, <2>3 DEF DeliverFetch
    <3>3. QED
      BY <1>4, <2>1, <2>2, <3>1, <3>2 DEF DeliverFetch, TypeOK, Fetch
  <2>4. CASE f.st # "ok"
    <3>1. list' \in {list, None} /\ err' = TRUE
      BY <1>4, <2>4 DEF DeliverFetch
    <3>2. QED
      BY <1>4, <2>1, <2>2, <3>1 DEF DeliverFetch, TypeOK
  <2>5. QED
    BY <2>3, <2>4
<1>5. CASE Create
  <2>1. Started("create", None) \in Mutation
    BY DEF Started, Mutation, Ops, TypeOK
  <2>2. QED
    BY <1>5, <2>1 DEF Create, TypeOK, AnsweredHasSnap
<1>6. ASSUME NEW op \in Ops \ {"create"}, NEW i \in Ids, RowAction(op, i)
      PROVE  IInv'
  <2>1. Started(op, i) \in Mutation
    BY DEF Started, Mutation, TypeOK
  <2>2. QED
    BY <1>6, <2>1 DEF RowAction, TypeOK, AnsweredHasSnap
<1>7. ASSUME NEW m \in muts, ApplyMutation(m) PROVE IInv'
  <2>1. m \in Mutation /\ [m EXCEPT !.st = "ok"] \in Mutation
    BY MutStatus DEF TypeOK
  <2>2. muts' \subseteq Mutation /\ ver' = ver + 1 /\ ver < MaxVer
    BY <1>7, <2>1 DEF ApplyMutation, TypeOK
  <2>3. ver' \in Vers
    BY <2>2, ListAssumption DEF TypeOK, Vers
  <2>4. prov' \subseteq Ids /\ dflt' \in prov' \cup {None}
    <3>1. CASE m.op = "create" /\ \E i \in Ids \ prov : prov' = prov \cup {i}
               /\ dflt' = dflt
      BY <3>1 DEF TypeOK
    <3>2. CASE m.op = "delete" /\ m.id \in prov /\ prov' = prov \ {m.id}
               /\ dflt' = IF dflt = m.id THEN None ELSE dflt
      BY <3>2 DEF TypeOK
    <3>3. CASE m.op = "default" /\ m.id \in prov /\ dflt' = m.id /\ prov' = prov
      BY <3>3 DEF TypeOK
    <3>4. CASE m.op \in {"update", "test"} /\ m.id \in prov
               /\ UNCHANGED <<prov, dflt>>
      BY <3>4 DEF TypeOK
    <3>5. QED
      BY <1>7, <3>1, <3>2, <3>3, <3>4 DEF ApplyMutation
  <2>5. QED
    BY <1>7, <2>2, <2>3, <2>4 DEF ApplyMutation, TypeOK, AnsweredHasSnap
<1>8. ASSUME NEW m \in muts, RejectMutation(m) PROVE IInv'
  <2>1. [m EXCEPT !.st = "failed"] \in Mutation
    BY MutStatus DEF TypeOK
  <2>2. QED
    BY <1>8, <2>1 DEF RejectMutation, TypeOK, AnsweredHasSnap
<1>9. ASSUME NEW m \in muts, Settle(m) PROVE IInv'
  <2>1. m \in Mutation
    BY DEF TypeOK
  <2>2. Sent(m.page, m.query) \in Fetch /\ Sent(m.page, m.query).st = "sent"
    BY <2>1, SentType DEF Mutation, Sent
  <2>3. fetches' \subseteq fetches \cup {Sent(m.page, m.query)}
        /\ loading' \in BOOLEAN
    BY <1>9 DEF Settle, Refetched, TypeOK
  <2>4. QED
    BY <1>9, <2>2, <2>3 DEF Settle, TypeOK, AnsweredHasSnap
<1>10. CASE UNCHANGED vars
  BY <1>10 DEF vars, TypeOK, AnsweredHasSnap
<1>11. QED
  BY <1>1, <1>2, <1>3, <1>4, <1>5, <1>6, <1>7, <1>8, <1>9, <1>10 DEF Next

(***************************************************************************)
(* Every reachable state of the AI provider page is well typed, for any   *)
(* number of providers and mutations: the server's default is always one  *)
(* of its providers (a delete of the default clears it), and every list   *)
(* the page shows is a snapshot the endpoint answered, with a total no    *)
(* larger than the providers there are.                                    *)
(***************************************************************************)
THEOREM ListTypeCorrect == Spec => []TypeOK
<1>1. IInv => TypeOK
  BY DEF IInv
<1>2. QED
  BY InitIInv, NextIInv, <1>1, PTL DEF Spec
=============================================================================
