# Formal models of the gitfox web front end (AI review and AI settings)

This directory holds TLA+ models of the parts of `src/web/src` that change
state over time. The modules come with:

- TLC configurations that check them on small instances;
- TLAPS proofs that hold for every value of the constants.

Paths below are relative to `src/web/src`.

## 1. The system and its parts

| Part | Source | Module | Status |
|---|---|---|---|
| AI review status poller | `hooks/usePRAIReviews.tsx` | `AIReviewPoller` | modelled |
| Hook colour (`useMemo` over data) | `hooks/usePRAIReviews.tsx` | `AIReviewDisplay` | modelled |
| AI review section of the PR overview | `.../sections/AIReviewSection.tsx` | `AIReviewPoller`, `AIReviewDisplay` | partly |
| PR AI review tab | `pages/PullRequest/PullRequestAIReview/PullRequestAIReview.tsx` | `AIReviewDisplay` (`TabShowsError`) | modelled |
| PR overview panel, branch effects | `.../PullRequestOverviewPanel.tsx` | `BranchPanel` | partly |
| Space AI provider list | `pages/SpaceAIList/SpaceAIList.tsx` | `AIProviderList` | modelled |
| AI provider dialogs | `components/NewAIModalButton`, `NewAIModalPromptButton`, `UpdateAIModal` | `ModalSubmit`, `ProviderForm`, `AIProviderList` | modelled |
| Repository AI settings | `pages/RepositorySettings/AISettings/AISettings.tsx` | `AISettingsForm` | modelled |
| Artifact list | `pages/Artifacts/SpaceArtifactList.tsx`, its header, `ArtifactUtils.ts` | `ArtifactList` | modelled |
| Locale loader | `framework/strings/languageLoader.ts` | none | not modelled |
| Assets and configuration | `HarnessLogo.tsx`, `*.module.scss.d.ts`, `config/webpack.dev.local.js` | none | not modelled |

Everything here is React state driven by three kinds of event:

- the user;
- fetches, whose answers arrive late and in any order;
- React committing a render and running its effects.

Each module therefore models:

- a request in three steps: sent, answered by the server, and applied by the
  hook;
- a component's effects as one `Commit` action when their dependencies
  changed.

That separation is what lets responses reorder and race with user steps.

The models rest on the following facts about the libraries. They are not under
`src/` and are taken from their documented behaviour.

- **restful-react `useGet`**: a change of its path or `queryParams` aborts the
  fetches in flight and fetches again. `refetch` is a closure of the render
  that made it. It aborts only if that render was loading.
- **restful-react `useMutate`**: `loading` is set by `mutate` and cleared when
  the request settles, success or error.
- **`useModalHook`**: it memoises the dialog function on its dependency list.
- **Formik**:
  - `onSubmit` ends `isSubmitting` as soon as the handler's returned value
    settles. A handler that returns nothing ends it at once.
  - A yup schema's `.trim()` transforms the value that is validated. The
    handler still receives the values as typed.

## 2. Modules

### `AIReviewPoller`: `usePRAIReviews`

State:

| Variable | What it models |
|---|---|
| `mounted` | whether the section is mounted |
| `path` | the path of the latest render |
| `srv` | the server's review per path: revision and status |
| `data` | useGet's data |
| `deps` | the values the polling effect last ran with |
| `cur` | the current effect run |
| `clo` | per closure slot: captured path and `complete`, timer, refetch state |
| `auto` | useGet's own fetch |

Actions:

| Action | What it models |
|---|---|
| `Commit` | useGet's path effect, the polling effect's cleanup (lines 82-85) and its new run (lines 69-81) |
| `Fire(s)` | `pollingFn` (lines 70-80) |
| `AnswerAuto`, `AnswerPoll`, `DeliverAuto`, `DeliverPoll` | a fetch being answered, then applied, including the `.then` at lines 74-78 |
| `ChangePath`, `Unmount`, `Remount` | the host section |
| `Push`, `Finish` | the server; these are modelled from `spec.md` |

### `AIReviewDisplay`: how a review is shown

State:

- the data;
- the hook's colour state, which a `useMemo` sets during render;
- AIReviewSection's `prData` and `statusMessage`, together with the values its
  two effects last ran with.

Actions:

- `Receive(d)` delivers new data to a render.
- `Commit` runs the two effects in order: data to `prData`, then `prData` to
  the message.

The derivations are operators:

- `HookColor` (hook lines 37-66);
- `StatusMessage`, for `determineStatusMessage`;
- `TabShowsError`, for the tab's `status !== 'success'` test.

`SpecColor` is the colour table of `spec.md`.

### `BranchPanel`: the source-branch effects of `PullRequestOverviewPanel`

State:

- the PR's state and source sha, which come from the parent;
- the server's branch and whether rules can be bypassed;
- useGet's data, error and request;
- the three effects' last dependency values;
- the createBranch and deleteBranch dry runs in flight;
- the restore and delete button flags.

Actions:

- `Commit` runs effect E1 (merged or closed refetches), E2 (a 404 starts the
  create dry run) and E3 (a sha match starts the delete dry run).
- The fetch and dry-run requests are answered, fail and are delivered.
- Outside events are `SetState`, `Push`, `DeleteElsewhere`, `UpdateSourceSha`
  and `ChildRefetch`, capped by `MaxEvents`.

### `AIProviderList`: `SpaceAIList` with the mutations it starts

State:

- the server's providers, default and version;
- page and search term;
- the list's data and error;
- fetches and mutations in flight.

Each mutation records the page and search term of the render that started it,
because its success callback calls that render's `refetch`.

Actions:

- `SetPage` and `SetSearch`, which abort and refetch;
- `AnswerFetch` and `DeliverFetch`;
- `Create` and `RowAction` (test, default, delete, update);
- `ApplyMutation` and `RejectMutation`, on the server;
- `Settle`: the `.then` with its captured refetch.

### `ModalSubmit`: the submit button of the three provider dialogs

State, per dialog:

- whether it is open;
- useMutate's `loading`;
- the `loading` its memoised dialog captured;
- the requests in flight, from the dialog shown (`cur`) and from dialogs since
  closed (`old`).

Actions:

- `Open`: a create dialog remounts; UpdateAIModal may be re-memoised.
- `Submit`: only when the button is enabled.
- `Settle`: clears loading; on success it hides the dialog.
- `Close`.

`Captured` is the set of dialogs whose button reads the captured value. That is
UpdateAIModal: `useMutate` is called in the hook, outside the memoised dialog.

### `ProviderForm`: the dialogs' forms and what they send

State:

- which dialog is shown, and its target;
- Formik's values;
- whether the last submit was invalid;
- the server's stored providers.

The yup schemas are translated with real strings:

- `.trim()`;
- required;
- the length bounds;
- the endpoint expression (`/^https?:\/\/.*$/`);
- the model expression.

Actions:

- `OpenCreate` and `OpenUpdate(i)`: the update dialog's token starts empty.
- `SelectProvider(p)`: the select's `onChange` fills `providerDefaults`.
- `Edit(f, s)`.
- `Submit`: validate, then either store the values as typed or mark the form
  invalid.
- `Close`.

### `AISettingsForm`: `AISettings`

State:

- the server's setting;
- whether the space has a provider;
- the loaded value;
- Formik's initial value and current value;
- useMutate's `updating`;
- the PATCHes in flight;
- the number of saves;
- `overlapped`, a history variable with no counterpart in the code: whether
  a save was sent while an earlier PATCH was still in flight.

Actions:

| Action | What it models |
|---|---|
| `Load` | the settings arrive and Formik mounts |
| `Toggle` | the user flips the setting |
| `Save` | the button, guarded by a provider and `Usable`; it sends a PATCH |
| `Apply` / `Settle` | the server, then `handleSubmit`'s `resetForm` |

The `LoadingSpinner` shown while updating is not modelled as blocking input.
It is not under `src/`, and nothing in `AISettings` disables the form or the
button during a PATCH: `onSubmit` ends `isSubmitting` at once, and keyboard
input gets past an overlay. So `Usable` only requires that the form is
mounted.

### `ArtifactList`: `SpaceArtifactList` and its header

State:

- page, search term and format filter;
- the header's own copies of the search box and the drop-down;
- the list's data and error;
- the fetches in flight.

Actions:

- `Search` and `SetFilter`: each also goes back to page 1.
- `SetPage`: only the pages the last response offers.
- `AnswerFetch` and `DeliverFetch`.

`ListView` is the abstract specification the page is shown to implement. Its
state is the parameters on screen (`par`), the list and the error. In it:

- the user moves `par` anywhere in `Params`;
- the list takes the server's `Answer(par)` for the parameters on screen;
- or an error is shown, and the list is kept or dropped.

`ArtifactList` instantiates it as `View` with `par <- Current`, and hides the
fetches. `ListImplementsView == View!Spec`.

## 3. Runs

Every run's module is `MC_<module>`. It instantiates the module with model
values for ids, shas, paths and search terms. `PROJECT.json` lists these
twelve runs.

| Run | Checks | Result |
|---|---|---|
| poller_safety | TypeOK, NoTimerAfterTeardown, NoPollWhileHoldingData, IncompletePollContinues | pass, 39,446 states |
| poller_pending | PendingKeepsPolling | violation |
| display_safety | TypeOK, TitleFollowsData, HookColorFollowsSpec | pass, 776 states |
| branch_panel | TypeOK, BranchActionOffered | pass, 25,982 states |
| provider_list_liveness | TypeOK, ChangesReachList | pass, 1,304,227 states (about 1.5 min) |
| provider_list_query | ListShowsCurrentQuery | violation |
| modal_submit | TypeOK, NoDoubleSubmit, SubmitEventuallyReenabled | pass, 196 states |
| modal_update_double | NoDoubleSubmit (UpdateAIModal) | violation |
| settings_form | TypeOK, SerialSavesKeepFormClean | pass, 32068 states |
| artifact_list | TypeOK, ListShowsCurrentParams, ListCatchesUp, ListImplementsView | pass, 1,485 states |
| artifact_no_result | NoResultMeansNoMatch | violation |
| provider_form | TypeOK, StoredProviderEditable | pass, 6,880 states |

### What the violation runs show

Each violation run checks one statement of the spec or of the code's intent.
`PROJECT.json` lists them under `findings`.

- **poller_pending.** A pending review sets `complete` and ends polling
  (`usePRAIReviews` line 60). The spec says that a pending result keeps
  polling, so the review's outcome is never fetched.
- **provider_list_query.** The create dialog's `onSuccess={() => refetch()}`
  (SpaceAIList line 81, called at NewAIModalButton line 95 after the awaited
  POST) runs the refetch of the render in which the user submitted. After the
  user paged or searched, the list then shows another page than the
  pagination does. UpdateAIModal's `postUpdate` (`openAIUpdate: refetch`,
  line 215, called at UpdateAIModal line 74) does the same. TLC's trace goes
  through the create callback; the row actions' `.then` (line 244) is the
  least reachable path, since the action cell remounts on every render.
- **modal_update_double.** UpdateAIModal's button reads the `loading`
  captured when `useModalHook` memoised the dialog on `[ai]` (line 176). A
  second click therefore sends a second PATCH.
- **artifact_no_result.** The pagination still shows the previous response
  while a new search loads (SpaceArtifactList line 158). A click on it fetches
  a page past the end, and the "no results" card says that nothing matches.

### Further divergences

Each of the following is stated as a property of its module. Each has a cfg
beside the runs with which TLC finds it violated:
`tlc -config <cfg> MC_<module>`. They are kept out of the run list, which is
limited to the question each component raises first.

| cfg | Property | What the counterexample shows |
|---|---|---|
| `MC_AIReviewPoller_AtMostOneInFlight.cfg` | AtMostOneInFlight | `pollingFn` starts a refetch while useGet's own fetch is in flight (line 74) |
| `MC_AIReviewPoller_ResultNeverRegresses.cfg` | ResultNeverRegresses | an older review overwrites a newer one (line 74; the TODO at lines 72-73 admits it) |
| `MC_AIReviewDisplay_SectionColorMatchesSpec.cfg` | SectionColorMatchesSpec | the section shows an error review in grey as "old version" (AIReviewSection line 84) |
| `MC_AIReviewDisplay_TabErrorOnlyForError.cfg` | TabErrorOnlyForError | the tab shows its error page for a pending review (line 49) |
| `MC_AIProviderList_SettledListIsFresh.cfg` | SettledListIsFresh | a captured refetch that does not abort lets a stale list land last (SpaceAIList lines 81 and 215) |
| `MC_AIProviderList_EmptyCardsTruthful.cfg` | EmptyCardsTruthful | a URL page past the end shows "no providers found" (line 339) |
| `MC_ModalSubmit_update_live.cfg` | SubmitEventuallyReenabled | an UpdateAIModal memoised while loading stays disabled (line 194) |
| `MC_AISettingsForm_CleanFormMatchesServer.cfg` | CleanFormMatchesServer | save, toggle, save: two PATCHes are in flight, because `onSubmit` does not return the promise (line 108) and `isSubmitting` does not cover the PATCH; they reset the form in the order they settle, and a clean form shows a value the server does not hold |
| `MC_ProviderForm_SentMatchesSchema.cfg` | SentMatchesSchema | the schema trims the fields but `handleSubmit` sends them untrimmed (NewAIModalButton line 89), so an endpoint with a leading space is stored |

### What the passing properties show

The passing runs show the following, each at the instance size given below.

**Poller:**

- Only the current effect run holds a timer.
- A refetch happens only without data or in the stale-`complete` window.
- A poll for a path without data goes on until data comes or the user leaves.

**Display:**

- The section's title follows the data once the effects have run.
- The hook's colour follows the spec's table.

**Branch panel:** a closed PR whose branch is gone, or still at the PR's sha,
comes to offer restore or delete, unless an outside event intervenes first.

**Provider list:** once the user stops acting, every server change reaches the
list, or an error is shown.

**Create dialogs:** never two requests in flight, and a disabled button
re-enables.

**Settings form:** overlap is the only way to a wrong clean form. As long as
no save was sent while an earlier PATCH was in flight, a clean form with
nothing in flight shows the server's value, through failed saves and toggles
made during a PATCH. With overlap it can be wrong (`CleanFormMatchesServer`,
further divergences).

**Artifact list:**

- A settled list shows the parameters the page shows.
- Once the user stops, the list catches up with them.
- The page implements `ListView`: every list it shows, settled or not, is the
  answer for the parameters on screen. A search that left older fetches
  running (mutant `SearchWithoutAbort`) would break this.

**Provider form:** a provider the create dialog stored can be opened and saved
by the update dialog.

Every property of a passing run has a mutant in `PROJECT.json`. A mutant is a
plausible bug in the mapped code, and TLC finds the property violated under it.

### Bounds

Each bound is the smallest that lets the interesting case happen.

| Model | Bound | Why it is enough |
|---|---|---|
| Poller | one path and the undefined one | a path change aborts fetches and tears closures down; the violation cfgs use two paths with symmetry over the slots, which the liveness check of the pass run forbids |
| Poller | three closure slots | a probe with four never had more than three alive |
| Poller | one push per path | an older and a newer review exist |
| Provider list | two ids, pages of one row | two pages exist |
| Provider list | a search term matching one id | a search changes the page count |
| Provider list | two mutations in flight and two server changes (one of each in the liveness run) | their refetches race; one change is enough for a change that must reach the list |
| Artifact list | three artifacts, two formats, one search term | the plain list, a filter and a search all have different page counts |
| Modal submit | three requests per dialog | a closed dialog's request overlaps two submits of the next one |
| Settings form | four saves | two PATCHes can be in flight together, and a save can follow a failed one |
| Provider form | one id, two typed values per field | one has a leading space and one fails its pattern; one id is created, then updated repeatedly |
| Branch panel | three outside events, two shas | a push can move the branch off the PR's sha |

### Fairness

Weak fairness is assumed only where the runtime guarantees progress:

- React flushes effects (`Commit`);
- browser timers fire;
- every fetch is eventually answered, and its promise settles.

The user, the server's other clients and the parent component get no fairness.

Liveness properties about lists are therefore stated for behaviours in which
the user eventually stops (`<>[][~UserStep]_vars`). Each page or search change
aborts the fetch in flight, so a user who never stops can starve the list.

## 4. Proofs

TLAPS proves the following for every value of the constants. Each proof
module `XProofs` extends `X` and `TLAPS`.

| Module | Theorem | Statement |
|---|---|---|
| `AIReviewPollerProofs` | `TypeCorrect` | `Spec => []TypeOK` |
| `AIReviewPollerProofs` | `TeardownStopsTimers` | `Spec => []NoTimerAfterTeardown` |
| `AIReviewPollerProofs` | `NoPollWhileHoldingDataProved` | `Spec => NoPollWhileHoldingData` (an action property) |
| `AIReviewDisplayProofs` | `TitleFollowsDataProved` | `Spec => []TitleFollowsData` |
| `AIReviewDisplayProofs` | `HookColorFollowsSpecProved` | `Spec => HookColorFollowsSpec` (an action property) |
| `AIReviewDisplayProofs` | `DisplayTypeCorrect` | `Spec => []TypeOK` |
| `BranchPanelProofs` | `BranchTypeCorrect` | `Spec => []TypeOK` |
| `AIProviderListProofs` | `ListTypeCorrect` | `Spec => []TypeOK` |
| `ModalSubmitProofs` | `NoDoubleSubmitProved` | assuming `Captured = {}`, `Spec => []NoDoubleSubmit` |
| `ModalSubmitProofs` | `ModalTypeCorrect` | `Spec => []TypeOK` |
| `ProviderFormProofs` | `StoredProviderEditableProved` | `Spec => []StoredProviderEditable` |
| `ProviderFormProofs` | `FormTypeCorrect` | `Spec => []TypeOK` |
| `AISettingsFormProofs` | `SerialSavesProved` | `Spec => []SerialSavesKeepFormClean` |
| `AISettingsFormProofs` | `SettingsTypeCorrect` | `Spec => []TypeOK` |
| `ArtifactListProofs` | `ListShowsCurrentParamsProved` | `Spec => []ListShowsCurrentParams` |
| `ArtifactListProofs` | `ArtifactTypeCorrect` | `Spec => []TypeOK` |
| `ArtifactListProofs` | `ListImplementsViewProved` | `Spec => ListImplementsView`, a refinement of `ListView` |

Every invariant proof has the same shape. An inductive invariant `IInv`
(checked by TLC as an invariant first) satisfies `Init => IInv` and
`IInv /\ [Next]_vars => IInv'`, with one proof step per action. The theorem
then follows by `PTL`. The assumptions used are the modules' `ASSUME`s, which
TLC evaluates in every run. `ArtifactList` and `AIProviderList` assume the set
of ids is finite, so that a response's `total` is a cardinality.

**Poller.**

- `TypeCorrect`: the type invariant is inductive. Lemmas give the types of the
  values the actions build (`Tidy`, `Sent`, `Replies`, `Applied`).
- `TeardownStopsTimers`: the invariant is `TypeOK /\ NoTimerAfterTeardown`.
  `Commit` clears the timer of the closure that stops being current, and
  `Fire` and `DeliverPoll` arm a timer only for the current closure.
- `NoPollWhileHoldingDataProved` rests on `CurCaptured`: the current closure
  holds the dependencies React last committed, and an unmounted section has no
  current closure. Only `Fire` of the current closure with a false captured
  `complete` starts a refetch. When the effect is up to date, that
  `complete` is the render's, so no data is held.

**Display.**

- `TitleFollowsData` is not inductive. `IInv` adds that the message is
  `StatusMessage` of the `prData` the second effect last ran with
  (`MsgOfRanPr`), and that `prData` is the data the first effect last ran with
  (`PrOfRanData`).
- `HookColorFollowsSpecProved`: only `Receive` changes the data, and lemma
  `HookColorRow` checks every row of the hook's `if` chain against the spec's
  table. `HookColor` is written as the code's `if (data)` chain. A `CASE` with
  a `d = None` arm followed by arms that read `d.status` would leave the
  colour of absent data undetermined in the logic, even though TLC takes the
  first true arm.

**Provider form.** `StoredProviderEditable` is not inductive, because it says
nothing of the stored token, which the update schema also tests. `IInv` adds:

- `StoredValid`: every stored provider passes `UpdateSchema`;
- `UpdTarget`: the update dialog is open only on a stored provider.

The proof never unfolds `Trim` or the patterns. It only uses two facts:

- the schemas read only the endpoint, model and token;
- the create schema is the update schema.

**Settings form.** `SerialSavesKeepFormClean` is not inductive, because it
says nothing while a PATCH is in flight. `IInv` adds `MountedFirst` (nothing
is in flight before the settings load) and, while `overlapped` is false:

- `Single`: at most one PATCH is in flight, because a save with one in
  flight sets `overlapped`.
- `AppliedSrv`: an applied PATCH has set the server's value.
- `InitialSrv`: until an applied PATCH settles, Formik's initial value is the
  server's.

Once `overlapped` is true it stays true, and the conjuncts it guards hold
vacuously. `SettingsTypeCorrect` rests on the step lemma `NextType`, which
the `IInv` proof also uses.

**Create dialogs.** `NoDoubleSubmit` is not inductive: a `Submit` from a state
with one request in flight and `loading` cleared would break it. `IInv` adds:

- `LiveLoading`: a request from the dialog shown keeps `loading` set.
- `InFlightBound`: the bound on `cur + old` that keeps `TypeOK` inductive when
  `Open` moves requests to `old`.

**Artifact list.** `TypeOK` alone is not inductive: an answered fetch must
carry a snapshot. `IInv` adds:

- `AnsweredHasSnap`;
- `InFlightCurrent`: every fetch in flight is for the current page, term and
  filter, because each change of them aborts the rest;
- `HeaderCurrent`: the header shows those parameters;
- `StaleWhileLoading`: a list without an error for other parameters still has
  a fetch in flight.

The refinement proof follows the usual three steps:

1. `Init => View!Init`.
2. `Spec => [](IInv /\ AnsweredIsAnswer)`, where an answered fetch holds
   `Answer` of its own parameters.
3. Every step maps to a `ListView` step or a stutter:
   - the user's steps are `Navigate`;
   - `AnswerFetch` stutters;
   - `DeliverFetch` is `Show` (by `InFlightCurrent`, the fetch's parameters
     are `Current`) or `Fail`.

Lemma `AnswerType` bounds `total` with `FS_Subset` from `FiniteSetTheorems`.

### Left to TLC

The following are checked only by TLC:

- Every liveness property (`IncompletePollContinues`, `BranchActionOffered`,
  `ChangesReachList`, `SubmitEventuallyReenabled`, `ListCatchesUp`). Fairness
  and `ENABLED` are beyond the provers.
- What the string operators (`Trim`, `EndpointPattern`, `ModelPattern`)
  compute on every string. That would need induction over sequences, which
  the installed provers cannot instantiate. This is why the violation of
  `SentMatchesSchema` is shown by TLC alone.
- The page arithmetic of `PageOf`, `PageRows` and `PageCount`. The proofs use
  only the fact that a page is a subset of the artifacts or providers.
- The violation runs.

## 5. Not modelled

**`languageLoader.ts`.** A switch from a locale id to an imported string
bundle. It has no state and no interaction. A model would be a single
constant function.

**Assets and configuration.** The SVG logo, the generated CSS-module typings
and the webpack dev proxy have no behaviour.

**`AIStatusCircle` and `generateStatusSummary`.** Pure rendering from the
data. The status decisions they share with the section are covered by
`AIReviewDisplay`. The tooltip text and layout are not.

**The rest of `PullRequestOverviewPanel`.** Its merge, dry-merge and
rule-violation parts talk to the merge box and the rules engine. Neither is
under `src/`, so `BranchPanel` covers only the source-branch effects.

**The prompt dialog's form fields** (`NewAIModalPromptButton`). Only its
submit path is modelled, in `ModalSubmit`.

**Table cells and the list's rendering.** Only the cards and the pagination,
which decide what the user can do, are modelled.

**Sha and PR number as poll keys.** The poller keys the server's review by
path only. The missing `source_sha` in the effect's dependencies (line 86) is
therefore recorded as a hazard without a property.
