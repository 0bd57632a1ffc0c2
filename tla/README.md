# Specifications of poule

poule automates GitHub chores: *operations* (label, prune, rebuild, ...) are applied to issues and
pull requests, once from the command line, in batch, or by a server that reacts to GitHub events
and to cron schedules. The code is sequential almost everywhere, but its environment is not: GitHub
changes between two requests, requests fail after having had their effect, NSQ delivers events late
and again, cron entries overlap, and the configuration of the server is replaced while it runs. That
is what these modules are about.

Paths below are relative to `src/src/poule/` unless they start with `src/`.

## 1. The system

| Part | State it keeps | What it does | Calls |
|---|---|---|---|
| Command `serve` (`src/src/cmd/poule/serve.go`) | – | builds the server, loads the repository configurations, runs | server |
| Configuration registry (`server/server.go`, `server/config_helpers.go`) | `repositoriesConfig`: per repository the actions of its `poule.yml` and a cron scheduler; **no lock** | load at startup, refresh when a pull request that touches `poule.yml` is merged | GitHub (raw file), cron |
| NSQ listener (`server/listeners/nsq.go`, go-nsq) | one consumer per repository | one goroutine per repository handles messages one by one; an error requeues the message, up to 5 deliveries | event handler |
| HTTP listener (`server/listeners/github.go`) | – | one goroutine per request; an error loses the event | event handler |
| Event handler (`server/handler.go`, `server/action.go`) | – | gathers the actions triggered, runs their operations in order, stops at the first error | registry, runner |
| Cron scheduler (cron.v2) | entries | a goroutine of its own for every firing; `Stop` is an unbuffered send | runner |
| Runner (`runner/runner.go`) | page number | filters and applies an operation to one item, or to every page of the listing of open items | filters, operation |
| Operations (`operations/catalog/*.go`) | none: all their state is on GitHub | `Filter` reads, `Apply` writes; several requests each | GitHub, Jenkins |
| Filters (`operations/settings/*.go`) | – | predicates on items | GitHub (`contains`) |
| Commands `batch`, `validate`, one per operation | – | parse flags, call the runner | runner |

How they interact. An event goes listener → handler → operation → GitHub. One operation,
`poule-updater`, calls back into the server: it refreshes the registry the handler reads, from the
goroutine that handles the event. A cron entry calls the runner on the whole stock from a goroutine
that nobody waits for and that `Stop` does not end.

What is hard, and what would make each part correct:

* **Registry.** A refresh is read – stop – start – store on a map without a lock, while other
  goroutines read it and it is being filled at startup. Correct: one live scheduler per repository,
  no scheduler without an owner, no refresh that hangs, no older file over a newer one, and the
  merged file comes into force whatever fails, crashes or is redelivered.
* **Event-driven checks** (`dco-check`, validation by `poule-updater`). The event is about one head,
  what the requests read is the pull request of now; any of five to six requests can fail or lose its
  answer, and the handling restarts. Correct: no status on the current head is false, comments are
  not doubled, and at rest label, comment and status are those of the head.
* **Work on the stock** (runner, `prune`, `label`). Paging through a listing that moves, under its own
  effects and other people's; overlapping jobs; an error ends the job. Correct: a pass over a
  listing that stands still is complete, passes end, an outdated item is dealt with in the end, dry
  runs are harmless.
* **Build triage** (`rebuild`, `ci-label-clean`). Acting on statuses read some requests ago, told
  apart by the second; a retry after half of the builds were requested. Correct: the trigger label is
  consumed only with all builds requested; the failure label goes only for a reason; neither stays
  for ever.
* **Events of an item** (`label`, `random-assign`, `version-*`, filters). An event shows the item as it was
  when it was sent, and as an issue or a pull request by the kind of event; it is handled again after
  an error. Nothing recovers a panic of a handler or of a job, which ends the process; one loop of
  `random-assign` never ends; a signal gives the handler thirty seconds. Correct: an event leaves the
  server, no operation due for it is skipped, no milestone is given that was over, what is
  assigned twice is explained by a stale event, a stop ends the process.

`PROJECT.json` lists every component, the lines of code behind each definition (`map`), and under
`hazards` the places where the code is exposed, with the properties that cover them.

## 2. Modules

| Module | Models | Instances | Proofs |
|---|---|---|---|
| `ConfigRegistry` | abstract: what the registry promises to a repository | – | – |
| `Delivery` | abstract: what NSQ, go-nsq and the handler promise to an event | – | – |
| `ConfigReload` | registry, startup, events, cron schedulers, crashes | `MCConfigReload` | `ConfigReload_proofs`, `ConfigVersions_proofs` |
| `PullRequestChecks` | `dco-check` and validation on the events of a pull request | `MCPullRequestChecks` | `PullRequestChecks_proofs`, `QuietChecks_proofs` |
| `StockRun` | scheduled jobs: runner, paging, `prune`, `label` | `MCStockRun` | `StockRun_proofs` |
| `BuildTriage` | `rebuild` on events, scheduled `ci-label-clean`, `gh/status.go` | `MCBuildTriage` | `BuildTriage_proofs` |
| `Filters` | filters of items and the validation of a configuration: operators without state | – | – |
| `ItemEvents` | the server on one item: `label`, `random-assign`, `version-label`, `version-milestone`, filters, panics, shutdown | `MCItemEvents` | `ItemEvents_proofs`, `Assignments_proofs` |

The five detailed modules share the environment (NSQ, GitHub, people) by convention, not by
EXTENDS: each has only the part of GitHub its operations can tell apart. `ConfigReload` implements
`ConfigRegistry`; `PullRequestChecks` and `ItemEvents` both implement `Delivery`, each with its
own failures, so what `Delivery` says is the common ground of event-driven operations.

### ConfigReload

`pc[p]` and `task[p]` are the program counter and the locals of every goroutine `p` in
`refreshRepositoryConfiguration` / `updateRepositoryConfiguration`; a step is what happens between
two accesses to shared state or to the network.

| Action | Code |
|---|---|
| `Merge` | a pull request that touches `poule.yml` is merged; its event is queued |
| `Restart`, `BootNext`, `Serve` | `serve.go`: `NewServer`, `FetchRepositoriesConfigs` (errors are only logged), then `Run` |
| `Deliver`, `GiveUp`, `MsgTimeout` | go-nsq `handlerLoop`, `shouldFailMessage`, nsqd's timeout |
| `Gather` | `handler.go:51`, the read of the map |
| `ListFiles` | `poule-updater.go:90`: the first page of the files of the pull request; without `poule.yml` on it the event is rejected and over |
| `FetchList`, `FetchMissing`, `FetchError` | the GET and its outcomes: a list; a 404, or an empty body of whatever status, which returns without an error and changes nothing; an error |
| `Lookup`, `StopCron`, `StartCron`, `Store` | `config_helpers.go:50`, `:51`, `:54-68`, `:70` |
| `Fire`, `JobEnds` | a cron entry starts a goroutine; it outlives the scheduler |
| `Crash`, `RaceCrash` | death of the process; Go's fatal error when a map is read and written at once (a data race: a choice over what the build may do) |

`missed` is a history variable: the repositories whose last refresh came to nothing without being repeated, because its event was
given up on or lost, the first page of files did not show `poule.yml`, or the answer had no content
although the file has (`Skipped`). `QuietIsFresh` and `Converges` are about the others.

`Serves` gives the mode: disjoint sets (the assumption `Exclusive`) are NSQ's one consumer per
repository, overlapping ones are HTTP's goroutine per request; `Persistent` tells whether an error
requeues or loses the event. The refinement `Registry` maps `live[r]` to the schedulers running for
`r` and `stored[r]` to the scheduler of the map entry.

### PullRequestChecks

One pull request; `pushes` are its heads, `status` the statuses of each, `comments` and `label` what is
on it. `work` is the handler: the operation (`k`), the request it is at (`pc`), the head its listing
showed (`at`), the verdict (`pass`). Each action is one request (`ListCommits`, `ToggleLabel`,
`ListFiles`, `GetRaw`, `FindComments`, `DeleteComment`, `CreateComment`, `CreateStatus`) and its
effect; `Answer` ends it with what follows in the code; `Fail` ends any of them with an error, with
or without the effect; `ReturnError` requeues. Events are delivered in any order.

### StockRun

`job[j]` is a goroutine started by a cron entry: the pass (operation and listing), the page, the
items of the page not yet handled. `order` is the listing by update time: a ping or a comment moves
its item to the end, a close takes it away, so the pages shift under the job. `Fire` starts a job
at any time, several at once; `List`, `Filter`, `Apply`, `NextPage` follow `runOnEveryItem` and
`runSingle`; `Abort` is an error, which ends the whole job. Issues' listings contain pull requests, as GitHub's do;
a listing by creation (`ByCreation`, the latest `Number` first) only loses what is closed.
The age of an item is two facts with three values (`fresh`, `human`), all that
`prune.Filter` tells apart. `Filter` reads one page of comments, the oldest first: of the items in `Crowded`,
which have more of them, it sees an older comment than the last or none (`LastSeen`).

### BuildTriage

`published` is, for each head that was pushed, the history of its statuses; `ListStatuses(h)` is one page of it (`StatusPage`,
GitHub's is 30), latest first, and `GetLatestStatuses` runs the loop of `gh/status.go` over it, one entry after the other
(`Keep`: an entry replaces one of its context only if its *second* is strictly greater).

`handler` is the consumer running `rebuild` (`GetIssue`, `GetStatuses`, one `Build` per context, `RemoveTrigger`); it reads the statuses
of the head in its message, as `rebuild.go:131` does, whatever has been pushed since. `job` is the scheduled
`ci-label-clean`; it reads those of the head it was listed with (`ci-label-clean.go:66`), and it lists open pull requests to `master` only
(`ci-label-clean.go:87`). `Setups` are the settings of `rebuild` (empty ones take their defaults) and whether the
pull request is one to `master`; one is chosen initially. The setting `label` is given.

`owed` and `green` are history that only properties read. `Eligible(h)` and `Green(h)` say of the history of a head, without the
loop, what is due and whether nothing fails; like the code they know the first page only (`OnPage`).

### Filters

An operator for each filter of `operations/settings/filtering.go` (`Older`, `Assigned`, `Counts`, `IssuePasses`,
`WithLabels`, `WithoutLabels`, `Contains`), then the three ways the program uses them: on the item in hand
(`FiltersApply`; three filters do not implement the method for pull requests, which pass), before a listing
(`FilterIncludesIssues`, `FilterIncludesPullRequests`), and when they are parsed (`ParsesFilters`). The rules
of validation are `ValidActions`; it does not look at filters, and the server applies it to the
common actions only.

### ItemEvents

`item` is GitHub's; an event in `sent` carries a view of it from then, with the payload (`issue` or `pr`)
that `makeGitHubItems` chooses by the kind of event. The pull request in the event of a review comment, and one in a
listing, is `brief`: it has neither `Merged` nor `Comments`. `work` has the locals of the consumer's
handler and of one scheduled job: the operations left (`todo`), the request it is at (`pc`), the view `x`.

| Action | Code |
|---|---|
| `Deliver`, `GiveUp`, `Finish` | go-nsq's `handlerLoop`; `handler.go` gathers the actions triggered |
| `StartJob`, `Skip`, `Lists` | cron and `HandleStock`: `Accepts`, the filters, the listing |
| `Misconfigured` | an operation that does not exist or a filter that does not parse fails event or job |
| `GlobalFilters`, `ContainsFails` | `applyGlobalFilters`; `contains` logs the error of its request and rejects |
| `Filter`, `Pick`, `GetVersion`, `GetErrorPage`, `ListMilestones` | the `Filter` of the operation, request by request |
| `Apply`, `Fail` | the request of its `Apply`, and errors, with or without the effect |
| `Panic` | a nil field, body or list is used; the process dies |
| `Signal`, `Stopped`, `Exit`, `Restart` | `nsq.go:47-52`, go-nsq's `Stop` and its thirty seconds; whoever supervises the server |
| `Comment`, `Push`, `Merge`, `SetMilestone`, `Release` | people |

`mergedAt`, `given`, `assigned` and `swallowed` are history variables that only properties read;
`assigned` counts by event, with 0 for the scheduled jobs.

### Delivery

The state of an event is the operations `due` for it (fixed when it is sent), its deliveries so far, and
while it is in `hand` the operations `left`. An event is over only at the end of its last operation
or after `MaxAttempts` deliveries, every delivery starts from the whole of `due`, and an event that is over
never comes back. `Finish` may coincide with the end of the last operation, for some handlers
do both in one step; `Timeout` lets the event wait for its next delivery while this one goes on. The
handler of `ItemEvents` skips no operation silently: that is the part of the refinement a
wrong `Advance` or `ReturnError` breaks.

## 3. What the runs check

All runs use two workers and end within the five minutes; sizes are distinct states.

| Run | Question | Result |
|---|---|---|
| `reload_nsq` | one repository, NSQ, 2 merges of any of four files, 1 crash, 1 job, 2 deliveries per message, `poule.yml` on the first page of files or not | holds: 120 000 states |
| `reload_two` | two repositories and consumers on the shared map, startup, data race, restart | holds: 456 000 states |
| `reload_http_orphan` | HTTP: is there still one scheduler per repository? | **violated** |
| `reload_closure` | does a scheduled entry run its own action? | **violated** |
| `checks` | two heads, both checks, 3 deliveries per message, every request may fail or time out | holds: 342 000 states |
| `checks_dco_comment` | does the DCO comment go once commits are signed? | **violated** |
| `stock` | three items, one of them crowded, one job, one ping pass, one outside event, one error | holds: 215 000 states |
| `stock_overlap` | two items, one of them crowded, two overlapping jobs, force-close then label, dry or not, a comment at any moment | holds: 383 000 states |
| `stock_pinged` | is an issue pinged only once? | **violated** |
| `triage` | two contexts, three statuses read two at a time, two heads, two setups, two moves by people, one failed request | holds: 342 000 states |
| `items` | eight items with a configuration each, two events, a job, a failed request, a signal, a release | holds: 99 000 states |
| `items_accepts` | is an operation applied only to what it accepts? | **violated** |

Properties, by module (each has a mutant of the code in `PROJECT.json` that breaks it):

* `ConfigReload`: `OneScheduler`, `StopMeetsRun` (the unbuffered send of `Cron.Stop` has a receiver),
  `NoOrphan`, `QuietIsFresh` (nothing queued or handled ⇒ the file on master is in force),
  `ForwardOnly` (never an older file over a newer one), `JobsStartCurrent`, `RefreshEnds`,
  `Converges`, and `RegistrySpec`, the refinement of `ConfigRegistry`.
* `PullRequestChecks`: `HeadStatusIsTrue`, `OneComment`, `QuietDco`, `QuietValidation`, `EventsEnd`, and
  `DeliverySpec`, the refinement of `Delivery`.
* `StockRun`: `CalmPassIsWhole`, `JobsEnd`, `OutdatedIsHandled`, `LaterPassesRun`, `DryRunIsHarmless` (in a dry run only
  people and time close, move, ping, label or update an item), `CommentSavesIssue` (a recent human comment saves an issue unless it
  falls between `Filter` and `Apply`, or the issue is crowded).
* `BuildTriage`: `RebuildIsWhole` (the trigger goes only when every build is requested that the page of the event's head showed as due
  from the start of the handling to its listing), `CleanIsJustified` (the label of failures goes only if the page of the listed head
  was free of failures at some moment since the job read the label), `TriggerServed`, `StaleIsCleaned` (on pull requests to `master`).
* `ItemEvents`: `NotBackdated` (no milestone that was over when the item was merged, none for an item that is not, except by the
  event of a review comment), `SkipIsSound` (a listing
  is left out only if the filters reject all it could show), `AssignmentsExplained` (for each event: one
  that showed the item assigned makes the server assign nobody, any other at most one user per delivery and operation
  `random-assign`; likewise the jobs), `EventsEnd`, `StopEnds`, `SoundEventsServed`
  (an event whose operations can be evaluated has its effect in the end) and `DeliverySpec`.

What the violations show:

* `reload_http_orphan`: two HTTP requests that load the first configuration of a repository at once
  both start a scheduler, and the one stored first can never be stopped again. The same absence
  of a lock lets two refreshes of a configured repository stop the same scheduler: the second send
  has no receiver and the request hangs. NSQ mode has neither problem, and that is proved (section 5).
* `reload_closure`: the closure of `AddFunc` captures the loop variable; every entry runs the last action.
* `checks_dco_comment`: `applySigned` deletes the comments with the token of the *validation*.
* `stock_pinged`: `prune` skips its own comments when it looks for activity, so it pings every time.
* `items_accepts`: `Handle` goes to `runSingle` without a look at `Accepts` (only `HandleStock` does,
  `runner/runner.go:67`), so an event on a pull request runs `version-label`, which reads a nil
  `Issue`. The panic ends the process, at each delivery, until go-nsq gives the event up.

More places where the code differs from what is said of it have no run; the models do what the code does.

* `runSingle` treats `Terminal` as `Reject` (`runner/runner.go:175`, against `operations/operations.go:31`): the rest of the
  pass is filtered too. That costs requests, and `prune` may accept an item behind, one with a recent update
  whose last human comment is older than the threshold.
* `version-milestone` says it only considers merged pull requests (`version-milestone.go:59`), but line 63 rejects only a payload
  that says `merged: false`; that of a review comment says nothing, and its pull request gets a milestone.
* The value `issues` that the table of filters gives for `is` (`src/docs/user/intro.rst:123`) does not parse: the values are `pr` and
  `issue`. One of the starting points of `items` has it.
* The table of settings gives `[failing, error]` as the default of `statuses` (`operations/catalog/README.md:89`); that of `rebuild.go:23` is
  `error` and `failure`, the states that GitHub has.
* `ci-label-clean.go:72` takes the label off when there are "no actual job failures". It has looked at the first page of the statuses of the
  head that was listed; a push, a later status or a second page may have one.
* `prune` reads one page of comments, of at most what GitHub gives, oldest first (`prune.go:137-142`); in a long discussion it
  takes an older comment for the last one and pings or closes.
* The filter `comments` reads `Comments` of a pull request (`filtering.go:265`), a field that listings and the events of reviews do not
  have: the nil pointer ends the process (`Panics` of `ItemEvents`).

## 4. Bounds, fairness, deadlock

Bounds are the constants named `Max...`, in guards of the environment's actions only.

* `MaxMerges = 2` lets two refreshes of different ages meet; one crash can fall into any step of a
  refresh, and `RaceCrash` is not bounded by it. `MaxAttempts = 2` stands for go-nsq's 5: the first
  delivery, a retry, then `GiveUp`. `AnyPage` lets the first page of files show `poule.yml` or not; in the two violated runs it always does. `TwoFiles` has a list of two actions (needed for the captured variable)
  and no file; `AllFiles` adds a body that does not unmarshal and a schedule that does not parse.
* `checks`: two heads give every order of two events; three deliveries let a message fail twice in
  different places; failures are bounded by deliveries alone.
* `stock`: pages of one item are the worst case for a listing that shifts; three items give a page in the
  middle. `MaxPings = 2` tells once from more often. The one outside event is shared by comments, closes
  and the passing of time; initial ages are arbitrary. One item is `Crowded` in `stock` and `stock_overlap`, so both kinds are
  under the same job; in `stock_pinged` none is, for the finding does not need it.
* `triage`: three statuses and a page of two are enough for a failing context that a page no longer shows, for two statuses of the same
  second, and for one that is published while a worker acts on the listing. One push lets an event and a listing be about an
  older head. The two setups have the defaults on `master`, and settings with a context that never reports on another branch.
  Two moves by people set a trigger and
  the failure label, or set a label and take it off under a worker. `MaxErrors = 1 < MaxAttempts`: an
  event that fails at every delivery is dropped, and its label stays; `TriggerServed` is about the others.

* `items`: each of the eight starting points is an item with the configurations that make something happen to
  it: labels by two events, assignment by events and job with the author in the list, only the
  author in the list, an operation and a filter that are refused at run time, a milestone, a filter that reads the comments of
  a pull request, and two with nil
  fields, empty lists and the panic of a job. Releases and milestones exist only where an operation is
  about them. Two events are enough for a stale one behind a new one, for `Merge` overtaken by
  `Release`, and for one event that keeps another waiting for ever. `MaxAttempts = 4` (go-nsq: 5)
  exceeds one error, one stop and one panic of a job together: more of them would lose the event,
  and `SoundEventsServed` is about those that are not given up.

Fairness is only given to the program and to its queue: goroutines that can run do (Go's
scheduler), nsqd delivers to an idle consumer, the process is restarted after it died (`Restart`),
a cron entry keeps firing (`Fire`, `RunJob`). Merges, pushes, people, crashes, the CI and time have none.
A failed request is a step of the same action as the successful one, so fairness never
forces a success; the bounds on errors and attempts do. In `ItemEvents` these are `Takes`, `Advances(w)`, `Stopped`, `Exit` and
`Restart`; that the process is restarted is an assumption on whoever runs the server. The choice
of `Pick` is one step over the users that are not the author: when there are none, no step is enabled
and the handler stays, which `RetriesForever` names and the liveness properties allow for.

`CHECK_DEADLOCK FALSE` is set where the system may rest for good: no merge, push or event left and
nothing to handle. In `StockRun` a job can always fire, so deadlock is checked.

## 5. Proofs

Every safety invariant, action property and refinement of the passing runs is a theorem, for every value of the
constants that their ASSUMEs allow. The theorems about the registry have one hypothesis more, `Exclusive`, which NSQ mode
provides; TLC has a counterexample without it (`reload_http_orphan`).

**`ConfigReload_proofs`** (any repositories, workers, files, bounds)

* `TypeCorrect`: `Spec => []TypeOK`, in both modes.
* `AtMostOneScheduler`, `StopAlwaysMeetsRun`, `NoOrphanScheduler`: under `Exclusive` (NSQ mode) the
  three safety properties hold. `reload_http_orphan` shows the assumption is needed.

None of the three is inductive. Between `StopCron` and `Store` the map entry names a scheduler that no
longer runs, or the running scheduler is in no entry. The invariant `IInv` therefore says what a goroutine has *in hand* at each step
(`InHand`), what an entry in force guarantees otherwise (`InForce`), that startup and events do
not refresh at the same time (`Stages`), and that a worker only refreshes what it serves
(`Assigned`). The last two give the lemma `OneWriter`: two goroutines in a refresh of one repository are
the same goroutine. Each step of a refresh has its own lemma; all other steps leave what matters alone
(`SameHand`).

**`ConfigVersions_proofs`** (the same, under `Exclusive`)

* `NeverBackwards` (`ForwardOnly`) and `NoJobOfAnOldScheduler` (`JobsStartCurrent`), from `Versions`: what is in
  force is not newer than what a goroutine has in hand, and that is not newer than master. By `OneWriter`
  what was fetched grows old by a merge only, never by another refresh.
* `RegistryImplemented` (`Spec => RegistrySpec`). `StartCron`, `StopCron`, `Store`, `Fire` and the ends of the process map
  to the actions of `ConfigRegistry`, all other steps to stutters; `Identities` (those in use are below `nextId`)
  makes a new scheduler one that was never seen.
* `NoMergeLost` (`[]QuietIsFresh`), from `NothingLost`: for every repository the file of master is in force, or a message about
  it is queued, or a goroutine is refreshing it, or it is still to be loaded, or `missed` names it (`Covered`). What is in hand is
  master's unless one of these holds (`Fetched`); a message that timed out under its handler is back in the queue (`Requeued`).

**`PullRequestChecks_proofs`** (any list of checks, any number of heads, deliveries, failures)

* `Invariance`: `IInv` is an invariant of the specification; from it `ChecksTypeCorrect`,
  `StatusesAreTrue` (`HeadStatusIsTrue`), `CommentsAreUnique` (`OneComment`).

The strengthening is `Local`: the handler's verdict is true of the head `at` its listing showed, and
`at` lies between the head of the message and the current one. A status is set on the head of the
message; if that is the current head then `at` is too and the verdict is true of it, and otherwise nobody looks at
the status any more. Before `CreateComment` no comment has its token, for one handler is
the only one to create them.

`ChecksDeliver` (`Spec => DeliverySpec`) adds `Requeued`: a message that was timed out under its handler is
already in the queue, so that the handler, when it returns, has nothing to put back.

**`QuietChecks_proofs`** (the same): what is left once every event is handled

* `DcoSettles` (`[]QuietDco`) and `ValidationSettles` (`[]QuietValidation`), for any list of checks in any order.

The invariant `Settling` says that whatever is not yet as it should be is *owed*: an event was given up on, or one is queued, or the
handler is at a step before the one that puts it right (`LabelKept`, `StatusKept`, `CommentKept`, `CommentGone`). `Fresh`
is why a listing may be trusted: it showed the current head, or the event of a later one is queued.

`QuietValidation` does not ask for the comment on an invalid `poule.yml` where the commits are signed and a `dco-check` comes after the last
validation (`Rewritten` is false): `applySigned` of `dco-check` deletes the comments of the *validation* (`operations/catalog/dco-check.go:88`),
so it deletes that one. This is the slip that `checks_dco_comment` shows from the other side. All the rest is asked for in every
order, and `Spared` is the part of the invariant that knows when the comment is safe.

**`StockRun_proofs`** (any items, filters, jobs, passes, size of a page)

* `StockTypeCorrect`; `DryRunWritesNothing` (`DryRunIsHarmless`): a job before its `Apply` has seen that the setting is off, and the setting
  does not change. The steps of people and of time are told apart by `events`, which they alone move.
* `RecentCommentSaves` (`[]CommentSavesIssue`), for the items that are not crowded.
* `CalmPassesAreWhole` (`[]CalmPassIsWhole`), from `Whole`: as long as nothing moved, what a job has submitted and what it has left of its page are
  the listing up to that page, and the number of the next page is 0 only at the last. `ByCreationIs` gives what
  the proof needs of a listing by creation: a numbering of all that is open, which leaves nothing out.

**`BuildTriage_proofs`** (any contexts, settings, bounds)

* `TriageTypeCorrect`, in any case.
* `EveryBuildIsRequested` (`RebuildIsWhole`) and `CleanHasAReason` (`CleanIsJustified`), for any size of the page: both properties
  speak of what the page shows of the head that the event or the listing carries.

`LatestSelects` says what `GetLatestStatuses` returns for *every* listing: for each context that it holds, the
first of its entries with the greatest second. The induction over the entries is done with the least counterexample, because the
induction theorems of the library cannot be used. Then `Owes` (contexts due since the handling began are still to be
rebuilt at each step) and `Remembers` (a job that is about to remove the label has seen, or missed while
it looked, a moment without a failure) are enough.

**`ItemEvents_proofs`** (any items, configurations, words and bounds)

* `TypeCorrect` (`[]TypeOK`), and `SkipCorrect` (`[]SkipIsSound`), which holds in every typed state: the two readings
  of a filter agree for all filters.
* `NeverBackdated` (`[]NotBackdated`), which leaves out the events of review comments. The invariant `Busy` says that a worker inside an operation has one left
  in `todo`, so that `Here` and `Op` are defined. `Timely` says that no event or worker shows an item
  as merged that is not (`Past`), that `mergedAt` is not after the current version, and that a version in
  hand was read after the merge (`Knows`) or is that of an error page, which no milestone is named after.
* `EventsAreDelivered` (`Spec => DeliverySpec`): one lemma for the initial state and one per action; a
  panic or the end of the process maps to `PutBack`, steps of the job to stutters.

**`Assignments_proofs`** (the same)

* `AssignmentsAreExplained` (`[]AssignmentsExplained`). The property counts what is done and says nothing of what is about to
  be done, so it is not inductive. `Accounted` is: for each event, what was assigned on its account plus what the
  worker at it may still assign (`Owing`: the operations `random-assign` it has left, none if the event showed the item assigned)
  is within `Explained`. A delivery or a job adds the same to both sides, an assignment moves
  one from owed to done, an error or a panic writes off what was owed.

**Only model-checked.** Liveness, as fairness and ENABLED are beyond the proof system: `RefreshEnds`, `Converges`,
`EventsEnd` (both), `JobsEnd`, `OutdatedIsHandled`, `LaterPassesRun`, `TriggerServed`, `StaleIsCleaned`, `StopEnds`, `SoundEventsServed`.
What the five violated runs check is refuted, so there is nothing to prove of it.

## 6. Not modelled

* Parsing, formatting, logging, the signature of a webhook, command-line flags: pure computation or I/O.
* `update` and the reading of the server's own configuration; commands beyond their one call of `HandleStock`.
* Several consumers that stop together, and nsqlookupd. In `ItemEvents` one scheduled job runs at a time, and
  not as a dry run: overlapping jobs and dry runs are in `StockRun`.
* `pull_request_review`: `handler.go:74` knows it, but `GitHubEvents` of `configuration/common.go` does not, so
  no valid trigger names it.
* The cache in front of raw.githubusercontent.com: a fetch sees the file of now.
* One-request listings of `PullRequestChecks` (commits, files, comments) and of `ItemEvents` are taken
  whole. Those of `BuildTriage` (statuses), `ConfigReload` (files) and `StockRun` (comments) are one page, as in the code.
* A branch that is pushed back to an earlier commit: heads are always new. A change of the branch a pull request is made to.
* `append` on the common actions (`server/handler.go:51-53`) would write into an array shared by all consumers if that had room; the slice
  comes from yaml.v2, which makes it as long as the list (`decoder.sequence`) unless an entry is empty, so `append` copies.
* Reopened pull requests in `BuildTriage`; message timeouts there (they are in the two other event-driven modules).
* `BuildTriage` contains the rebuild of a pull request that was closed after its event was sent,
  which a comment of the code forbids; no run is about it yet.
* Vendored libraries beyond the lines of go-nsq and cron that the map names.

## 7. Plan

Done: 1. `ConfigReload` with `ConfigRegistry` and proofs; 2. `PullRequestChecks` and proofs;
3. `StockRun`; 4. `BuildTriage`.

5. `Filters` and the validation rules; 6. `ItemEvents` with panics, shutdown and proofs; 7. `Delivery`, implemented
by `PullRequestChecks` and `ItemEvents`, as theorems.

8. Proofs of every safety property: `ConfigVersions_proofs`, `QuietChecks_proofs`, `StockRun_proofs`, `BuildTriage_proofs`,
`Assignments_proofs`.

Next, in this order:

9. `ConfigReload` and `BuildTriage` against `Delivery`; for HTTP the weaker promise, at most one delivery.
10. Pages of commits and comments in `PullRequestChecks`; the rebuild of a pull request closed since, as a run of its own.
11. Safety parts of the liveness properties as theorems: what `MaxErrors` and `MaxAttempts` leave of an event that is not given up.
