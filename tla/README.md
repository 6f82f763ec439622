# LabVIEW CI: a TLA+ verification development

This directory models the parts of LabVIEW CI in which several actors change
shared state, and the programs whose decisions everything else relies on. TLC
checks them on small instances; TLAPS proves the main results for every
instance. It is meant to be read beside the code: `PROJECT.json` maps each
definition to the lines it stands for.

LabVIEW CI is a set of GitHub Actions workflows and scripts that other
repositories install. There is no server: the state lives in git branches and
tags, in a container registry, in what the Actions API reports and in the
browser of whoever looks at the page, and every actor works on a copy of it. The
hard behaviour is therefore that of a distributed system: stale snapshots, lost
races, pushes that land without an answer, runs that die between two pushes,
listings that lag, queues that hold one.

## 1. Inventory

| Component | State | Operations | Interacts with | Modelled |
|---|---|---|---|---|
| Release pipeline (`release.yml`, `promote-release.yml`, `publish-release.sh`, `version.py`, `promote-release.py`, the version gate of `validate-catalog-source-sync.py`) | default branch with `catalog.json`, version tags, moving refs, GitHub Releases, one pending run per concurrency group, each run's clone | merge, dispatch, promote / roll back, checkout, gate, catalog commit, push / rebase, tag, move aliases and channels, publish | mirror, installer, tooling update (all read tags and catalog) | `ReleasePipeline`, `ReleaseChannels` |
| Report publication (`publish-gh-pages`) | branch `gh-pages`, the clone of each publisher | fetch, orphan fallback, overlay, push, retry | every reporting workflow, dashboard | `GhPages`, `PagesOverlay` |
| Worker image lane (`build-labview-image.yml`, `copy-labview-image.yml`, `wait-for-worker-image.sh`) | the lane's runs, registry tags, base tags, `latest.json`, the jobs' waits | request, gate, drain / cancel, bake, push tags, promote base, publish manifest; probe, dispatch, wait, time out | all container activities, report publication | `WorkerImage` |
| Dashboard page (`dashboard.py`) | what one build has read so far, the page it deploys | resolve the branch, scan history, list active and failed runs, read statuses and reports, decide each cell, refuse or deploy | Actions API, statuses, Pages | `Dashboard`, `DashboardCells` |
| Queued overlay (the page's browser script) | entries in `localStorage`, the dispatch chain, the painted cells | dispatch, capture a run id, reconcile, restore, dismiss, reload | Actions API, dashboard page | `RunOverlay` |
| Dependency banner (`_compute_deps_pending`, staging and manifest of a worker) | monitored files, their lists, images, manifests, page | edit, stage, bake, publish the manifest, compare | worker lane, reconfigure, dashboard page | `Dependencies` |
| Installer (`install.py`) | a client's files and manifest | select, copy, mirror, prune, scaffold, write the manifest | tooling update | `Installer` |
| Tooling update (`apply-tooling-update.yml`), reconfigure | default branch of a client, update branch, pull requests, the stored token | install, push, rebase, defer workflow files, open and close requests | installer, release pipeline | `ToolingUpdate` |
| VI Analyzer, mass compile and unit test reports, package closure (`run-vi-analyzer.ps1`, `run-unit-tests.ps1`, the `build-*-report.py` beside them, `build-tooling-vipc.py`) | the passes, the log and exit code, the result files, the request stack | run a pass, write, crash, merge, classify; ask, require, resolve, write | activities, dashboard page, worker image | `AnalyzerReport`, `CompileReport`, `TestReport`, `ToolingClosure`, composed in `Builders` |
| Worker gate of the reusable workflow (`wait-for-worker-images.sh`) | a second kind of wait on the same lane | probe, dispatch, wait | worker lane | no |
| GitLab mirror (`sync-gitlab-mirror.sh`) | the mirror's tags and `main` | push new tags, force `main`, force rolling tags | release pipeline | no |
| Debug session, backfills, activities, other report builders, snapshots, toimages / lvctl, package installation, Linux worker image, GitLab provider, client discovery, web pages, container definitions, composite actions, build packaging | | | | no, section 8 |

### What makes each part correct

- **Release pipeline.** A version tag never moves and tells the truth about the
  commit it names; nothing another run wrote in the catalog is lost; pointers,
  marks and refs agree; a run that dies half way is repaired by the next one;
  every merge is released; aliases never move backwards.
- **Report publication.** The branch only ever receives whole overlays on its own
  tip; a reported success is on the branch; runs of a group land in order; the
  loop ends, and does not lose a report to a handful of rivals.
- **Worker lane.** What a newer run published is never overwritten by an older
  one; nobody is pointed at an image that is not there; a job is judged by the
  right build and pulls its image; nobody waits for ever.
- **Dashboard page.** An incomplete history is never published over a complete
  one; a run that is over is not shown as running, one that is running is not
  hidden behind an older result; a death and a result stay visible.
- **Queued overlay.** A run belongs to one cell; nothing a user asked for
  vanishes without a result or a failure; no spinner stays for ever.
- **Dependency banner.** Silence means that what CI runs on has the packages; a
  warning means that a build would bake them; after the build the warning ends.
- **Update and installer.** An update reaches the branch whole or as a request;
  it never goes backwards, never takes the consumer's own files, and never keeps
  two requests going.
- **Builders.** What a page says of a file comes from what a tool found in it;
  a failure is not counted away; the package archive holds what was asked for.

## 2. Modules

| Module | Content |
|---|---|
| `ReleaseChannels` | abstract: version tags are written once, a moving ref names a published release of its own line |
| `ReleasePipeline` | the two workflows down to every remote operation; properties |
| `ReleasePipelineProofs` | inductive invariant, tag and ref theorems, refinement of `ReleaseChannels`; marks sit on the newest entry, pinned refs are blessed; pointers carry marks, the history loses nothing, a run nobody overlaps converges and moves forward |
| `PagesOverlay` | abstract: the branch is extended by whole overlays only |
| `GhPages` | the attempt loop of each publisher; properties |
| `GhPagesProofs` | inductive invariant, success, reports, order, the bound on lost races, refinement of `PagesOverlay` |
| `WorkerImage` | lane, registry, jobs, time; properties |
| `WorkerImageProofs` | inductive invariant, lane order, pointers, verdicts; `latest.json` describes `:latest` between runs |
| `DashboardCells` | pure: what one cell shows, for each of the eight columns |
| `Dashboard` | a build of the page, call by call, against runs that start, post, die and finish; properties |
| `DashboardProofs` | live runs, deaths, results and history of the deployed page |
| `RunOverlay` | the browser's entries against GitHub's listing; properties |
| `RunOverlayProofs` | one owner per run, failures stay, nothing reverts silently |
| `Dependencies` | monitored files, worker builds, manifests and the banner; properties |
| `DependenciesProofs` | a silent banner is honest, a warning is actionable |
| `Installer` | pure: `install.py` as a function from a working tree to a working tree |
| `ToolingUpdate` | Update now, Reconfigure, people and pull requests on one client repository; properties |
| `ToolingUpdateProofs` | no downgrade, one open update request, updates arrive whole, the consumer's files are kept |
| `AnalyzerReport`, `CompileReport`, `TestReport`, `ToolingClosure` | one program each, from its plan or log to its page or archive; properties |
| `Builders` | the four side by side: each behaviour is one run of one of them |
| `BuildersProofs` | merged findings, compile counts and blame, verdict and links of the tests, the closure of the packages |
| `MC...` | constants of the runs |

A definition called "Mutant of X" or "mutant" is not used by the specification:
it is X with a plausible mistake, kept to show that the properties notice it.

### Release pipeline

`main` is a sequence of commits, each with the catalog it carries (version,
channel pointers, history with channel marks) and a flag for merges; `tags` maps
a version to the position it was tagged at; `refs` maps a moving ref to a
version. `run[l]` is the clone and the program counter of the run of
concurrency group `l`, `pending[l]` the run that waits. One action is one remote
operation with the local work before it:

| Action | Code |
|---|---|
| `Merge`, `DispatchRelease`, `DispatchPromote` | triggers; a newer request replaces the pending one |
| `Checkout` | `actions/checkout`, full history and tags: the snapshot everything local is decided on |
| `Prepare`, `Refused` | the gate, `version.py` or `promote-release.py`, the local commit |
| `Push`, `PushRejected`, `Rebase`, `GiveUp` | the push loop; a rebase conflicts exactly when the catalog changed |
| `TagExists`, `CreateTag`, `TagRejected` | `publish-release.sh`, version tag |
| `MoveMinor`, `MoveMajor`, `MoveStable`, `MoveBeta`, `MoveDev` | forced pushes of the moving refs, decided on the clone |
| `PublishRelease`, `Fail` | GitHub Release; a step that dies anywhere |

### Report publication

`branch` is the sequence of states of `gh-pages`, each a function from files to
the publisher whose copy it is. `clone[p]` is the tree publisher `p` will push and
the commit it is based on. Actions: `Skip` (fork, nothing to publish), `Start`,
`Fetch` (with the overlay and "no changes", the operator `Prepare`), `FetchFails`
(the orphan branch), `Push`, `PushRejected`, `AnswerLost` (the push landed, the
run does not know), `AttemptErrors`, `Kill` (cancel-in-progress).

### Worker image

`runs` is the lane in the order of creation; a run's stage goes through `gate`,
`coordinate`, `bake`, `push`, `promote`, `manifest`. `tag`, `workers`, `base` and
`manifest` are the registry and `latest.json`. `job[j]` is one container job.

| Action | Code |
|---|---|
| `Request`, `Pushed` | dispatch, schedule, saved configuration; a push starts its container runs and, for a dependency, a build |
| `List` | the Actions API shows a run late |
| `Gate`, `Coordinate`, `CancelTarget`, `Coordinated` | the gate job; drain or cancel of older container runs, best-effort, 25 minutes |
| `Baked`, `PushTag`, `Promote`, `PublishManifest`, `Break` | the build job, tag by tag; failures and cancellations |
| `CheckBuild`, `Probe`, `Join`, `Dispatch`, `DispatchFails`, `Guard`, `Verdict`, `Timeout` | `wait-for-worker-image.sh`; the guard ends with a listed build under way or after its two minutes, `late` when they passed without the awaited run in the listing |
| `RunnerFound`, `Finish`, `Tick` | the runner, the container work, five minutes of time |

Time is a tick of five minutes; `Tick` is not enabled while something that takes
less is due (`Urgent`), as in other timed specifications.

### Dashboard page

The outside: `history` (the default branch), `runs` (the Actions runs of one
activity), `status` and `report` (commit statuses and deployed reports by
platform), `clock` in days. `sc` is the scenario: the activity, the runs that
will come, pushes and failing calls left. `gen` is the build: its program
counter, what it has read, and whether a read was refused; `page` is what is
deployed. Each API read is an action, so anything outside may move between two.

| Action | Code |
|---|---|
| `Start`, `ResolveBranch`, `ScanPage` | the build; the branch to show; `fetch_commits`, page by page until window and target are filled, with `Refuse` for a degraded read |
| `QueryActive`, `QueryFailed`, `ReadStatuses` | `fetch_active_runs` (three queries, one after the other), the recent failures, the statuses of the row and the liveness check of a pending one |
| `RenderCell` | the row loop for one column: `CellOf` of `DashboardCells`, with `RunCell`, `ActiveRunCell`, `Badge` and one operator per column |
| `Deploy` | page, refresh rate, backfill card; may fail |
| `Create`, `Advance`, `Mark`, `DeployReport`, `Post`, `End`, `Die`, `Push`, `Tick` | a run from its creation through its pending status, its report and its result to its end; pushes; a day |

### Queued overlay

`setup` is the activity: one run per cell, a shared batch, or a gallery; its
platforms, cells and clicks. `store[c]` is the entry of cell `c` in
`localStorage`: when it was dispatched, the run of each platform, whether it
failed or is done, and the badge to restore. `dom[c]` is what the loaded page
holds for the cell, `jobs` the dispatches not yet made, `runs` GitHub, `tok`
whether a token is stored, `since` the runs made before the last tick of the clock, which is what a
lookup by creation time excludes.

| Action | Code |
|---|---|
| `RunNow`, `Drop`, `LoseToken`, `Reload` | the user: dispatch or re-run, dismiss, clear the token, reload |
| `DispatchShared`, `DispatchNext` | the chain of dispatches, one request each; a refusal marks the entry failed |
| `Capture`, `CaptureShared` | `captureRuns`: the newest listed run of the workflow since the click that no entry claims; the newest of all for a group that shares it |
| `Sync`, `Recheck` | `qSync` with the answers that arrived (`Judged`), and `applyQueued` (`Applied`) |
| `List`, `Finish`, `Rebuild`, `Tick` | GitHub lists a run, ends it, deploys a newer page; the two time limits |

### Dependencies

`Walked`, `Globbed` and `Tooling` say which files the page's walk and the build's
glob find, and which lie under `.github`: the two look in different places.
`repo` is the head of the branch (files, monitored lists, `use`, platforms),
`job[p]` the worker build of a platform with the revision it staged, `image[p]`
and `manifest[p]` what CI pulls and what `latest.json` says, `described[p]`
whether they are the same build, `served` what Pages serves, `reading` and `page`
the banner's snapshot and the deployed page.

| Action | Code |
|---|---|
| `EditFile`, `EditList`, `InstallAntidoc` | pushes of a package file, of `.github/labview-ci.yml`, of a capability with its own VIPC |
| `StartBuild`, `PushImage`, `PublishManifest`, `PublishWithoutPointer`, `FailBuild` | staging (`StagedVipcs`, `StagedDragons`), bake and push (`Outcomes`), the manifest (`BuildManifest`), `update_mode=new`, a failure |
| `Serve`, `StartDashboard`, `ScheduleDashboard`, `PublishPage` | Pages catches up; the dashboard reads, then deploys `DepsPending` of what it read |

### Installer and tooling update

A working tree is its files (who wrote each, of which release, with which push
trigger), its manifest and, for GitLab, its root pipeline. `Installed` and
`ThinInstalled` are `install.py`: the refusals, the selection with what it
requires, the copy of absent or all files, mirrored directories with their
prune, the preserved files, the scaffold, the manifest last.

| Action | Code |
|---|---|
| `CheckToken`, `RunInstaller` | `apply-tooling-update.yml` up to its commit: probe of the token, resolution of the release, `install.py --update` |
| `PushLands`, `Rebase`, `DeferWorkflows`, `FallBackOnRefusal`, `OpenPR`, `PushFails` | push; rebase and second push; the retry without workflow files; the update branch and its request, the branch alone where Actions may open none, or the death next to it |
| `Tidy` | the last step of an applied or offered update: it closes the other update requests, and any close, deletion of a branch, or the listing before them may fail |
| `Reconfigure`, `MergePR`, `OpenByHand`, `PushOwn`, `InstallByHand` | people: the page's manifest request, merges, a request opened from a branch a run left, commits, `install.py` by hand |
| `Release`, `TokenChanges` | a new release; a token that is added, expires or goes |

### Builders

Each of the four is one program run on its own inputs. `AnalyzerReport`: `viaPlan`
is the list of passes, `viaReports` the native report of each or `Absent`;
`RunPass` ends a pass, `BuildAnalyzer` merges. `CompileReport`: `log`, `exit`; a
line holds the VI LabVIEW meant and what the report reads, which differs where the
log was broken inside a name; `WriteLine`, `Exit`, `BuildCompile`. `TestReport`:
`results` with the cases of each file's root and those of the suites below it,
`issues`; `ToolWrites`, `ToolFails`, `BuildTests`. `ToolingClosure`: the recursion of
`resolve_closure` as a `stack` of requests and a set `visiting`; `AskRoot`,
`Require`, `Resolve`, `WriteVipc`.

## 3. Runs

| Run | Question | Instance |
|---|---|---|
| `release_safety` | do tags, catalog and refs survive a race with failures at every step, does an undisturbed run repair them and move aliases forward only, is `ReleaseChannels` implemented? | a release and two promotions or roll-backs; minor and patch bumps; 895 thousand states |
| `release_ends` | is every merge released? | two merges, one promotion, no failures |
| `pages_safety` | whole overlays, real successes, group order? | two runs of a group, another workflow, a fork; two attempts each; failures, lost answers, cancellations |
| `worker_safety` | lane order, manifest, verdicts, fresh image, quiet start; does every job and run end? | one job, one other request of each kind, builds from pushes and from the job, failures everywhere; 674 thousand states |
| `worker_mutual_wait` | "rules out a drain/wait deadlock" | violated |
| `dashboard_page` | history, live runs, deaths and results on the page; do spinners resolve? | nineteen scenarios (below); 213 thousand states |
| `overlay_page` | owners, failures, silent reverts; do spinners end? | seven activities (below); 418 thousand states |
| `dependency_banner` | is silence honest, is a warning actionable, does it clear? | two platforms of installation, four files, one where only the page looks and one where only a build does, one push at any moment; 261 thousand states |
| `tooling_update` | whole, delivered, forward, own files kept, one request kept, the rest in conflict? | three repositories, two releases; 218 thousand states |
| `update_monitoring` | "configuration and baked dependencies preserved" | violated |
| `builder_reports` | what the tools found is what the pages say | every configuration, log, result set and index below; 588 thousand states |
| `analyzer_first_rule` | the first matching rule owns a VI | violated |

Further configurations are kept for reading and for re-running by hand
(`tlc -config X.cfg MCModule`); the first four hold and the others show a
divergence of section 6:

| Configuration | Module | Checks |
|---|---|---|
| `ReleaseHistory` | `MCReleasePipeline` | `TypeOK`, `RefsPublished`, `RunsConsistent`, `PointersMarked`, `TagsImmutable`, `HistoryAppendOnly` |
| `ReleaseRunsEnd` | `MCReleasePipeline` | `EveryRunEnds` |
| `PagesEnds` | `MCGhPages` | `TypeOK`, `CloneFaithful`, `EveryRunEnds` |
| `PagesSixLand` | `MCGhPages` | `FewAllLand`: six symmetric publishers, the real six attempts |
| `RecordBehindTags`, `MajorBackwards` | `MCReleasePipeline` | violated: `RecordNotBehindTags`, `MajorNeverBackwards` |
| `WorkerFirstRun`, `WorkerReseed` | `MCWorkerImage` | violated: `FirstRunOutlasts` (real durations), `SeedIsNoOp` |
| `DashboardLive`, `DashboardTarget` | `MCDashboard` | violated: `LiveRunShown`, `TargetFound` |
| `OverlayRestore`, `OverlayForeign` | `MCRunOverlay` | violated: `ResultRestored`, `NoForeignClaim` |
| `DependencyNewTag` | `MCDependencies` | violated: `BannerSeesWorker` |
| `BuildersDiverge` | `MCBuilders` | violated: `GreenMeansRan`, `EveryCaseHeard` and `MissingRootFatal` (with `-continue` TLC shows all three) |

**Bounds.**

- *Release, pages, worker.* `Budget`, `MaxRequests` and the sets of publishers
  and jobs limit how much happens, `MaxMajor` / `MaxMinor` / `MaxPatch` the
  versions (a run that would exceed them cannot go on; `EveryRunEnds` shows it is
  never the case), `MaxTries` and `MaxAttempts` the loops, `Overall`, `Appear`,
  `DrainLimit` and `BakeTime` the deadlines. Two concurrent runs of a release are
  all there can be, one per group; three requests give the histories in which a
  run finds what a dead one left. Two attempts are enough for a retry after each
  kind of failure. One job and three runs give a running, a pending and a dropped
  build.
- *Dashboard.* Three histories deeper than the scanned window (`RecentWindow`
  2, pages of 2) with pushes during the scan; every column with one run that
  moves, alone or after a finished one of the same or of the other platform; one
  scenario with a failing call. `StaleAge` 1 and `DeadAge` 2 keep the real order
  of the ages, `MaxClock` one day ahead lets a status grow stale during the
  build. What hides what is decided between two runs of one row, so two suffice.
- *Overlay.* A cell clicked twice, two cells at once, one cell of two platforms,
  a batch, a gallery of two; `MaxRuns` 2; `QTTL` and `QDONE` 0, so that each limit
  may pass between any two steps.
- *Dependencies.* Two VIPC and two Dragon files, one of each kind found by one of
  the two searches only, and the capability's VIPC over three packages, one with two
  versions; no file under `.github` (`Tooling`; the theorems hold for any); `MaxPushes` 1 at any moment of two
  builds and two page builds, from repositories with and without lists.
- *Update.* Two releases that swap a file in a mirrored directory; three
  capabilities, one of them Windows only with a requirement; a vendored,
  a GitLab and an empty repository (`SmallHistory` leaves the last two out);
  `MaxStamps` 3 installations, `MaxPushes` 1, `MaxPRs` 1.
- *Builders.* Four VIs of the project and one of the tooling, up to two rules of
  three scopes; logs of four lines, broken in a name, in an ending and in a folder of
  the tooling; two test tools of up to two cases, in the root, in suites, and nested; indexes of
  three packages with a cycle and conflicting requirements.

What the proofs cover holds without any of these bounds.

**Symmetry** is used once, in `PagesSixLand`, for publishers that differ in
nothing and without a liveness property.

**Deadlock** is not checked where the instance stops when its requests are used
up or its builder has written its page. The liveness properties show that
nothing stops earlier.

**Fairness.** Weak fairness of the steps of each run, publisher and job: runners
execute the steps they have started, GitHub starts the pending run of a free group.
For the worker lane it is weak fairness of the lane, the jobs and the clock
together: something happens as long as something can, and the deadlines do the rest,
so `JobsEnd` and `RunsEnd` need no more. For the dashboard: builds start (on a schedule, every hour), go on,
and GitHub ends every run. For the overlay: time passes, the page reloads and
polls, runs finish. For the banner: Pages deploys, scheduled page builds and the
monthly worker build run; strong fairness for `PushImage` and `PublishManifest`,
because an installation that may fail each time is assumed to succeed some time. For the update: `Deliver`, the steps after the commit of one run. None for
requests, failures, cancellations, lost answers or people. A push that is always
overtaken is not helped by fairness; the loops end because they count.

## 4. Properties

Named as in the modules; the ones that took the most thought:

- `TagIntegrity`: whoever wins the race for a tag, the tagged commit's own
  catalog carries that version.
- `SoloRunConverges`: a run that nothing overlaps leaves every moving ref where
  the catalog wants it, whatever earlier runs left undone.
- `SoloAliasesForward`: such a run never moves an alias back.
- `HistoryAppendOnly`, `MarkOnNewestEntry`, `PointersMarked`, `RefsBlessed`: the
  catalog loses nothing, and marks, pointers and refs agree although a version
  may have two entries.
- `NoPartialReport`, `SuccessLanded`: with retries after a lost answer, a report
  is on the branch as a whole or not at all, and success means it is.
- `FewAllLand`: an attempt is only lost to a publisher that landed, so as many
  publishers as attempts all land.
- `LaneOrder`, `PointersQualified`, `CurrentWorker`: registry tags, base and
  `latest.json` follow the order of the lane and each other.
- `NoStaleVerdict`, `FreshImage`, `QuietStart`: the newest run of a listing that
  lags, judged by name only, is still the right one to wait for. The exception is in
  the property: a job whose two-minute guard passed before its build was listed may
  be judged by an older one (section 6); no other way leads there.
- `HistoryKept`: pages of commits read while others are pushed on top, with
  tooling commits between, still give the whole window and every project commit up
  to the target; an incomplete read is not published.
- `StableRunShown`, `NoGhostRun`, `DeathShown`, `ResultKept`: a cell is decided
  from three sources read at different times; each statement says that one source
  is not hidden behind another that is older.
- `NoDoubleClaim`, `NoSilentRevert`, `FailureSticks`, `SpinnersEnd`: the browser
  guesses which run is its own; what it guessed is not shared, and what it shows
  changes only for a newer result, for time or for the user.
- `BannerHonest`, `BannerActionable`, `BannerClears`: the banner and the build
  decide from different code which files count; the three say that the decisions
  fit together in each direction.
- `OneUpdatePR`: closing is tried once and may fail, and people open requests from
  branches; among what is left a run keeps one request, and a request an applied
  update left behind conflicts with the branch until a run makes it anew.
- `UpdateWhole`, `OwnKept`, `NoDowngrade`, `UpdateDelivered`: an
  update computed on a checkout, rebased on what was pushed meanwhile, possibly
  merged months later by hand, is still one release, forward, and not lost.
- `MergeFaithful`: the merge of passes, some of which crashed, shows findings of
  configurations that apply, and loses none where only one applies.
- `CompileHonest`: counts and blame against what LabVIEW meant, while the report has
  the text only, broken where the line was long. A VI flagged in a broken line may
  count twice and has its card under a name no VI has; it is never counted as
  compiled, and nobody else is called bad for it.
- `TestsHonest`: verdict, columns and links against the cases of the result files.
  It speaks of the cases the reader finds; what the reader does not see is in
  section 6.
- `ClosureSound`: the recursion ends whatever cycles the index has, the archive
  holds what undisputed requirements ask for, and own pins win. The first form of
  it was false and no index tried had shown it; the proof did: a pin loses to an
  exact requirement taken up earlier, a package may stay that nothing leads to
  once a record was replaced on a cycle, and a missing root may go unnoticed. The
  conditions (`Undisputed`, something published meets the request) say when the
  code does deliver, and section 6 lists the rest.

## 5. What is proved

No bound of section 3 is assumed: the theorems hold for any lanes, inputs,
budgets, publishers, forks, groups, paths, requests, deadlines, pages, catalogs,
workspaces and logs that satisfy the named assumptions of the modules, and for
failures anywhere.

- **Release.** `IInv == TypeOK /\ TagIntegrity /\ RefsPublished /\ RunsConsistent`.
  `RunsConsistent` is the strengthening: tags are written from clones, so what a
  clone knows has to be true of the remote (its HEAD is on `main`, its tags
  exist, and from its tag step on the commit it will tag carries its catalog).
  From it `TypeCorrect`, `TagsTruthful`, `RefsNamePublished`, `TagsNeverMove`
  and, step by step, `PipelineImplementsPromise`.
- **Catalog.** On top of it `MarksInv`: in every catalog, on `main` or in a
  clone, a marked entry is the newest of its version and is of a version the
  clone has a tag of. The second half is the strengthening: a mark is only put on
  a published version and a bump leaves all published versions (`BumpedIsNew`),
  so no later entry repeats a marked one. `MarksOnNewest` follows;
  `PinnedRefsBlessed` uses that blessings only grow with `main` (`BlessedGrows`).
  That a version with a pointer keeps the mark (`ChannelsShown`) is a conjunct of
  the same invariant. `NoEntryLost` has its own, `EditInv`: from its edit to its
  push, the catalog of a run is that of the commit its clone is on with one entry
  more at the head, its tiers changed in one entry at most.
- **A run nobody overlaps.** `SoloInv`: such a run knows every tag and every ref;
  its version is above all published ones (and from its tag step on is the newest);
  the catalog it pushed is the tip; each step of publish-release.sh it has passed
  left its ref where the catalog wants it, and the later steps touch other refs
  (`OthersKept`). Nothing is said of the state other runs died in, which is the
  point: `SoloRunsConverge` and `SoloRunsMoveForward` hold after any of them.
- **Pages.** `IInv == TypeOK /\ CloneFaithful /\ SuccessLanded /\ NoPartialReport /\
  GroupClear`. `CloneFaithful` says a clone is an overlay of a commit the branch
  has had; a push is accepted only on that commit, so the new tip is a whole
  overlay of the old. `GroupClear` says the earlier members of the group of a run
  under way are over, which gives the order. `FewLand` has its own invariant,
  `Budgets`: an attempt, plus the commits that landed since its fetch, never
  exceeds the publishers that have landed plus one.
- **Worker lane.** `IInv == LaneInv /\ JobInv`. `LaneInv` strengthens
  `PointersQualified` by what the group makes true: behind a run under way there
  are only runs that never started (`OneLane`), nothing in the registry is newer
  than a run that is not over (`Ordered`), and the immutable tag and `:latest`
  are pushed or still on the run's list (`WorkerPushed`, `LatestPushed`). `JobInv`
  says that the build a job dispatched exists and that, unless its guard passed too
  early for the listing, no older build that ran to its end can be what it sees. The two meet only in `Keeps` (a run that is
  over stays as it is) and `Heard` (a build that ends does so when everything is
  listed), so lane steps and job steps are proved apart: `LaneNext`, then
  `Carried` and `JobMoves`. From it `TypeCorrect`, `PointersFollow`,
  `InLaneOrder`, `JudgedRight`, `PullsFresh` and `StartsQuiet`.
- **Manifest.** `MInv == TodoInv /\ Agree` on top of it. `TodoInv` says which tags
  a run in each stage still has to push; `Agree` that `latest.json` and `:latest`
  name one run as long as every run is either untouched or went through in mode
  `replace`. The step that matters is `Publishing`: the run that publishes the
  manifest has pushed `:latest`, and nothing in the registry is newer than it.
- **Overlay.** `Inv == setup \in Setups /\ RunsShape /\ StoreShape /\ Real /\
  NoDoubleClaim`. Only a lookup gives an entry a run; `Carried` says that every
  other step leaves captured runs with the cell that has them or drops them, so
  `Capturing` and `CapturingShared` are the two steps with an argument. The action
  properties follow from `PaintsOnly`: a background step only judges an entry that
  is not over and paints it.
- **Update.** `Inv == MainInv /\ RunInv /\ PRsInv /\ OnePR`, and `BehindInv` for
  what is left over. `Forward` is what is
  carried: each commit a run or a request holds is a tree of a release not older
  than its base and not newer than the latest; a run that has not lost a race
  sits on the tip. A three-way merge that is no conflict has the manifest of the one side that wrote it (`MergeTree`), and
  stripping workflow files leaves it (`StrippedTree`), so `NeverDowngraded` is one
  lemma per step. `BehindInv` is about dates: after an update was applied, every
  open offer of one is based on an older manifest than `main`'s. Both sides of a
  merge then wrote the manifest, which is a conflict, and only a run makes an offer
  anew; `UpdateOfferedOnce` follows with the count of the kept ones.
  `FilesInv` says what is in the trees. A commit is `Sound` (newer than its base, not
  for GitLab, and of the consumer's files it at most adds a preserved default where
  there was none) and `Current`: as long as the branch carries the base's date, only
  people have written to it since. Every installation dates the manifest anew, so a
  merge without conflict is onto such a branch (`MergeSound`) and the update arrives
  as it was made. `UpdatesArriveWhole` and `ConsumersFilesKept` follow;
  `OwnedAssumption` says what is the consumer's alone: no release ships it, or once
  preserved it, without preserving it, which is how `catalog.json`'s `userConfig` is
  to be kept.
- **Dashboard.** Two invariants of their own. `PageInv` follows a run through the
  build: what makes a cell live was a run that is active or has moved since
  (`GhostInv`); a run of the row that does not move is found by the query of its
  state, which comes before the row is drawn (`StableInv`); a death within the day
  is found by the failed-run query and survives the drawing (`DeathInv`); a report
  decides its cell in each of the four columns (`ResultInv`). `ReadInv` measures the
  scan from the history as it was when its first page was listed: after n commits
  read and d pushed since, the first n - d are covered, and the count runs ahead by
  no more than d (`ScanInv`). This is where the statement had to be put right:
  without the d it is false, and the count of a page may be of one commit twice.
- **Banner.** `Inv` says what a build stages is in the image it pushes and that a
  manifest which describes the image was made from it (`Described`); the rest is two
  lemmas about pure definitions, that what `BuildManifest` writes down is enough
  for `Missing` to find the packages, and that under `ReadAlike`, which asks that no
  file is hidden from a build, the page selects a subset of what the build selects.
- **Builders.** Five invariants side by side. `PlanOK /\ PageOK`: a plan is rules
  followed by one default, and a page is the merge of the reports that exist
  (`AnalyzerFaithful`). `CompileInv`: the page is `CompileData` of the log at the
  exit (`CompileTrue`, with `ToldCounted`: each VI the page was told of has a key of
  its own, because what is read differs from the name in white space only and no two
  VIs do, `BreaksAssumption`). `TestsInv`: the page is `TestData` of the
  result files, and the count of a verdict is that of the places in them, by the
  four statuses, which share them (`TestsTrue`, with `Gravest` for the columns and
  `Resolved` for the links). `StackInv`: a record is pushed only
  for a request not taken up before, so the stack is no longer than the set
  (`ClosureEnds`). `ClosureInv`: a request that something published meets has its
  package or will have it from the stack (`RequestsInv`), every record was the choice
  of a request (`RecordsInv`), what it requires was asked for or is still on its
  list (`AskedInv`), and, as long as nothing asked so far is disputed, no record is
  without one that requires it or a root (`ReachedInv`); requests that agree choose
  the same record (`SameChoice`), so that a record on a cycle is replaced by itself.
  `ClosureIsSound` follows when the stack is empty and every root had its turn.

`TypeCorrect` (three times), `RefsNamePublished`, `TagsNeverMove`, `PointersFollow`
and `FewLand` state properties that no run of the table checks any more, because a
theorem says more; their configurations are those of section 3.

Every invariant, action property and refinement that a passing run of the table
checks is a theorem. Only model-checked: liveness (`EveryMergeReleased`, `EveryRunEnds`,
`JobsEnd`, `RunsEnd`, `SpinnersResolve`, `SpinnersEnd`, `BannerClears`,
`UpdateDelivered`), which the prover does not do, and what a recursive definition
computes for every input, because the library's induction theorems cannot be
instantiated (the proofs get by with the least element of a set of numbers,
`LeastIsIn` and `CountUp`). Modules with theorems use folds and functions instead of
`RECURSIVE`, and parenthesise `SUBSET S` and `UNION S` before another set operator:
TLC and the prover bind the two differently.

## 6. Where code and documentation disagree

Three of these have a run of their own, others a configuration; the rest were met
while modelling and are written down here.

Release, pages and workers:

| Where | What the code does |
|---|---|
| `promote-release.yml:38` (configuration `RecordBehindTags`) | the two groups let a promotion put `main` on a lower version than a tag about to appear; the gate then refuses every run |
| `publish-release.sh:91` (configuration `MajorBackwards`) | the comparison is with the clone's alias; a newer promotion's move is overwritten |
| `build-labview-image.yml:257` (run `worker_mutual_wait`) | a run created before the build may still reach its wait after it; each waits for the other for 25 minutes |
| `wait-for-worker-image.sh:216` (configuration `WorkerFirstRun`) | the build a job dispatches drains that job; 25 and 100 minutes exceed its 110 |
| `copy-labview-image.yml:140` (configuration `WorkerReseed`) | a saved configuration takes the baked dependencies out of `:latest` |
| `publish-release.sh:79` | two publishers of one line can move `v<major>.<minor>` back one patch |
| `publish-release.sh:41` | a release run that derives the version of a promotion not yet tagged fails, and its merge waits for the next merge |
| `publish-release.sh:115` | a channel rolled back off its only release keeps its tag on it |
| `publish-gh-pages/action.yml:71` | six rivals one after the other make a publisher fail, although lines 3-5 promise that all land |
| `wait-for-worker-image.sh:212` | the group does not collapse duplicate first builds: it runs the second after the first |
| `wait-for-worker-image.sh:255` | the guard stops at the first build in progress it sees, and after 120 s in any case: with two older unlisted builds the wait may end on one that the dispatch itself has dropped from the queue, and with a listing later than the guard on an older failure, which then fails the job (`late`) |
| `wait-for-worker-image.sh:147` | a build that declines to build ends the wait with success although no image exists |
| `build-labview-image.yml:74` | a queued rebuild is dropped by a third request |
| `build-labview-image.yml:788` | a failing manifest step fails a run whose image is good |

Dashboard page, overlay and banner:

| Where | What the code does |
|---|---|
| `dashboard.py:709` (configuration `DashboardLive`) | `in_progress` is asked before `queued`, so a run that starts between the two is in neither answer; the comment at 676 promises every active run |
| `dashboard.py:425` (configuration `DashboardTarget`) | a commit that a push moves to the next page is counted twice towards the target, so that fewer project revisions are shown than "keep paging until this many project revisions are found" (line 402) promises |
| `dashboard.py:254` | percentages are rounded: from 200 tests on, one failing test may leave a green pill |
| `dashboard.py:2105`, `:2112` (configuration `OverlayForeign`) | a lookup takes the newest unclaimed run of the workflow: while the listing lags, a cell may take a run another cell dispatched |
| `dashboard.py:2050` (configuration `OverlayRestore`) | a re-run of a queued cell drops its saved badge; dismissing the failed entry then restores a spinner that belongs to no entry |
| `dashboard.py` overlay, history dialog | a re-run of a failed or finished entry from the dialog carries the runs of the old one; a finished entry over a cell with an older result is dropped at once; with per-revision platforms a batch loses its stamp; a reload in the middle of a chain loses the dispatches not yet made |
| `build-labview-image.yml:799`, `:669` (configuration `DependencyNewTag`) | `update_mode=new` moves `latest.json` and not `:latest`: the banner falls silent for packages CI does not have |
| `dashboard.py:4319` against `build-labview-image.yml:406`, `:442` | without a list the page walks dot-directories, which the build's `**` does not enter, and skips `build` and `ci-out`, which the build takes: a VIPC in the first stays flagged for ever, one in the second is baked and never flagged; a listed VIPC under `.github` is baked and not looked at |
| `_compute_deps_pending` against the builds | a missing `monitor` line means yes to the page and no to the build; `monitorOn` is ignored for `.dragon`; files of the same base name overwrite each other when staged, both count for the page; a Windows file is flagged for ever where only Linux is installed or `use: base` is set |
| `config.example.yml:66` | a package declared in two versions by a monitored and an unmonitored Dragon file keeps the banner up although only the first is baked; a VIPM dependency without a version is a wrong version for ever |

Installer, update and reconfigure:

| Where | What the code does |
|---|---|
| `install.py:375` (run `update_monitoring`) | an update writes the manifest anew and keeps `maxParallel` only: monitored lists, triggers, actions and analyzer rules are lost |
| `install.py:1121` | Reconfigure drops `branch`, `provider` and `distribution`; the next update then rewrites push triggers to `branches: [main]` |
| `reconfigure.yml:200` | its parser of the `vipc` list does not stop at `dragon:`, so each run that keeps the lists copies the Dragon entries into the other |
| `install.py:384` | a plain second run over an older installation copies only what is absent and records the new version |
| `apply-tooling-update.yml:294` | `installedAt` always differs, so "already up to date" is never reached |
| `apply-tooling-update.yml:400` | a second lost race or a conflict opens a request whose text blames branch protection |
| `apply-tooling-update.yml:395`, `:500` | a request that cannot be closed stays open ("Could not close PR ..., continuing"), and the run never comes back to it until the next update; a listing that does not answer closes none |
| `apply-tooling-update.yml:477` | where Actions may open no request, the run ends before older requests are closed: with the one opened by hand from its branch there may be two |
| `install.py`, thin install | `dependabot.yml` is overwritten and the dashboard caller ignores the rule to leave existing files; `--force` without `--update` overwrites the preserved configuration; Update now on a thin installation vendors everything; Reconfigure can enable an activity whose files are of an older release |

Builders:

| Where | What the code does |
|---|---|
| `build-analyzer-report.py:377` (run `analyzer_first_rule`) | ownership is decided among failing VIs only, so a VI its first rule found clean shows the failures of a later one |
| `build-analyzer-report.py`, merge | an exclusion beats an earlier rule; the summary adds up passes, so a VI under a rule counts twice |
| `run-unit-tests.ps1:617` (configuration `BuildersDiverge`) | a tool that leaves no result file is at most an issue on the page, and the verdict of the others is green; a torn file is likewise passed over |
| `build-unittest-report.py:160` (configuration `BuildersDiverge`) | of a file whose root is a `testsuite` only the root's own cases are read, and of a root in a namespace none: failures in nested suites leave the page green |
| `build-masscompile-report.py:61` | a line break inside a path becomes a space: the VI's card has a name no VI has and no snapshot, it counts again where it is flagged intact, and it is lost where the break is inside `.vi` or inside the words "Bad VI"; `masscompile.ps1:104` takes the break out instead, so page and commit status may differ |
| `build-masscompile-report.py:277` | it "mirrors masscompile.ps1" but counts bad VIs outside the workspace and leaves out `ci-out` and `build`, which the script does not |
| `build-masscompile-report.py`, blame | a caller is known by its base name: a VI of the tooling or of `vi.lib` named like one of the project puts its missing subVI on the project's; on Linux two VIs whose paths differ in case are one |
| `build-unittest-report.py` | an unknown tool is shown as Caraya |
| `build-tooling-vipc.py:278` (configuration `BuildersDiverge`) | "a missing ROOT is fatal; a missing transitive DEPENDENCY is skipped" (lines 265-266): a root that was skipped as a requirement before its turn came is not missed then, and the archive is written without it |
| `build-tooling-vipc.py:289` | on a cycle a record may be replaced by another version of it asked for meanwhile; what only the replaced one required stays in the archive |
| `build-tooling-vipc.py:275` | only a minimum gives way to a pin: an `=` requirement taken up first, or a second root that is an alias of the same name, beats "a pin you set is never overridden" (`catalog.json:3542`) |

## 7. Assumptions about the outside

GitHub: a push is atomic per ref; a group has one running and one pending run;
a new run is in the listing of its lane before any run of that lane ends;
creation times are distinct; a dispatch that is answered has happened (one that has
happened without an answer is a `Request`); a run that
a browser dispatched may be listed late, but keeps its place in the order. git: a
rebase of the release commit conflicts exactly when the catalog has changed; a
rebase of an update conflicts where both sides changed a file or the manifest. Registry: a tag is
replaced atomically. Cancelling a run takes it out of the lane at once. Pages: one
deployment replaces another as a whole. Browser: one tab, so `localStorage` is
written by one script at a time. VI Analyzer: a pass leaves its whole native
report or none. Mass compile: two project files do not
differ in case only (`CaseAssumption`) or in white space only (`BreaksAssumption`). Tests: a file of the tools is torn as a
whole or read as a whole. Packages: the index has one record for each name and
version (of two, the code always takes the first); versions are compared as numbers.

## 8. Not modelled, and why

- Worker gate of the reusable workflow: a variant of the modelled wait with other
  deadlines, several workflows at once.
- GitLab mirror: three pushes in a row to another host; it has no concurrency
  group, so it wants a composition with the tags of `ReleasePipeline`.
- Linux worker image: the lane of `WorkerImage` without coordination and base
  promotion; its staging and manifest are those of `Dependencies`.
- Debug session: a polled command loop with an idle deadline, for one person.
- Backfills: sequential walks over history; their effect on others, many
  publishers, is in `GhPages`.
- Activities: LabVIEW's own tools in a container; only their waiting and their
  publication are shared state, and both are modelled.
- Other report builders, packaging, snapshots' rendering, client discovery: pure
  functions of files; layout and parsing.
- Dockerfiles, package installation inside the image: outcomes and a duration in
  `Dependencies` and `WorkerImage`; the retries against VIPM are not modelled.
- Web pages other than the overlay: they dispatch the modelled workflows and lay
  out results.
- toimages / lvctl: a client of LabVIEW's VI server, largely vendored.
- GitLab provider: templates for another service; what is written into a client's
  repository is in `Installer`.
- Copies under `actions/`: the same scripts for use from other repositories.

Inside the modelled components: markup, wording, time estimates and colours of the
page; the numbering of the queue and the debug card of the overlay, and entries
whose row has left the page (`dashboard.py:2373` forgets them; none of the cells
shown changes); pinned image
tags and foreign images; dry runs, argument parsing, `install.sh` and
`install.ps1`; the relocation pointer and the pinned `source_ref` of an update; requests
that people close, or open again;
spellings of `.github/labview-ci.yml` other than those Reconfigure writes;
triggers and per-action settings written by Reconfigure; encodings of the mass
compile log, and line breaks inside its fixed words; times and messages of tests,
and several result files of one tool; the two public package indexes as
separate files.

## 9. Plan

In this order, each with an MC module or an extension of one, and its theorems:

1. The reusable workflow's gate as a second kind of job of `WorkerImage`, and
   the Linux lane as an instance of it.
2. The GitLab mirror, with the tags of the release pipeline as its source: two
   synchronisations from clones of different age; immutable tags equal the
   source's, rolling refs lag but do not regress.
3. `DebugSession`: polling and the idle deadline.
4. Two tabs of the dashboard page on one `localStorage`.
