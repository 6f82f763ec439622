---------------------------- MODULE Dependencies ----------------------------
(***************************************************************************)
(* The life of a project dependency: a .vipc or .dragon file in the        *)
(* repository, the list of monitored files in labview-ci.yml, the worker   *)
(* build that stages the files and bakes their packages, the manifest it   *)
(* publishes, and the dashboard that compares the two and raises the       *)
(* "dependencies need to be installed" banner.  Three pieces of code parse *)
(* the same list (the dashboard and the two builds), and the banner        *)
(* compares a revision with a worker built from another.                   *)
(***************************************************************************)
EXTENDS Naturals, FiniteSets

CONSTANTS
  Vipcs,          \* paths of the project's VIPC files
  Dragons,        \* paths of the project's Dragon files
  Tooling,        \* those of them under .github
  Walked,         \* those the dashboard's walk finds: none under build or ci-out
  Globbed,        \* platform -> those its build's glob finds: none in a dot-directory
  Antidoc,        \* the capability VIPC under .github/labview/antidoc
  BaseName,       \* path -> file name: the name a staged copy gets
  Rank,           \* path -> position in the order the files are staged
  AntidocPackages,\* what the capability VIPC lists
  VipcContents, DragonContents,    \* sets of package ids a file may hold
  Entries,        \* what labview-ci.yml may say of a file
  Tags,           \* container.use
  OsChoices,      \* platforms a repository may have CI installed for
  InitRepos,      \* what the repository may hold when CI is installed
  Modes,          \* update_mode of a build
  MaxPushes,      \* bound: pushes to the default branch
  NoFile, Corrupt, NoEntry, Everywhere, NoManifest, NoJob, NoRun, NoPage

ASSUME FilesAssumption ==
  /\ Vipcs \cap Dragons = {} /\ Antidoc \notin Vipcs \cup Dragons
  /\ Tooling \cup Walked \subseteq Vipcs \cup Dragons
  /\ Globbed \in [{"windows", "linux"} -> SUBSET ((Vipcs \cup Dragons) \ Tooling)]
  /\ Rank \in [Vipcs \cup Dragons \cup {Antidoc} -> Nat]

VARIABLES
  repo,       \* head of the default branch
  job,        \* platform -> the worker build in progress
  image,      \* platform -> packages in the worker image tagged latest
  described,  \* platform -> latest.json describes the image tagged latest
  manifest,   \* platform -> the manifest latest.json names, on gh-pages
  served,     \* the same, as the Pages site serves it
  due,        \* an event asks for a dashboard run
  dash,       \* the dashboard run in progress: the revision it checked out
  page,       \* the published deps-pending.json
  pushes

vars == <<repo, job, image, described, manifest, served, due, dash, page, pushes>>

Platforms == {"windows", "linux"}
Files == Vipcs \cup Dragons
Kind(f) == IF f \in Vipcs THEN "vipc" ELSE "dragon"

\* A package id is [manager, name, version]; VIPM keeps one version of a name.
SameKey(i, j) == i.manager = j.manager /\ i.name = j.name
HasKey(S, i) == \E j \in S : SameKey(i, j)

\* What a revision holds that dependencies depend on.
Repos ==
  [file    : [Files -> VipcContents \cup DragonContents \cup {NoFile, Corrupt}],
   entry   : [Files -> Entries \cup {NoEntry}],
   listed  : [vipc : BOOLEAN, dragon : BOOLEAN],
   antidoc : BOOLEAN,
   use     : Tags,
   os      : OsChoices]

PackagesIn(content) == IF content \in {NoFile, Corrupt} THEN {} ELSE content

PackagesOf(r, f) == IF f = Antidoc THEN AntidocPackages ELSE PackagesIn(r.file[f])

-----------------------------------------------------------------------------
(* How the dashboard reads the list. *)

\* Mutant: every listed file counts as monitored.
DashListed(e) == e # NoEntry

\* An entry counts as monitored unless a monitor line says otherwise.
DashMonitored(e) == e # NoEntry /\ e.monitor # "false"

Monitored(r, f) == IF r.listed[Kind(f)] THEN DashMonitored(r.entry[f]) ELSE TRUE

\* Files the dashboard looks at.  A listed VIPC is read wherever it is, but one
\* under .github counts as tooling; of a Dragon file that the walk does not
\* find only the name is known.
Seen(r) ==
  {f \in Vipcs \ Tooling : f \in Walked \/ r.entry[f] # NoEntry} \cup (Dragons \cap Walked)

\* Mutant: without a list a file counts for Windows only.
MonitorOnWindowsOnly(r, f) ==
  IF f = Antidoc \/ ~r.listed.vipc THEN {"windows"}
  ELSE IF ~DashMonitored(r.entry[f]) THEN {}
  ELSE IF r.entry[f].on = Everywhere THEN Platforms
  ELSE r.entry[f].on

MonitorOn(r, f) ==
  IF f = Antidoc THEN {"windows"}
  ELSE IF ~r.listed.vipc THEN Platforms
  ELSE IF ~DashMonitored(r.entry[f]) THEN {}
  ELSE IF r.entry[f].on = Everywhere THEN Platforms
  ELSE r.entry[f].on

\* Files the banner compares: project files that are monitored, and the
\* capability's file where the capability is installed.
Compared(r) ==
  {f \in Vipcs \cap Seen(r) : Monitored(r, f) /\ r.file[f] # Corrupt}
    \cup (IF r.antidoc THEN {Antidoc} ELSE {})

ManifestPackages(m) == IF m = NoManifest THEN {} ELSE m.vipm \cup m.vipc

Column(r, m) ==
  IF r.use = "base" THEN [ready |-> FALSE, packages |-> {}]
  ELSE [ready |-> m # NoManifest, packages |-> ManifestPackages(m)]

\* The comparison forgets versions: any version of the name satisfies a pin.
Missing(pkgs, baked) == {i \in pkgs : ~HasKey(baked, i)}

PendingFiles(r, man, p) ==
  LET col == Column(r, man[p]) IN
  {f \in Compared(r) :
     /\ p \in MonitorOn(r, f)
     /\ p = "linux" => col.ready
     /\ Missing(PackagesOf(r, f), col.packages) # {}}

\* Dragon files: one entry per package over all files, whichever monitor them.
InstallSet(r) == UNION {PackagesOf(r, f) : f \in Dragons \cap Seen(r)}

Conflicting(r, i) == \E j \in InstallSet(r) : SameKey(i, j) /\ i.version # j.version

InferStatus(m, i) ==
  LET inventory == IF i.manager = "vipm" THEN m.vipm ELSE m.nipkg IN
  IF i \in inventory \/ (i.manager = "vipm" /\ i \in m.vipc) THEN "installed"
  ELSE IF HasKey(inventory, i) THEN "wrong_version"
  ELSE "missing"

DragonStatus(r, m, i) ==
  IF Conflicting(r, i) THEN "conflict"
  ELSE IF m = NoManifest THEN "pending"
  ELSE InferStatus(m, i)

PendingDragon(r, m) ==
  {i \in InstallSet(r) :
     /\ \E f \in Dragons \cap Seen(r) : Monitored(r, f) /\ HasKey(PackagesOf(r, f), i)
     /\ DragonStatus(r, m, i) # "installed"}

\* deps-pending.json, and what it was computed from.
DepsPending(r, man) ==
  [files  |-> [p \in Platforms |-> PendingFiles(r, man, p)],
   dragon |-> PendingDragon(r, man["windows"]),
   repo   |-> r,
   man    |-> man]

-----------------------------------------------------------------------------
(* How a build reads the list: a path is taken only if monitor is true. *)

Selected(e, p) ==
  /\ e # NoEntry
  /\ e.monitor = "true"
  /\ e.on = Everywhere \/ p \in e.on

\* Listed files that are selected; without a list, what the glob finds.
ConfiguredPaths(r, kind, p) ==
  {f \in (IF kind = "vipc" THEN Vipcs ELSE Dragons) :
     /\ r.file[f] # NoFile
     /\ IF r.listed[kind] THEN Selected(r.entry[f], p) ELSE f \in Globbed[p]}

\* Copies go to one directory under their file name: the last one stays.
Copied(S) == {f \in S : \A g \in S : BaseName[g] = BaseName[f] => Rank[g] <= Rank[f]}

StagedVipcs(r, p) ==
  Copied(ConfiguredPaths(r, "vipc", p)
           \cup (IF p = "windows" /\ r.antidoc THEN {Antidoc} ELSE {}))

StagedDragons(r, p) ==
  IF p = "windows" THEN Copied(ConfiguredPaths(r, "dragon", p)) ELSE {}

PackagesStaged(r, S) == UNION {PackagesOf(r, f) : f \in S}

\* A build installs one version of every package the VIPCs name or fails; a
\* Dragon file is applied as well as it can be.
Outcomes(r, p) ==
  LET required == PackagesStaged(r, StagedVipcs(r, p))
      wished   == PackagesStaged(r, StagedDragons(r, p))
  IN  {S \in SUBSET (required \cup wished) :
         /\ \A i, j \in S : SameKey(i, j) => i = j
         /\ \A i \in required : HasKey(S, i)}

\* The manifest lists what the image reports (or nothing, when the listing
\* fails) and what the staged VIPCs name.
BuildManifest(r, p, S, listed) ==
  [vipm  |-> IF listed THEN {i \in S : i.manager = "vipm"} ELSE {},
   nipkg |-> IF listed THEN {i \in S : i.manager = "nipm"} ELSE {},
   vipc  |-> PackagesStaged(r, StagedVipcs(r, p))]

-----------------------------------------------------------------------------
Init ==
  /\ repo \in InitRepos
  /\ job = [p \in Platforms |-> NoJob]
  /\ image = [p \in Platforms |-> {}]
  /\ described = [p \in Platforms |-> FALSE]
  /\ manifest = [p \in Platforms |-> NoManifest]
  /\ served = manifest
  /\ due = TRUE
  /\ dash = NoRun
  /\ page = NoPage
  /\ pushes = 0

\* A push that touches the list or a dependency file starts the dashboard.
Push(r) ==
  /\ pushes < MaxPushes
  /\ r # repo
  /\ pushes' = pushes + 1
  /\ repo' = r
  /\ due' = TRUE
  /\ UNCHANGED <<job, image, described, manifest, served, dash, page>>

EditFile ==
  \E f \in Files :
    \E c \in {NoFile, Corrupt} \cup (IF f \in Vipcs THEN VipcContents ELSE DragonContents) :
      Push([repo EXCEPT !.file[f] = c])

\* The Configure page saves an entry; the list exists from then on.
EditList ==
  \E f \in Files, e \in Entries :
    Push([repo EXCEPT !.entry[f] = e, !.listed[Kind(f)] = TRUE])

InstallAntidoc == Push([repo EXCEPT !.antidoc = ~repo.antidoc])

-----------------------------------------------------------------------------
(* Worker builds: dispatched from the Dependencies page, by a push to a    *)
(* monitored file, or by the monthly schedule.                             *)

StartBuild(p, mode) ==
  /\ p \in repo.os
  /\ job[p] = NoJob
  /\ job' = [job EXCEPT ![p] = [phase |-> "staged", repo |-> repo, mode |-> mode,
                                installed |-> {}]]
  /\ UNCHANGED <<repo, image, described, manifest, served, due, dash, page, pushes>>

\* The packages are installed and the tags pushed: latest moves in replace mode.
PushImage(p) ==
  /\ job[p] # NoJob
  /\ job[p].phase = "staged"
  /\ \A f \in StagedVipcs(job[p].repo, p) : PackagesOf(job[p].repo, f) # {}
  /\ \E S \in Outcomes(job[p].repo, p) :
       /\ job' = [job EXCEPT ![p].phase = "pushed", ![p].installed = S]
       /\ IF job[p].mode = "replace"
            THEN /\ image' = [image EXCEPT ![p] = S]
                 /\ described' = [described EXCEPT ![p] = FALSE]
            ELSE UNCHANGED <<image, described>>
  /\ UNCHANGED <<repo, manifest, served, due, dash, page, pushes>>

\* Mutant: the manifest is published but latest.json keeps its version.
PublishWithoutPointer(p) ==
  /\ job[p] # NoJob
  /\ job[p].phase = "pushed"
  /\ job' = [job EXCEPT ![p] = NoJob]
  /\ due' = TRUE
  /\ UNCHANGED <<repo, image, described, manifest, served, dash, page, pushes>>

\* latest.json moves in either mode; the completed run starts the dashboard.
PublishManifest(p) ==
  /\ job[p] # NoJob
  /\ job[p].phase = "pushed"
  /\ \E listed \in BOOLEAN :
       manifest' = [manifest EXCEPT ![p] =
                      BuildManifest(job[p].repo, p, job[p].installed, listed)]
  /\ described' = [described EXCEPT ![p] = job[p].mode = "replace"]
  /\ job' = [job EXCEPT ![p] = NoJob]
  /\ due' = TRUE
  /\ UNCHANGED <<repo, image, served, dash, page, pushes>>

\* An install or a publication fails; the run is completed all the same.
FailBuild(p) ==
  /\ job[p] # NoJob
  /\ job' = [job EXCEPT ![p] = NoJob]
  /\ due' = TRUE
  /\ UNCHANGED <<repo, image, described, manifest, served, dash, page, pushes>>

\* GitHub Pages deploys the branch some time after the push to it.
Serve ==
  /\ served # manifest
  /\ served' = manifest
  /\ UNCHANGED <<repo, job, image, described, manifest, due, dash, page, pushes>>

-----------------------------------------------------------------------------
\* An event cancels the run in progress and starts another.
StartDashboard ==
  /\ due
  /\ due' = FALSE
  /\ dash' = repo
  /\ UNCHANGED <<repo, job, image, described, manifest, served, page, pushes>>

\* The hourly schedule.
ScheduleDashboard ==
  /\ ~due
  /\ dash = NoRun
  /\ page = NoPage \/ page.repo # repo \/ page.man # served
  /\ due' = TRUE
  /\ UNCHANGED <<repo, job, image, described, manifest, served, dash, page, pushes>>

\* The run reads the manifests over HTTP and publishes the banner.
PublishPage ==
  /\ dash # NoRun
  /\ page' = DepsPending(dash, served)
  /\ dash' = NoRun
  /\ UNCHANGED <<repo, job, image, described, manifest, served, due, pushes>>

Next ==
  \/ EditFile \/ EditList \/ InstallAntidoc
  \/ \E p \in Platforms :
       \/ \E mode \in Modes : StartBuild(p, mode)
       \/ PushImage(p) \/ PublishManifest(p) \/ FailBuild(p)
  \/ Serve
  \/ StartDashboard \/ ScheduleDashboard \/ PublishPage

Spec == Init /\ [][Next]_vars

\* Pages deploys, scheduled runs run, the monthly build runs, and an install
\* that is tried for ever succeeds in the end.
Fairness ==
  /\ WF_vars(Serve) /\ WF_vars(StartDashboard)
  /\ WF_vars(ScheduleDashboard) /\ WF_vars(PublishPage)
  /\ \A p \in Platforms :
       /\ WF_vars(StartBuild(p, "replace"))
       /\ SF_vars(PushImage(p)) /\ SF_vars(PublishManifest(p))

FairSpec == Spec /\ Fairness

-----------------------------------------------------------------------------
(* Properties. *)

TypeOK ==
  /\ repo \in Repos
  /\ \A p \in Platforms : job[p] = NoJob \/ job[p].phase \in {"staged", "pushed"}
  /\ pushes \in 0..MaxPushes

\* The page shows the head of the branch and the manifests as they are.
PageCurrent == page # NoPage /\ page.repo = repo /\ page.man = manifest

BakedOrFlagged(p) ==
  /\ repo.use # "base" =>
       \A f \in (Seen(repo) \cap ConfiguredPaths(repo, "vipc", p)) \cup
                (IF p = "windows" /\ repo.antidoc THEN {Antidoc} ELSE {}) :
         \/ f \in page.files[p]
         \/ p = "linux" /\ manifest[p] = NoManifest
         \/ \A i \in PackagesOf(repo, f) : HasKey(image[p], i)
  /\ p = "windows" =>
       \A f \in Seen(repo) \cap ConfiguredPaths(repo, "dragon", p) :
         \A i \in PackagesOf(repo, f) :
           (\E j \in page.dragon : SameKey(i, j)) \/ HasKey(image[p], i)

\* Where the banner is silent the packages are there: every file the page looks
\* at and a build would bake today is flagged on the current page, or the image
\* that CI runs holds each of its packages, as long as latest.json describes
\* that image.
BannerHonest == PageCurrent => \A p \in Platforms : described[p] => BakedOrFlagged(p)

\* The same without the exemption: what the banner is documented to decide, for
\* the current worker (dashboard.py, _compute_deps_pending).
BannerSeesWorker ==
  PageCurrent => \A p \in Platforms : manifest[p] # NoManifest => BakedOrFlagged(p)

\* Files the dashboard finds and, without a list, a build does not: those in a
\* dot-directory.
Hidden(r) ==
  {f \in Seen(r) : /\ r.file[f] # NoFile /\ ~r.listed[Kind(f)]
                   /\ \E p \in Platforms : f \notin Globbed[p]}

\* The page flags nothing but what the builds stage if every entry has its
\* monitor line, no Dragon file is monitored for Linux only, no two files share
\* the name of their staged copies, and without a list no file is hidden.
ReadAlike(r) ==
  /\ Hidden(r) = {}
  /\ \A f \in Files : r.entry[f] # NoEntry => r.entry[f].monitor \in {"true", "false"}
  /\ \A f \in Dragons : r.entry[f] # NoEntry =>
       r.entry[f].on = Everywhere \/ "windows" \in r.entry[f].on
  /\ \A f, g \in Files \cup {Antidoc} : BaseName[f] = BaseName[g] => f = g

\* Where the banner asks for a build, a build helps: every file it flags is one
\* the build of that platform stages and keeps, and every Dragon package it
\* flags is declared by a file the Windows build applies
\* (dashboard.py, _compute_deps_pending, against the staging of the builds).
BannerActionable ==
  page # NoPage /\ ReadAlike(page.repo) =>
    /\ \A p \in Platforms : page.files[p] \subseteq StagedVipcs(page.repo, p)
    /\ \A i \in page.dragon :
         \E f \in StagedDragons(page.repo, "windows") : HasKey(PackagesOf(page.repo, f), i)

\* Once pushes stop and builds are run, the banner goes away for good, unless a
\* VIPC cannot be read or is hidden from the builds, or the workers are the bare
\* base image.  (A platform that CI is not installed for has no builds: its
\* column stays flagged.)
BannerClears ==
  <>[](\/ repo.use = "base" \/ Vipcs \cap Hidden(repo) # {}
       \/ \E f \in Vipcs : repo.file[f] = Corrupt
       \/ page # NoPage /\ \A p \in repo.os : page.files[p] = {})

=============================================================================
