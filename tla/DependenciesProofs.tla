------------------------- MODULE DependenciesProofs -------------------------
(***************************************************************************)
(* What the dependency banner promises, for any files, lists, packages and *)
(* interleaving of pushes, builds, deployments and dashboard runs: where   *)
(* it is silent the packages are in the image, and where it asks for a     *)
(* build the build stages what is missing.                                 *)
(***************************************************************************)
EXTENDS Dependencies, TLAPS

-----------------------------------------------------------------------------
(***************************************************************************)
(* The inductive invariant: a page is the banner of some revision and      *)
(* manifests; the installed packages of a pushed build satisfy what it     *)
(* staged, and are in the image when it moved the tag; a manifest that     *)
(* describes the image was made from a build that left that image.         *)
(***************************************************************************)
PageMade == page # NoPage => \E r, man : page = DepsPending(r, man)

JobMade(p) ==
  job[p] # NoJob =>
    /\ DOMAIN job[p] = {"phase", "repo", "mode", "installed"}
    /\ job[p].phase = "pushed" => /\ job[p].installed \in Outcomes(job[p].repo, p)
                                  /\ job[p].mode = "replace" => image[p] = job[p].installed

Described(p) ==
  described[p] =>
    \E r, listed : /\ image[p] \in Outcomes(r, p)
                   /\ manifest[p] = BuildManifest(r, p, image[p], listed)

Shape ==
  /\ DOMAIN job = Platforms /\ DOMAIN image = Platforms
  /\ DOMAIN described = Platforms /\ DOMAIN manifest = Platforms

Inv == Shape /\ PageMade /\ \A p \in Platforms : JobMade(p) /\ Described(p)

-----------------------------------------------------------------------------
(* The two decisions. *)

\* A package of which the image has another version is not missing.
LEMMA KeyOfKey ==
  ASSUME NEW S, NEW T, NEW i, HasKey(S, i), \A j \in S : HasKey(T, j)
  PROVE  HasKey(T, i)
BY DEF HasKey, SameKey

LEMMA InHasKey == ASSUME NEW S, NEW i \in S PROVE HasKey(S, i)
BY DEF HasKey, SameKey

\* Everything a manifest lists is in the image it was made from.
LEMMA ListedInstalled ==
  ASSUME NEW r, NEW p, NEW S \in Outcomes(r, p), NEW listed,
         NEW i \in ManifestPackages(BuildManifest(r, p, S, listed))
  PROVE  HasKey(S, i)
<1> DEFINE m == BuildManifest(r, p, S, listed)
<1>1. CASE m = NoManifest
  BY <1>1 DEF ManifestPackages
<1>2. CASE i \in m.vipm
  <2>1. i \in S
    BY <1>2 DEF BuildManifest
  <2> QED  BY <2>1, InHasKey
<1>3. CASE i \in m.vipc
  BY <1>3 DEF BuildManifest, Outcomes
<1> QED
  BY <1>1, <1>2, <1>3 DEF ManifestPackages

\* A VIPC that a build takes and the page looks at is compared, on that platform.
LEMMA TakenIsCompared ==
  ASSUME NEW r, NEW p \in Platforms, NEW i,
         NEW f \in (Seen(r) \cap ConfiguredPaths(r, "vipc", p)) \cup
                     (IF p = "windows" /\ r.antidoc THEN {Antidoc} ELSE {}),
         i \in PackagesOf(r, f)
  PROVE  f \in Compared(r) /\ p \in MonitorOn(r, f)
<1>1. CASE f = Antidoc
  <2>1. f \notin ConfiguredPaths(r, "vipc", p)
    BY <1>1, FilesAssumption DEF ConfiguredPaths
  <2> QED  BY <1>1, <2>1 DEF Compared, MonitorOn
<1>2. CASE f # Antidoc
  <2>1. f \in Vipcs \cap Seen(r) /\ (r.listed["vipc"] => Selected(r.entry[f], p))
    BY <1>2 DEF ConfiguredPaths
  <2>2. r.file[f] # Corrupt
    BY <1>2 DEF PackagesOf, PackagesIn
  <2> QED
    BY <1>2, <2>1, <2>2 DEF Compared, Monitored, Kind, Selected, DashMonitored, MonitorOn
<1> QED
  BY <1>1, <1>2

\* A VIPC the current page does not flag is in the image its manifest describes.
LEMMA SilentVipc ==
  ASSUME NEW r, NEW man, NEW p \in Platforms, NEW S,
         NEW made, NEW listed, S \in Outcomes(made, p), man[p] = BuildManifest(made, p, S, listed),
         NEW f \in (Seen(r) \cap ConfiguredPaths(r, "vipc", p)) \cup
                     (IF p = "windows" /\ r.antidoc THEN {Antidoc} ELSE {}),
         f \notin PendingFiles(r, man, p), ~(p = "linux" /\ man[p] = NoManifest),
         r.use # "base",
         NEW i \in PackagesOf(r, f)
  PROVE  HasKey(S, i)
<1> DEFINE col == Column(r, man[p])
<1>1. f \in Compared(r) /\ p \in MonitorOn(r, f)
  BY TakenIsCompared
<1>2. col = [ready |-> man[p] # NoManifest, packages |-> ManifestPackages(man[p])]
  BY DEF Column
<1>3. Missing(PackagesOf(r, f), col.packages) = {}
  <2>1. CASE p = "linux"
    <3>1. (man[p] # NoManifest) = TRUE
      BY <2>1
    <3>2. col = [ready |-> TRUE, packages |-> ManifestPackages(man[p])]
      BY <1>2, <3>1
    <3> QED  BY <1>1, <3>2 DEF PendingFiles
  <2>2. CASE p # "linux"
    BY <1>1, <2>2 DEF PendingFiles
  <2> QED  BY <2>1, <2>2
<1>4. HasKey(ManifestPackages(man[p]), i)
  BY <1>2, <1>3 DEF Missing
<1> QED
  BY <1>4, ListedInstalled, KeyOfKey

\* Nor is a Dragon package missing that it does not flag.
LEMMA SilentDragon ==
  ASSUME NEW r, NEW m, NEW S, NEW made, NEW listed,
         S \in Outcomes(made, "windows"), m = BuildManifest(made, "windows", S, listed),
         NEW f \in Seen(r) \cap ConfiguredPaths(r, "dragon", "windows"), NEW i \in PackagesOf(r, f),
         i \notin PendingDragon(r, m)
  PROVE  HasKey(S, i)
<1>1. f \in Dragons /\ (r.listed["dragon"] => Selected(r.entry[f], "windows"))
  BY DEF ConfiguredPaths
<1>2. i \in InstallSet(r) /\ HasKey(PackagesOf(r, f), i)
  BY <1>1, InHasKey DEF InstallSet
<1>3. f \notin Vipcs
  BY <1>1, FilesAssumption
<1>4. Monitored(r, f)
  BY <1>1, <1>3 DEF Monitored, Kind, Selected, DashMonitored
<1>5. DragonStatus(r, m, i) = "installed"
  BY <1>1, <1>2, <1>4 DEF PendingDragon
<1>6. m # NoManifest /\ InferStatus(m, i) = "installed"
  BY <1>5 DEF DragonStatus
<1>7. i \in m.vipm \/ i \in m.nipkg \/ i \in m.vipc
  BY <1>6 DEF InferStatus
<1>8. i \in S \/ i \in m.vipc
  BY <1>7 DEF BuildManifest
<1>9. i \in m.vipc => HasKey(S, i)
  BY DEF BuildManifest, Outcomes
<1> QED
  BY <1>8, <1>9, InHasKey
\* Copies of files of different names all stay.
LEMMA AllCopied ==
  ASSUME NEW S \in SUBSET (Files \cup {Antidoc}),
         \A f, g \in S : BaseName[f] = BaseName[g] => f = g
  PROVE  Copied(S) = S
BY FilesAssumption DEF Copied, Files

\* What the page flags, a build stages.
LEMMA FlaggedVipc ==
  ASSUME NEW r, ReadAlike(r), NEW man, NEW p \in Platforms, NEW f \in PendingFiles(r, man, p)
  PROVE  f \in StagedVipcs(r, p)
<1> DEFINE S == ConfiguredPaths(r, "vipc", p) \cup
                  (IF p = "windows" /\ r.antidoc THEN {Antidoc} ELSE {})
<1>1. Copied(S) = S
  <2>1. S \in SUBSET (Files \cup {Antidoc})
    BY DEF ConfiguredPaths, Files
  <2>2. \A g, h \in Files \cup {Antidoc} : BaseName[g] = BaseName[h] => g = h
    BY DEF ReadAlike
  <2> QED  BY <2>1, <2>2, AllCopied
<1>2. /\ f \in Compared(r) /\ p \in MonitorOn(r, f)
      /\ \E i : i \in PackagesOf(r, f)
  BY DEF PendingFiles, Missing
<1>3. f \in S
  <2>1. CASE f = Antidoc
    <3>1. f \notin Vipcs
      BY <2>1, FilesAssumption
    <3>2. r.antidoc /\ p = "windows"
      BY <1>2, <2>1, <3>1 DEF Compared, MonitorOn
    <3> QED  BY <2>1, <3>2
  <2>2. CASE f # Antidoc
    <3>1. f \in Vipcs \cap Seen(r) /\ r.file[f] # NoFile
      BY <1>2, <2>2 DEF Compared, PackagesOf, PackagesIn
    <3>2. r.listed.vipc => Selected(r.entry[f], p)
      <4> SUFFICES ASSUME r.listed.vipc PROVE Selected(r.entry[f], p)
        OBVIOUS
      <4>1. /\ r.entry[f] # NoEntry /\ r.entry[f].monitor # "false"
            /\ r.entry[f].on = Everywhere \/ p \in r.entry[f].on
        BY <1>2, <2>2 DEF MonitorOn, DashMonitored
      <4>2. r.entry[f].monitor = "true"
        BY <3>1, <4>1 DEF ReadAlike, Files
      <4> QED  BY <4>1, <4>2 DEF Selected
    <3>3. ~r.listed.vipc => f \in Globbed[p]
      BY <3>1 DEF ReadAlike, Hidden, Kind
    <3> QED  BY <3>1, <3>2, <3>3 DEF ConfiguredPaths
  <2> QED  BY <2>1, <2>2
<1> QED
  BY <1>1, <1>3 DEF StagedVipcs

LEMMA FlaggedDragon ==
  ASSUME NEW r, ReadAlike(r), NEW m, NEW i \in PendingDragon(r, m)
  PROVE  \E f \in StagedDragons(r, "windows") : HasKey(PackagesOf(r, f), i)
<1> DEFINE S == ConfiguredPaths(r, "dragon", "windows")
<1>1. StagedDragons(r, "windows") = S
  <2>1. S \in SUBSET (Files \cup {Antidoc})
    BY DEF ConfiguredPaths, Files
  <2>2. \A g, h \in Files \cup {Antidoc} : BaseName[g] = BaseName[h] => g = h
    BY DEF ReadAlike
  <2>3. Copied(S) = S
    BY <2>1, <2>2, AllCopied
  <2> QED  BY <2>3 DEF StagedDragons
<1>2. PICK f \in Dragons \cap Seen(r) : Monitored(r, f) /\ HasKey(PackagesOf(r, f), i)
  BY DEF PendingDragon
<1>3. f # Antidoc /\ f \notin Vipcs /\ f \in Files
  BY FilesAssumption DEF Files
<1>4. r.file[f] # NoFile
  BY <1>2, <1>3 DEF HasKey, PackagesOf, PackagesIn
<1>5. r.listed["dragon"] => Selected(r.entry[f], "windows")
  <2> SUFFICES ASSUME r.listed["dragon"] PROVE Selected(r.entry[f], "windows")
    OBVIOUS
  <2>1. r.entry[f] # NoEntry /\ r.entry[f].monitor # "false"
    BY <1>2, <1>3 DEF Monitored, Kind, DashMonitored
  <2>2. r.entry[f].monitor = "true" /\ (r.entry[f].on = Everywhere \/ "windows" \in r.entry[f].on)
    BY <1>3, <2>1 DEF ReadAlike
  <2> QED  BY <2>1, <2>2 DEF Selected
<1>6. ~r.listed["dragon"] => f \in Globbed["windows"]
  BY <1>2, <1>3, <1>4 DEF ReadAlike, Hidden, Kind, Platforms
<1>7. f \in S
  BY <1>4, <1>5, <1>6 DEF ConfiguredPaths
<1> QED
  BY <1>1, <1>2, <1>7

-----------------------------------------------------------------------------
(* The steps. *)

LEMMA Begins == Init => Inv
BY DEF Init, Inv, Shape, PageMade, JobMade, Described

\* What a step that leaves a platform's build and image alone keeps.
LEMMA SamePlatform ==
  ASSUME NEW p \in Platforms, JobMade(p), Described(p),
         job'[p] = job[p], image'[p] = image[p],
         described'[p] = described[p], manifest'[p] = manifest[p]
  PROVE  JobMade(p)' /\ Described(p)'
<1>1. JobMade(p)'
  BY DEF JobMade
<1>2. Described(p)'
  <2> SUFFICES ASSUME described'[p]
               PROVE  \E r, listed :
                 /\ image'[p] \in Outcomes(r, p)
                 /\ manifest'[p] = BuildManifest(r, p, image'[p], listed)
    BY DEF Described
  <2>1. described[p]
    OBVIOUS
  <2> QED  BY <2>1 DEF Described
<1> QED
  BY <1>1, <1>2

\* The end of a build, however it ends.
LEMMA NoBuild ==
  ASSUME NEW p \in Platforms, job'[p] = NoJob PROVE JobMade(p)'
BY DEF JobMade

LEMMA StartBuildStep ==
  ASSUME Inv, NEW p \in Platforms, NEW mode, StartBuild(p, mode) PROVE Inv'
<1>1. Shape' /\ PageMade'
  BY DEF Inv, Shape, PageMade, StartBuild
<1>2. job'[p] = [phase |-> "staged", repo |-> repo, mode |-> mode, installed |-> {}]
  BY DEF Inv, Shape, StartBuild
<1>3. JobMade(p)'
  <2>1. "staged" # "pushed"
    OBVIOUS
  <2> QED  BY <1>2, <2>1 DEF JobMade
<1>4. Described(p)'
  BY DEF Inv, Described, StartBuild
<1>5. ASSUME NEW q \in Platforms, q # p PROVE JobMade(q)' /\ Described(q)'
  <2>1. job'[q] = job[q] /\ UNCHANGED <<image, described, manifest>>
    BY <1>5 DEF Inv, Shape, StartBuild
  <2> QED  BY <2>1, SamePlatform DEF Inv
<1> QED
  BY <1>1, <1>3, <1>4, <1>5 DEF Inv

LEMMA PushImageStep == ASSUME Inv, NEW p \in Platforms, PushImage(p) PROVE Inv'
<1>1. PICK S \in Outcomes(job[p].repo, p) :
        /\ job' = [job EXCEPT ![p].phase = "pushed", ![p].installed = S]
        /\ IF job[p].mode = "replace"
             THEN /\ image' = [image EXCEPT ![p] = S]
                  /\ described' = [described EXCEPT ![p] = FALSE]
             ELSE UNCHANGED <<image, described>>
  BY DEF PushImage
<1>2. manifest' = manifest /\ page' = page
  BY DEF PushImage
<1>3. Shape' /\ PageMade'
  BY <1>1, <1>2 DEF Inv, Shape, PageMade
<1>4. DOMAIN job[p] = {"phase", "repo", "mode", "installed"}
  BY DEF Inv, JobMade, PushImage
<1>5. job'[p] = [job[p] EXCEPT !.phase = "pushed", !.installed = S]
  BY <1>1 DEF Inv, Shape
<1>6. /\ DOMAIN job'[p] = DOMAIN job[p] /\ job'[p].phase = "pushed"
      /\ job'[p].repo = job[p].repo /\ job'[p].mode = job[p].mode /\ job'[p].installed = S
  BY <1>4, <1>5
<1>7. job[p].mode = "replace" => image'[p] = S /\ described'[p] = FALSE
  BY <1>1 DEF Inv, Shape
<1>8. JobMade(p)'
  BY <1>4, <1>6, <1>7 DEF JobMade
<1>9. Described(p)'
  <2>1. CASE job[p].mode = "replace"
    BY <1>7, <2>1 DEF Described
  <2>2. CASE job[p].mode # "replace"
    <3>1. UNCHANGED <<image, described, manifest>>
      BY <1>1, <1>2, <2>2
    <3> QED  BY <3>1 DEF Inv, Described
  <2> QED  BY <2>1, <2>2
<1>10. ASSUME NEW q \in Platforms, q # p PROVE JobMade(q)' /\ Described(q)'
  <2>1. /\ job'[q] = job[q] /\ image'[q] = image[q]
        /\ described'[q] = described[q] /\ manifest'[q] = manifest[q]
    BY <1>1, <1>2, <1>10 DEF Inv, Shape
  <2> QED  BY <2>1, SamePlatform DEF Inv
<1> QED
  BY <1>3, <1>8, <1>9, <1>10 DEF Inv

LEMMA PublishManifestStep == ASSUME Inv, NEW p \in Platforms, PublishManifest(p) PROVE Inv'
<1>1. PICK listed \in BOOLEAN :
        manifest' = [manifest EXCEPT ![p] =
                       BuildManifest(job[p].repo, p, job[p].installed, listed)]
  BY DEF PublishManifest
<1>2. /\ job[p] # NoJob /\ job[p].phase = "pushed"
      /\ described' = [described EXCEPT ![p] = job[p].mode = "replace"]
      /\ job' = [job EXCEPT ![p] = NoJob]
      /\ image' = image /\ page' = page
  BY DEF PublishManifest
<1>3. Shape' /\ PageMade'
  BY <1>1, <1>2 DEF Inv, Shape, PageMade
<1>4. JobMade(p)'
  BY <1>2, NoBuild DEF Inv, Shape
<1>5. Described(p)'
  <2> DEFINE S == job[p].installed
  <2>1. S \in Outcomes(job[p].repo, p) /\ (job[p].mode = "replace" => image[p] = S)
    <3>1. JobMade(p) /\ job[p] # NoJob /\ job[p].phase = "pushed"
      BY DEF Inv, PublishManifest
    <3> QED  BY <3>1 DEF JobMade
  <2>2. manifest'[p] = BuildManifest(job[p].repo, p, S, listed)
    BY <1>1 DEF Inv, Shape
  <2>3. CASE job[p].mode = "replace"
    BY <1>2, <2>1, <2>2, <2>3 DEF Described
  <2>4. CASE job[p].mode # "replace"
    <3>1. (job[p].mode = "replace") = FALSE
      BY <2>4
    <3>2. described'[p] = FALSE
      BY <1>2, <3>1 DEF Inv, Shape
    <3> QED  BY <3>2 DEF Described
  <2> QED  BY <2>3, <2>4
<1>6. ASSUME NEW q \in Platforms, q # p PROVE JobMade(q)' /\ Described(q)'
  <2>1. /\ job'[q] = job[q] /\ image'[q] = image[q]
        /\ described'[q] = described[q] /\ manifest'[q] = manifest[q]
    BY <1>1, <1>2, <1>6 DEF Inv, Shape
  <2> QED  BY <2>1, SamePlatform DEF Inv
<1> QED
  BY <1>3, <1>4, <1>5, <1>6 DEF Inv

LEMMA FailBuildStep == ASSUME Inv, NEW p \in Platforms, FailBuild(p) PROVE Inv'
<1>1. Shape' /\ PageMade' /\ UNCHANGED <<image, described, manifest>>
  BY DEF Inv, Shape, PageMade, FailBuild
<1>2. ASSUME NEW q \in Platforms PROVE JobMade(q)' /\ Described(q)'
  <2>1. job'[q] = IF q = p THEN NoJob ELSE job[q]
    BY DEF Inv, Shape, FailBuild
  <2>2. Described(q)'
    BY <1>1 DEF Inv, Described
  <2> QED  BY <1>1, <2>1, <2>2, NoBuild, SamePlatform DEF Inv
<1> QED
  BY <1>1, <1>2 DEF Inv

\* Pushes, deployments and dashboard runs leave builds and images alone.
LEMMA PageStep ==
  ASSUME Inv, UNCHANGED <<job, image, described, manifest>>,
         page' = page \/ PublishPage
  PROVE  Inv'
<1>1. PageMade'
  BY DEF Inv, PageMade, PublishPage
<1>2. \A p \in Platforms : JobMade(p)' /\ Described(p)'
  BY SamePlatform DEF Inv
<1> QED
  BY <1>1, <1>2 DEF Inv, Shape

LEMMA InvNext == Inv /\ [Next]_vars => Inv'
<1> SUFFICES ASSUME Inv, [Next]_vars PROVE Inv'
  OBVIOUS
<1>1. CASE EditFile \/ EditList \/ InstallAntidoc
  <2>1. UNCHANGED <<job, image, described, manifest, page>>
    BY <1>1 DEF EditFile, EditList, InstallAntidoc, Push
  <2> QED  BY <2>1, PageStep
<1>2. ASSUME NEW p \in Platforms,
             (\E mode \in Modes : StartBuild(p, mode)) \/ PushImage(p)
               \/ PublishManifest(p) \/ FailBuild(p)
      PROVE  Inv'
  BY <1>2, StartBuildStep, PushImageStep, PublishManifestStep, FailBuildStep
<1>3. CASE Serve \/ StartDashboard \/ ScheduleDashboard \/ PublishPage
  BY <1>3, PageStep DEF Serve, StartDashboard, ScheduleDashboard, PublishPage
<1>4. CASE UNCHANGED vars
  BY <1>4, PageStep DEF vars
<1> QED
  BY <1>1, <1>2, <1>3, <1>4 DEF Next

THEOREM Invariant == Spec => []Inv
BY Begins, InvNext, PTL DEF Spec

-----------------------------------------------------------------------------
\* Where the banner is silent the packages are there: on a current page, every
\* file it looks at and a build would bake is flagged or its packages are in the
\* image that latest.json describes (dashboard.py, _compute_deps_pending).
THEOREM SilenceIsHonest == Spec => []BannerHonest
<1>1. Inv => BannerHonest
  <2> SUFFICES ASSUME Inv, PageCurrent, NEW p \in Platforms, described[p]
               PROVE  BakedOrFlagged(p)
    BY DEF BannerHonest
  <2>1. page = DepsPending(repo, manifest)
    <3>1. PICK r, man : page = DepsPending(r, man)
      BY DEF Inv, PageMade, PageCurrent
    <3> QED  BY <3>1 DEF DepsPending, PageCurrent
  <2>2. /\ page.files[p] = PendingFiles(repo, manifest, p)
        /\ page.dragon = PendingDragon(repo, manifest["windows"])
    BY <2>1 DEF DepsPending
  <2>3. PICK r, listed : /\ image[p] \in Outcomes(r, p)
                         /\ manifest[p] = BuildManifest(r, p, image[p], listed)
    BY DEF Inv, Described
  <2>4. ASSUME repo.use # "base",
               NEW f \in (Seen(repo) \cap ConfiguredPaths(repo, "vipc", p)) \cup
                           (IF p = "windows" /\ repo.antidoc THEN {Antidoc} ELSE {}),
               f \notin page.files[p], ~(p = "linux" /\ manifest[p] = NoManifest),
               NEW i \in PackagesOf(repo, f)
        PROVE  HasKey(image[p], i)
    BY <2>2, <2>3, <2>4, SilentVipc
  <2>5. ASSUME p = "windows", NEW f \in Seen(repo) \cap ConfiguredPaths(repo, "dragon", p),
               NEW i \in PackagesOf(repo, f), \A j \in page.dragon : ~SameKey(i, j)
        PROVE  HasKey(image[p], i)
    <3>1. i \notin page.dragon
      BY <2>5 DEF SameKey
    <3> QED  BY <2>2, <2>3, <2>5, <3>1, SilentDragon
  <2> QED
    BY <2>4, <2>5 DEF BakedOrFlagged
<1> QED
  BY <1>1, Invariant, PTL

\* Where the banner asks for a build, a build stages what is missing: every
\* file flagged is one the build keeps, and every Dragon package flagged is
\* declared by a file it applies (_compute_deps_pending, and the staging).
THEOREM WarningIsActionable == Spec => []BannerActionable
<1>1. Inv => BannerActionable
  <2> SUFFICES ASSUME Inv, page # NoPage, ReadAlike(page.repo) PROVE
        /\ \A p \in Platforms : page.files[p] \subseteq StagedVipcs(page.repo, p)
        /\ \A i \in page.dragon :
             \E f \in StagedDragons(page.repo, "windows") : HasKey(PackagesOf(page.repo, f), i)
    BY DEF BannerActionable
  <2>1. PICK r, man : page = DepsPending(r, man)
    BY DEF Inv, PageMade
  <2>2. page.repo = r /\ ReadAlike(r)
    BY <2>1 DEF DepsPending
  <2>3. ASSUME NEW p \in Platforms, NEW f \in PendingFiles(r, man, p)
        PROVE  f \in StagedVipcs(r, p)
    BY <2>2, <2>3, FlaggedVipc
  <2>4. ASSUME NEW i \in PendingDragon(r, man["windows"])
        PROVE  \E f \in StagedDragons(r, "windows") : HasKey(PackagesOf(r, f), i)
    BY <2>2, <2>4, FlaggedDragon
  <2>5. /\ page.dragon = PendingDragon(r, man["windows"])
        /\ \A p \in Platforms : page.files[p] = PendingFiles(r, man, p)
    BY <2>1 DEF DepsPending
  <2> QED
    BY <2>2, <2>3, <2>4, <2>5
<1> QED
  BY <1>1, Invariant, PTL
=============================================================================
