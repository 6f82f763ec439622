--------------------------- MODULE ReleasePipeline ---------------------------
(***************************************************************************)
(* How a version of LabVIEW CI is cut, tagged and put into channels.       *)
(*                                                                         *)
(* Two workflows write the same three places: the default branch (whose    *)
(* catalog.json carries the version of record and the channel pointers),   *)
(* the immutable v<major>.<minor>.<patch> tags, and the moving refs        *)
(* v<major>, v<major>.<minor>, stable, beta and dev.                       *)
(*   release.yml          runs in concurrency group "release"              *)
(*   promote-release.yml  runs in concurrency group "promote-release"      *)
(* A group runs one job at a time and keeps one more pending (a newer      *)
(* request replaces the pending one), so one run of each group may be      *)
(* under way together.  Each run works in its own clone: what it reads is  *)
(* the snapshot its checkout took, what it writes is a push.  Both end in  *)
(* publish-release.sh.  A step of this module is one remote operation of a *)
(* run together with the local work that leads to it.                      *)
(***************************************************************************)
EXTENDS Naturals, Sequences

CONSTANTS
  Lanes,        \* the concurrency groups that take part: "release", "promote"
  Bumps,        \* bump levels a release request may carry
  Forces,       \* values of the move_aliases input of a release request
  Unpromotes,   \* values of the unpromote input of a promotion request
  Budget,       \* how many merges, release dispatches and promotions happen
  MaxMajor, MaxMinor, MaxPatch,  \* bounds on the parts of a version
  MaxTries,     \* attempts of the push loop (5 in both workflows)
  MayFail,      \* TRUE when a run may die between two steps
  NoVersion,    \* "no version": an absent pointer or an absent ref
  NoJob         \* "no request"

Tier     == {"stable", "beta"}
Versions == (1..MaxMajor) \X (0..MaxMinor) \X (0..MaxPatch)
MaybeVersion == Versions \cup {NoVersion}

ASSUME LanesAssumption == Lanes \subseteq {"release", "promote"}
ASSUME InputsAssumption == /\ Bumps \subseteq {"major", "minor", "patch"}
                           /\ Forces \subseteq BOOLEAN
                           /\ Unpromotes \subseteq BOOLEAN
                           /\ MayFail \in BOOLEAN
ASSUME BoundsAssumption == /\ MaxMajor \in Nat \ {0} /\ MaxMinor \in Nat /\ MaxPatch \in Nat
                           /\ MaxTries \in Nat
                           /\ Budget \in [{"merge", "dispatch", "promote"} -> Nat]
ASSUME NoVersionAssumption == NoVersion \notin Versions

(***************************************************************************)
(* Names of the moving refs.                                               *)
(***************************************************************************)
Channel(name)  == <<name>>
MajorRef(v)    == <<"major", v[1]>>
MinorRef(v)    == <<"minor", v[1], v[2]>>
RefName == {Channel(c) : c \in {"stable", "beta", "dev"}}
           \cup {MajorRef(v) : v \in Versions} \cup {MinorRef(v) : v \in Versions}

(***************************************************************************)
(* The order of versions, and the version a bump produces.                 *)
(***************************************************************************)
VersionGT(a, b) == \/ a[1] > b[1]
                   \/ a[1] = b[1] /\ a[2] > b[2]
                   \/ a[1] = b[1] /\ a[2] = b[2] /\ a[3] > b[3]
VersionGE(a, b) == a = b \/ VersionGT(a, b)

\* max(versions): empty when there is no tag at all, which makes both tools die.
Highest(vs) == {v \in vs : \A w \in vs : VersionGE(v, w)}

Bumped(v, bump) ==
  CASE bump = "major" -> <<v[1] + 1, 0, 0>>
    [] bump = "minor" -> <<v[1], v[2] + 1, 0>>
    [] OTHER          -> <<v[1], v[2], v[3] + 1>>

\* Mutant of First: the last match instead of the first.
LastOf(S) == {i \in S : \A j \in S : i >= j}

\* next((r for r in rels if ...), None): the first index of S, if any.
First(S) == {i \in S : \A j \in S : i <= j}

(***************************************************************************)
(* State.                                                                  *)
(***************************************************************************)
VARIABLES
  main,      \* the default branch: a sequence of commits, oldest first
  tags,      \* version |-> the position in main its tag points at, 0 if none
  refs,      \* moving ref |-> the version it points at
  released,  \* versions that have a GitHub Release
  pending,   \* lane |-> the request waiting for the lane, or NoJob
  run,       \* lane |-> the clone and the progress of the run under way
  budget     \* what is left of Budget

vars == <<main, tags, refs, released, pending, run, budget>>

\* catalog.json, as far as versions and channels go; hist is newest first.
Catalog == [version : Versions,
            ptr     : [Tier -> MaybeVersion],
            hist    : Seq([v : Versions, tiers : SUBSET Tier])]

\* A commit: the catalog it carries, and whether it is a merge of a change.
Commit == [cat : Catalog, merge : BOOLEAN]

Job == [kind : {"release"}, base : Nat, bump : Bumps, force : BOOLEAN]
       \cup [kind : {"promote"}, base : Nat, target : Versions, tier : Tier,
             un : Unpromotes]

PC == {"idle", "prepare", "push", "rebase", "tag", "minor", "major",
       "stable", "beta", "dev", "release"}

Run == [pc     : PC,
        job    : Job \cup {NoJob},
        base   : Nat,                      \* position of the clone's HEAD parent, then of HEAD
        tags   : SUBSET Versions,          \* version tags the clone has
        refs   : [RefName -> MaybeVersion],\* moving refs the clone has
        cat    : Catalog,                  \* catalog of the work tree
        tries  : Nat,                      \* pushes of main already rejected
        newTag : BOOLEAN,                  \* NEW_TAG of publish-release.sh
        alone  : BOOLEAN]                  \* history: no other run has overlapped this one

Tip       == main[Len(main)].cat
TagSet    == {v \in Versions : tags[v] # 0}
V0        == <<1, 0, 0>>
NoPtr     == [t \in Tier |-> NoVersion]
NoRefs    == [r \in RefName |-> NoVersion]
Catalog0  == [version |-> V0, ptr |-> NoPtr, hist |-> <<[v |-> V0, tiers |-> {}]>>]
IdleRun   == [pc |-> "idle", job |-> NoJob, base |-> 1, tags |-> {}, refs |-> NoRefs,
              cat |-> Catalog0, tries |-> 0, newTag |-> FALSE, alone |-> TRUE]

\* One published version, with no promotion yet: v1.0 and dev point at it.
Init ==
  /\ main = <<[cat |-> Catalog0, merge |-> TRUE]>>
  /\ tags = [v \in Versions |-> IF v = V0 THEN 1 ELSE 0]
  /\ refs = [NoRefs EXCEPT ![MinorRef(V0)] = V0, ![Channel("dev")] = V0]
  /\ released = {V0}
  /\ pending = [l \in Lanes |-> NoJob]
  /\ run = [l \in Lanes |-> IdleRun]
  /\ budget = Budget

(***************************************************************************)
(* Requests.  A push of a merge triggers release.yml at that commit; a     *)
(* dispatch records the tip of the branch.  The request replaces the one   *)
(* that is pending in its group.                                           *)
(***************************************************************************)
Merge ==
  /\ "release" \in Lanes /\ budget["merge"] > 0
  /\ main' = Append(main, [cat |-> Tip, merge |-> TRUE])
  /\ \E bump \in Bumps :
       pending' = [pending EXCEPT !["release"] =
                     [kind |-> "release", base |-> Len(main) + 1, bump |-> bump, force |-> FALSE]]
  /\ budget' = [budget EXCEPT !["merge"] = @ - 1]
  /\ UNCHANGED <<tags, refs, released, run>>

DispatchRelease ==
  /\ "release" \in Lanes /\ budget["dispatch"] > 0
  /\ \E bump \in Bumps, force \in Forces :
       pending' = [pending EXCEPT !["release"] =
                     [kind |-> "release", base |-> Len(main), bump |-> bump, force |-> force]]
  /\ budget' = [budget EXCEPT !["dispatch"] = @ - 1]
  /\ UNCHANGED <<main, tags, refs, released, run>>

DispatchPromote ==
  /\ "promote" \in Lanes /\ budget["promote"] > 0
  /\ \E target \in {Tip.hist[i].v : i \in DOMAIN Tip.hist}, tier \in Tier, un \in Unpromotes :
       pending' = [pending EXCEPT !["promote"] =
                     [kind |-> "promote", base |-> Len(main), target |-> target,
                      tier |-> tier, un |-> un]]
  /\ budget' = [budget EXCEPT !["promote"] = @ - 1]
  /\ UNCHANGED <<main, tags, refs, released, run>>

(***************************************************************************)
(* Steps both workflows share.                                             *)
(***************************************************************************)
Goto(l, pc) == run' = [run EXCEPT ![l].pc = pc]

\* The run is over, successfully or not: the runner and its clone are gone.
Finish(l) == run' = [run EXCEPT ![l] = IdleRun]

\* A step of the job fails, the runner is lost or the run is cancelled.
Fail(l) ==
  /\ MayFail /\ run[l].pc # "idle"
  /\ Finish(l)
  /\ UNCHANGED <<main, tags, refs, released, pending, budget>>

\* actions/checkout with fetch-depth 0: the commit of the request, and every
\* tag the remote has at the moment the run starts.
Checkout(l) ==
  /\ run[l].pc = "idle" /\ pending[l] # NoJob
  /\ run' = [k \in Lanes |->
               IF k # l THEN [run[k] EXCEPT !.alone = FALSE]
               ELSE [pc |-> "prepare", job |-> pending[l], base |-> pending[l].base,
                     tags |-> TagSet, refs |-> refs, cat |-> main[pending[l].base].cat,
                     tries |-> 0, newTag |-> FALSE,
                     alone |-> \A k2 \in Lanes \ {l} : run[k2].pc = "idle"]]
  /\ pending' = [pending EXCEPT ![l] = NoJob]
  /\ UNCHANGED <<main, tags, refs, released, budget>>

\* Mutant of GatePasses: strictly above every tag.
GateStrict(cat, known) ==
  /\ cat.hist # <<>> /\ cat.version = cat.hist[1].v
  /\ known # {} /\ \A v \in known : VersionGT(cat.version, v)
  /\ \A t \in Tier : cat.ptr[t] \in known \cup {NoVersion}

\* validate-catalog-source-sync.py: the version of record is the newest entry,
\* not below any published tag, and the channels name published releases.
GatePasses(cat, known) ==
  /\ cat.hist # <<>> /\ cat.version = cat.hist[1].v
  /\ known # {} /\ \A v \in known : VersionGE(cat.version, v)
  /\ \A t \in Tier : cat.ptr[t] \in known \cup {NoVersion}

WithEntry(cat, v) ==
  [cat EXCEPT !.version = v, !.hist = <<[v |-> v, tiers |-> {}]>> \o @]

\* promote-release.py: put the tier's flag on the entry, or take it off ...
Flagged(hist, i, job) ==
  [hist EXCEPT ![i].tiers = IF job.un THEN @ \ {job.tier} ELSE @ \cup {job.tier}]

\* ... and point the channel at the target, or at the newest other release
\* that still carries the flag, or at nothing.
PointerChoice(hist, job) ==
  LET others == {j \in DOMAIN hist : job.tier \in hist[j].tiers /\ hist[j].v # job.target}
  IN IF ~job.un THEN {job.target}
     ELSE IF others = {} THEN {NoVersion}
     ELSE {hist[j].v : j \in First(others)}

Promoted(cat, i, job) ==
  LET hist == Flagged(cat.hist, i, job)
  IN {[cat EXCEPT !.hist = hist, !.ptr[job.tier] = p] : p \in PointerChoice(hist, job)}

\* The catalog the run would commit: at most one, none when a step refuses.
ReleaseCatalogs(job, cat, known) ==
  {WithEntry(cat, Bumped(top, job.bump)) : top \in Highest(known)}

PromoteCatalogs(job, cat, known) ==
  LET entry == First({j \in DOMAIN cat.hist : cat.hist[j].v = job.target})
      edits == UNION {Promoted(cat, i, job) : i \in entry}
  IN IF job.target \notin known THEN {}
     ELSE {WithEntry(c, Bumped(top, "patch")) : c \in edits, top \in Highest(known)}

NewCatalogs(job, cat, known) ==
  IF ~GatePasses(cat, known) THEN {}
  ELSE IF job.kind = "release" THEN ReleaseCatalogs(job, cat, known)
  ELSE PromoteCatalogs(job, cat, known)

\* Validation, the catalog edit and the local commit.  (c.version \in Versions
\* is the bound of the model; EveryRunEnds shows that the runs never meet it.)
Prepare(l) ==
  /\ run[l].pc = "prepare"
  /\ \E c \in NewCatalogs(run[l].job, run[l].cat, run[l].tags) :
       /\ c.version \in Versions
       /\ run' = [run EXCEPT ![l].pc = "push", ![l].cat = c]
  /\ UNCHANGED <<main, tags, refs, released, pending, budget>>

Refused(l) ==
  /\ run[l].pc = "prepare"
  /\ NewCatalogs(run[l].job, run[l].cat, run[l].tags) = {}
  /\ Finish(l)
  /\ UNCHANGED <<main, tags, refs, released, pending, budget>>

\* Mutant of Push: HEAD is not advanced to the pushed commit.
PushOldHead(l) ==
  /\ run[l].pc = "push" /\ run[l].base = Len(main)
  /\ main' = Append(main, [cat |-> run[l].cat, merge |-> FALSE])
  /\ run' = [run EXCEPT ![l].pc = "tag"]
  /\ UNCHANGED <<tags, refs, released, pending, budget>>

\* git push origin HEAD:main, accepted only as a fast-forward.
Push(l) ==
  /\ run[l].pc = "push" /\ run[l].base = Len(main)
  /\ main' = Append(main, [cat |-> run[l].cat, merge |-> FALSE])
  /\ run' = [run EXCEPT ![l].pc = "tag", ![l].base = Len(main) + 1]
  /\ UNCHANGED <<tags, refs, released, pending, budget>>

PushRejected(l) ==
  /\ run[l].pc = "push" /\ run[l].base # Len(main)
  /\ run' = [run EXCEPT ![l].pc = "rebase", ![l].tries = @ + 1]
  /\ UNCHANGED <<main, tags, refs, released, pending, budget>>

\* git fetch follows the tags the clone lacks and leaves those it has.  Both
\* sides insert an entry at the head of hist, so the rebase conflicts exactly
\* when the catalog changed since the clone's base.
Conflict(l) == Tip # main[run[l].base].cat

Rebase(l) ==
  /\ run[l].pc = "rebase" /\ ~Conflict(l) /\ run[l].tries < MaxTries
  /\ run' = [run EXCEPT ![l].pc = "push", ![l].base = Len(main), ![l].tags = @ \cup TagSet,
               ![l].refs = [r \in RefName |-> IF @[r] = NoVersion THEN refs[r] ELSE @[r]]]
  /\ UNCHANGED <<main, tags, refs, released, pending, budget>>

\* A conflict, or the attempts of the loop are used up.
GiveUp(l) ==
  /\ run[l].pc = "rebase" /\ (Conflict(l) \/ run[l].tries >= MaxTries)
  /\ Finish(l)
  /\ UNCHANGED <<main, tags, refs, released, pending, budget>>

(***************************************************************************)
(* publish-release.sh.  V, force: VER and FORCE_ALIASES of the run.        *)
(***************************************************************************)
V(l)     == run[l].cat.version
force(l) == run[l].job.kind = "release" /\ run[l].job.force

\* The clone has the tag already: left alone, and NEW_TAG stays false.
TagExists(l) ==
  /\ run[l].pc = "tag" /\ V(l) \in run[l].tags
  /\ Goto(l, "minor")
  /\ UNCHANGED <<main, tags, refs, released, pending, budget>>

CreateTag(l) ==
  /\ run[l].pc = "tag" /\ V(l) \notin run[l].tags /\ tags[V(l)] = 0
  /\ tags' = [tags EXCEPT ![V(l)] = run[l].base]
  /\ run' = [run EXCEPT ![l].pc = "minor", ![l].newTag = TRUE, ![l].tags = @ \cup {V(l)}]
  /\ UNCHANGED <<main, refs, released, pending, budget>>

\* Mutant of TagRejected: the version tag is force-pushed.
TagForced(l) ==
  /\ run[l].pc = "tag" /\ V(l) \notin run[l].tags /\ tags[V(l)] # 0
  /\ tags' = [tags EXCEPT ![V(l)] = run[l].base]
  /\ Goto(l, "minor")
  /\ UNCHANGED <<main, refs, released, pending, budget>>

\* The remote has the tag and the clone does not: git push is refused.
TagRejected(l) ==
  /\ run[l].pc = "tag" /\ V(l) \notin run[l].tags /\ tags[V(l)] # 0
  /\ Finish(l)
  /\ UNCHANGED <<main, tags, refs, released, pending, budget>>

\* git tag -f and git push -f of one moving ref, when the script wants to.
MoveRef(l, wanted, ref, v, next) ==
  /\ IF wanted
     THEN /\ refs' = [refs EXCEPT ![ref] = v]
          /\ run' = [run EXCEPT ![l].pc = next, ![l].refs[ref] = v]
     ELSE /\ Goto(l, next)
          /\ UNCHANGED refs
  /\ UNCHANGED <<main, tags, released, pending, budget>>

MoveMinor(l) ==
  /\ run[l].pc = "minor"
  /\ MoveRef(l, run[l].newTag \/ force(l), MinorRef(V(l)), V(l), "major")

\* Mutant of WantsMajor: without the version_gt check.
WantsMajorAnyway(l) ==
  LET stable == run[l].cat.ptr["stable"]
      have   == run[l].refs[MajorRef(V(l))]
  IN stable # NoVersion /\ stable \in run[l].tags /\ stable[1] = V(l)[1] /\ have # stable

\* The alias follows stableVersion within its major, and only forwards as far
\* as the clone can tell.
WantsMajor(l) ==
  LET stable == run[l].cat.ptr["stable"]
      have   == run[l].refs[MajorRef(V(l))]
  IN /\ stable # NoVersion /\ stable \in run[l].tags /\ stable[1] = V(l)[1]
     /\ have # stable
     /\ have = NoVersion \/ VersionGT(stable, have) \/ force(l)

\* Mutant of MoveMajor: v<major> tracks the tip.
MajorTracksTip(l) ==
  /\ run[l].pc = "major"
  /\ MoveRef(l, run[l].newTag, MajorRef(V(l)), V(l), "stable")

MoveMajor(l) ==
  /\ run[l].pc = "major"
  /\ MoveRef(l, WantsMajor(l), MajorRef(V(l)), run[l].cat.ptr["stable"], "stable")

\* Mutant of WantsChannel: only creates the ref, never moves it.
WantsNewChannel(l, name, v) ==
  v # NoVersion /\ v \in run[l].tags /\ run[l].refs[Channel(name)] = NoVersion

\* move_channel
WantsChannel(l, name, v) ==
  v # NoVersion /\ v \in run[l].tags /\ v # run[l].refs[Channel(name)]

MoveStable(l) ==
  LET v == run[l].cat.ptr["stable"]
  IN run[l].pc = "stable" /\ MoveRef(l, WantsChannel(l, "stable", v), Channel("stable"), v, "beta")

MoveBeta(l) ==
  LET v == run[l].cat.ptr["beta"]
  IN run[l].pc = "beta" /\ MoveRef(l, WantsChannel(l, "beta", v), Channel("beta"), v, "dev")

MoveDev(l) ==
  /\ run[l].pc = "dev"
  /\ MoveRef(l, WantsChannel(l, "dev", V(l)), Channel("dev"), V(l), "release")

\* gh release view / create / edit: the last step of the run.
PublishRelease(l) ==
  /\ run[l].pc = "release"
  /\ released' = released \cup {V(l)}
  /\ Finish(l)
  /\ UNCHANGED <<main, tags, refs, pending, budget>>

(***************************************************************************)
(* The specification.                                                      *)
(***************************************************************************)
Work(l) ==
  \/ Prepare(l) \/ Refused(l)
  \/ Push(l) \/ PushRejected(l) \/ Rebase(l) \/ GiveUp(l)
  \/ TagExists(l) \/ CreateTag(l) \/ TagRejected(l)
  \/ MoveMinor(l) \/ MoveMajor(l) \/ MoveStable(l) \/ MoveBeta(l) \/ MoveDev(l)
  \/ PublishRelease(l)

Next ==
  \/ Merge \/ DispatchRelease \/ DispatchPromote
  \/ \E l \in Lanes : Checkout(l) \/ Work(l) \/ Fail(l)

Spec == Init /\ [][Next]_vars

\* GitHub starts a pending run when its group is free, and a runner executes
\* the steps of a job it has started.
FairSpec == Spec /\ \A l \in Lanes : WF_vars(Checkout(l)) /\ WF_vars(Work(l))

-----------------------------------------------------------------------------
(***************************************************************************)
(* Properties.                                                             *)
(***************************************************************************)
\* Every variable stays within its type.
TypeOK ==
  /\ main \in Seq(Commit) /\ main # <<>>
  /\ tags \in [Versions -> Nat]
  /\ refs \in [RefName -> MaybeVersion]
  /\ released \subseteq Versions
  /\ pending \in [Lanes -> Job \cup {NoJob}]
  /\ run \in [Lanes -> Run]
  /\ budget \in [{"merge", "dispatch", "promote"} -> Nat]

\* A tag v<X> points at a commit of main whose own catalog says X is the
\* version of record, whichever of two concurrent runs got to push it
\* (publish-release.sh reads VER from the work tree it tags).
TagIntegrity ==
  \A v \in Versions : tags[v] # 0 =>
    tags[v] \in DOMAIN main /\ main[tags[v]].cat.version = v

\* What each clone may rely on: HEAD and its known tags exist on the remote,
\* and a run that publishes has its own catalog and its own tag out there.
Publishing == {"tag", "minor", "major", "stable", "beta", "dev", "release"}
Consistent(r) ==
  /\ r.base \in DOMAIN main
  /\ r.tags \subseteq TagSet
  /\ r.pc # "idle" => r.job \in Job
  /\ r.pc \in Publishing => main[r.base].cat = r.cat
  /\ r.pc \in Publishing \ {"tag"} => r.cat.version \in r.tags
RunsConsistent == \A l \in Lanes :
  Consistent(run[l]) /\ (pending[l] # NoJob => pending[l].base \in DOMAIN main)

\* A published version tag is never moved or deleted: README "Exactly that
\* release, forever"; publish-release.sh pushes it without force.
TagsImmutable == [][\A v \in Versions : tags[v] # 0 => tags'[v] = tags[v]]_vars

\* A moving ref of line l names a published release of line l; a GitHub
\* Release exists only for a published tag.
OnLine(r, v) == \/ r \in {Channel(c) : c \in {"stable", "beta", "dev"}}
                \/ r = MajorRef(v) \/ r = MinorRef(v)
RefsPublished ==
  /\ \A r \in RefName : refs[r] # NoVersion => tags[refs[r]] # 0 /\ OnLine(r, refs[r])
  /\ released \subseteq TagSet

\* The inductive invariant behind the theorems.
IInv == TypeOK /\ TagIntegrity /\ RefsPublished /\ RunsConsistent

\* A push of the catalog drops nothing another run wrote: it adds one entry
\* at the head, keeps every older entry in its place, and changes the
\* channel marks of at most one of them.
NothingLost ==
  LET old == Tip.hist  new == Tip'.hist
  IN /\ Len(new) = Len(old) + 1
     /\ \A i \in DOMAIN old : new[i + 1].v = old[i].v
     /\ \A i, j \in DOMAIN old :
          new[i + 1].tiers # old[i].tiers /\ new[j + 1].tiers # old[j].tiers => i = j
HistoryAppendOnly == [][Tip' # Tip => NothingLost]_vars

\* A version can get two entries (two runs derived it before either tagged
\* it), but a mark is only ever on its newest one, the one promote-release.py
\* finds: rolling a channel back off a version really takes the mark off.
MarkOnNewestEntry ==
  \A i, j \in DOMAIN Tip.hist :
    Tip.hist[i].v = Tip.hist[j].v /\ i < j => Tip.hist[j].tiers = {}

\* A channel pointer of the catalog names a published release whose entry
\* carries the mark of that channel.
PointersMarked ==
  \A t \in Tier : Tip.ptr[t] # NoVersion =>
    /\ tags[Tip.ptr[t]] # 0
    /\ \E i \in DOMAIN Tip.hist : Tip.hist[i].v = Tip.ptr[t] /\ t \in Tip.hist[i].tiers

\* The refs consumers pin for a blessed release (stable, beta, v<major>) only
\* ever name versions the owner blessed in that channel at some time.
Blessed(t) == {main[i].cat.ptr[t] : i \in DOMAIN main}
RefsBlessed ==
  /\ \A t \in Tier : refs[Channel(t)] \in Blessed(t) \cup {NoVersion}
  /\ \A v \in Versions : refs[MajorRef(v)] \in Blessed("stable") \cup {NoVersion}

\* A run that succeeds and was overlapped by no other leaves every moving ref
\* where the catalog says it belongs, whatever earlier runs left undone.
Converged ==
  /\ \A t \in Tier : Tip.ptr[t] # NoVersion => refs[Channel(t)] = Tip.ptr[t]
  /\ refs[Channel("dev")] = Tip.version
  /\ refs[MinorRef(Tip.version)] = Tip.version
  /\ LET s == Tip.ptr["stable"]
     IN s # NoVersion /\ s[1] = Tip.version[1] => VersionGE(refs[MajorRef(s)], s)
SoloRunConverges ==
  [][\A l \in Lanes : PublishRelease(l) /\ run[l].alone => Converged']_vars

Forward(r) == refs[r] # refs'[r] => refs[r] = NoVersion \/ VersionGT(refs'[r], refs[r])

\* A run that no other run has overlapped never moves an alias consumers pin
\* to an older release, whatever earlier runs left undone.  (A release with
\* move_aliases is meant to reset v<major>.)
SoloAliasesForward ==
  [][\A l \in Lanes, v \in Versions : run[l].alone =>
       /\ MoveMinor(l) => Forward(MinorRef(v))
       /\ MoveMajor(l) /\ ~force(l) => Forward(MajorRef(v))]_vars

\* "Refusing to move the alias backwards is the whole safety property here":
\* v<major> never moves back, unless a release run resets it.
MajorNeverBackwards ==
  [][\A v \in Versions :
       \/ Forward(MajorRef(v))
       \/ \E l \in Lanes : run[l].pc = "major" /\ run[l].job # NoJob /\ force(l)]_vars

\* "It must never go backwards": the version of record is never below a
\* published tag.
RecordNotBehindTags == \A v \in TagSet : VersionGE(Tip.version, v)

Merges == {i \in DOMAIN main : main[i].merge}

\* Every merge to the default branch is contained in some published version,
\* at least while no promotion interferes.
\* (main has at most one commit per merge and one per run.)
EveryMergeReleased ==
  \A i \in 1..(1 + 2 * Budget["merge"] + Budget["dispatch"] + Budget["promote"]) :
    i \in Merges ~> \/ \E v \in Versions : tags[v] >= i
                    \/ budget["promote"] < Budget["promote"]

\* Every run ends and its group becomes free: the push loop is bounded and no
\* run waits for another.
EveryRunEnds == \A l \in Lanes : run[l].pc # "idle" ~> run[l].pc = "idle"

\* The promise of the channels to consumers, with the same tags and refs.
Promise == INSTANCE ReleaseChannels

\* The two workflows together implement the promise: version tags are written
\* once, and a moving ref only moves to a published release of its own line.
ImplementsPromise == Promise!Spec
=============================================================================
