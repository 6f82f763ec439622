---------------------------- MODULE WorkerImage ----------------------------
(***************************************************************************)
(* The Windows worker image: the lane of runs that publish it              *)
(* (build-labview-image.yml bakes the dependencies, copy-labview-image.yml *)
(* seeds it from the base) and the container jobs that wait for it         *)
(* (wait-for-worker-image.sh) before they pull it.                         *)
(* The clock ticks in units of five minutes.  Everything that takes less,  *)
(* polls included, happens between two ticks.                              *)
(***************************************************************************)
EXTENDS Naturals, Sequences, FiniteSets

CONSTANTS
  Jobs,        \* the workflow runs that use the worker image, one job each
  Plain,       \* those whose workflow name does not contain "Container"
  Requests,    \* what else is asked of the lane: records [kind, policy, mode]
  MaxRequests, \* bound on the number of those
  Changes,     \* what the pushes of the jobs may have changed
  Policy,      \* rebuildPolicy of labview-ci.yml
  Monitored,   \* TRUE when a pushed dependency is monitored for Windows
  HasDeps,     \* TRUE when there is something to bake into the worker
  IsSource,    \* TRUE in the repository that owns the base image
  Seeded,      \* TRUE when the worker image was published before
  BakeTime, Appear, Overall, DrainLimit,  \* in ticks
  MayFail      \* TRUE when API calls, steps and runs may fail or be cancelled

ASSUME JobsAssumption == IsFiniteSet(Jobs) /\ Plain \subseteq Jobs
ASSUME RequestsAssumption ==
  /\ Requests \subseteq [kind : {"build", "copy"}, policy : {"drain", "cancel"},
                         mode : {"replace", "new"}]
  /\ MaxRequests \in Nat
ASSUME ChangesAssumption == Changes \subseteq {"none", "dependency", "tooling"}
ASSUME ConfigAssumption ==
  /\ Policy \in {"drain", "cancel"}
  /\ {Monitored, HasDeps, IsSource, Seeded, MayFail} \subseteq BOOLEAN
ASSUME TimeAssumption ==
  BakeTime \subseteq Nat /\ {Appear, Overall, DrainLimit} \subseteq Nat

VARIABLES
  runs,     \* the runs of the lane, in the order of their creation
  asked,    \* how many Requests have been made
  job,      \* job |-> its state
  tag,      \* moving tag of the worker image |-> the run that pushed it
  workers,  \* the runs whose immutable worker tag is in the registry
  base,     \* the run that the base tags clients consume come from
  manifest  \* the run that latest.json describes

vars == <<runs, asked, job, tag, workers, base, manifest>>
artifacts == <<tag, workers, base, manifest>>

None   == 0                      \* no run
Tag    == {"version", "year", "dated", "latest"}
Over   == {"success", "failure", "cancelled"}
Stage  == {"pending", "gate", "coordinate", "bake", "push", "promote", "manifest"} \cup Over
Ended  == {"done", "failed", "timeout", "cancelled"}
PC     == {"absent", "queued", "start", "probe", "dispatch", "guard", "wait", "using"} \cup Ended

Run == [kind : {"build", "copy"}, policy : {"drain", "cancel"}, mode : {"replace", "new"},
        push : BOOLEAN,          \* triggered by a push
        commit : SUBSET Jobs,    \* the jobs of the commit it runs on
        stage : Stage,
        listed : BOOLEAN,        \* the Actions API shows it
        targets : SUBSET Jobs,   \* the runs it coordinates with
        left : Nat,              \* ticks to the end of its drain or bake
        todo : Seq(Tag)]         \* tags it has still to push

Job == [pc : PC,
        change : {"none", "dependency", "tooling"},
        born : Nat,                     \* runs created before it
        listing : {"repo", "commit"},   \* the runs its wait looks at
        left : Nat,                     \* ticks to its overall deadline
        mine : Nat,                     \* the run it dispatched or joined
        late : BOOLEAN,                 \* its guard ran out before the API listed that run
        verdict : Nat,                  \* the run whose conclusion ended its wait
        image : Nat]                    \* the run whose image it pulls

Init ==
  /\ runs = <<>> /\ asked = 0
  /\ job = [j \in Jobs |-> [pc |-> "absent", change |-> "none", born |-> 0, listing |-> "repo",
                            left |-> 0, mine |-> None, late |-> FALSE, verdict |-> None,
                            image |-> None]]
  /\ tag = [t \in Tag |-> None]
  /\ workers = {} /\ base = None /\ manifest = None

Indices   == DOMAIN runs
Active(i) == runs[i].stage \notin Over \cup {"pending"}
Exists    == Seeded \/ tag["latest"] # None

-----------------------------------------------------------------------------
(* The concurrency group build-labview-windows-image. *)

Opening(kind) == IF kind = "build" THEN "gate" ELSE "push"

\* Mutant of TagsOf: a rebuild pushes dated and immutable tags only.
TagsNoLatest(kind, mode) ==
  IF kind = "copy" \/ ~HasDeps THEN <<"version", "year", "dated", "latest">>
  ELSE IF mode = "new" THEN <<"version", "dated">>
  ELSE <<"year", "dated", "version">>

\* The tags in the order the workflow pushes them.
TagsOf(kind, mode) ==
  IF kind = "copy" \/ ~HasDeps THEN <<"version", "year", "dated", "latest">>
  ELSE IF mode = "new" THEN <<"version", "dated">>
  ELSE <<"year", "dated", "version", "latest">>

\* Mutant of Entered: the copy workflow has no group.
EnteredTwoLanes(kind, policy, mode, push, commit) ==
  LET busy == kind = "build" /\ \E i \in Indices : Active(i) /\ runs[i].kind = "build"
  IN Append([i \in Indices |-> IF runs[i].stage = "pending"
                               THEN [runs[i] EXCEPT !.stage = "cancelled"] ELSE runs[i]],
            [kind |-> kind, policy |-> policy, mode |-> mode, push |-> push, commit |-> commit,
             stage |-> IF busy THEN "pending" ELSE Opening(kind), listed |-> FALSE,
             targets |-> {}, left |-> 0, todo |-> TagsOf(kind, mode)])

\* A new run starts if the lane is free; else it pends, in place of the run
\* that was pending.
Entered(kind, policy, mode, push, commit) ==
  LET busy == \E i \in Indices : Active(i)
  IN Append([i \in Indices |-> IF runs[i].stage = "pending"
                               THEN [runs[i] EXCEPT !.stage = "cancelled"] ELSE runs[i]],
            [kind |-> kind, policy |-> policy, mode |-> mode, push |-> push, commit |-> commit,
             stage |-> IF busy THEN "pending" ELSE Opening(kind), listed |-> FALSE,
             targets |-> {}, left |-> 0, todo |-> TagsOf(kind, mode)])

\* Mutant of Conclude: the pending run is forgotten.
ConcludeOnly(i, conclusion) ==
  /\ \A k \in Indices : runs[k].listed
  /\ runs' = [runs EXCEPT ![i].stage = conclusion]

\* Run i is over; the pending run starts.  By then the API lists what was
\* created before.
Conclude(i, conclusion) ==
  /\ \A k \in Indices : runs[k].listed
  /\ runs' = [k \in Indices |->
                IF k = i THEN [runs[k] EXCEPT !.stage = conclusion]
                ELSE IF runs[k].stage = "pending" /\ Active(i)
                     THEN [runs[k] EXCEPT !.stage = Opening(runs[k].kind)]
                ELSE runs[k]]

Goto(i, s) == runs' = [runs EXCEPT ![i].stage = s]

\* A dispatch, the monthly schedule or a saved labview-ci.yml.
Request(r) ==
  /\ asked < MaxRequests /\ asked' = asked + 1
  /\ runs' = Entered(r.kind, r.policy, r.mode, FALSE, {})
  /\ UNCHANGED <<job, artifacts>>

\* A push of commit S: its container runs and, for a project dependency, a
\* build, in either order.
Pushed(S, change) ==
  /\ \A j \in S : job[j].pc = "absent"
  /\ runs' = IF change = "dependency" THEN Entered("build", Policy, "replace", TRUE, S) ELSE runs
  /\ \E n \in Len(runs)..Len(runs') :
       job' = [j \in Jobs |-> IF j \in S
                 THEN [job[j] EXCEPT !.pc = "queued", !.change = change, !.born = n] ELSE job[j]]
  /\ UNCHANGED <<asked, artifacts>>

\* A new run takes seconds to show up in the API.
List(i) ==
  /\ ~runs[i].listed
  /\ runs' = [runs EXCEPT ![i].listed = TRUE]
  /\ UNCHANGED <<asked, job, artifacts>>

-----------------------------------------------------------------------------
(* One run of the lane. *)

Gate(i) ==
  /\ runs[i].stage = "gate"
  /\ \/ (runs[i].push => Monitored) /\ Goto(i, "coordinate")
     \/ runs[i].push /\ (~Monitored \/ MayFail) /\ Conclude(i, "success")
  /\ UNCHANGED <<asked, job, artifacts>>

\* The container runs that are not over, and those created before run i.
Alive       == {j \in Jobs \ Plain : job[j].pc \notin Ended \cup {"absent"}}
InFlight(i) == {j \in Alive : job[j].born < i}

Bake(i, r) == \E d \in BakeTime : runs' = [runs EXCEPT ![i] = [r EXCEPT !.stage = "bake", !.left = d]]

\* Coordination is best-effort: when it finds nobody, or fails, the bake starts.
\* A run that cannot learn its own age takes every run for an older one.
Coordinate(i) ==
  /\ runs[i].stage = "coordinate" /\ runs[i].targets = {}
  /\ \/ (InFlight(i) = {} \/ MayFail) /\ Bake(i, runs[i])
     \/ \E S \in {InFlight(i)} \cup (IF MayFail THEN {Alive} ELSE {}) :
          S # {} /\ runs' = [runs EXCEPT ![i].targets = S, ![i].left = DrainLimit]
  /\ UNCHANGED <<asked, job, artifacts>>

Waits(i) == \E j \in runs[i].targets : job[j].pc \notin Ended

CancelTarget(i, j) ==
  /\ runs[i].stage = "coordinate" /\ runs[i].policy = "cancel"
  /\ j \in runs[i].targets /\ job[j].pc \notin Ended
  /\ job' = [job EXCEPT ![j].pc = "cancelled"]
  /\ UNCHANGED <<runs, asked, artifacts>>

\* The targets are over, or 25 minutes have passed.
Coordinated(i) ==
  /\ runs[i].stage = "coordinate" /\ runs[i].targets # {}
  /\ ~Waits(i) \/ runs[i].left = 0 \/ MayFail
  /\ Bake(i, runs[i])
  /\ UNCHANGED <<asked, job, artifacts>>

Baked(i) ==
  /\ runs[i].stage = "bake" /\ runs[i].left = 0
  /\ Goto(i, "push")
  /\ UNCHANGED <<asked, job, artifacts>>

PushTag(i) ==
  /\ runs[i].stage = "push" /\ runs[i].todo # <<>>
  /\ tag' = [tag EXCEPT ![Head(runs[i].todo)] = i]
  /\ workers' = IF Head(runs[i].todo) = "version" THEN workers \cup {i} ELSE workers
  /\ runs' = [runs EXCEPT ![i].todo = Tail(@),
                          ![i].stage = IF Tail(runs[i].todo) # <<>> THEN "push"
                                       ELSE IF runs[i].kind = "build" /\ IsSource THEN "promote"
                                       ELSE "manifest"]
  /\ UNCHANGED <<asked, job, base, manifest>>

Promote(i) ==
  /\ runs[i].stage = "promote"
  /\ base' = i
  /\ Goto(i, "manifest")
  /\ UNCHANGED <<asked, job, tag, workers, manifest>>

PublishManifest(i) ==
  /\ runs[i].stage = "manifest"
  /\ manifest' = i
  /\ Conclude(i, "success")
  /\ UNCHANGED <<asked, job, tag, workers, base>>

\* A step fails, or somebody cancels the run.
Break(i) ==
  /\ MayFail /\ runs[i].stage \notin Over
  /\ \E c \in {"failure", "cancelled"} : Conclude(i, c)
  /\ UNCHANGED <<asked, job, artifacts>>

RunStep(i) ==
  \/ List(i) \/ Gate(i) \/ Coordinate(i) \/ Coordinated(i) \/ Baked(i)
  \/ PushTag(i) \/ Promote(i) \/ PublishManifest(i)
  \/ \E j \in Jobs : CancelTarget(i, j)

-----------------------------------------------------------------------------
(* One job: wait-for-worker-image.sh, then the work in the container. *)

Set(j, r) == job' = [job EXCEPT ![j] = r] /\ UNCHANGED <<runs, asked, artifacts>>

\* The builds the API lists, of the repository or of the job's commit.
Shown(j, listing) ==
  {i \in Indices : runs[i].kind = "build" /\ runs[i].listed
                   /\ (listing = "commit" => j \in runs[i].commit)}

\* Mutant of Newest: the listing is sorted the other way.
Oldest(j, listing) ==
  {i \in Shown(j, listing) : \A k \in Shown(j, listing) : i <= k}

\* The newest of them, if any.
Newest(j, listing) ==
  {i \in Shown(j, listing) : \A k \in Shown(j, listing) : k <= i}

Building(j) == \E n \in Newest(j, "repo") : runs[n].stage \notin Over

RunnerFound(j) == job[j].pc = "queued" /\ Set(j, [job[j] EXCEPT !.pc = "start"])

Waiting(j, listing) == [job[j] EXCEPT !.pc = "wait", !.listing = listing, !.left = Overall]

\* A build under way is waited for; so is the one this push should have
\* triggered.  The API may not answer, three times: then no build is seen.
CheckBuild(j) ==
  /\ job[j].pc = "start"
  /\ \E building \in {Building(j)} \cup (IF MayFail THEN {FALSE} ELSE {}) :
       Set(j, IF building THEN Waiting(j, "repo")
              ELSE IF job[j].change # "none" THEN Waiting(j, "commit")
              ELSE [job[j] EXCEPT !.pc = "probe"])

\* Go on to pull :latest.
Proceed(j, r) == Set(j, [r EXCEPT !.pc = "using", !.image = tag["latest"]])

\* A probe that is inconclusive goes on like one that found the image.
Probe(j) ==
  /\ job[j].pc = "probe"
  /\ \/ (Exists \/ MayFail) /\ Proceed(j, job[j])
     \/ ~Exists /\ Set(j, [job[j] EXCEPT !.pc = "dispatch"])

\* Join the build of a sibling, or dispatch one.
Join(j) ==
  /\ job[j].pc = "dispatch"
  /\ \E n \in Newest(j, "repo") :
       runs[n].stage \notin Over /\ Set(j, [job[j] EXCEPT !.pc = "guard", !.mine = n])

\* A listing that is not answered shows no build.  (An attempt that starts a
\* run and reports an error is a Request followed by the next attempt.)
Dispatch(j) ==
  /\ job[j].pc = "dispatch" /\ (~Building(j) \/ MayFail)
  /\ runs' = Entered("build", Policy, "replace", FALSE, {})
  /\ job' = [job EXCEPT ![j].pc = "guard", ![j].mine = Len(runs')]
  /\ UNCHANGED <<asked, artifacts>>

DispatchFails(j) ==
  /\ MayFail /\ job[j].pc = "dispatch"
  /\ Set(j, [job[j] EXCEPT !.pc = "failed"])

\* Mutant of Guard: any listed build ends it, over or not.
GuardAny(j) ==
  /\ job[j].pc = "guard"
  /\ Set(j, [Waiting(j, "repo") EXCEPT !.late = Newest(j, "repo") = {} /\ ~runs[job[j].mine].listed])

\* Until the API shows a build under way, and for two minutes at most: they may
\* pass while the run is not listed, or while the API does not answer.
Guard(j) ==
  /\ job[j].pc = "guard"
  /\ Building(j) \/ MayFail \/ \A i \in Indices : runs[i].listed
  /\ Set(j, [Waiting(j, "repo") EXCEPT !.late = ~Building(j) /\ ~runs[job[j].mine].listed])

Concluded(j) == \E n \in Newest(j, job[j].listing) : runs[n].stage \in Over

Verdict(j) ==
  /\ job[j].pc = "wait"
  /\ \E n \in Newest(j, job[j].listing) :
       /\ runs[n].stage \in Over
       /\ LET r == [job[j] EXCEPT !.verdict = n]
          IN IF runs[n].stage = "success" THEN Proceed(j, r) ELSE Set(j, [r EXCEPT !.pc = "failed"])

\* Mutant of TimedOut: only a build that is seen can time out.
TimedOutSeen(j) == job[j].left = 0 /\ Newest(j, job[j].listing) # {}

\* The wait is over its limit, or no build has appeared in time.  A poll that
\* the API does not answer sees nothing.
TimedOut(j) ==
  \/ job[j].left = 0
  \/ (Newest(j, job[j].listing) = {} \/ MayFail) /\ job[j].left + Appear <= Overall

Timeout(j) ==
  /\ job[j].pc = "wait" /\ (~Concluded(j) \/ MayFail) /\ TimedOut(j)
  /\ Set(j, [job[j] EXCEPT !.pc = "timeout"])

Finish(j) == job[j].pc = "using" /\ Set(j, [job[j] EXCEPT !.pc = "done"])

JobStep(j) ==
  \/ RunnerFound(j) \/ CheckBuild(j) \/ Probe(j) \/ Join(j) \/ Dispatch(j) \/ DispatchFails(j)
  \/ Guard(j) \/ Verdict(j) \/ Timeout(j) \/ Finish(j)

-----------------------------------------------------------------------------
\* What happens within five minutes.
Urgent ==
  \/ \E i \in Indices :
       \/ ~runs[i].listed \/ runs[i].stage \in {"gate", "push", "promote", "manifest"}
       \/ runs[i].stage = "coordinate" /\ (runs[i].targets = {} \/ runs[i].left = 0 \/ ~Waits(i)
                                           \/ runs[i].policy = "cancel")
       \/ runs[i].stage = "bake" /\ runs[i].left = 0
  \/ \E j \in Jobs :
       \/ job[j].pc \in {"start", "probe", "dispatch", "guard"}
       \/ job[j].pc = "wait" /\ ((Concluded(j) /\ ~MayFail) \/ job[j].left = 0
                                 \/ (TimedOut(j) /\ ~MayFail))

Less(n) == IF n = 0 THEN 0 ELSE n - 1

Tick ==
  /\ ~Urgent
  /\ runs' = [i \in Indices |-> [runs[i] EXCEPT !.left = Less(@)]]
  /\ job' = [j \in Jobs |-> [job[j] EXCEPT !.left = Less(@)]]
  /\ UNCHANGED <<asked, artifacts>>

Next ==
  \/ \E r \in Requests : Request(r)
  \/ \E S \in (SUBSET Jobs) \ {{}}, change \in Changes : Pushed(S, change)
  \/ \E i \in Indices : RunStep(i) \/ Break(i)
  \/ \E j \in Jobs : JobStep(j)
  \/ Tick

Spec == Init /\ [][Next]_vars

\* GitHub starts and lists runs, runners take jobs, jobs run, time passes:
\* something happens as long as something can.
FairSpec ==
  Spec /\ WF_vars(Tick \/ (\E i \in Indices : RunStep(i)) \/ (\E j \in Jobs : JobStep(j)))

-----------------------------------------------------------------------------
(***************************************************************************)
(* Properties.                                                             *)
(***************************************************************************)
\* Every variable stays within its type.
TypeOK ==
  /\ runs \in Seq(Run) /\ asked \in 0..MaxRequests
  /\ job \in [Jobs -> Job]
  /\ tag \in [Tag -> Nat] /\ workers \subseteq Indices
  /\ base \in Nat /\ manifest \in Nat

\* Builds and copies share a lane, so what a newer run has published is never
\* overwritten by an older one, whoever is slow, fails or is cancelled.
LaneOrder ==
  [][manifest' >= manifest /\ base' >= base /\ \A t \in Tag : tag'[t] >= tag[t]]_vars

\* Clients are pointed only at what its own run has published: a base is
\* promoted after the worker was baked from it, latest.json after the push.
PointersQualified == {manifest, base} \ {None} \subseteq workers

\* A job that dispatched or joined a build is judged by an older build that ran
\* to its end, which may still be what the API shows, only if its two-minute
\* guard passed without the API listing the build: never because another build
\* under way ended its guard, was dropped from the queue or came later.
NoStaleVerdict ==
  \A j \in Jobs : LET v == job[j].verdict IN
    v # None /\ v < job[j].mine => runs[v].stage = "cancelled" \/ job[j].late

\* A job that was told of a successful rebuild pulls that image or a newer one.
FreshImage ==
  \A j \in Jobs : LET v == job[j].verdict IN
    job[j].pc \in {"using", "done"} /\ v # None /\ runs[v].mode = "replace" /\ runs[v].todo = <<>>
      => job[j].image >= v

\* A job that waited for the repository's builds starts its work while none of
\* the builds the API lists is under way.
QuietStart ==
  [][\A j \in Jobs : job[j].pc = "wait" /\ job[j].listing = "repo" /\ job'[j].pc = "using" =>
       \A i \in Indices : runs[i].kind = "build" /\ runs[i].listed => runs[i].stage \in Over]_vars

\* Between runs latest.json describes the image that :latest is, provided every
\* run that began to push went through and moved the standard tags.
CurrentWorker ==
  (\A i \in Indices : LET r == runs[i] IN
     /\ ~Active(i)
     /\ r.todo # TagsOf(r.kind, r.mode) => r.stage = "success" /\ r.mode = "replace")
  => manifest = tag["latest"]

\* Every job ends: whatever it waits for has a deadline.
JobsEnd == \A j \in Jobs : job[j].pc = "queued" ~> job[j].pc \in Ended

\* Every run of the lane ends, so that the lane is empty again and again: a
\* drain has a deadline, and the end of a run starts the pending one.
RunsEnd == []<>(\A i \in Indices : runs[i].stage \in Over)

\* "we only ever touch runs that started BEFORE this one, which rules out a
\* drain/wait deadlock": no build waits for a job that waits for it.
NoMutualWait ==
  \A i \in Indices : \A j \in runs[i].targets :
    runs[i].stage = "coordinate" /\ job[j].pc = "wait" => i \notin Newest(j, job[j].listing)

\* "the wait must outlast it or every fresh install's first dispatched
\* activity times out while the build is still going".
FirstRunOutlasts ==
  ~MayFail => \A j \in Jobs : job[j].mine # None => job[j].pc # "timeout"

\* "Safe to re-run: crane copy of an unchanged digest is a no-op re-tag": the
\* copy never takes the dependencies out of :latest again.
SeedIsNoOp ==
  [][\A i \in Indices : tag["latest"] = i /\ runs[i].kind = "build" /\ HasDeps =>
       runs'[tag'["latest"]].kind = "build"]_vars
=============================================================================
