----------------------------- MODULE Dashboard -----------------------------
(***************************************************************************)
(* The dashboard generator (dashboard.py, run by dashboard-pages.yml)      *)
(* against a repository whose CI keeps moving: it lists the history, asks  *)
(* the Actions API for active and dead runs, reads the statuses and the    *)
(* reports of a revision one call at a time, and deploys a page.  The      *)
(* table has every commit kept by the scan, and one cell: that of the      *)
(* activity sc.cap for the first project commit, whose runs are sc.plan.   *)
(* A tick of the clock is more than two hours; a build takes minutes.      *)
(***************************************************************************)
EXTENDS DashboardCells

CONSTANTS
  Scenarios,      \* records [cap, plan, done, history, pushes, main, faults]
  Payloads,       \* cap |-> what a report of it may say
  RecentWindow, ProjectTarget, ScanCap, PageSize,
  DeadAge,        \* the age at which a dead run is forgotten
  MaxClock        \* bound; pushes and faults bound a scenario

\* dashboard.py keeps a window of 100 commits, lists 100 to a page and
\* classifies at most 3000.
ASSUME BoundsAssumption ==
  /\ {RecentWindow, ProjectTarget, ScanCap, PageSize, DeadAge, MaxClock} \subseteq Nat
  /\ PageSize > 0 /\ RecentWindow <= PageSize /\ RecentWindow <= ScanCap

Commit == [id : Nat, project : BOOLEAN]

\* Commits are numbered from the oldest one; some commit is the project's.
ASSUME ScenariosAssumption ==
  \A s \in Scenarios :
    /\ s.history \in Seq(Commit) /\ s.pushes \in Nat
    /\ \A k \in DOMAIN s.history : s.history[k].id = Len(s.history) + 1 - k
    /\ \E k \in DOMAIN s.history :
         s.history[k].project /\ \A j \in k + 1 .. Len(s.history) : ~s.history[j].project

VARIABLES
  sc,       \* the scenario
  history,  \* the default branch, newest first: records [id, project]
  runs,     \* the runs of sc.plan
  status,   \* platform |-> latest commit status of its context
  report,   \* platform |-> report deployed on Pages
  posts,    \* statuses posted so far
  clock, faults,
  gen,      \* the build under way
  page      \* the page deployed

ci   == <<sc, runs, status, report, posts>>
vars == <<ci, history, clock, faults, gen, page>>

Ids      == 1..Len(sc.plan)
NewRun   == [st |-> "none", step |-> "start", ok |-> FALSE, born |-> 0]
ActiveSt == {"pending", "queued", "in_progress"}
LiveIn(rs) == {i \in DOMAIN rs : rs[i].st \in ActiveSt}

Idle == [pc |-> "idle", page |-> 1, scanned |-> 0, nproj |-> 0, rows |-> {},
         degraded |-> FALSE, q |-> 1, active |-> NoRun, star |-> NoRun,
         dead |-> FALSE, deadStar |-> FALSE,
         status |-> [p \in Plat |-> NoStatus], cell |-> Cell("dash"),
         \* history variables: what happened since the build started
         hit |-> {}, first |-> <<>>, moved |-> {}, made |-> {}]

\* A build starts.
Opened == [Idle EXCEPT !.pc = "branch"]

\* Where a run of the scenario succeeded before.
Earlier == {sc.plan[i].plat : i \in sc.done}

Init ==
  /\ sc \in Scenarios
  /\ history = sc.history
  /\ runs = [i \in Ids |-> IF i \in sc.done
                           THEN [st |-> "completed", step |-> "posted", ok |-> TRUE, born |-> 0]
                           ELSE NewRun]
  /\ status = [p \in Plat |-> IF p \in Earlier
                              THEN [state |-> "success", run |-> 0, at |-> 0, born |-> 0]
                              ELSE NoStatus]
  /\ report \in [Plat -> Payloads[sc.cap] \cup {NoReport}]
  /\ \A p \in Plat : (report[p] # NoReport) = (p \in Earlier)
  /\ posts = 1 /\ clock = 0 /\ faults = 0
  /\ gen = Idle /\ page = [rows |-> {}, cell |-> Cell("dash"), fast |-> FALSE, card |-> FALSE]

-----------------------------------------------------------------------------
(* The repository and its CI. *)

\* The first project commit, for which the runs are.
Row == sc.history[CHOOSE k \in DOMAIN sc.history :
                    /\ sc.history[k].project
                    /\ \A j \in k + 1 .. Len(sc.history) : ~sc.history[j].project]

\* Workflows whose completion rebuilds the dashboard at once.
Triggers(i) ==
  \/ sc.cap \in {"vidiff", "snapshots"}
  \/ sc.cap \in {"masscompile", "vi-analyzer", "sbom-generation"} /\ sc.plan[i].plat = "windows"

\* Run i becomes r; a build under way is cancelled when that triggers another.
Becomes(i, r) ==
  /\ runs' = [runs EXCEPT ![i] = r]
  /\ gen' = IF r.st = "completed" /\ Triggers(i) THEN Opened
            ELSE IF gen.pc = "idle" THEN gen
            ELSE [gen EXCEPT !.moved = @ \cup {i},
                               !.made = IF runs[i].st = "none" THEN @ \cup {i} ELSE @]

Create(i) ==
  /\ runs[i].st = "none" /\ \A j \in 1..(i - 1) : runs[j].st # "none"
  /\ \E st \in {"pending", "queued"} : Becomes(i, [runs[i] EXCEPT !.st = st, !.born = clock])
  /\ UNCHANGED <<sc, status, report, posts, history, clock, faults, page>>

Advance(i) ==
  /\ \/ runs[i].st = "pending" /\ Becomes(i, [runs[i] EXCEPT !.st = "queued"])
     \/ runs[i].st = "queued" /\ Becomes(i, [runs[i] EXCEPT !.st = "in_progress"])
  /\ UNCHANGED <<sc, status, report, posts, history, clock, faults, page>>

PostStatus(i, state) ==
  /\ posts' = posts + 1
  /\ status' = [status EXCEPT ![sc.plan[i].plat] =
                  [state |-> state, run |-> i, at |-> posts, born |-> clock]]

\* Early in the job: the pending status.
Mark(i) ==
  /\ runs[i].st = "in_progress" /\ runs[i].step = "start"
  /\ PostStatus(i, "pending") /\ Becomes(i, [runs[i] EXCEPT !.step = "marked"])
  /\ UNCHANGED <<sc, report, history, clock, faults, page>>

DeployReport(i) ==
  /\ runs[i].st = "in_progress" /\ runs[i].step = "marked"
  /\ \E r \in Payloads[sc.cap] : report' = [report EXCEPT ![sc.plan[i].plat] = r]
  /\ Becomes(i, [runs[i] EXCEPT !.step = "deployed"])
  /\ UNCHANGED <<sc, status, posts, history, clock, faults, page>>

\* The terminal status, posted whatever happened before it; a success has
\* its report.
Post(i) ==
  /\ runs[i].st = "in_progress" /\ runs[i].step \in {"marked", "deployed"}
  /\ \E ok \in BOOLEAN :
       /\ ok => runs[i].step = "deployed"
       /\ PostStatus(i, IF ok THEN "success" ELSE "failure")
       /\ Becomes(i, [runs[i] EXCEPT !.step = "posted", !.ok = ok])
  /\ UNCHANGED <<sc, report, history, clock, faults, page>>

End(i) ==
  /\ runs[i].st = "in_progress" /\ runs[i].step = "posted"
  /\ Becomes(i, [runs[i] EXCEPT !.st = "completed"])
  /\ UNCHANGED <<sc, status, report, posts, history, clock, faults, page>>

\* Cancelled, refused by the billing, timed out, or its runner lost.
Die(i) ==
  /\ runs[i].st \in ActiveSt /\ runs[i].step # "posted"
  /\ Becomes(i, [runs[i] EXCEPT !.st = "completed"])
  /\ UNCHANGED <<sc, status, report, posts, history, clock, faults, page>>

\* A commit of the CI bots: tooling, no project source.
Push ==
  /\ Len(history) < Len(sc.history) + sc.pushes
  /\ history' = <<[id |-> Len(history) + 1, project |-> FALSE]>> \o history
  /\ UNCHANGED <<ci, clock, faults, gen, page>>

Tick ==
  /\ clock < MaxClock /\ gen.pc = "idle" /\ clock' = clock + 1
  /\ UNCHANGED <<ci, history, faults, gen, page>>

-----------------------------------------------------------------------------
(* The build: one action per API call, or per page of calls. *)

\* gh_get: an answer, a permanent error, or an outage that survived its
\* retries and marks the API degraded.
Call(o) ==
  /\ o \in {"ok", "hard", "outage"}
  /\ o # "ok" => faults < sc.faults
  /\ faults' = IF o = "ok" THEN faults ELSE faults + 1

After(o) == [gen EXCEPT !.hit = @ \cup ({o} \ {"ok"}), !.degraded = @ \/ o = "outage"]

Start == /\ gen.pc = "idle" /\ gen' = Opened
         /\ UNCHANGED <<ci, history, clock, faults, page>>

\* Mutant of Refuse: a degraded build publishes what it has.
NeverRefuse(g) == g

\* A history known to be incomplete is not published.
Refuse(g) == IF g.degraded THEN Idle ELSE g

\* get_default_branch: on an error the branch is taken to be main.
ResolveBranch ==
  /\ gen.pc = "branch"
  /\ \E o \in {"ok", "hard", "outage"} :
       /\ Call(o)
       /\ gen' = Refuse([After(o) EXCEPT !.pc = IF o = "ok" \/ sc.main THEN "scan" ELSE "active",
                                         !.first = history])
  /\ UNCHANGED <<ci, history, clock, page>>

\* The scan ends with the window and enough project commits, or at the cap.
Enough(scanned, nproj) ==
  (scanned >= RecentWindow /\ nproj >= ProjectTarget) \/ scanned >= ScanCap

\* One page of commits, each classified by a call of its own; bad is the
\* commit whose call fails, 0 for none.
ScanPage ==
  /\ gen.pc = "scan"
  /\ \E o \in {"ok", "hard", "outage"}, listed \in BOOLEAN, bad \in 0..PageSize :
       LET from  == (gen.page - 1) * PageSize
           got   == IF listed THEN SubSeq(history, from + 1, Smaller(from + PageSize, Len(history)))
                    ELSE <<>>
           m     == Smaller(Len(got), ScanCap - gen.scanned)
           seen  == IF o = "outage" /\ listed THEN bad - 1 ELSE m
           read  == [k \in 1..seen |-> [got[k] EXCEPT !.project = @ /\ k # bad]]
           kept  == {k \in 1..seen : gen.scanned + k <= RecentWindow \/ read[k].project}
           count == gen.scanned + seen
           nproj == gen.nproj + Cardinality({k \in 1..seen : read[k].project})
       IN /\ Call(o)
          /\ (o = "ok") = (listed /\ bad = 0) /\ (bad > 0 => listed /\ bad <= m)
          /\ gen' = Refuse([After(o) EXCEPT
                      !.scanned = count, !.nproj = nproj, !.page = @ + 1,
                      !.rows = @ \cup {read[k] : k \in kept},
                      !.first = IF gen.page = 1 THEN history ELSE @,
                      !.pc = IF got = <<>> \/ o = "outage" \/ Enough(count, nproj)
                             THEN "active" ELSE "scan"])
  /\ UNCHANGED <<ci, history, clock, page>>

\* The states asked for, in the order of the queries.
Queries == <<"in_progress", "pending", "queued">>

\* The row a run belongs to: every row for a dispatched gallery, else the
\* one its title or its head names, if any.
Scope(i) ==
  IF sc.cap = "snapshots" /\ sc.plan[i].event # "push" THEN "star"
  ELSE IF sc.plan[i].event = "untitled" THEN "none"
  ELSE "row"

\* The runs of the first query that lists any stand for the cell.
QueryActive ==
  /\ gen.pc = "active"
  /\ \E o \in {"ok", "hard", "outage"} :
       LET found(s) == {i \in Ids : /\ o = "ok" /\ runs[i].st = Queries[gen.q] /\ Scope(i) = s}
           upd(old, s) == IF old = NoRun /\ found(s) # {} THEN [st |-> Queries[gen.q]] ELSE old
       IN /\ Call(o)
          /\ gen' = [After(o) EXCEPT !.active = upd(@, "row"), !.star = upd(@, "star"),
                                     !.q = @ + 1,
                                     !.pc = IF gen.q = Len(Queries) THEN "failed" ELSE @]
  /\ UNCHANGED <<ci, history, clock, page>>

\* The newest completed run of a cell counts, if it failed within a day.
QueryFailed ==
  /\ gen.pc = "failed"
  /\ \E o \in {"ok", "hard", "outage"} :
       LET over(s) == {i \in Ids : o = "ok" /\ runs[i].st = "completed" /\ Scope(i) = s}
           fell(s) == \E i \in over(s) : /\ \A j \in over(s) : j <= i
                                         /\ ~runs[i].ok /\ clock - runs[i].born < DeadAge
       IN /\ Call(o)
          /\ gen' = [After(o) EXCEPT !.dead = fell("row"), !.deadStar = fell("star"),
                                     !.pc = "statuses"]
  /\ UNCHANGED <<ci, history, clock, page>>

ReadStatuses ==
  /\ gen.pc = "statuses"
  /\ \E o \in {"ok", "hard", "outage"} :
       /\ Call(o)
       /\ gen' = [After(o) EXCEPT !.status = IF o = "ok" THEN status ELSE @, !.pc = "cell"]
  /\ UNCHANGED <<ci, history, clock, page>>

InTable == \E c \in gen.rows : c.id = Row.id

\* The cell: run_is_active asks for the run of a pending status, the report
\* comes from Pages, where any error reads as none.
RenderCell ==
  /\ gen.pc = "cell"
  /\ \E o \in {"ok", "hard", "outage"}, reached \in BOOLEAN :
       LET named == {gen.status[p].run : p \in {q \in Plat : gen.status[q].state = "pending"}}
           row == [project |-> Row \in gen.rows, cap |-> sc.cap,
                   status |-> gen.status,
                   alive |-> IF o = "ok" THEN named \cap LiveIn(runs) ELSE {},
                   active |-> gen.active, star |-> gen.star,
                   dead |-> gen.dead, deadStar |-> gen.deadStar,
                   report |-> IF reached THEN report ELSE [p \in Plat |-> NoReport],
                   now |-> clock]
       IN /\ Call(IF ~reached THEN "hard" ELSE o) /\ (~reached => o = "ok")
          /\ gen' = [After(IF ~reached THEN "hard" ELSE o) EXCEPT 
                      !.cell = CellOf(row), !.pc = "deploy", !.q = 1, !.status = Idle.status,
                      !.active = NoRun, !.star = NoRun, !.dead = FALSE, !.deadStar = FALSE]
  /\ UNCHANGED <<ci, history, clock, page>>

\* The page: fast refresh while something is live; the card that offers to
\* run the history when there is no result, nothing live and an arrow.
Made == [rows |-> gen.rows, cell |-> gen.cell, fast |-> Live(gen.cell),
         card |-> gen.cell.kind = "run"]

\* The deploy and its retry may both lose the race for the branch.
Deploy ==
  /\ gen.pc = "deploy" /\ gen' = Idle
  /\ \/ page' = Made /\ UNCHANGED faults
     \/ faults < sc.faults /\ faults' = faults + 1 /\ UNCHANGED page
  /\ UNCHANGED <<ci, history, clock>>

Build == ResolveBranch \/ ScanPage \/ QueryActive \/ QueryFailed \/ ReadStatuses
         \/ RenderCell \/ Deploy

Runs == \E i \in Ids : Create(i) \/ Advance(i) \/ Mark(i) \/ DeployReport(i) \/ Post(i)
                       \/ End(i) \/ Die(i)

Next == Runs \/ Push \/ Tick \/ Start \/ Build

\* GitHub ends every run, starts the build every hour and runs its steps.
Spec == Init /\ [][Next]_vars
        /\ WF_vars(Start) /\ WF_vars(Build)
        /\ WF_vars(\E i \in Ids : Advance(i) \/ Mark(i) \/ Post(i) \/ End(i))

-----------------------------------------------------------------------------
(* Properties.  They speak of the page about to be deployed. *)

Ready == gen.pc = "deploy"

Projects(h, n) == {k \in 1..Smaller(n, Len(h)) : h[k].project}

\* Commits pushed since the build listed its first page.  Each of them moves a
\* commit that was listed already to the next page.
PushedSince == Len(history) - Len(gen.first)

\* A page never loses history it could read: without a refused call, it has
\* every commit of the recent window and the newest project commits, however
\* deep the tooling commits pushed them and whatever was pushed while it read,
\* up to the target less the commits so listed twice (fetch_commits and the
\* refusal that follows it).  An outage is refused, so only the hard errors
\* are excepted.
HistoryKept ==
  Ready /\ "hard" \notin gen.hit =>
    LET h == gen.first
        due(k) == \/ k <= RecentWindow
                  \/ /\ h[k].project /\ k + PushedSince <= ScanCap
                     /\ Cardinality(Projects(h, k - 1)) + PushedSince < ProjectTarget
    IN \A k \in DOMAIN h : due(k) => \E c \in gen.rows : c.id = h[k].id

\* "Keep paging until this many project revisions are found", as the comment of
\* _PROJECT_TARGET has it: fewer are shown only when there are no more, or at
\* the cap.  fetch_commits counts a commit that a push moved to the next page
\* once more, and may stop short.
TargetFound ==
  Ready /\ gen.hit = {} /\ gen.scanned < ScanCap =>
    \/ Cardinality({c \in gen.rows : c.project}) >= ProjectTarget
    \/ \A k \in DOMAIN gen.first :
         gen.first[k].project => \E c \in gen.rows : c.id = gen.first[k].id

\* A run of the row that is active when the build starts and does nothing
\* until it ends is shown as live (fetch_active_runs, active_run_cell):
\* neither an older result nor the other platform hides it.
StableRunShown ==
  Ready /\ gen.hit = {} /\ InTable =>
    \A i \in LiveIn(runs) \ gen.moved : Scope(i) = "row" => Live(gen.cell)

\* A live badge is never left by a run that ended before the build began,
\* whatever calls failed: run_is_active checks every pending status.
NoGhostRun == Ready /\ Live(gen.cell) => LiveIn(runs) \cup gen.moved # {}

\* A run that died without a result stays visible: the cell of its revision
\* does not offer a fresh start while the death is less than a day old.
DeathShown ==
  Ready /\ gen.hit = {} /\ gen.moved = {} /\ LiveIn(runs) = {} /\ InTable =>
    \A i \in Ids :
      /\ runs[i].st = "completed" /\ ~runs[i].ok /\ Scope(i) = "row"
      /\ \A j \in Ids : runs[j].st # "none" => j <= i
      /\ clock - runs[i].born < DeadAge
      => gen.cell.kind # "run"

\* The activities whose cell is made from the deployed report.
Reported == {"masscompile", "vi-analyzer", "unit-tests", "builds"}

\* A result once deployed is not lost: with no run about, no later death,
\* status or age of the report turns its cell back into an arrow or hides it
\* behind a failure.
ResultKept ==
  Ready /\ gen.hit = {} /\ gen.moved = {} /\ LiveIn(runs) = {} /\ InTable
    /\ sc.cap \in Reported /\ (\E p \in Plat : report[p] # NoReport) =>
    gen.cell.kind \notin {"run", "failed"}

\* A run that is active from the start of the build to its end is shown as
\* live, as the comment of fetch_active_runs has it.
LiveRunShown ==
  Ready /\ gen.hit = {} /\ InTable =>
    \A i \in LiveIn(runs) \ gen.made : Scope(i) = "row" => Live(gen.cell)

\* The page does not spin for ever: once the runs are over, some page shows
\* it, and so does every later one.
SpinnersResolve == <>[](~page.fast)
=============================================================================
