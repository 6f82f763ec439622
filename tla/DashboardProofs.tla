--------------------------- MODULE DashboardProofs ---------------------------
(***************************************************************************)
(* What a page of the dashboard may be relied on for, for any scenarios,   *)
(* page sizes, targets and interleaving of the build's calls with runs and *)
(* pushes: no live badge without a run, no stable run, death or result     *)
(* hidden, and no history dropped.                                         *)
(***************************************************************************)
EXTENDS Dashboard, FiniteSetTheorems, SequenceTheorems, TLAPS

-----------------------------------------------------------------------------
(* The cells: what each decision of the row loop guarantees, whatever the  *)
(* activity and the rest of the row.                                       *)

LEMMA ActiveIsLive == ASSUME NEW row PROVE Live(ActiveRunCell(row))
BY DEF ActiveRunCell, Live, Cell

\* A project row with an active run of its own shows it, whatever the column.
LEMMA ActiveShown ==
  ASSUME NEW row, row.project, HasActive(row) PROVE Live(CellOf(row))
<1>1. Live(ActiveRunCell(row)) /\ Live(Cell("running"))
  BY ActiveIsLive DEF Live, Cell
<1>2. Live(MassCompileCell(row)) /\ Live(AnalyzerCell(row)) /\ Live(BuildsCell(row))
  BY <1>1 DEF MassCompileCell, AnalyzerCell, BuildsCell
<1>3. Live(DiffCell(row)) /\ Live(SnapshotCell(row)) /\ Live(UnitTestCell(row)) /\ Live(Badge(row))
  BY <1>1 DEF DiffCell, SnapshotCell, UnitTestCell, Badge
<1> QED
  BY <1>2, <1>3 DEF CellOf

\* The arrow and the mark of a dead run come from RunCell only.
LEMMA RunCells ==
  ASSUME NEW row
  PROVE  /\ RunCell(row).kind = "run" => ~row.dead /\ ~row.deadStar
         /\ Live(RunCell(row)) => row.active # NoRun \/ row.star # NoRun
BY DEF RunCell, Cell, Live

LEMMA ChipKind == ASSUME NEW kinds PROVE Chip(kinds).kind = "chip"
BY DEF Chip

\* Where a cell is live there is a reason: a checked status or a listed run.
LEMMA LiveHasReason ==
  ASSUME NEW row, Live(CellOf(row))
  PROVE  FreshPending(row) \/ row.active # NoRun \/ row.star # NoRun
<1> SUFFICES ASSUME ~FreshPending(row), ~HasActive(row), ~Live(RunCell(row)) PROVE FALSE
  BY RunCells DEF HasActive
<1>1. \A kinds : ~Live(Chip(kinds))
  BY DEF Chip, Live
<1>2. ~Live(Cell("dash"))
  BY DEF Cell, Live
<1>3. ~Live(Badge(row)) /\ ~Live(DiffCell(row)) /\ ~Live(SnapshotCell(row)) /\ ~Live(BuildsCell(row))
  BY <1>1, <1>2 DEF Badge, DiffCell, SnapshotCell, BuildsCell
<1>4. ~Live(MassCompileCell(row)) /\ ~Live(AnalyzerCell(row)) /\ ~Live(UnitTestCell(row))
  BY <1>1, <1>3 DEF MassCompileCell, AnalyzerCell, UnitTestCell
<1> QED
  BY <1>2, <1>3, <1>4 DEF CellOf

\* Where the arrow is offered, no run died.
LEMMA ArrowMeansNoDeath ==
  ASSUME NEW row, CellOf(row).kind = "run" PROVE ~row.dead /\ ~row.deadStar
<1> SUFFICES ASSUME RunCell(row).kind # "run" PROVE FALSE
  BY RunCells
<1>1. /\ \A kinds : Chip(kinds).kind # "run"
      /\ Cell("dash").kind # "run" /\ Cell("running").kind # "run"
      /\ ActiveRunCell(row).kind # "run"
  BY DEF Chip, Cell, ActiveRunCell
<1>2. /\ Badge(row).kind # "run" /\ DiffCell(row).kind # "run"
      /\ SnapshotCell(row).kind # "run" /\ BuildsCell(row).kind # "run"
  BY <1>1 DEF Badge, DiffCell, SnapshotCell, BuildsCell
<1>3. /\ MassCompileCell(row).kind # "run" /\ AnalyzerCell(row).kind # "run"
      /\ UnitTestCell(row).kind # "run"
  BY <1>1, <1>2 DEF MassCompileCell, AnalyzerCell, UnitTestCell
<1> QED
  BY <1>1, <1>2, <1>3 DEF CellOf

\* A deployed report is shown, or the run that will replace it.
LEMMA ReportShown ==
  ASSUME NEW row, row.cap \in Reported, Present(row) # {}
  PROVE  CellOf(row).kind \notin {"run", "failed"}
<1>1. /\ \A kinds : Chip(kinds).kind \notin {"run", "failed"}
      /\ Cell("dash").kind \notin {"run", "failed"} /\ Cell("running").kind \notin {"run", "failed"}
      /\ ActiveRunCell(row).kind \notin {"run", "failed"}
  BY DEF Chip, Cell, ActiveRunCell
<1>2. /\ MassCompileCell(row).kind \notin {"run", "failed"}
      /\ AnalyzerCell(row).kind \notin {"run", "failed"}
      /\ UnitTestCell(row).kind \notin {"run", "failed"}
      /\ BuildsCell(row).kind \notin {"run", "failed"}
  BY <1>1 DEF MassCompileCell, AnalyzerCell, UnitTestCell, BuildsCell
<1> QED
  BY <1>1, <1>2 DEF CellOf, Reported

-----------------------------------------------------------------------------
(***************************************************************************)
(* The inductive invariant.  A build that is not idle has, at each step of *)
(* its program, what it asked for so far; what it found stays true of the  *)
(* runs that have not moved since it started, which is what gen.moved      *)
(* records.                                                                *)
(***************************************************************************)
Fields == {"pc", "page", "scanned", "nproj", "rows", "degraded", "q", "active", "star", "dead",
           "deadStar", "status", "cell", "hit", "first", "moved", "made"}

\* A step of the build leaves the fields other than F as they are.
Only(F) == DOMAIN gen' = Fields /\ \A f \in Fields \ F : gen'[f] = gen[f]

\* Run i has moved under the build.
Moved(i) ==
  gen.pc # "idle" /\ Only({"moved", "made"}) /\ gen'.moved = gen.moved \cup {i}

BuildOK ==
  /\ DOMAIN gen = Fields
  /\ gen.pc \in {"idle", "branch", "scan", "active", "failed", "statuses", "cell", "deploy"}
  /\ gen.pc = "idle" => gen = Idle
  /\ gen.pc \in {"branch", "scan"} => gen.q = 1
  /\ gen.pc = "active" => gen.q \in 1..3
  /\ gen.pc = "branch" => gen.page = 1 /\ gen.scanned = 0 /\ gen.nproj = 0 /\ gen.rows = {}
  /\ gen.page \in Nat \ {0} /\ gen.scanned \in 0..ScanCap /\ gen.nproj \in Nat

RunsOK == DOMAIN runs = Ids

\* The history: numbered commits, the row's among them.
HistoryOK ==
  /\ sc \in Scenarios /\ history \in Seq(Commit)
  /\ \A k \in DOMAIN history : history[k].id = Len(history) + 1 - k
  /\ \E k \in DOMAIN history : history[k] = Row

\* Without a failed call, the table has commits as they are.
RowsRead == gen.hit = {} => \A c \in gen.rows : \E k \in DOMAIN history : c = history[k]

\* Whatever makes a cell live was a run, which is active or has moved.
GhostInv ==
  gen.active # NoRun \/ gen.star # NoRun \/ Live(gen.cell) => LiveIn(runs) \cup gen.moved # {}

\* The active runs of the row that have not moved since the build started.
Steady == {i \in LiveIn(runs) \ gen.moved : Scope(i) = "row"}

StableInv ==
  gen.hit = {} =>
    /\ gen.pc = "active" =>
         ((\E i \in Steady : \E k \in 1..(gen.q - 1) : Queries[k] = runs[i].st) => gen.active # NoRun)
    /\ gen.pc \in {"failed", "statuses", "cell"} => (Steady # {} => gen.active # NoRun)
    /\ gen.pc = "deploy" /\ InTable => (Steady # {} => Live(gen.cell))

\* A run of the row, the newest of all, that died within the day.
Died(i) ==
  /\ i \in Ids /\ runs[i].st = "completed" /\ ~runs[i].ok /\ Scope(i) = "row"
  /\ \A j \in Ids : runs[j].st # "none" => j <= i
  /\ clock - runs[i].born < DeadAge

DeathInv ==
  gen.hit = {} /\ gen.moved = {} /\ (\E i \in Ids : Died(i)) =>
    /\ gen.pc \in {"statuses", "cell"} => gen.dead
    /\ gen.pc = "deploy" => gen.cell.kind # "run"

ResultInv ==
  gen.hit = {} /\ gen.moved = {} /\ gen.pc = "deploy" /\ sc.cap \in Reported
    /\ (\E p \in Plat : report[p] # NoReport) => gen.cell.kind \notin {"run", "failed"}

PageInv == BuildOK /\ RunsOK /\ HistoryOK /\ RowsRead /\ GhostInv /\ StableInv /\ DeathInv /\ ResultInv

-----------------------------------------------------------------------------
(* Each kind of step, field by field. *)

LEMMA IdleFields == DOMAIN Idle = Fields /\ DOMAIN Opened = Fields
BY DEF Idle, Opened, Fields

\* A build that starts, or is stopped, has found nothing.
LEMMA Fresh ==
  /\ \A g \in {Idle, Opened} :
       /\ g.q = 1 /\ g.rows = {} /\ g.hit = {} /\ g.moved = {} /\ g.active = NoRun /\ g.star = NoRun
       /\ ~Live(g.cell) /\ g.page = 1 /\ g.scanned = 0 /\ g.nproj = 0 /\ g.degraded = FALSE
  /\ Idle.pc = "idle" /\ Opened.pc = "branch"
BY DEF Idle, Opened, Live, Cell

\* A run moves: the build is idle, or starts again, or has the run on record.
LEMMA RunMoves ==
  ASSUME BuildOK, Runs
  PROVE  /\ UNCHANGED <<sc, history, clock, faults, page>>
         /\ \E i \in Ids :
              /\ \E r : runs' = [runs EXCEPT ![i] = r]
              /\ \/ gen' = Opened
                 \/ gen.pc = "idle" /\ gen' = gen
                 \/ Moved(i)
<1>1. ASSUME NEW i \in Ids, NEW r, Becomes(i, r)
      PROVE  /\ runs' = [runs EXCEPT ![i] = r]
             /\ \/ gen' = Opened
                \/ gen.pc = "idle" /\ gen' = gen
                \/ Moved(i)
  <2>1. ASSUME gen.pc # "idle", NEW M, gen' = [gen EXCEPT !.moved = @ \cup {i}, !.made = M]
        PROVE  Moved(i)
    BY <2>1 DEF Moved, Only, BuildOK, Fields
  <2> QED  BY <1>1, <2>1 DEF Becomes
<1>2. PICK i \in Ids : Create(i) \/ Advance(i) \/ Mark(i) \/ DeployReport(i) \/ Post(i) \/ End(i) \/ Die(i)
  BY DEF Runs
<1>3. \E r : Becomes(i, r)
  BY <1>2 DEF Create, Advance, Mark, DeployReport, Post, End, Die
<1>4. UNCHANGED <<sc, history, clock, faults, page>>
  BY <1>2 DEF Create, Advance, Mark, DeployReport, Post, End, Die
<1> QED
  BY <1>1, <1>3, <1>4

\* The build is idle or has just started: nothing is claimed of it.
LEMMA FreshHolds ==
  ASSUME gen' \in {Idle, Opened}, RunsOK', HistoryOK'
  PROVE  PageInv'
<1>1. DOMAIN gen' = Fields /\ gen'.pc \in {"idle", "branch"}
  BY IdleFields, Fresh
<1>2. BuildOK'
  BY <1>1, Fresh, BoundsAssumption DEF BuildOK
<1>3. RowsRead' /\ GhostInv'
  BY Fresh DEF RowsRead, GhostInv
<1>4. StableInv' /\ DeathInv' /\ ResultInv'
  BY <1>1 DEF StableInv, DeathInv, ResultInv
<1> QED
  BY <1>2, <1>3, <1>4 DEF PageInv

\* Runs move under the build.
LEMMA RunsStep == ASSUME PageInv, Runs PROVE PageInv'
<1>1. BuildOK
  BY DEF PageInv
<1>2. PICK i \in Ids :
        /\ \E r : runs' = [runs EXCEPT ![i] = r]
        /\ \/ gen' = Opened
           \/ gen.pc = "idle" /\ gen' = gen
           \/ Moved(i)
  BY <1>1, RunMoves
<1>3. UNCHANGED <<sc, history, clock>>
  BY <1>1, RunMoves
<1>4. RunsOK' /\ HistoryOK'
  BY <1>2, <1>3 DEF PageInv, RunsOK, HistoryOK, Row, Ids
<1>5. CASE gen' \in {Idle, Opened}
  BY <1>4, <1>5, FreshHolds
<1>6. CASE Moved(i)
  <2>1. /\ DOMAIN gen' = Fields
        /\ gen'.pc = gen.pc /\ gen'.q = gen.q /\ gen'.rows = gen.rows /\ gen'.hit = gen.hit
        /\ gen'.active = gen.active /\ gen'.star = gen.star /\ gen'.cell = gen.cell
    BY <1>6 DEF Moved, Only, Fields
  <2>2. gen'.page = gen.page /\ gen'.scanned = gen.scanned /\ gen'.nproj = gen.nproj
    BY <1>6 DEF Moved, Only, Fields
  <2>3. i \in gen'.moved /\ gen.pc # "idle"
    BY <1>6 DEF Moved
  <2>4. Steady' \subseteq Steady /\ \A j \in Steady' : runs'[j] = runs[j]
    <3>1. ASSUME NEW j \in Steady' PROVE j \in Steady /\ runs'[j] = runs[j]
      <4>1. j \in LiveIn(runs') /\ j \notin gen'.moved /\ Scope(j) = "row"
        BY <1>3 DEF Steady, Scope
      <4>2. j # i /\ j \in DOMAIN runs' /\ runs'[j].st \in ActiveSt
        BY <2>3, <4>1 DEF LiveIn
      <4>3. j \in DOMAIN runs /\ runs'[j] = runs[j]
        BY <1>2, <4>2
      <4> QED  BY <1>6, <4>1, <4>2, <4>3 DEF Moved, Steady, LiveIn
    <3> QED  BY <3>1
  <2>5. BuildOK'
    BY <1>1, <2>1, <2>3, <2>2 DEF BuildOK
  <2>6. RowsRead'
    BY <1>3, <2>1 DEF PageInv, RowsRead
  <2>7. GhostInv'
    BY <2>3 DEF GhostInv
  <2>8. InTable' = InTable
    BY <1>3, <2>1 DEF InTable, Row
  <2>9. StableInv'
    BY <2>1, <2>4, <2>8 DEF PageInv, StableInv
  <2>10. DeathInv' /\ ResultInv'
    BY <2>3 DEF DeathInv, ResultInv
  <2> QED
    BY <1>4, <2>5, <2>6, <2>7, <2>9, <2>10 DEF PageInv
<1> QED
  BY <1>1, <1>2, <1>5, <1>6 DEF BuildOK

\* A commit is pushed: those listed before are still in the history.
LEMMA PushStep == ASSUME PageInv, Push PROVE PageInv'
<1>1. /\ history' = <<[id |-> Len(history) + 1, project |-> FALSE]>> \o history
      /\ UNCHANGED <<sc, runs, report, clock, gen>>
  BY DEF Push, ci
<1>2. HistoryOK'
  <2> DEFINE c == [id |-> Len(history) + 1, project |-> FALSE]
  <2>1. history \in Seq(Commit) /\ Len(history) \in Nat /\ c \in Commit
    BY DEF PageInv, HistoryOK, Commit
  <2>2. /\ history' \in Seq(Commit) /\ Len(history') = Len(history) + 1
        /\ \A k \in 1..Len(history') : history'[k] = IF k = 1 THEN c ELSE history[k - 1]
    <3> DEFINE one == <<c>>
    <3>1. one \in Seq(Commit) /\ Len(one) = 1 /\ one[1] = c
      BY <2>1
    <3> HIDE DEF one
    <3>2. /\ one \o history \in Seq(Commit) /\ Len(one \o history) = Len(one) + Len(history)
          /\ \A k \in 1..Len(one) + Len(history) : (one \o history)[k] =
               IF k <= Len(one) THEN one[k] ELSE history[k - Len(one)]
      BY <2>1, <3>1, ConcatProperties
    <3>3. history' = one \o history
      BY <1>1 DEF one
    <3>4. history' \in Seq(Commit) /\ Len(history') = Len(history) + 1
      BY <2>1, <3>1, <3>2, <3>3
    <3>5. ASSUME NEW k \in 1..Len(history')
          PROVE  history'[k] = IF k = 1 THEN c ELSE history[k - 1]
      <4>1. k \in 1..Len(one) + Len(history) /\ (k <= Len(one) <=> k = 1)
        BY <2>1, <3>1, <3>4
      <4> QED  BY <3>1, <3>2, <3>3, <4>1
    <3> QED  BY <3>4, <3>5
  <2>3. \A k \in DOMAIN history' : history'[k].id = Len(history') + 1 - k
    <3> SUFFICES ASSUME NEW k \in 1..Len(history') PROVE history'[k].id = Len(history') + 1 - k
      BY <2>2
    <3>1. CASE k = 1
      BY <2>1, <2>2, <3>1
    <3>2. CASE k # 1
      <4>1. k - 1 \in DOMAIN history
        BY <2>1, <2>2, <3>2
      <4>2. history[k - 1].id = Len(history) + 1 - (k - 1)
        BY <4>1 DEF PageInv, HistoryOK
      <4> QED  BY <2>1, <2>2, <3>2, <4>2
    <3> QED  BY <3>1, <3>2
  <2>4. \E k \in DOMAIN history' : history'[k] = Row'
    <3>1. PICK k \in DOMAIN history : history[k] = Row
      BY DEF PageInv, HistoryOK
    <3>2. k + 1 \in 1..Len(history') /\ history'[k + 1] = history[k]
      BY <2>1, <2>2, <3>1
    <3>3. Row' = Row
      BY <1>1 DEF Row
    <3> QED  BY <2>2, <3>1, <3>2, <3>3
  <2> QED  BY <1>1, <2>2, <2>3, <2>4 DEF PageInv, HistoryOK
<1>3. RowsRead'
  <2>1. ASSUME NEW k \in DOMAIN history PROVE \E j \in DOMAIN history' : history'[j] = history[k]
    <3>1. history \in Seq(Commit) /\ history' \in Seq(Commit) /\ Len(history) \in Nat
      BY <1>2 DEF PageInv, HistoryOK
    <3>2. k + 1 \in DOMAIN history' /\ history'[k + 1] = history[k]
      BY <1>1, <3>1
    <3> QED  BY <3>2
  <2> QED  BY <1>1, <2>1 DEF PageInv, RowsRead
<1>4. BuildOK' /\ RunsOK' /\ GhostInv' /\ ResultInv'
  BY <1>1 DEF PageInv, BuildOK, RunsOK, GhostInv, ResultInv, Ids
<1>5. StableInv'
  BY <1>1 DEF PageInv, StableInv, Steady, Scope, InTable, Row
<1>6. DeathInv'
  BY <1>1 DEF PageInv, DeathInv, Died, Scope, Ids
<1> QED
  BY <1>2, <1>3, <1>4, <1>5, <1>6 DEF PageInv

\* The clock moves between builds only.
LEMMA TickStep == ASSUME PageInv, Tick PROVE PageInv'
<1>1. gen' = gen /\ gen = Idle /\ UNCHANGED <<sc, runs, history>>
  BY DEF Tick, ci, PageInv, BuildOK
<1>2. RunsOK' /\ HistoryOK'
  BY <1>1 DEF PageInv, RunsOK, HistoryOK, Ids, Row
<1> QED
  BY <1>1, <1>2, FreshHolds

\* What every call of the build leaves alone.
LEMMA BuildKeeps ==
  ASSUME PageInv, Start \/ Build
  PROVE  /\ UNCHANGED <<sc, runs, status, report, history, clock>>
         /\ RunsOK' /\ HistoryOK'
<1>1. UNCHANGED <<sc, runs, status, report, history, clock>>
  BY DEF Start, Build, ResolveBranch, ScanPage, QueryActive, QueryFailed, ReadStatuses, RenderCell,
         Deploy, ci
<1> QED
  BY <1>1 DEF PageInv, RunsOK, HistoryOK, Ids, Row

LEMMA IdleStep == ASSUME PageInv, Start \/ Deploy PROVE PageInv'
<1>1. gen' \in {Idle, Opened}
  BY DEF Start, Deploy
<1> QED
  BY <1>1, BuildKeeps, FreshHolds DEF Build

\* gh_get marks what it met.
LEMMA AfterCall ==
  ASSUME BuildOK, NEW o, Call(o)
  PROVE  /\ DOMAIN After(o) = Fields
         /\ \A f \in Fields \ {"hit", "degraded"} : After(o)[f] = gen[f]
         /\ After(o).hit = IF o = "ok" THEN gen.hit ELSE gen.hit \cup {o}
         /\ After(o).degraded = (gen.degraded \/ o = "outage")
<1>1. DOMAIN gen = Fields
  BY DEF BuildOK
<1> QED
  BY <1>1 DEF After, Fields

LEMMA BranchStep == ASSUME PageInv, ResolveBranch PROVE PageInv'
<1> USE DEF PageInv
<1>1. PICK o \in {"ok", "hard", "outage"} :
        /\ Call(o)
        /\ gen' = Refuse([After(o) EXCEPT !.pc = IF o = "ok" \/ sc.main THEN "scan" ELSE "active",
                                          !.first = history])
  BY DEF ResolveBranch
<1>2. RunsOK' /\ HistoryOK' /\ UNCHANGED <<runs, sc, history>>
  BY BuildKeeps DEF Build
<1>3. CASE gen' = Idle
  BY <1>2, <1>3, FreshHolds
<1>4. CASE gen' # Idle
  <2> DEFINE pc == IF o = "ok" \/ sc.main THEN "scan" ELSE "active"
  <2>1. gen' = [After(o) EXCEPT !.pc = pc, !.first = history]
    BY <1>1, <1>4 DEF Refuse
  <2>2. /\ DOMAIN After(o) = Fields
        /\ \A f \in Fields \ {"hit", "degraded"} : After(o)[f] = gen[f]
    BY <1>1, AfterCall
  <2>3. Only({"pc", "first", "hit", "degraded"}) /\ gen'.pc \in {"scan", "active"}
    BY <2>1, <2>2 DEF Only, Fields
  <2>4. gen.q = 1 /\ gen.page = 1 /\ gen.scanned = 0 /\ gen.nproj = 0 /\ gen.rows = {}
    BY DEF BuildOK, ResolveBranch
  <2>5. /\ DOMAIN gen' = Fields /\ gen'.pc \in {"scan", "active"}
        /\ gen'.q = 1 /\ gen'.rows = {} /\ gen'.page = 1 /\ gen'.scanned = 0 /\ gen'.nproj = 0
        /\ gen'.active = gen.active /\ gen'.star = gen.star /\ gen'.cell = gen.cell
        /\ gen'.moved = gen.moved
    BY <2>3, <2>4 DEF Only, Fields
  <2>6. BuildOK'
    BY <2>5, BoundsAssumption DEF BuildOK
  <2>7. GhostInv'
    BY <1>2, <2>5 DEF GhostInv
  <2>8. StableInv'
    <3>1. 1..(gen'.q - 1) = {}
      BY <2>5
    <3> QED  BY <2>5, <3>1 DEF StableInv
  <2>9. RowsRead' /\ DeathInv' /\ ResultInv'
    BY <2>5 DEF RowsRead, DeathInv, ResultInv
  <2> QED  BY <1>2, <2>6, <2>7, <2>8, <2>9
<1> QED  BY <1>3, <1>4

-----------------------------------------------------------------------------
(* The scan of the history. *)

\* The page of commits that the build asks for next, and how much of it counts.
From  == (gen.page - 1) * PageSize
Got   == SubSeq(history, From + 1, Smaller(From + PageSize, Len(history)))
Taken == Smaller(Len(Got), ScanCap - gen.scanned)

LEMMA GotIs ==
  ASSUME BuildOK, HistoryOK
  PROVE  /\ From \in Nat /\ Got \in Seq(Commit) /\ Len(Got) \in Nat
         /\ Len(Got) = IF Len(history) <= From THEN 0
                       ELSE IF Len(history) <= From + PageSize THEN Len(history) - From ELSE PageSize
         /\ \A k \in 1..Len(Got) : From + k \in DOMAIN history /\ Got[k] = history[From + k]
         /\ Taken \in 0..Len(Got) /\ gen.scanned + Taken <= ScanCap
         /\ Taken = Len(Got) \/ gen.scanned + Taken = ScanCap
<1> DEFINE n == Smaller(From + PageSize, Len(history))
<1>1. From \in Nat /\ PageSize \in Nat /\ ScanCap \in Nat /\ Len(history) \in Nat /\ history \in Seq(Commit)
  <2>1. gen.page - 1 \in Nat /\ PageSize \in Nat /\ ScanCap \in Nat
    BY BoundsAssumption DEF BuildOK
  <2>2. \A a, b \in Nat : a * b \in Nat
    OBVIOUS
  <2> QED  BY <2>1, <2>2 DEF From, HistoryOK
<1>2. n = IF Len(history) <= From + PageSize THEN Len(history) ELSE From + PageSize
  BY <1>1 DEF Smaller
<1>3. n \in Nat /\ n <= Len(history)
  BY <1>1, <1>2
<1>4. /\ Got \in Seq(Commit)
      /\ Len(Got) = IF From + 1 <= n THEN n - (From + 1) + 1 ELSE 0
      /\ \A k \in 1..n - (From + 1) + 1 : Got[k] = history[From + 1 + k - 1]
  BY <1>1, <1>3, SubSeqProperties DEF Got
<1>5. Len(Got) = IF Len(history) <= From THEN 0
                 ELSE IF Len(history) <= From + PageSize THEN Len(history) - From ELSE PageSize
  BY <1>1, <1>2, <1>4
<1>6. ASSUME NEW k \in 1..Len(Got) PROVE From + k \in DOMAIN history /\ Got[k] = history[From + k]
  BY <1>1, <1>2, <1>4
<1>7. /\ Taken \in 0..Len(Got) /\ gen.scanned + Taken <= ScanCap
      /\ Taken = Len(Got) \/ gen.scanned + Taken = ScanCap
  <2>1. gen.scanned \in Nat /\ gen.scanned <= ScanCap /\ Len(Got) \in Nat
    BY <1>1, <1>5 DEF BuildOK
  <2> QED  BY <1>1, <2>1 DEF Taken, Smaller
<1>8. From \in Nat /\ Got \in Seq(Commit) /\ Len(Got) \in Nat
  BY <1>1, <1>4
<1>9. \A k \in 1..Len(Got) : From + k \in DOMAIN history /\ Got[k] = history[From + k]
  BY <1>6
<1> QED
  BY <1>5, <1>7, <1>8, <1>9

\* The commits of the page that the table keeps.
Kept == {k \in 1..Taken : gen.scanned + k <= RecentWindow \/ Got[k].project}

\* A page that was listed and classified without a failure.
PageRead ==
  /\ gen'.scanned = gen.scanned + Taken /\ gen'.page = gen.page + 1
  /\ gen'.nproj = gen.nproj + Cardinality({k \in 1..Taken : Got[k].project})
  /\ gen'.rows = gen.rows \cup {Got[k] : k \in Kept}
  /\ gen'.pc = IF Got = <<>> \/ Enough(gen'.scanned, gen'.nproj) THEN "active" ELSE "scan"

\* One page of the history: it is refused after an outage; without a failure
\* what it adds are commits of the history.
LEMMA PageEffect ==
  ASSUME BuildOK, HistoryOK, ScanPage, gen' # Idle
  PROVE  /\ Only({"pc", "scanned", "nproj", "page", "rows", "first", "hit", "degraded"})
         /\ gen'.pc \in {"scan", "active"} /\ gen.hit \subseteq gen'.hit
         /\ gen'.page = gen.page + 1
         /\ gen'.first = IF gen.page = 1 THEN history ELSE gen.first
         /\ gen'.scanned \in 0..ScanCap /\ gen'.nproj \in Nat
         /\ "hard" \in gen'.hit \/ PageRead
<1>1. PICK o \in {"ok", "hard", "outage"}, listed \in BOOLEAN, bad \in 0..PageSize :
       LET got   == IF listed THEN Got ELSE <<>>
           m     == Smaller(Len(got), ScanCap - gen.scanned)
           seen  == IF o = "outage" /\ listed THEN bad - 1 ELSE m
           read  == [k \in 1..seen |-> [got[k] EXCEPT !.project = @ /\ k # bad]]
           kept  == {k \in 1..seen : gen.scanned + k <= RecentWindow \/ read[k].project}
           count == gen.scanned + seen
           nproj == gen.nproj + Cardinality({k \in 1..seen : read[k].project})
       IN /\ Call(o)
          /\ (o = "ok") = (listed /\ bad = 0) /\ (bad > 0 => listed /\ bad <= m)
          /\ gen' = Refuse([After(o) EXCEPT
                      !.scanned = count, !.nproj = nproj, !.page = @ + 1,
                      !.rows = @ \cup {read[k] : k \in kept},
                      !.first = IF gen.page = 1 THEN history ELSE @,
                      !.pc = IF got = <<>> \/ o = "outage" \/ Enough(count, nproj)
                             THEN "active" ELSE "scan"])
  BY DEF ScanPage, Got, From
<1> DEFINE got   == IF listed THEN Got ELSE <<>>
           m     == Smaller(Len(got), ScanCap - gen.scanned)
           seen  == IF o = "outage" /\ listed THEN bad - 1 ELSE m
           read  == [k \in 1..seen |-> [got[k] EXCEPT !.project = @ /\ k # bad]]
           kept  == {k \in 1..seen : gen.scanned + k <= RecentWindow \/ read[k].project}
           count == gen.scanned + seen
           nproj == gen.nproj + Cardinality({k \in 1..seen : read[k].project})
           rows  == gen.rows \cup {read[k] : k \in kept}
           pc    == IF got = <<>> \/ o = "outage" \/ Enough(count, nproj) THEN "active" ELSE "scan"
           first == IF gen.page = 1 THEN history ELSE gen.first
<1>2. /\ DOMAIN After(o) = Fields
      /\ \A f \in Fields \ {"hit", "degraded"} : After(o)[f] = gen[f]
      /\ After(o).hit = IF o = "ok" THEN gen.hit ELSE gen.hit \cup {o}
      /\ After(o).degraded = (gen.degraded \/ o = "outage")
  BY <1>1, AfterCall
<1>3. gen' = Refuse([After(o) EXCEPT !.scanned = count, !.nproj = nproj, !.page = gen.page + 1,
                                     !.rows = rows, !.first = first, !.pc = pc])
  <2>1. After(o).page = gen.page /\ After(o).rows = gen.rows /\ After(o).first = gen.first
    BY <1>2 DEF Fields
  <2> QED  BY <1>1, <2>1
<1> HIDE DEF count, nproj, rows, first, pc
<1>4. /\ gen' = [After(o) EXCEPT !.scanned = count, !.nproj = nproj, !.page = gen.page + 1,
                                 !.rows = rows, !.first = first, !.pc = pc]
      /\ ~After(o).degraded
  BY <1>2, <1>3 DEF Refuse, Fields
<1>5. o # "outage"
  BY <1>2, <1>4
<1>6. /\ Only({"pc", "scanned", "nproj", "page", "rows", "first", "hit", "degraded"})
      /\ gen'.scanned = count /\ gen'.nproj = nproj /\ gen'.page = gen.page + 1
      /\ gen'.rows = rows /\ gen'.first = first /\ gen'.pc = pc /\ gen'.hit = After(o).hit
  BY <1>2, <1>4 DEF Only, Fields
<1>7. gen'.pc \in {"scan", "active"} /\ gen.hit \subseteq gen'.hit
  BY <1>2, <1>6 DEF pc
<1>8. gen.scanned \in 0..ScanCap /\ ScanCap \in Nat /\ gen.nproj \in Nat
  BY BoundsAssumption DEF BuildOK
<1>9. seen = m /\ m \in 0..Len(got) /\ gen.scanned + m <= ScanCap
  <2>1. Len(got) \in Nat
    BY GotIs
  <2> QED  BY <1>5, <1>8, <2>1 DEF Smaller
<1>10. gen'.scanned \in 0..ScanCap
  BY <1>6, <1>8, <1>9, GotIs DEF count
<1>11. gen'.nproj \in Nat
  <2>1. seen \in Int
    BY <1>9, GotIs
  <2>2. IsFiniteSet(1..seen)
    BY <2>1, FS_Interval
  <2>3. Cardinality({k \in 1..seen : read[k].project}) \in Nat
    BY <2>2, FS_Subset, FS_CardinalityType
  <2> QED  BY <1>6, <1>8, <2>3 DEF nproj
<1>12. ASSUME "hard" \notin gen'.hit PROVE PageRead
  <2>1. o = "ok" /\ listed /\ bad = 0
    BY <1>1, <1>2, <1>5, <1>6, <1>12
  <2>2. got = Got /\ m = Taken /\ seen = Taken
    BY <1>9, <2>1 DEF Taken
  <2>3. \A k \in 1..Taken : read[k] = Got[k]
    <3> SUFFICES ASSUME NEW k \in 1..Taken PROVE read[k] = Got[k]
      OBVIOUS
    <3>1. Got[k] \in Commit
      BY GotIs
    <3>2. k # bad
      BY <2>1
    <3>3. read[k] = [Got[k] EXCEPT !.project = @ /\ k # bad]
      BY <2>2
    <3> QED  BY <3>1, <3>2, <3>3 DEF Commit
  <2>4. kept = Kept /\ {k \in 1..seen : read[k].project} = {k \in 1..Taken : Got[k].project}
    BY <2>2, <2>3 DEF Kept
  <2>5. {read[k] : k \in kept} = {Got[k] : k \in Kept}
    <3>1. \A k \in Kept : k \in 1..Taken
      BY DEF Kept
    <3>2. \A k \in Kept : read[k] = Got[k]
      BY <2>3, <3>1
    <3>3. kept = Kept
      BY <2>4
    <3> HIDE DEF read, kept
    <3> QED  BY <3>2, <3>3
  <2> QED
    BY <1>5, <1>6, <2>2, <2>4, <2>5 DEF PageRead, count, nproj, rows, pc
<1> QED
  BY <1>6, <1>7, <1>10, <1>11, <1>12 DEF first

LEMMA ScanStep == ASSUME PageInv, ScanPage PROVE PageInv'
<1>1. BuildOK /\ HistoryOK /\ gen.pc = "scan"
  BY DEF PageInv, ScanPage
<1>2. RunsOK' /\ HistoryOK' /\ UNCHANGED <<runs, sc, history>>
  BY BuildKeeps DEF Build
<1>3. CASE gen' = Idle
  BY <1>2, <1>3, FreshHolds
<1>4. CASE gen' # Idle
  <2>1. Only({"pc", "scanned", "nproj", "page", "rows", "first", "hit", "degraded"})
    BY <1>1, <1>4, PageEffect
  <2>2. /\ gen'.pc \in {"scan", "active"} /\ gen.hit \subseteq gen'.hit
        /\ gen'.page = gen.page + 1 /\ gen'.scanned \in 0..ScanCap /\ gen'.nproj \in Nat
        /\ "hard" \in gen'.hit \/ PageRead
    BY <1>1, <1>4, PageEffect
  <2>3. /\ DOMAIN gen' = Fields /\ gen'.q = 1
        /\ gen'.active = gen.active /\ gen'.star = gen.star /\ gen'.cell = gen.cell
        /\ gen'.moved = gen.moved
    BY <1>1, <2>1 DEF Only, Fields, BuildOK
  <2>4. BuildOK'
    BY <1>1, <2>2, <2>3 DEF BuildOK
  <2>5. GhostInv'
    BY <1>2, <2>3 DEF PageInv, GhostInv
  <2>6. StableInv'
    <3>1. 1..(gen'.q - 1) = {}
      BY <2>3
    <3> QED  BY <2>2, <3>1 DEF StableInv
  <2>7. RowsRead'
    <3> SUFFICES ASSUME gen'.hit = {}, NEW c \in gen'.rows
                 PROVE  \E k \in DOMAIN history : c = history[k]
      BY <1>2 DEF RowsRead
    <3>1. CASE c \in gen.rows
      BY <2>2, <3>1 DEF PageInv, RowsRead
    <3>2. CASE c \notin gen.rows
      <4>1. PICK k \in Kept : c = Got[k]
        BY <2>2, <3>2 DEF PageRead
      <4>2. k \in 1..Taken
        BY <4>1 DEF Kept
      <4>3. k \in 1..Len(Got)
        BY <1>1, <4>2, GotIs
      <4> QED  BY <1>1, <4>1, <4>3, GotIs
    <3> QED  BY <3>1, <3>2
  <2>8. DeathInv' /\ ResultInv'
    BY <2>2 DEF DeathInv, ResultInv
  <2> QED  BY <1>2, <2>4, <2>5, <2>6, <2>7, <2>8 DEF PageInv
<1> QED  BY <1>3, <1>4

-----------------------------------------------------------------------------
(* The queries. *)

LEMMA ActiveStates ==
  /\ \A k \in 1..3 : Queries[k] \in ActiveSt
  /\ \A st \in ActiveSt : \E k \in 1..3 : Queries[k] = st
  /\ Len(Queries) = 3
BY DEF Queries, ActiveSt

LEMMA ActiveStep == ASSUME PageInv, QueryActive PROVE PageInv'
<1>1. PICK o \in {"ok", "hard", "outage"} :
       LET found(s) == {i \in Ids : /\ o = "ok" /\ runs[i].st = Queries[gen.q] /\ Scope(i) = s}
           upd(old, s) == IF old = NoRun /\ found(s) # {} THEN [st |-> Queries[gen.q]] ELSE old
       IN /\ Call(o)
          /\ gen' = [After(o) EXCEPT !.active = upd(@, "row"), !.star = upd(@, "star"),
                                     !.q = @ + 1,
                                     !.pc = IF gen.q = Len(Queries) THEN "failed" ELSE @]
  BY DEF QueryActive
<1> DEFINE found(s) == {i \in Ids : /\ o = "ok" /\ runs[i].st = Queries[gen.q] /\ Scope(i) = s}
           upd(old, s) == IF old = NoRun /\ found(s) # {} THEN [st |-> Queries[gen.q]] ELSE old
           active == upd(gen.active, "row")
           star == upd(gen.star, "star")
           pc == IF gen.q = 3 THEN "failed" ELSE "active"
<1>2. BuildOK /\ gen.pc = "active" /\ gen.q \in 1..3
  BY DEF PageInv, QueryActive, BuildOK
<1>3. RunsOK' /\ HistoryOK' /\ UNCHANGED <<runs, sc, history>>
  BY BuildKeeps DEF Build
<1>4. /\ DOMAIN After(o) = Fields
      /\ \A f \in Fields \ {"hit", "degraded"} : After(o)[f] = gen[f]
      /\ After(o).hit = IF o = "ok" THEN gen.hit ELSE gen.hit \cup {o}
  BY <1>1, <1>2, AfterCall
<1>5. gen' = [After(o) EXCEPT !.active = active, !.star = star, !.q = gen.q + 1, !.pc = pc]
  <2>1. /\ After(o).active = gen.active /\ After(o).star = gen.star
        /\ After(o).q = gen.q /\ After(o).pc = "active"
    BY <1>2, <1>4 DEF Fields
  <2> QED  BY <1>1, <2>1, ActiveStates
<1> HIDE DEF active, star, pc
<1>6. /\ Only({"active", "star", "q", "pc", "hit", "degraded"})
      /\ gen'.active = active /\ gen'.star = star /\ gen'.q = gen.q + 1 /\ gen'.pc = pc
      /\ gen'.hit = After(o).hit
  BY <1>4, <1>5 DEF Only, Fields
<1>7. /\ DOMAIN gen' = Fields /\ gen'.rows = gen.rows /\ gen'.cell = gen.cell
      /\ gen'.moved = gen.moved /\ gen'.page = gen.page /\ gen'.scanned = gen.scanned
      /\ gen'.nproj = gen.nproj
  BY <1>6 DEF Only, Fields
<1>8. BuildOK'
  BY <1>2, <1>6, <1>7 DEF BuildOK, pc
<1>9. gen'.hit = {} => o = "ok" /\ gen.hit = {}
  BY <1>4, <1>6
<1>10. RowsRead'
  BY <1>3, <1>7, <1>9 DEF PageInv, RowsRead
<1>11. ASSUME NEW s, found(s) # {} PROVE LiveIn(runs) # {}
  <2>1. PICK i \in Ids : runs[i].st = Queries[gen.q]
    BY <1>11
  <2>2. i \in LiveIn(runs)
    BY <1>2, <2>1, ActiveStates DEF LiveIn, PageInv, RunsOK
  <2> QED  BY <2>2
<1>12. GhostInv'
  <2>1. (active # NoRun => gen.active # NoRun \/ found("row") # {})
        /\ (star # NoRun => gen.star # NoRun \/ found("star") # {})
    BY DEF active, star
  <2> QED  BY <1>3, <1>6, <1>7, <1>11, <2>1 DEF PageInv, GhostInv
<1>13. StableInv'
  <2> SUFFICES ASSUME gen'.hit = {}, NEW i \in Steady, NEW k \in 1..gen.q, Queries[k] = runs[i].st
               PROVE  active # NoRun
    <3>1. Steady' = Steady
      BY <1>3, <1>7 DEF Steady, Scope
    <3>2. \A i \in Steady : runs[i].st \in ActiveSt
      BY DEF Steady, LiveIn
    <3>3. CASE gen.q # 3
      BY <1>2, <1>3, <1>6, <3>1, <3>3 DEF StableInv, pc
    <3>4. CASE gen.q = 3
      BY <1>2, <1>3, <1>6, <3>1, <3>2, <3>4, ActiveStates DEF StableInv, pc
    <3> QED  BY <3>3, <3>4
  <2>1. CASE k # gen.q
    <3>1. k \in 1..(gen.q - 1)
      BY <1>2, <2>1
    <3>2. gen.active # NoRun
      BY <1>2, <1>9, <3>1 DEF PageInv, StableInv
    <3> QED  BY <3>2 DEF active
  <2>2. CASE k = gen.q
    <3>1. i \in found("row")
      BY <1>9, <2>2 DEF Steady, LiveIn, PageInv, RunsOK
    <3>2. [st |-> Queries[gen.q]] # NoRun
      <4>1. Queries[gen.q] # "none"
        BY <1>2 DEF Queries
      <4> QED  BY <4>1 DEF NoRun
    <3> QED  BY <3>1, <3>2 DEF active
  <2> QED  BY <2>1, <2>2
<1>14. DeathInv' /\ ResultInv'
  BY <1>6 DEF DeathInv, ResultInv, pc
<1> QED
  BY <1>3, <1>8, <1>10, <1>12, <1>13, <1>14 DEF PageInv

LEMMA FailedStep == ASSUME PageInv, QueryFailed PROVE PageInv'
<1>1. PICK o \in {"ok", "hard", "outage"} :
       LET over(s) == {i \in Ids : o = "ok" /\ runs[i].st = "completed" /\ Scope(i) = s}
           fell(s) == \E i \in over(s) : /\ \A j \in over(s) : j <= i
                                         /\ ~runs[i].ok /\ clock - runs[i].born < DeadAge
       IN /\ Call(o)
          /\ gen' = [After(o) EXCEPT !.dead = fell("row"), !.deadStar = fell("star"),
                                     !.pc = "statuses"]
  BY DEF QueryFailed
<1> DEFINE over(s) == {i \in Ids : o = "ok" /\ runs[i].st = "completed" /\ Scope(i) = s}
           fell(s) == \E i \in over(s) : /\ \A j \in over(s) : j <= i
                                         /\ ~runs[i].ok /\ clock - runs[i].born < DeadAge
           dead == fell("row")
           deadStar == fell("star")
<1>2. BuildOK /\ gen.pc = "failed"
  BY DEF PageInv, QueryFailed
<1>3. RunsOK' /\ HistoryOK' /\ UNCHANGED <<runs, sc, history, clock>>
  BY BuildKeeps DEF Build
<1>4. /\ DOMAIN After(o) = Fields
      /\ \A f \in Fields \ {"hit", "degraded"} : After(o)[f] = gen[f]
      /\ After(o).hit = IF o = "ok" THEN gen.hit ELSE gen.hit \cup {o}
  BY <1>1, <1>2, AfterCall
<1>5. gen' = [After(o) EXCEPT !.dead = dead, !.deadStar = deadStar, !.pc = "statuses"]
  BY <1>1
<1>6. dead => \E i \in over("row") : ~runs[i].ok
  OBVIOUS
<1>7. ASSUME o = "ok", NEW i \in Ids, Died(i) PROVE dead
  <2>1. i \in over("row") /\ ~runs[i].ok /\ clock - runs[i].born < DeadAge
    BY <1>7 DEF Died
  <2>2. \A j \in over("row") : j <= i
    <3> SUFFICES ASSUME NEW j \in over("row") PROVE j <= i
      OBVIOUS
    <3>1. j \in Ids /\ runs[j].st # "none"
      OBVIOUS
    <3> QED  BY <1>7, <3>1 DEF Died
  <2> QED  BY <2>1, <2>2
<1> HIDE DEF dead, deadStar
<1>8. /\ Only({"dead", "deadStar", "pc", "hit", "degraded"})
      /\ gen'.dead = dead /\ gen'.pc = "statuses" /\ gen'.hit = After(o).hit
  BY <1>4, <1>5 DEF Only, Fields
<1>9. /\ DOMAIN gen' = Fields /\ gen'.rows = gen.rows /\ gen'.cell = gen.cell /\ gen'.q = gen.q
      /\ gen'.moved = gen.moved /\ gen'.page = gen.page /\ gen'.scanned = gen.scanned
      /\ gen'.nproj = gen.nproj /\ gen'.active = gen.active /\ gen'.star = gen.star
  BY <1>8 DEF Only, Fields
<1>10. BuildOK'
  BY <1>2, <1>8, <1>9 DEF BuildOK
<1>11. gen'.hit = {} => o = "ok" /\ gen.hit = {}
  BY <1>4, <1>8
<1>12. RowsRead' /\ GhostInv'
  BY <1>3, <1>9, <1>11 DEF PageInv, RowsRead, GhostInv
<1>13. StableInv'
  <2>1. Steady' = Steady
    BY <1>3, <1>9 DEF Steady, Scope
  <2> QED  BY <1>2, <1>8, <1>9, <1>11, <2>1 DEF PageInv, StableInv
<1>14. DeathInv'
  <2> SUFFICES ASSUME gen'.hit = {}, NEW i \in Ids, Died(i) PROVE gen'.dead
    <3>1. Ids' = Ids /\ \A i \in Ids : Died(i)' <=> Died(i)
      BY <1>3 DEF Ids, Died, Scope
    <3> QED  BY <1>8, <3>1 DEF DeathInv
  <2> QED  BY <1>7, <1>8, <1>11
<1>15. ResultInv'
  BY <1>8 DEF ResultInv
<1> QED
  BY <1>3, <1>10, <1>12, <1>13, <1>14, <1>15 DEF PageInv

LEMMA StatusStep == ASSUME PageInv, ReadStatuses PROVE PageInv'
<1>1. PICK o \in {"ok", "hard", "outage"} :
        /\ Call(o)
        /\ gen' = [After(o) EXCEPT !.status = IF o = "ok" THEN status ELSE @, !.pc = "cell"]
  BY DEF ReadStatuses
<1>2. BuildOK /\ gen.pc = "statuses"
  BY DEF PageInv, ReadStatuses
<1>3. RunsOK' /\ HistoryOK' /\ UNCHANGED <<runs, sc, history, clock>>
  BY BuildKeeps DEF Build
<1>4. /\ DOMAIN After(o) = Fields
      /\ \A f \in Fields \ {"hit", "degraded"} : After(o)[f] = gen[f]
      /\ After(o).hit = IF o = "ok" THEN gen.hit ELSE gen.hit \cup {o}
  BY <1>1, <1>2, AfterCall
<1>5. /\ Only({"status", "pc", "hit", "degraded"})
      /\ gen'.pc = "cell" /\ gen'.hit = After(o).hit
  BY <1>1, <1>4 DEF Only, Fields
<1>6. /\ DOMAIN gen' = Fields /\ gen'.rows = gen.rows /\ gen'.cell = gen.cell /\ gen'.q = gen.q
      /\ gen'.moved = gen.moved /\ gen'.page = gen.page /\ gen'.scanned = gen.scanned
      /\ gen'.nproj = gen.nproj /\ gen'.active = gen.active /\ gen'.star = gen.star
      /\ gen'.dead = gen.dead
  BY <1>5 DEF Only, Fields
<1>7. BuildOK'
  BY <1>2, <1>5, <1>6 DEF BuildOK
<1>8. gen'.hit = {} => gen.hit = {}
  BY <1>4, <1>5
<1>9. RowsRead' /\ GhostInv'
  BY <1>3, <1>6, <1>8 DEF PageInv, RowsRead, GhostInv
<1>10. StableInv'
  <2>1. Steady' = Steady
    BY <1>3, <1>6 DEF Steady, Scope
  <2> QED  BY <1>2, <1>5, <1>6, <1>8, <2>1 DEF PageInv, StableInv
<1>11. DeathInv'
  <2>1. Ids' = Ids /\ \A i \in Ids : Died(i)' <=> Died(i)
    BY <1>3 DEF Ids, Died, Scope
  <2> QED  BY <1>2, <1>5, <1>6, <1>8, <2>1 DEF PageInv, DeathInv
<1>12. ResultInv'
  BY <1>5 DEF ResultInv
<1> QED
  BY <1>3, <1>7, <1>9, <1>10, <1>11, <1>12 DEF PageInv

\* The cell is made: what is known of the runs decides it.
LEMMA RenderStep == ASSUME PageInv, RenderCell PROVE PageInv'
<1>1. PICK o \in {"ok", "hard", "outage"}, reached \in BOOLEAN :
       LET named == {gen.status[p].run : p \in {q \in Plat : gen.status[q].state = "pending"}}
           row == [project |-> Row \in gen.rows, cap |-> sc.cap,
                   status |-> gen.status,
                   alive |-> IF o = "ok" THEN named \cap LiveIn(runs) ELSE {},
                   active |-> gen.active, star |-> gen.star,
                   dead |-> gen.dead, deadStar |-> gen.deadStar,
                   report |-> IF reached THEN report ELSE [p \in Plat |-> NoReport],
                   now |-> clock]
       IN /\ Call(IF ~reached THEN "hard" ELSE o) /\ (~reached => o = "ok")
          /\ gen' = [After(IF ~reached THEN "hard" ELSE o) EXCEPT
                      !.cell = CellOf(row), !.pc = "deploy", !.q = 1, !.status = Idle.status,
                      !.active = NoRun, !.star = NoRun, !.dead = FALSE, !.deadStar = FALSE]
  BY DEF RenderCell
<1> DEFINE named == {gen.status[p].run : p \in {q \in Plat : gen.status[q].state = "pending"}}
           row == [project |-> Row \in gen.rows, cap |-> sc.cap,
                   status |-> gen.status,
                   alive |-> IF o = "ok" THEN named \cap LiveIn(runs) ELSE {},
                   active |-> gen.active, star |-> gen.star,
                   dead |-> gen.dead, deadStar |-> gen.deadStar,
                   report |-> IF reached THEN report ELSE [p \in Plat |-> NoReport],
                   now |-> clock]
           call == IF ~reached THEN "hard" ELSE o
           cell == CellOf(row)
<1>2. BuildOK /\ gen.pc = "cell"
  BY DEF PageInv, RenderCell
<1>3. RunsOK' /\ HistoryOK' /\ UNCHANGED <<runs, sc, history, clock, report>>
  BY BuildKeeps DEF Build
<1>4. /\ DOMAIN After(call) = Fields
      /\ \A f \in Fields \ {"hit", "degraded"} : After(call)[f] = gen[f]
      /\ After(call).hit = IF call = "ok" THEN gen.hit ELSE gen.hit \cup {call}
  BY <1>1, <1>2, AfterCall
<1>5. gen' = [After(call) EXCEPT
                !.cell = cell, !.pc = "deploy", !.q = 1, !.status = Idle.status,
                !.active = NoRun, !.star = NoRun, !.dead = FALSE, !.deadStar = FALSE]
  BY <1>1
<1>6. /\ row.alive \subseteq LiveIn(runs) /\ row.active = gen.active /\ row.star = gen.star
      /\ row.dead = gen.dead /\ row.cap = sc.cap /\ row.project = (Row \in gen.rows)
      /\ row.report = IF reached THEN report ELSE [p \in Plat |-> NoReport]
  OBVIOUS
<1> HIDE DEF row, cell, call
<1>7. /\ Only({"cell", "pc", "q", "status", "active", "star", "dead", "deadStar", "hit", "degraded"})
      /\ gen'.cell = cell /\ gen'.pc = "deploy" /\ gen'.q = 1 /\ gen'.active = NoRun
      /\ gen'.star = NoRun /\ gen'.hit = After(call).hit
  BY <1>4, <1>5 DEF Only, Fields
<1>8. /\ DOMAIN gen' = Fields /\ gen'.rows = gen.rows /\ gen'.moved = gen.moved
      /\ gen'.page = gen.page /\ gen'.scanned = gen.scanned /\ gen'.nproj = gen.nproj
  BY <1>7 DEF Only, Fields
<1>9. BuildOK'
  BY <1>2, <1>7, <1>8 DEF BuildOK
<1>10. gen'.hit = {} => gen.hit = {} /\ o = "ok" /\ reached
  BY <1>4, <1>7 DEF call
<1>11. RowsRead'
  BY <1>3, <1>8, <1>10 DEF PageInv, RowsRead
<1>12. GhostInv'
  <2> SUFFICES ASSUME Live(cell), LiveIn(runs) \cup gen.moved = {} PROVE FALSE
    BY <1>3, <1>7, <1>8 DEF GhostInv
  <2>1. FreshPending(row) \/ row.active # NoRun \/ row.star # NoRun
    BY LiveHasReason DEF cell
  <2>2. ~FreshPending(row)
    BY <1>6 DEF FreshPending
  <2> QED  BY <1>6, <2>1, <2>2 DEF PageInv, GhostInv
<1>13. StableInv'
  <2> SUFFICES ASSUME gen'.hit = {}, InTable, Steady # {} PROVE Live(cell)
    <3>1. Steady' = Steady /\ InTable' = InTable
      BY <1>3, <1>8 DEF Steady, Scope, InTable, Row
    <3> QED  BY <1>7, <3>1 DEF StableInv
  <2>1. gen.active # NoRun
    BY <1>2, <1>10 DEF PageInv, StableInv
  <2>2. Row \in gen.rows
    <3>1. PICK c \in gen.rows : c.id = Row.id
      BY DEF InTable
    <3>2. PICK k \in DOMAIN history : c = history[k]
      BY <1>10, <3>1 DEF PageInv, RowsRead
    <3>3. PICK j \in DOMAIN history : history[j] = Row
      BY DEF PageInv, HistoryOK
    <3>4. k = j
      <4>1. k \in 1..Len(history) /\ j \in 1..Len(history) /\ Len(history) \in Nat
        BY DEF PageInv, HistoryOK
      <4>2. history[k].id = Len(history) + 1 - k /\ history[j].id = Len(history) + 1 - j
        BY DEF PageInv, HistoryOK
      <4> QED  BY <3>1, <3>2, <3>3, <4>1, <4>2
    <3> QED  BY <3>1, <3>2, <3>3, <3>4
  <2>3. row.project /\ HasActive(row)
    BY <1>6, <2>1, <2>2 DEF HasActive
  <2> QED  BY <2>3, ActiveShown DEF cell
<1>14. DeathInv'
  <2> SUFFICES ASSUME gen'.hit = {}, gen'.moved = {}, NEW i \in Ids, Died(i) PROVE cell.kind # "run"
    <3>1. Ids' = Ids /\ \A i \in Ids : Died(i)' <=> Died(i)
      BY <1>3 DEF Ids, Died, Scope
    <3> QED  BY <1>7, <3>1 DEF DeathInv
  <2>1. gen.dead
    BY <1>2, <1>8, <1>10 DEF PageInv, DeathInv
  <2> QED  BY <1>6, <2>1, ArrowMeansNoDeath DEF cell
<1>15. ResultInv'
  <2> SUFFICES ASSUME gen'.hit = {}, sc.cap \in Reported, NEW p \in Plat, report[p] # NoReport
               PROVE  cell.kind \notin {"run", "failed"}
    BY <1>3, <1>7 DEF ResultInv
  <2>1. p \in Present(row)
    BY <1>6, <1>10 DEF Present
  <2> QED  BY <1>6, <2>1, ReportShown DEF cell
<1> QED
  BY <1>3, <1>9, <1>11, <1>12, <1>13, <1>14, <1>15 DEF PageInv

-----------------------------------------------------------------------------
LEMMA PageNext == PageInv /\ [Next]_vars => PageInv'
<1> SUFFICES ASSUME PageInv, [Next]_vars PROVE PageInv'
  OBVIOUS
<1>1. CASE UNCHANGED vars
  <2>1. UNCHANGED <<sc, runs, status, report, posts, history, clock, faults, gen, page>>
    BY <1>1 DEF vars, ci
  <2>2. BuildOK' /\ RunsOK' /\ HistoryOK' /\ RowsRead' /\ GhostInv' /\ ResultInv'
    BY <2>1 DEF PageInv, BuildOK, RunsOK, HistoryOK, RowsRead, GhostInv, ResultInv, Ids, Row
  <2>3. StableInv'
    BY <2>1 DEF PageInv, StableInv, Steady, Scope, InTable, Row
  <2>4. DeathInv'
    BY <2>1 DEF PageInv, DeathInv, Died, Scope, Ids
  <2> QED  BY <2>2, <2>3, <2>4 DEF PageInv
<1> QED
  BY <1>1, RunsStep, PushStep, TickStep, IdleStep, BranchStep, ScanStep, ActiveStep, FailedStep,
     StatusStep, RenderStep DEF Next, Build

LEMMA PageBegins == Init => PageInv
<1> SUFFICES ASSUME Init PROVE PageInv
  OBVIOUS
<1>1. gen = Idle /\ sc \in Scenarios /\ history = sc.history
  BY DEF Init
<1>2. RunsOK
  BY DEF Init, RunsOK
<1>3. HistoryOK
  <2>1. \E k \in DOMAIN history : history[k] = Row
    BY <1>1, ScenariosAssumption DEF Row
  <2> QED  BY <1>1, <2>1, ScenariosAssumption DEF HistoryOK
<1>4. BuildOK
  BY <1>1, IdleFields, Fresh, BoundsAssumption DEF BuildOK
<1>5. RowsRead /\ GhostInv
  BY <1>1, Fresh DEF RowsRead, GhostInv
<1>6. StableInv /\ DeathInv /\ ResultInv
  BY <1>1, Fresh DEF StableInv, DeathInv, ResultInv
<1> QED
  BY <1>2, <1>3, <1>4, <1>5, <1>6 DEF PageInv

THEOREM PageInvariant == Spec => []PageInv
BY PageBegins, PageNext, PTL DEF Spec

\* No page shows a live badge where every run was over before the build began,
\* whatever calls failed (run_is_active, fetch_active_runs).
THEOREM NoGhost == Spec => []NoGhostRun
<1>1. PageInv => NoGhostRun
  BY DEF PageInv, GhostInv, NoGhostRun
<1> QED  BY <1>1, PageInvariant, PTL

\* A run that stays active through a build that fails no call is shown as live
\* (fetch_active_runs, active_run_cell).
THEOREM StableRunsAreLive == Spec => []StableRunShown
<1>1. PageInv => StableRunShown
  BY DEF PageInv, StableInv, StableRunShown, Steady, Ready
<1> QED  BY <1>1, PageInvariant, PTL

\* A run that died within the day keeps its cell from offering a fresh start
\* (fetch_failed_runs, run_cell).
THEOREM DeathsAreShown == Spec => []DeathShown
<1>1. PageInv => DeathShown
  BY DEF PageInv, DeathInv, DeathShown, Died, Ready
<1> QED  BY <1>1, PageInvariant, PTL

\* A deployed report keeps its cell from becoming an arrow or a failure
\* (mc_badge, via_badge, unit_badge, builds_cell).
THEOREM ResultsAreKept == Spec => []ResultKept
<1>1. PageInv => ResultKept
  BY DEF PageInv, ResultInv, ResultKept, Ready
<1> QED  BY <1>1, PageInvariant, PTL

-----------------------------------------------------------------------------
(***************************************************************************)
(* The history.  A push moves every commit one place down the listing that *)
(* the build pages through: what one page showed may come again on the     *)
(* next, and nothing is skipped.  The invariant of the scan measures it    *)
(* from the history as it was when the first page was listed: after it has *)
(* scanned n commits, and d have been pushed since, the first n - d are    *)
(* covered, and no more than d project commits are counted twice.          *)
(***************************************************************************)

LEMMA ProjectsFinite ==
  ASSUME NEW h \in Seq(Commit), NEW n \in Int
  PROVE  IsFiniteSet(Projects(h, n)) /\ Cardinality(Projects(h, n)) \in Nat
<1>1. Smaller(n, Len(h)) \in Int
  BY DEF Smaller
<1>2. IsFiniteSet(1..Smaller(n, Len(h)))
  BY <1>1, FS_Interval
<1>3. Projects(h, n) \in SUBSET (1..Smaller(n, Len(h)))
  BY DEF Projects
<1> QED
  BY <1>2, <1>3, FS_Subset, FS_CardinalityType

LEMMA ProjectsAre ==
  ASSUME NEW h \in Seq(Commit), NEW n \in Int
  PROVE  Projects(h, n) = {k \in 1..Len(h) : k <= n /\ h[k].project}
BY DEF Projects, Smaller

LEMMA ProjectsGrow ==
  ASSUME NEW h \in Seq(Commit), NEW a \in Int, NEW b \in Int, a <= b
  PROVE  Cardinality(Projects(h, a)) <= Cardinality(Projects(h, b))
<1>1. Projects(h, a) \in SUBSET Projects(h, b)
  BY ProjectsAre
<1> QED
  BY <1>1, ProjectsFinite, FS_Subset

LEMMA ProjectsStep ==
  ASSUME NEW h \in Seq(Commit), NEW n \in Int
  PROVE  Cardinality(Projects(h, n)) <= Cardinality(Projects(h, n - 1)) + 1
<1> DEFINE S == Projects(h, n - 1)
<1>1. IsFiniteSet(S) /\ Cardinality(S) \in Nat /\ IsFiniteSet(Projects(h, n))
      /\ Cardinality(Projects(h, n)) \in Nat
  BY ProjectsFinite
<1>2. Projects(h, n) \in SUBSET (S \cup {n})
  BY ProjectsAre
<1>3. IsFiniteSet(S \cup {n}) /\ Cardinality(S \cup {n}) \in {Cardinality(S), Cardinality(S) + 1}
  BY <1>1, FS_AddElement
<1>4. Cardinality(Projects(h, n)) <= Cardinality(S \cup {n})
  BY <1>2, <1>3, FS_Subset
<1> QED
  BY <1>1, <1>3, <1>4

\* What a page of m commits after the first a adds.
LEMMA ProjectsRead ==
  ASSUME NEW h \in Seq(Commit), NEW a \in Int, NEW m \in Nat,
         NEW S \in SUBSET (1..m), \A j \in S : a + j \in 1..Len(h) /\ h[a + j].project
  PROVE  /\ Cardinality(S) \in Nat
         /\ Cardinality(Projects(h, a)) + Cardinality(S) <= Cardinality(Projects(h, a + m))
<1> DEFINE P == Projects(h, a)
           Q == Projects(h, a + m)
           f == [j \in S |-> a + j]
<1>1. /\ IsFiniteSet(P) /\ Cardinality(P) \in Nat /\ IsFiniteSet(Q) /\ Cardinality(Q) \in Nat
  BY ProjectsFinite
<1>2. IsFiniteSet(S) /\ Cardinality(S) \in Nat
  <2>1. IsFiniteSet(1..m)
    BY FS_Interval
  <2> QED  BY <2>1, FS_Subset, FS_CardinalityType
<1>3. P \subseteq Q
  BY ProjectsAre
<1>4. f \in Injection(S, Q \ P)
  <2>1. \A j \in S : a + j \in Q \ P
    BY ProjectsAre
  <2>2. f \in [S -> Q \ P] /\ DOMAIN f = S
    BY <2>1
  <2>3. \A i, j \in S : f[i] = f[j] => i = j
    OBVIOUS
  <2> HIDE DEF f
  <2> QED  BY <2>2, <2>3 DEF Injection, IsInjective
<1>5. IsFiniteSet(Q \ P) /\ Cardinality(Q \ P) = Cardinality(Q) - Cardinality(Q \cap P)
  BY <1>1, FS_Difference
<1>6. Q \cap P = P
  BY <1>3
<1>7. Cardinality(S) <= Cardinality(Q \ P)
  BY <1>4, <1>5, FS_Injection
<1>8. Cardinality(P) + Cardinality(S) <= Cardinality(Q)
  <2> HIDE DEF P, Q
  <2>1. Cardinality(Q \ P) = Cardinality(Q) - Cardinality(P)
    BY <1>5, <1>6
  <2>2. /\ Cardinality(P) \in Nat /\ Cardinality(Q) \in Nat
        /\ Cardinality(S) \in Nat /\ Cardinality(S) <= Cardinality(Q \ P)
    BY <1>1, <1>2, <1>7
  <2> QED  BY <2>1, <2>2
<1> QED
  BY <1>2, <1>8

\* The history was the listed one, with tooling commits pushed on top.
Shifted ==
  gen.pc \notin {"idle", "branch"} =>
    /\ gen.first \in Seq(Commit) /\ Len(gen.first) <= Len(history)
    /\ \A k \in DOMAIN gen.first : gen.first[k] = history[k + PushedSince]
    /\ \A j \in 1..PushedSince : ~history[j].project

Shown(k) == \E c \in gen.rows : c.id = gen.first[k].id

\* The project commits among the first n are in the table.
Covered(n) == \A k \in DOMAIN gen.first : k <= n /\ gen.first[k].project => Shown(k)

Window == \A k \in DOMAIN gen.first : k <= RecentWindow => Shown(k)

\* Every page so far was full, and covered what it listed.
Level ==
  /\ gen.scanned = From
  /\ Covered(From - PushedSince)
  /\ gen.nproj <= Cardinality(Projects(gen.first, From - PushedSince)) + PushedSince

ScanInv ==
  gen.pc = "scan" /\ "hard" \notin gen.hit =>
    /\ gen.page = 1 => gen.scanned = 0 /\ gen.nproj = 0
    /\ gen.page # 1 => Window /\ (Level \/ Covered(Len(gen.first)))

Late == {"active", "failed", "statuses", "cell", "deploy"}

\* What HistoryKept promises of the commit listed at place k.
Due(k) ==
  \/ k <= RecentWindow
  \/ /\ gen.first[k].project /\ k + PushedSince <= ScanCap
     /\ Cardinality(Projects(gen.first, k - 1)) + PushedSince < ProjectTarget

KeptInv ==
  gen.pc \in Late /\ "hard" \notin gen.hit => \A k \in DOMAIN gen.first : Due(k) => Shown(k)

ReadInv == Shifted /\ ScanInv /\ KeptInv

\* A step that neither reads nor extends the history.
LEMMA ReadSame ==
  ASSUME ReadInv, history' = history,
         gen'.pc = gen.pc \/ (gen.pc \in Late /\ gen'.pc \in Late),
         gen'.rows = gen.rows, gen'.first = gen.first, gen'.page = gen.page,
         gen'.scanned = gen.scanned, gen'.nproj = gen.nproj, gen.hit \subseteq gen'.hit
  PROVE  ReadInv'
<1>1. PushedSince' = PushedSince /\ From' = From
  BY DEF PushedSince, From
<1>2. /\ Window' = Window /\ \A k : Shown(k)' = Shown(k) /\ Due(k)' = Due(k)
  BY <1>1 DEF Window, Shown, Due
<1>3. Covered(Len(gen.first))' = Covered(Len(gen.first)) /\ Level' = Level
  BY <1>1 DEF Covered, Level, Shown
<1>4. Shifted'
  BY <1>1 DEF ReadInv, Shifted, Late
<1>5. ScanInv'
  BY <1>2, <1>3 DEF ReadInv, ScanInv, Late
<1>6. KeptInv'
  BY <1>2 DEF ReadInv, KeptInv, Late
<1> QED
  BY <1>4, <1>5, <1>6 DEF ReadInv

\* A build that is idle or starts has listed nothing.
LEMMA ReadNothing ==
  ASSUME gen' \in {Idle, Opened} PROVE ReadInv'
<1>1. gen'.pc \in {"idle", "branch"}
  BY Fresh
<1> QED
  BY <1>1 DEF ReadInv, Shifted, ScanInv, KeptInv, Late

\* A push moves the listing by one.
LEMMA ReadPush == ASSUME PageInv, ReadInv, Push PROVE ReadInv'
<1>1. /\ history' = <<[id |-> Len(history) + 1, project |-> FALSE]>> \o history /\ gen' = gen
  BY DEF Push, ci
<1>2. history \in Seq(Commit) /\ history' \in Seq(Commit) /\ Len(history) \in Nat
  BY PushStep DEF PageInv, HistoryOK
<1>3. /\ Len(history') = Len(history) + 1
      /\ \A k \in DOMAIN history : history'[k + 1] = history[k]
      /\ ~history'[1].project
  BY <1>1, <1>2
<1> SUFFICES ASSUME gen.pc \notin {"idle", "branch"} PROVE ReadInv'
  BY <1>1 DEF ReadInv, Shifted, ScanInv, KeptInv, Late
<1> DEFINE d == PushedSince
           h == gen.first
<1>4. /\ h \in Seq(Commit) /\ Len(h) \in Nat /\ Len(h) <= Len(history)
      /\ d \in Nat /\ d = Len(history) - Len(h) /\ PushedSince' = d + 1
      /\ DOMAIN h = 1..Len(h) /\ \A k \in DOMAIN h : k \in Int
  BY <1>1, <1>2, <1>3 DEF ReadInv, Shifted, PushedSince
<1>5. Shifted'
  <2>1. ASSUME NEW k \in DOMAIN h PROVE h[k] = history'[k + (d + 1)]
    <3>1. k + d \in DOMAIN history /\ h[k] = history[k + d]
      BY <1>2, <1>4 DEF ReadInv, Shifted
    <3>2. k \in Int /\ d \in Nat
      BY <1>4
    <3>3. k + (d + 1) = (k + d) + 1
      BY <3>2
    <3> QED  BY <1>3, <3>1, <3>3
  <2>2. ASSUME NEW j \in 1..(d + 1) PROVE ~history'[j].project
    <3>1. CASE j = 1
      BY <1>3, <3>1
    <3>2. CASE j # 1
      <4>1. j - 1 \in 1..d /\ j - 1 \in DOMAIN history /\ (j - 1) + 1 = j
        BY <1>2, <1>4, <3>2
      <4>2. history'[j] = history[j - 1]
        BY <1>3, <4>1
      <4> QED  BY <4>1, <4>2 DEF ReadInv, Shifted
    <3> QED  BY <3>1, <3>2
  <2>3. gen'.first = h /\ Len(h) <= Len(history')
    BY <1>1, <1>2, <1>3, <1>4
  <2> QED  BY <1>4, <2>1, <2>2, <2>3 DEF Shifted
<1>6. From' = From /\ Window' = Window /\ \A k : Shown(k)' = Shown(k)
  BY <1>1 DEF From, Window, Shown
<1>7. From \in Int
  BY GotIs DEF PageInv
<1>8. Covered(Len(h)) => Covered(Len(h))'
  BY <1>1, <1>6 DEF Covered
<1>9. Level => Level'
  <2> SUFFICES ASSUME Level PROVE Level'
    OBVIOUS
  <2>1. gen'.scanned = From'
    BY <1>1, <1>6 DEF Level
  <2>2. ASSUME NEW k \in DOMAIN h, k <= From - (d + 1), h[k].project PROVE Shown(k)
    <3>1. k \in Int /\ d \in Nat
      BY <1>4
    <3>2. k <= From - d
      BY <1>7, <2>2, <3>1
    <3> QED  BY <2>2, <3>2 DEF Level, Covered
  <2>3. Covered(From - PushedSince)'
    BY <1>1, <1>4, <1>6, <2>2 DEF Covered
  <2>4. gen.nproj <= Cardinality(Projects(h, From - (d + 1))) + (d + 1)
    <3>1. From - d \in Int /\ From - (d + 1) \in Int /\ (From - d) - 1 = From - (d + 1)
      BY <1>4, <1>7
    <3>2. Cardinality(Projects(h, From - d)) <= Cardinality(Projects(h, From - (d + 1))) + 1
      BY <1>4, <3>1, ProjectsStep
    <3>3. /\ Cardinality(Projects(h, From - d)) \in Nat
          /\ Cardinality(Projects(h, From - (d + 1))) \in Nat
      BY <1>4, <3>1, ProjectsFinite
    <3>4. gen.nproj \in Nat /\ gen.nproj <= Cardinality(Projects(h, From - d)) + d
      BY DEF Level, PageInv, BuildOK
    <3>5. d \in Nat
      BY <1>4
    <3> QED  BY <3>2, <3>3, <3>4, <3>5
  <2> QED  BY <1>1, <1>4, <1>6, <2>1, <2>3, <2>4 DEF Level
<1>10. ScanInv'
  BY <1>1, <1>6, <1>8, <1>9 DEF ReadInv, ScanInv
<1>11. KeptInv'
  <2>1. ASSUME NEW k \in DOMAIN h, Due(k)' PROVE Due(k)
    <3>1. k \in Int /\ k - 1 \in Int /\ d \in Nat
      BY <1>4
    <3>2. Cardinality(Projects(h, k - 1)) \in Nat
      BY <1>4, <3>1, ProjectsFinite
    <3>3. ScanCap \in Nat /\ ProjectTarget \in Nat
      BY BoundsAssumption
    <3>4. \/ k <= RecentWindow
          \/ /\ h[k].project /\ k + (d + 1) <= ScanCap
             /\ Cardinality(Projects(h, k - 1)) + (d + 1) < ProjectTarget
      BY <1>1, <1>4, <2>1 DEF Due
    <3> QED  BY <3>1, <3>2, <3>3, <3>4 DEF Due
  <2> QED  BY <1>1, <1>6, <2>1 DEF ReadInv, KeptInv
<1> QED
  BY <1>5, <1>10, <1>11 DEF ReadInv

LEMMA ReadBranch == ASSUME PageInv, ReadInv, ResolveBranch PROVE ReadInv'
<1>1. PICK o \in {"ok", "hard", "outage"} :
        /\ Call(o)
        /\ gen' = Refuse([After(o) EXCEPT !.pc = IF o = "ok" \/ sc.main THEN "scan" ELSE "active",
                                          !.first = history])
  BY DEF ResolveBranch
<1>2. CASE gen' = Idle
  BY <1>2, ReadNothing
<1>3. CASE gen' # Idle
  <2> DEFINE pc == IF o = "ok" \/ sc.main THEN "scan" ELSE "active"
  <2>1. BuildOK /\ history \in Seq(Commit) /\ history' = history /\ gen.pc = "branch"
    BY DEF PageInv, HistoryOK, ResolveBranch
  <2>2. /\ gen' = [After(o) EXCEPT !.pc = pc, !.first = history]
        /\ ~[After(o) EXCEPT !.pc = pc, !.first = history].degraded
    BY <1>1, <1>3 DEF Refuse
  <2>3. /\ DOMAIN After(o) = Fields
        /\ \A f \in Fields \ {"hit", "degraded"} : After(o)[f] = gen[f]
        /\ After(o).hit = IF o = "ok" THEN gen.hit ELSE gen.hit \cup {o}
        /\ After(o).degraded = (gen.degraded \/ o = "outage")
    BY <1>1, <2>1, AfterCall
  <2>4. gen'.pc = pc /\ gen'.first = history /\ gen'.hit = After(o).hit /\ gen'.page = 1
        /\ gen'.scanned = 0 /\ gen'.nproj = 0
    BY <2>1, <2>2, <2>3 DEF Fields, BuildOK
  <2>5. o # "outage"
    BY <2>2, <2>3 DEF Fields
  <2>6. pc = "active" => "hard" \in gen'.hit
    BY <2>3, <2>4, <2>5
  <2>7. PushedSince' = 0 /\ \A k \in DOMAIN history : k + 0 = k
    BY <2>1, <2>4 DEF PushedSince
  <2>8. Shifted'
    BY <2>1, <2>4, <2>7 DEF Shifted
  <2> QED
    BY <2>4, <2>6, <2>8 DEF ReadInv, ScanInv, KeptInv, Late
<1> QED
  BY <1>2, <1>3

LEMMA ReadPage == ASSUME PageInv, ReadInv, ScanPage PROVE ReadInv'
<1>1. BuildOK /\ HistoryOK /\ gen.pc = "scan" /\ history' = history
  BY DEF PageInv, ScanPage
<1>2. CASE gen' = Idle
  BY <1>2, ReadNothing
<1>3. ASSUME gen' # Idle PROVE ReadInv'
  <2> DEFINE h == gen'.first
  <2>1. /\ gen'.pc \in {"scan", "active"} /\ gen.hit \subseteq gen'.hit
        /\ gen'.page = gen.page + 1
        /\ h = IF gen.page = 1 THEN history ELSE gen.first
        /\ "hard" \in gen'.hit \/ PageRead
    BY <1>1, <1>3, PageEffect
  <2>2. /\ From \in Nat /\ Taken \in Nat /\ Len(Got) \in Nat /\ PageSize \in Nat /\ PageSize > 0
        /\ ScanCap \in Nat /\ RecentWindow \in Nat /\ ProjectTarget \in Nat
        /\ RecentWindow <= PageSize /\ RecentWindow <= ScanCap
        /\ gen.scanned \in Nat /\ gen.nproj \in Nat /\ gen.page \in Nat \ {0}
    BY <1>1, GotIs, BoundsAssumption DEF BuildOK
  <2>3. /\ history \in Seq(Commit) /\ Len(history) \in Nat
    BY <1>1 DEF HistoryOK
  <2>4. h \in Seq(Commit) /\ Len(h) \in Nat
    BY <1>1, <1>3, <2>1, <2>3 DEF ReadInv, Shifted
  <2>5. PICK d \in Int : d = PushedSince'
    <3>1. PushedSince' = Len(history) - Len(h)
      BY <1>1 DEF PushedSince
    <3>2. Len(history) - Len(h) \in Int
      BY <2>3, <2>4
    <3> QED  BY <3>1, <3>2
  <2>6. PICK c \in Nat : c = From + Taken
    BY <2>2
  <2>7. /\ h \in Seq(Commit) /\ Len(h) \in Nat /\ d \in Nat /\ d = Len(history) - Len(h)
        /\ DOMAIN h = 1..Len(h)
        /\ \A k \in DOMAIN h : h[k] = history[k + d]
        /\ \A j \in 1..d : ~history[j].project
        /\ gen.page = 1 => d = 0
    <3>1. CASE gen.page = 1
      <4>1. h = history /\ d = 0
        BY <1>1, <2>1, <2>3, <2>5, <3>1 DEF PushedSince
      <4>2. \A k \in DOMAIN h : k + d = k
        BY <2>3, <4>1
      <4> QED  BY <2>3, <4>1, <4>2
    <3>2. CASE gen.page # 1
      <4>1. h = gen.first /\ d = PushedSince
        BY <1>1, <2>1, <2>5, <3>2 DEF PushedSince
      <4> QED  BY <1>1, <2>3, <3>2, <4>1 DEF ReadInv, Shifted, PushedSince
    <3> QED  BY <3>1, <3>2
  <2>8. Shifted'
    <3>1. Len(h) <= Len(history')
      BY <1>1, <2>3, <2>7
    <3> QED  BY <1>1, <2>7, <2>5, <3>1 DEF Shifted
  <2>9. From \in Nat /\ Taken \in Nat /\ d \in Nat /\ c \in Nat /\ c = From + Taken
    BY <2>2, <2>7, <2>6
  <2>10. PICK m \in Nat, n \in Nat : m = Len(history) /\ n = Len(h)
    BY <2>3, <2>7
  <2>11. d = m - n /\ m \in Nat /\ n \in Nat
    BY <2>7, <2>10
  <2>12. \A k \in DOMAIN h : k \in Int /\ 1 <= k /\ k <= Len(h)
    BY <2>7
  <2>13. CASE "hard" \in gen'.hit
    BY <2>8, <2>13 DEF ReadInv, ScanInv, KeptInv
  <2>14. ASSUME "hard" \notin gen'.hit PROVE ReadInv'
    <3>1. PageRead /\ "hard" \notin gen.hit
      BY <2>1, <2>14
    \* What the page adds to the table.
    <3>2. ASSUME NEW k \in DOMAIN h, From < k + d, k + d <= c,
                 gen.scanned + (k + d - From) <= RecentWindow \/ h[k].project
          PROVE  Shown(k)'
      <4> DEFINE j == k + d - From
      <4>1. k \in Int /\ j \in 1..Taken /\ From + j = k + d
        BY <2>9, <2>12, <3>2
      <4>2. j \in 1..Len(Got)
        BY <1>1, <4>1, GotIs
      <4>3. Got[j] = h[k]
        BY <1>1, <2>7, <4>1, <4>2, GotIs
      <4>4. j \in Kept
        BY <3>2, <4>1, <4>3 DEF Kept
      <4>5. Got[j] \in gen'.rows
        BY <3>1, <4>4 DEF PageRead
      <4> QED  BY <4>3, <4>5 DEF Shown
    \* What it keeps.
    <3>3. ASSUME gen.page # 1, NEW k, Shown(k) PROVE Shown(k)'
      BY <2>1, <3>1, <3>3 DEF Shown, PageRead
    <3>4. ASSUME NEW k \in DOMAIN h, k <= RecentWindow PROVE Shown(k)'
      <4>1. CASE gen.page # 1
        BY <1>1, <2>1, <3>1, <3>3, <3>4, <4>1 DEF ReadInv, ScanInv, Window
      <4>2. CASE gen.page = 1
        <5>1. From = 0 /\ gen.scanned = 0 /\ d = 0 /\ Len(h) = Len(history)
          BY <1>1, <2>2, <2>3, <2>7, <3>1, <4>2 DEF ReadInv, ScanInv, From
        <5>2. k \in 1..Len(history)
          BY <2>7, <5>1
        <5>3. k <= Taken
          BY <1>1, <2>2, <2>3, <3>4, <5>1, <5>2, GotIs
        <5>4. From < k + d /\ k + d <= c /\ gen.scanned + (k + d - From) <= RecentWindow
          BY <2>2, <2>9, <2>12, <3>4, <5>1, <5>3
        <5> QED  BY <3>2, <3>4, <5>4
      <4> QED  BY <4>1, <4>2
    \* Before the page: level, or complete.
    <3>5. \/ /\ gen.scanned = From
             /\ \A k \in DOMAIN h : k <= From - d /\ h[k].project => Shown(k)'
             /\ gen.nproj <= Cardinality(Projects(h, From - d)) + d
          \/ \A k \in DOMAIN h : h[k].project => Shown(k)'
      <4>1. CASE gen.page = 1
        <5>1. From = 0 /\ gen.scanned = 0 /\ d = 0 /\ gen.nproj = 0
          BY <1>1, <2>2, <2>7, <3>1, <4>1 DEF ReadInv, ScanInv, From
        <5>2. \A k \in DOMAIN h : ~(k <= From - d)
          BY <2>7, <5>1
        <5>3. From - d \in Int
          BY <2>9
        <5>4. Cardinality(Projects(h, From - d)) \in Nat
          BY <2>7, <5>3, ProjectsFinite
        <5> QED  BY <5>1, <5>2, <5>4
      <4>2. CASE gen.page # 1
        <5>1. h = gen.first /\ d = PushedSince
          BY <1>1, <2>1, <2>5, <4>2 DEF PushedSince
        <5>2. Level \/ Covered(Len(h))
          BY <1>1, <3>1, <4>2, <5>1 DEF ReadInv, ScanInv
        <5>3. CASE Level
          BY <3>3, <4>2, <5>1, <5>3 DEF Level, Covered
        <5>4. CASE Covered(Len(h))
          <6>1. \A k \in DOMAIN h : k <= Len(h)
            BY <2>7
          <6> QED  BY <3>3, <4>2, <5>1, <5>4, <6>1 DEF Covered
        <5> QED  BY <5>2, <5>3, <5>4
      <4> QED  BY <4>1, <4>2
    \* After it: c commits are scanned.
    <3>6. \/ /\ gen'.scanned = c
             /\ \A k \in DOMAIN h : k <= c - d /\ h[k].project => Shown(k)'
             /\ gen'.nproj <= Cardinality(Projects(h, c - d)) + d
          \/ \A k \in DOMAIN h : h[k].project => Shown(k)'
      <4> SUFFICES ASSUME gen.scanned = From,
                          \A k \in DOMAIN h : k <= From - d /\ h[k].project => Shown(k)',
                          gen.nproj <= Cardinality(Projects(h, From - d)) + d
                   PROVE  /\ gen'.scanned = c
                          /\ \A k \in DOMAIN h : k <= c - d /\ h[k].project => Shown(k)'
                          /\ gen'.nproj <= Cardinality(Projects(h, c - d)) + d
        BY <3>5
      <4>1. gen'.scanned = c
        BY <2>9, <3>1 DEF PageRead
      <4>2. ASSUME NEW k \in DOMAIN h, k <= c - d, h[k].project PROVE Shown(k)'
        <5>1. k \in Int
          BY <2>7
        <5>2. CASE k <= From - d
          BY <4>2, <5>2
        <5>3. CASE ~(k <= From - d)
          <6>1. From < k + d /\ k + d <= c
            BY <2>9, <4>2, <5>1, <5>3
          <6> QED  BY <3>2, <4>2, <6>1
        <5> QED  BY <5>2, <5>3
      <4>3. gen'.nproj <= Cardinality(Projects(h, c - d)) + d
        <5> DEFINE S == {j \in 1..Taken : Got[j].project}
                   a == From - d
        <5>1. a \in Int /\ a + Taken = c - d
          BY <2>9
        <5>2. ASSUME NEW j \in S PROVE a + j \in 1..Len(h) /\ h[a + j].project
          <6>1. j \in 1..Len(Got) /\ j \in Int
            BY <1>1, GotIs
          <6>2. From + j \in 1..Len(history) /\ Got[j] = history[From + j] /\ Got[j].project
            BY <1>1, <2>3, <6>1, GotIs
          <6>3. ~(From + j \in 1..d)
            BY <2>7, <6>2
          <6>4. a + j \in 1..Len(h) /\ (a + j) + d = From + j
            <7>1. From + j \in 1..m
              BY <2>10, <6>2
            <7>2. (a + j) + d = From + j /\ a + j \in 1..n
              BY <2>9, <2>11, <6>1, <6>3, <7>1
            <7> QED  BY <2>10, <7>2
          <6> QED  BY <2>7, <6>2, <6>4
        <5> HIDE DEF a
        <5>3. /\ Cardinality(S) \in Nat
              /\ Cardinality(Projects(h, a)) + Cardinality(S) <= Cardinality(Projects(h, a + Taken))
          BY <2>7, <2>9, <5>1, <5>2, ProjectsRead
        <5>4. /\ Cardinality(Projects(h, a)) \in Nat
              /\ Cardinality(Projects(h, a + Taken)) \in Nat
          <6>1. a + Taken \in Int
            BY <2>9, <5>1
          <6> QED  BY <2>7, <5>1, <6>1, ProjectsFinite
        <5>5. gen'.nproj = gen.nproj + Cardinality(S) /\ gen.nproj <= Cardinality(Projects(h, a)) + d
          BY <3>1 DEF PageRead, a
        <5>6. gen'.nproj <= Cardinality(Projects(h, a + Taken)) + d
          <6>1. gen.nproj \in Nat
            BY <2>2
          <6> HIDE DEF S
          <6> QED  BY <2>9, <5>3, <5>4, <5>5, <6>1
        <5> QED  BY <5>1, <5>6
      <4> QED  BY <4>1, <4>2, <4>3
    <3>7. Taken = Len(Got) \/ gen.scanned + Taken = ScanCap
      BY <1>1, GotIs
    \* The scan goes on: another full page, or the end of the history.
    <3>8. ASSUME gen'.pc = "scan" PROVE ScanInv'
      <4>1. Got # <<>> /\ ~Enough(gen'.scanned, gen'.nproj)
        BY <3>1, <3>8 DEF PageRead
      <4>2. gen'.scanned < ScanCap /\ Taken = Len(Got) /\ Len(Got) # 0
        <5>1. gen'.scanned = gen.scanned + Taken
          BY <3>1 DEF PageRead
        <5>2. Len(Got) # 0
          BY <1>1, <4>1, GotIs
        <5> QED  BY <2>2, <3>7, <4>1, <5>1, <5>2 DEF Enough
      <4>3. gen'.page # 1 /\ From' = From + PageSize
        <5>1. (gen.page + 1) - 1 = (gen.page - 1) + 1
          BY <2>2
        <5>2. ((gen.page - 1) + 1) * PageSize = (gen.page - 1) * PageSize + PageSize
          BY <2>2
        <5> QED  BY <2>1, <2>2, <5>1, <5>2 DEF From
      <4>4. Window'
        BY <3>4 DEF Window
      <4>5. CASE \A k \in DOMAIN h : h[k].project => Shown(k)'
        BY <3>8, <4>3, <4>4, <4>5 DEF ScanInv, Covered
      <4>6. CASE /\ gen'.scanned = c
                 /\ \A k \in DOMAIN h : k <= c - d /\ h[k].project => Shown(k)'
                 /\ gen'.nproj <= Cardinality(Projects(h, c - d)) + d
        <5>1. CASE Len(Got) = PageSize
          <6>1. c = From'
            BY <2>9, <4>2, <4>3, <5>1
          <6>2. Level'
            BY <2>5, <4>6, <6>1 DEF Level, Covered
          <6> QED  BY <3>8, <4>3, <4>4, <6>2 DEF ScanInv
        <5>2. CASE Len(Got) # PageSize
          <6>1. c = Len(history)
            BY <1>1, <2>2, <2>3, <2>9, <4>2, <5>2, GotIs
          <6>2. \A k \in DOMAIN h : k <= c - d
            <7>1. c = m
              BY <2>10, <6>1
            <7>2. c - d = n
              BY <2>11, <7>1
            <7> QED  BY <2>12, <2>10, <7>2
          <6> QED  BY <3>8, <4>3, <4>4, <4>6, <6>2 DEF ScanInv, Covered
        <5> QED  BY <5>1, <5>2
      <4> QED  BY <3>6, <4>5, <4>6
    \* The scan ends.
    <3>9. ASSUME gen'.pc = "active" PROVE KeptInv'
      <4> SUFFICES ASSUME NEW k \in DOMAIN h, h[k].project, k + d <= ScanCap,
                          Cardinality(Projects(h, k - 1)) + d < ProjectTarget
                   PROVE  Shown(k)'
        BY <2>5, <3>4 DEF KeptInv, Due
      <4>1. CASE \A j \in DOMAIN h : h[j].project => Shown(j)'
        BY <4>1
      <4>2. CASE /\ gen'.scanned = c
                 /\ \A j \in DOMAIN h : j <= c - d /\ h[j].project => Shown(j)'
                 /\ gen'.nproj <= Cardinality(Projects(h, c - d)) + d
        <5> SUFFICES ASSUME ~(k <= c - d) PROVE FALSE
          BY <4>2
        <5>1. k \in 1..Len(h) /\ k \in Int /\ c - d \in Int /\ c < k + d
          BY <2>9, <2>12
        <5>2. Got # <<>>
          <6> SUFFICES ASSUME Got = <<>> PROVE FALSE
            OBVIOUS
          <6>1. Len(history) <= From
            BY <1>1, <2>2, <2>3, GotIs
          <6>2. m <= From
            BY <2>10, <6>1
          <6>3. n <= c - d
            BY <2>9, <2>11, <6>2
          <6> QED  BY <2>12, <2>10, <5>1, <6>3
        <5>3. Enough(c, gen'.nproj)
          BY <3>1, <3>9, <4>2, <5>2 DEF PageRead
        <5>4. ~(c >= ScanCap)
          <6>1. ScanCap \in Nat
            BY <2>2
          <6> QED  BY <2>9, <5>1, <6>1
        <5>5. gen'.nproj >= ProjectTarget
          BY <5>3, <5>4 DEF Enough
        <5>6. k - 1 \in Int /\ c - d <= k - 1
          BY <5>1
        <5>7. /\ Cardinality(Projects(h, c - d)) <= Cardinality(Projects(h, k - 1))
              /\ Cardinality(Projects(h, c - d)) \in Nat /\ Cardinality(Projects(h, k - 1)) \in Nat
          BY <2>7, <5>1, <5>6, ProjectsGrow, ProjectsFinite
        <5>8. gen'.nproj \in Nat
          BY <1>1, <1>3, PageEffect
        <5>9. ProjectTarget \in Nat
          BY <2>2
        <5> QED  BY <2>9, <4>2, <5>5, <5>7, <5>8, <5>9
      <4> QED  BY <3>6, <4>1, <4>2
    <3> QED
      BY <2>1, <2>8, <3>8, <3>9 DEF ReadInv, ScanInv, KeptInv, Late
  <2> QED
    BY <2>13, <2>14
<1> QED
  BY <1>2, <1>3

\* What a call after the scan leaves of it.
Kin(o) ==
  /\ gen'.rows = After(o).rows /\ gen'.first = After(o).first /\ gen'.page = After(o).page
  /\ gen'.scanned = After(o).scanned /\ gen'.nproj = After(o).nproj /\ gen'.hit = After(o).hit

LEMMA ReadLater ==
  ASSUME PageInv, ReadInv, QueryActive \/ QueryFailed \/ ReadStatuses \/ RenderCell
  PROVE  ReadInv'
<1>1. BuildOK /\ history' = history
  BY DEF PageInv, QueryActive, QueryFailed, ReadStatuses, RenderCell
<1>2. ASSUME NEW o, Call(o), Kin(o), gen.pc \in Late, gen'.pc \in Late PROVE ReadInv'
  <2>1. /\ \A f \in Fields \ {"hit", "degraded"} : After(o)[f] = gen[f]
        /\ gen.hit \subseteq After(o).hit
    BY <1>1, <1>2, AfterCall
  <2>2. /\ gen'.rows = gen.rows /\ gen'.first = gen.first /\ gen'.page = gen.page
        /\ gen'.scanned = gen.scanned /\ gen'.nproj = gen.nproj /\ gen.hit \subseteq gen'.hit
    BY <1>2, <2>1 DEF Kin, Fields
  <2> QED
    BY <1>1, <1>2, <2>2, ReadSame
<1>3. ASSUME NEW o, Call(o) PROVE DOMAIN After(o) = Fields
  BY <1>1, <1>3, AfterCall
<1>4. CASE QueryActive
  <2>1. PICK o \in {"ok", "hard", "outage"} :
          LET found(s) == {i \in Ids : /\ o = "ok" /\ runs[i].st = Queries[gen.q] /\ Scope(i) = s}
              upd(old, s) == IF old = NoRun /\ found(s) # {} THEN [st |-> Queries[gen.q]] ELSE old
          IN /\ Call(o)
             /\ gen' = [After(o) EXCEPT !.active = upd(@, "row"), !.star = upd(@, "star"),
                                        !.q = @ + 1,
                                        !.pc = IF gen.q = Len(Queries) THEN "failed" ELSE @]
    BY <1>4 DEF QueryActive
  <2>2. DOMAIN After(o) = Fields /\ After(o).pc = "active" /\ gen.pc = "active"
    BY <1>1, <1>4, <2>1, AfterCall DEF QueryActive, Fields
  <2>3. Kin(o) /\ gen'.pc \in {"active", "failed"}
    BY <2>1, <2>2 DEF Kin, Fields
  <2> QED  BY <1>2, <2>1, <2>2, <2>3 DEF Late
<1>5. CASE QueryFailed
  <2>1. PICK o \in {"ok", "hard", "outage"} :
          LET over(s) == {i \in Ids : o = "ok" /\ runs[i].st = "completed" /\ Scope(i) = s}
              fell(s) == \E i \in over(s) : /\ \A j \in over(s) : j <= i
                                            /\ ~runs[i].ok /\ clock - runs[i].born < DeadAge
          IN /\ Call(o)
             /\ gen' = [After(o) EXCEPT !.dead = fell("row"), !.deadStar = fell("star"),
                                        !.pc = "statuses"]
    BY <1>5 DEF QueryFailed
  <2>2. Kin(o) /\ gen'.pc = "statuses"
    BY <1>3, <2>1 DEF Kin, Fields
  <2> QED  BY <1>2, <1>5, <2>1, <2>2 DEF Late, QueryFailed
<1>6. CASE ReadStatuses
  <2>1. PICK o \in {"ok", "hard", "outage"} :
          /\ Call(o)
          /\ \E s : gen' = [After(o) EXCEPT !.status = s, !.pc = "cell"]
    BY <1>6 DEF ReadStatuses
  <2>2. Kin(o) /\ gen'.pc = "cell"
    BY <1>3, <2>1 DEF Kin, Fields
  <2> QED  BY <1>2, <1>6, <2>1, <2>2 DEF Late, ReadStatuses
<1>7. CASE RenderCell
  <2>1. PICK o \in {"ok", "hard", "outage"}, reached \in BOOLEAN :
          LET named == {gen.status[p].run : p \in {q \in Plat : gen.status[q].state = "pending"}}
              row == [project |-> Row \in gen.rows, cap |-> sc.cap,
                      status |-> gen.status,
                      alive |-> IF o = "ok" THEN named \cap LiveIn(runs) ELSE {},
                      active |-> gen.active, star |-> gen.star,
                      dead |-> gen.dead, deadStar |-> gen.deadStar,
                      report |-> IF reached THEN report ELSE [p \in Plat |-> NoReport],
                      now |-> clock]
          IN /\ Call(IF ~reached THEN "hard" ELSE o) /\ (~reached => o = "ok")
             /\ gen' = [After(IF ~reached THEN "hard" ELSE o) EXCEPT
                         !.cell = CellOf(row), !.pc = "deploy", !.q = 1, !.status = Idle.status,
                         !.active = NoRun, !.star = NoRun, !.dead = FALSE, !.deadStar = FALSE]
    BY <1>7 DEF RenderCell
  <2> DEFINE call == IF ~reached THEN "hard" ELSE o
  <2>2. Kin(call) /\ gen'.pc = "deploy"
    BY <1>3, <2>1 DEF Kin, Fields
  <2> QED  BY <1>2, <1>7, <2>1, <2>2 DEF Late, RenderCell
<1> QED
  BY <1>4, <1>5, <1>6, <1>7

LEMMA ReadRuns == ASSUME PageInv, ReadInv, Runs PROVE ReadInv'
<1>1. BuildOK
  BY DEF PageInv
<1>2. PICK i \in Ids : gen' = Opened \/ (gen.pc = "idle" /\ gen' = gen) \/ Moved(i)
  BY <1>1, RunMoves
<1>3. history' = history
  BY <1>1, RunMoves
<1>4. CASE gen' = Opened
  BY <1>4, ReadNothing
<1>5. CASE gen.pc = "idle" /\ gen' = gen
  BY <1>1, <1>5, ReadNothing DEF BuildOK
<1>6. CASE Moved(i)
  <2>1. /\ gen'.pc = gen.pc /\ gen'.rows = gen.rows /\ gen'.first = gen.first
        /\ gen'.page = gen.page /\ gen'.scanned = gen.scanned /\ gen'.nproj = gen.nproj
        /\ gen.hit \subseteq gen'.hit
    BY <1>6 DEF Moved, Only, Fields
  <2> QED  BY <1>3, <2>1, ReadSame
<1> QED
  BY <1>2, <1>4, <1>5, <1>6

LEMMA ReadNext == PageInv /\ ReadInv /\ [Next]_vars => ReadInv'
<1> SUFFICES ASSUME PageInv, ReadInv, [Next]_vars PROVE ReadInv'
  OBVIOUS
<1>1. CASE Tick \/ UNCHANGED vars
  <2>1. history' = history /\ gen' = gen
    BY <1>1 DEF Tick, vars, ci
  <2> QED  BY <2>1, ReadSame
<1>2. CASE Start \/ Deploy
  <2>1. gen' \in {Idle, Opened}
    BY <1>2 DEF Start, Deploy
  <2> QED  BY <2>1, ReadNothing
<1> QED
  BY <1>1, <1>2, ReadRuns, ReadPush, ReadBranch, ReadPage, ReadLater DEF Next, Build

LEMMA ReadBegins == Init => ReadInv
BY Fresh DEF Init, ReadInv, Shifted, ScanInv, KeptInv, Late

\* The page deployed has the whole recent window and the newest project
\* commits up to the target less what was pushed meanwhile, whatever was pushed
\* between two of its pages (fetch_commits).
THEOREM HistoryIsKept == Spec => []HistoryKept
<1>1. ReadInv => HistoryKept
  <2> SUFFICES ASSUME ReadInv, Ready, "hard" \notin gen.hit,
                      NEW k \in DOMAIN gen.first,
                      \/ k <= RecentWindow
                      \/ /\ gen.first[k].project /\ k + PushedSince <= ScanCap
                         /\ Cardinality(Projects(gen.first, k - 1)) + PushedSince < ProjectTarget
               PROVE  \E c \in gen.rows : c.id = gen.first[k].id
    BY DEF HistoryKept
  <2> QED
    BY DEF ReadInv, KeptInv, Late, Ready, Due, Shown
<1>2. Spec => []ReadInv
  BY PageBegins, PageNext, ReadBegins, ReadNext, PTL DEF Spec
<1> QED
  BY <1>1, <1>2, PTL
=============================================================================
