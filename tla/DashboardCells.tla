--------------------------- MODULE DashboardCells ---------------------------
(***************************************************************************)
(* What one cell of the dashboard's table shows: the decisions of          *)
(* dashboard.py's row loop, from what it has read of the commit's          *)
(* statuses, of the Actions API and of the reports deployed on Pages.      *)
(* A row is a record                                                       *)
(*   [project, cap, status, alive, active, star, dead, deadStar, report,   *)
(*    now]                                                                 *)
(* of one commit and one activity (cap); status and report are functions   *)
(* of the platform.  Labels, links and colours of the markup are left out. *)
(***************************************************************************)
EXTENDS Integers, Sequences, FiniteSets

CONSTANTS
  MassCompileGate, UnitTestGate,  \* thresholds as labview-ci.yml gives them
  RunTargets,                     \* the activities whose workflow is installed
  StaleAge                        \* the age at which a pending status is orphaned

ASSUME CellsAssumption ==
  /\ MassCompileGate \in [green : Int, yellow : Int, red : Int]
  /\ UnitTestGate \in [green : Int, yellow : Int, red : Int]
  /\ StaleAge \in Nat

Plat == {"windows", "linux"}
Cap  == {"masscompile", "vi-analyzer", "vidiff", "snapshots", "unit-tests", "antidoc",
         "builds", "sbom-generation"}

NoStatus == [state |-> "none"]
NoReport == [none |-> TRUE]
NoRun    == [st |-> "none"]

-----------------------------------------------------------------------------
(* Percentages and their colours. *)

Clamp(n)      == IF n < 0 THEN 0 ELSE IF n > 100 THEN 100 ELSE n
Larger(a, b)  == IF a >= b THEN a ELSE b
Smaller(a, b) == IF a <= b THEN a ELSE b

\* The thresholds in force: clamped, then ordered around the yellow one.
Gate(raw) ==
  [green  |-> Larger(Clamp(raw.green), Clamp(raw.yellow)),
   yellow |-> Clamp(raw.yellow),
   red    |-> Smaller(Clamp(raw.red), Clamp(raw.yellow))]

\* round(100 * n / t), to the even neighbour when halfway; t > 0.
Percent(n, t) ==
  LET q == (100 * n) \div t   twice == 2 * ((100 * n) % t)
  IN IF twice > t \/ (twice = t /\ q % 2 = 1) THEN q + 1 ELSE q

MassCompileKind(percent, status) ==
  IF status = "failed" THEN "solid"
  ELSE IF percent >= Gate(MassCompileGate).green THEN "pass"
  ELSE IF percent >= Gate(MassCompileGate).yellow THEN "warn"
  ELSE "fail"

UnitTestKind(percent) ==
  IF percent >= Gate(UnitTestGate).green THEN "pass"
  ELSE IF percent < Gate(UnitTestGate).red THEN "fail"
  ELSE "warn"

FailPercent(r) == IF r.tests = 0 THEN 0 ELSE Percent(r.failed + r.errored, r.tests)
PassPercent(r) == IF r.tests = 0 THEN 100 ELSE Percent(r.passed, r.tests)

\* A degraded analysis (nothing analyzed, or something not loadable) is solid.
AnalyzerKind(r) ==
  IF r.analyzed = 0 \/ r.errors > 0 THEN "solid"
  ELSE IF r.findings > 0 THEN "warn"
  ELSE "pass"

StateKind(state) == CASE state = "success" -> "pass"
                      [] state = "pending" -> "warn"
                      [] OTHER             -> "fail"

-----------------------------------------------------------------------------
(* Statuses.  "at" orders them, "born" is the clock when they were posted. *)

\* The contexts a column looks at: only the Windows one unless it lists both.
Contexts(cap) == IF cap \in {"vi-analyzer", "vidiff"} THEN Plat ELSE {"windows"}

Stale(s, now) == s.state = "pending" /\ now - s.born >= StaleAge

Newest(S) == CHOOSE s \in S : \A t \in S : t.at <= s.at

\* The status whose result the cell shows: a terminal one before a pending
\* one, then the newest; an orphaned pending counts for nothing.
PickStatus(row) ==
  LET cands    == {row.status[p] : p \in Contexts(row.cap)} \ {NoStatus}
      terminal == {s \in cands : s.state # "pending"}
      chosen   == Newest(IF terminal # {} THEN terminal ELSE cands)
  IN IF cands = {} THEN NoStatus
     ELSE IF Stale(chosen, row.now) THEN NoStatus ELSE chosen

\* Mutant of FreshPending: a pending status is believed.
FreshBelieved(row) ==
  LET fresh == {p \in Contexts(row.cap) :
                  row.status[p].state = "pending" /\ ~Stale(row.status[p], row.now)}
  IN fresh # {}

\* The newest fresh pending status belongs to a run that is still active.
FreshPending(row) ==
  LET fresh == {row.status[p] : p \in {q \in Contexts(row.cap) :
                  row.status[q].state = "pending" /\ ~Stale(row.status[q], row.now)}}
  IN fresh # {} /\ Newest(fresh).run \in row.alive

-----------------------------------------------------------------------------
(* Cells. *)

Cell(kind)  == [kind |-> kind, segs |-> <<>>]
Chip(kinds) == [kind |-> "chip", segs |-> kinds]
Live(cell)  == cell.kind \in {"queued", "running"}
Waiting     == {"queued", "pending"}   \* and requested, waiting

\* Mutant of RunCell: a run that died leaves the run arrow.
RunCellForgets(row) ==
  LET ar == IF row.active # NoRun THEN row.active ELSE row.star
  IN IF row.cap \notin RunTargets THEN Cell("dash")
     ELSE IF ar # NoRun /\ ar.st \in Waiting THEN Cell("queued")
     ELSE IF ar # NoRun THEN Cell("running")
     ELSE Cell("run")

\* A cell without a result: the live run, the run that died without a
\* result, or the arrow that offers a run.
RunCell(row) ==
  LET ar == IF row.active # NoRun THEN row.active ELSE row.star
      fr == row.dead \/ row.deadStar
  IN IF row.cap \notin RunTargets THEN Cell("dash")
     ELSE IF ar # NoRun /\ ar.st \in Waiting THEN Cell("queued")
     ELSE IF ar # NoRun THEN Cell("running")
     ELSE IF fr THEN Cell("failed")
     ELSE Cell("run")

\* Mutant of HasActive: a result hides the other platform's run.
HasActiveUnlessReport(row) == row.active # NoRun /\ \A p \in Plat : row.report[p] = NoReport

HasActive(row) == row.active # NoRun

ActiveRunCell(row) == IF row.active.st = "queued" THEN Cell("queued") ELSE Cell("running")

Badge(row) ==
  IF FreshPending(row) THEN Cell("running")
  ELSE IF HasActive(row) THEN ActiveRunCell(row)
  ELSE IF PickStatus(row) = NoStatus THEN RunCell(row)
  ELSE Chip(<<StateKind(PickStatus(row).state)>>)

\* Mutant of Present: Windows is looked at only.
PresentWindows(row) == {p \in {"windows"} : row.report[p] # NoReport}

Present(row) == {p \in Plat : row.report[p] # NoReport}

\* The reports present, Windows first, each as KindOf sees it.
Segments(row, KindOf(_)) ==
  (IF row.report["windows"] # NoReport THEN <<KindOf(row.report["windows"])>> ELSE <<>>)
  \o (IF row.report["linux"] # NoReport THEN <<KindOf(row.report["linux"])>> ELSE <<>>)

MassCompileCell(row) ==
  LET kind(r) == MassCompileKind(r.percent, r.status)
  IN IF HasActive(row) THEN ActiveRunCell(row)
     ELSE IF Present(row) # {} THEN Chip(Segments(row, kind))
     ELSE Badge(row)

AnalyzerCell(row) ==
  IF HasActive(row) THEN ActiveRunCell(row)
  ELSE IF Present(row) # {} THEN Chip(Segments(row, AnalyzerKind))
  ELSE Badge(row)

\* Two platforms share one chip in the colour of the worse pass rate.
UnitTestCell(row) ==
  LET rates == {PassPercent(row.report[p]) : p \in Present(row)}
      worst == CHOOSE x \in rates : \A y \in rates : x <= y
  IN IF FreshPending(row) THEN Cell("running")
     ELSE IF HasActive(row) THEN ActiveRunCell(row)
     ELSE IF Present(row) # {} THEN Chip(<<UnitTestKind(worst)>>)
     ELSE Badge(row)

\* The counts of changed VIs, whatever the state of the status.
DiffCell(row) ==
  IF FreshPending(row) THEN Cell("running")
  ELSE IF HasActive(row) THEN ActiveRunCell(row)
  ELSE IF PickStatus(row) = NoStatus THEN RunCell(row)
  ELSE Chip(<<"counts">>)

\* One gallery for all platforms: its report says how many VIs have a snapshot.
SnapshotCell(row) ==
  LET r == row.report["windows"]
  IN IF FreshPending(row) THEN Cell("running")
     ELSE IF HasActive(row) THEN ActiveRunCell(row)
     ELSE IF r = NoReport \/ r.have <= 0 THEN RunCell(row)
     ELSE IF r.have >= r.total THEN Chip(<<"info">>)
     ELSE Chip(<<"warn">>)

\* Built and failed specifications, summed over the platforms.
BuildsCell(row) ==
  LET sum(f) == (IF "windows" \in Present(row) THEN row.report["windows"][f] ELSE 0)
                + (IF "linux" \in Present(row) THEN row.report["linux"][f] ELSE 0)
  IN IF HasActive(row) THEN ActiveRunCell(row)
     ELSE IF Present(row) = {} THEN RunCell(row)
     ELSE IF sum("total") <= 0 THEN Cell("dash")
     ELSE Chip(<<"pass", IF sum("failed") > 0 THEN "fail" ELSE "muted">>)

CellOf(row) ==
  IF ~row.project THEN Cell("dash")
  ELSE CASE row.cap = "masscompile" -> MassCompileCell(row)
         [] row.cap = "vi-analyzer" -> AnalyzerCell(row)
         [] row.cap = "vidiff"      -> DiffCell(row)
         [] row.cap = "snapshots"   -> SnapshotCell(row)
         [] row.cap = "unit-tests"  -> UnitTestCell(row)
         [] row.cap = "builds"      -> BuildsCell(row)
         [] OTHER                   -> Badge(row)

=============================================================================
