------------------------------ MODULE TestReport ------------------------------
(***************************************************************************)
(* One unit-test run: run-unit-tests.ps1 runs the configured tools in      *)
(* order, each leaving a JUnit file, a torn one, or nothing, and           *)
(* build-unittest-report.py merges the files into one page.                *)
(*                                                                         *)
(* A result file is [tool, torn, root, own, nested]: whether its root is   *)
(* one test suite, the cases of the root itself (and of elements that are  *)
(* no suite to the reader, such as a namespace's), and the cases of the    *)
(* suites below it, at whatever depth.  A case has the elements found in   *)
(* it and three identifiers.  An identifier is [path, vi]: a sequence of   *)
(* names, empty when missing, vi when it ends in .vi.  Times, messages and *)
(* the names of the suites are left out; names are in lower case, as they  *)
(* are compared.                                                           *)
(***************************************************************************)
EXTENDS Naturals, FiniteSets, SequencesExt

CONSTANTS
  TestFiles,  \* the .vi files of the workspace, as paths
  Stem,       \* base names with a test affix -> the name without it
  Tools,      \* the configured tools, a sequence
  Reports,    \* what a tool may write, a file without its tool
  Reporting   \* the tools whose missing result is recorded as an issue

Identifier == [path : Seq(STRING), vi : BOOLEAN]
Statuses   == {"passed", "failed", "error", "skipped"}
TestCase   == [elements : SUBSET {"failure", "error", "skipped"}, file : Identifier,
               class : Identifier, name : {id \in Identifier : id.path # <<>>}]
Report     == [torn : BOOLEAN, root : {"testsuite", "other"},
               own : Seq(TestCase), nested : Seq(TestCase)]

ASSUME TestAssumption ==
  /\ IsFiniteSet(TestFiles) /\ Reports \subseteq Report
  /\ Tools \in Seq(STRING) /\ Reporting \subseteq {Tools[i] : i \in DOMAIN Tools}

VARIABLES
  ran,       \* how many tools ran, or -1 when no test run is under way
  results,   \* the files written, in order
  issues,    \* the tools recorded in _tooling.json
  testPage   \* the report

testVars == <<ran, results, issues, testPage>>

Unbuilt == [absent |-> TRUE]

-----------------------------------------------------------------------------
(* The tools. *)

Leaves(file) == /\ ran' = ran + 1
                /\ results' = results \o file
                /\ UNCHANGED testPage

ToolWrites ==
  /\ ran >= 0 /\ ran < Len(Tools)
  /\ \E r \in Reports :
       Leaves(<<[tool |-> Tools[ran + 1], torn |-> r.torn, root |-> r.root, own |-> r.own, nested |-> r.nested]>>)
  /\ UNCHANGED issues

\* A tool that writes nothing: with no tests, projects or command line to run
\* it says so in the log only; a command that left no file may be an issue for
\* the banner.
ToolFails ==
  /\ ran >= 0 /\ ran < Len(Tools)
  /\ Leaves(<<>>)
  /\ issues' \in {issues, issues \cup ({Tools[ran + 1]} \cap Reporting)}

-----------------------------------------------------------------------------
(* The report. *)

\* Build output and the tooling's own folders hold no test VI.
TestVIs == {f \in TestFiles : ~(Len(f) > 1 /\ Head(f) \in {".git", ".github", "ci-out", "build"})}

Named(name) == {f \in TestVIs : f[Len(f)] = name}

\* A path is believed; a name must be that of one VI.
ResolveVI(id) ==
  IF id.path = <<>> THEN <<>>
  ELSE IF id.vi /\ Len(id.path) > 1 THEN id.path
  ELSE IF Cardinality(Named(id.path[Len(id.path)])) = 1 THEN CHOOSE f \in Named(id.path[Len(id.path)]) : TRUE
  ELSE <<>>

Or(p, q) == IF p # <<>> THEN p ELSE q

TestVI(case) == Or(ResolveVI(case.file), Or(ResolveVI(case.class), ResolveVI(case.name)))

\* The VI under test: the test's name without its affix.
Target(case) ==
  LET test == Or(TestVI(case), case.name.path)
      name == test[Len(test)]
  IN IF name \in DOMAIN Stem THEN ResolveVI([path |-> <<Stem[name]>>, vi |-> FALSE]) ELSE <<>>

\* Mutant of CaseStatus: a skipped element hides a failure.
CaseSkipFirst(case) ==
  IF "skipped" \in case.elements THEN "skipped"
  ELSE IF "failure" \in case.elements THEN "failed"
  ELSE IF "error" \in case.elements THEN "error"
  ELSE "passed"

CaseStatus(case) ==
  IF "failure" \in case.elements THEN "failed"
  ELSE IF "error" \in case.elements THEN "error"
  ELSE IF "skipped" \in case.elements THEN "skipped"
  ELSE "passed"

\* The tool is read off the file's name; an unknown one passes for Caraya.
ToolFor(name) == IF name \in {"vi-tester", "lunit", "utf"} THEN name ELSE "caraya"

\* Of a file that is one suite, its own cases only; else those of the suites in it.
CasesIn(file) ==
  IF file.torn THEN <<>> ELSE IF file.root = "testsuite" THEN file.own ELSE file.nested

\* The suites of a file, as one; a torn file makes a suite without cases.
SuiteFrom(file) ==
  LET cases == CasesIn(file)
  IN [tool |-> ToolFor(file.tool), parseError |-> file.torn,
      cases |-> [i \in DOMAIN cases |-> [status |-> CaseStatus(cases[i]),
                                         test   |-> TestVI(cases[i]),
                                         target |-> Target(cases[i])]]]

Count(suites, status) ==
  Cardinality({at \in UNION {{i} \X DOMAIN suites[i].cases : i \in DOMAIN suites} :
                 suites[at[1]].cases[at[2]].status = status})

Verdict(passed, failed, errored, total) ==
  IF total = 0 THEN "empty" ELSE IF failed = 0 /\ errored = 0 THEN "passed" ELSE "failed"

TestData(files, missing) ==
  LET suites == [i \in DOMAIN files |-> SuiteFrom(files[i])]
      of(status) == Count(suites, status)
      total == of("passed") + of("failed") + of("error") + of("skipped")
  IN [suites |-> suites, missing |-> missing, tests |-> total,
      counts |-> [status \in Statuses |-> of(status)],
      tools  |-> {suites[i].tool : i \in DOMAIN suites},
      status |-> Verdict(of("passed"), of("failed"), of("error"), total)]

BuildTests == /\ ran = Len(Tools) /\ testPage = Unbuilt
              /\ testPage' = TestData(results, issues)
              /\ UNCHANGED <<ran, results, issues>>

TestsIdle == ran = -1 /\ results = <<>> /\ issues = {} /\ testPage = Unbuilt
TestsInit == ran = 0 /\ results = <<>> /\ issues = {} /\ testPage = Unbuilt
TestsNext == ToolWrites \/ ToolFails \/ BuildTests

-----------------------------------------------------------------------------
(* Properties. *)

\* The cases a reader of the files finds, by file and place.
Cases == UNION {{i} \X DOMAIN CasesIn(results[i]) : i \in DOMAIN results}
CaseAt(at) == CasesIn(results[at[1]])[at[2]]
Marks == SUBSET {"failure", "error", "skipped"}
Marked(E) == Cardinality({at \in Cases : CaseAt(at).elements \in E})

\* The page and the commit status drawn from it are green only when no test
\* the reader found failed, whichever elements its case carries; every case
\* found is counted once, a failure before an error before a skip, and one
\* with none of them as passed; and every torn file is on the page.
VerdictRight ==
  testPage # Unbuilt =>
    /\ testPage.status \in {"passed", "empty"} =>
         \A at \in Cases : CaseAt(at).elements \cap {"failure", "error"} = {}
    /\ testPage.tests = Cardinality(Cases)
    /\ testPage.counts["failed"] = Marked({e \in Marks : "failure" \in e})
    /\ testPage.counts["error"] = Marked({e \in Marks : "error" \in e /\ "failure" \notin e})
    /\ testPage.counts["skipped"] = Marked({{"skipped"}})
    /\ testPage.counts["passed"] = Marked({{}})
    /\ \A i \in DOMAIN results : results[i].torn => testPage.suites[i].parseError

\* The one VI of the workspace with that name.
Only(vi, name) == vi \in TestVIs /\ \A f \in TestVIs : f[Len(f)] = name <=> f = vi

\* A case links to a VI only when one of its identifiers gave that path, or
\* has the name of that VI and of no other in the workspace; the VI under test
\* only when it alone has the name of the test, or of the case, less its affix.
LinksRight ==
  testPage # Unbuilt =>
    \A at \in Cases :
      LET case  == CaseAt(at)
          shown == testPage.suites[at[1]].cases[at[2]]
          named == IF shown.test # <<>> THEN shown.test ELSE case.name.path
          bare  == named[Len(named)]
      IN /\ shown.test # <<>> =>
              \E id \in {case.file, case.class, case.name} :
                \/ id.vi /\ shown.test = id.path
                \/ id.path # <<>> /\ Only(shown.test, id.path[Len(id.path)])
         /\ shown.target # <<>> => bare \in DOMAIN Stem /\ Only(shown.target, Stem[bare])

\* What the page says of the tests, and of the VIs they are about, is so.
TestsHonest == VerdictRight /\ LinksRight

\* A tool that could not run surfaces: a green page has a readable result of
\* every configured tool (README, section 6).
GreenMeansRan ==
  testPage # Unbuilt /\ testPage.status = "passed" =>
    \A i \in DOMAIN Tools : \E k \in DOMAIN results : results[k].tool = Tools[i] /\ ~results[k].torn

\* Nothing that failed is missed: a green page has no failing case in any file
\* (README, section 6).
EveryCaseHeard ==
  testPage # Unbuilt /\ testPage.status = "passed" =>
    \A i \in DOMAIN results : \A list \in {results[i].own, results[i].nested} :
      \A j \in DOMAIN list : list[j].elements \cap {"failure", "error"} = {}
=============================================================================
