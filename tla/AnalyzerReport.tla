--------------------------- MODULE AnalyzerReport ---------------------------
(***************************************************************************)
(* One VI Analyzer run with several configurations: run-vi-analyzer.ps1    *)
(* plans one pass per rule of config.viAnalyzer and one for the default,   *)
(* runs them in order, each leaving a native report or none, and           *)
(* build-analyzer-report.py merges the native reports into one page.       *)
(*                                                                         *)
(* A VI is its path below the workspace, a sequence of lower-case names    *)
(* without the extension; so is a scope.  Order, severities, wording and   *)
(* the HTML of the native report are left out.                             *)
(***************************************************************************)
EXTENDS Naturals, FiniteSets, SequencesExt

CONSTANTS
  Code,       \* the VIs of the workspace, the tooling's own included
  Failing,    \* configuration -> VI -> the tests of it the VI fails
  Broken,     \* configuration -> the VIs of it that could not be tested
  Empty,      \* configurations that run no test in this LabVIEW
  Committed,  \* the first committed .viancfg, or "" when there is none
  Settings    \* the config.viAnalyzer values: records [default, rules]

ASSUME AnalyzerAssumption ==
  /\ "builtin" \in DOMAIN Failing /\ DOMAIN Broken = DOMAIN Failing
  /\ \A c \in DOMAIN Failing : DOMAIN Failing[c] = Code /\ Broken[c] \subseteq Code
  /\ Empty \subseteq DOMAIN Failing \ {"builtin"}
  /\ \A s \in Settings :
       s.rules \in Seq([config : DOMAIN Failing \cup {"none"}, paths : SUBSET Seq(STRING)])

VARIABLES
  viaPlan,     \* the passes, in order
  viaReports,  \* what the passes run so far left, in order
  viaPage      \* the merged report

viaVars == <<viaPlan, viaReports, viaPage>>

Absent == [absent |-> TRUE]

-----------------------------------------------------------------------------
(* The plan. *)

PassOf(rule) == [kind |-> IF rule.config = "none" THEN "exclude" ELSE "rule",
                 config |-> rule.config, paths |-> rule.paths]

DefaultOf(setting) == IF setting.default # "" THEN setting.default
                      ELSE IF Committed # "" THEN Committed
                      ELSE "builtin"

DefaultPass(config) == [kind |-> "default", config |-> config, paths |-> {}]

Plan(setting) ==
  LET def == DefaultOf(setting)
  IN [i \in DOMAIN setting.rules |-> PassOf(setting.rules[i])]
     \o (IF def = "none" THEN <<>> ELSE <<DefaultPass(def)>>)

\* The whole workspace with the built-in suite needs no merge.
Single(plan) == plan = <<DefaultPass("builtin")>>

-----------------------------------------------------------------------------
(* Paths. *)

IsTooling(vi) == Head(vi) \in {".github", "ci-out", "build"} /\ Len(vi) > 1

\* The scope is the VI itself or a folder above it.
PathMatches(vi, scope) == scope # <<>> /\ IsPrefix(scope, vi)

InScope(vi, pass) == \E s \in pass.paths : PathMatches(vi, s)

-----------------------------------------------------------------------------
(* A pass. *)

\* A default configuration that runs no test is replaced by the built-in suite.
SuiteOf(pass) == IF pass.kind = "default" /\ pass.config \in Empty THEN "builtin" ELSE pass.config

Analyzed(pass) == IF pass.kind = "default" THEN Code ELSE {v \in Code : InScope(v, pass)}

\* The native report: the VIs with failures, those not tested, and how many were read.
Native(pass) ==
  LET suite == SuiteOf(pass)
      bad   == {v \in Analyzed(pass) : Failing[suite][v] # {}}
  IN [vis      |-> [v \in bad |-> Failing[suite][v]],
      errors   |-> Broken[suite] \cap Analyzed(pass),
      analyzed |-> Cardinality(Analyzed(pass))]

RunPass ==
  /\ Len(viaReports) < Len(viaPlan)
  /\ LET pass == viaPlan[Len(viaReports) + 1]
     IN \E left \in (IF pass.kind = "exclude" THEN {Absent} ELSE {Absent, Native(pass)}) :
          viaReports' = Append(viaReports, left)
  /\ UNCHANGED <<viaPlan, viaPage>>

-----------------------------------------------------------------------------
(* The page. *)

\* The failures of a native report, the tooling's own VIs left out.
Failures(report) ==
  IF report = Absent THEN <<>>
  ELSE [v \in {w \in DOMAIN report.vis : ~IsTooling(w)} |-> report.vis[v]]

Excluded(vi, plan) ==
  \E i \in DOMAIN plan :
     /\ plan[i].kind = "exclude" \/ (plan[i].kind = "rule" /\ plan[i].config = "none")
     /\ InScope(vi, plan[i])

\* Mutant of ClaimedByRule: a rule whose pass found nothing claims nothing.
ClaimedByFinding(vi, plan) ==
  \E i \in DOMAIN plan : plan[i].kind = "rule" /\ InScope(vi, plan[i]) /\ vi \in DOMAIN Failures(viaReports[i])

ClaimedByRule(vi, plan) ==
  \E i \in DOMAIN plan : plan[i].kind = "rule" /\ InScope(vi, plan[i])

\* The passes whose failures of the VI the merge would take: the first rule
\* that reports the VI, the default where no rule's scope holds it.
Sources(vi, plan, reports) ==
  {i \in DOMAIN plan :
     /\ vi \in DOMAIN Failures(reports[i])
     /\ ~Excluded(vi, plan)
     /\ \/ plan[i].kind = "rule" /\ InScope(vi, plan[i])
        \/ plan[i].kind = "default" /\ ~ClaimedByRule(vi, plan)}

MergePasses(plan, reports) ==
  LET shown   == {v \in Code : Sources(v, plan, reports) # {}}
      from(v) == CHOOSE i \in Sources(v, plan, reports) :
                   \A j \in Sources(v, plan, reports) : i <= j
  IN [v \in shown |-> [config |-> plan[from(v)].config,
                       failures |-> Failures(reports[from(v)])[v]]]

\* The failures test by test: how often each is reported, and on which VIs.
RuleCounts(vis) ==
  LET tests == UNION {vis[v].failures : v \in DOMAIN vis}
  IN [t \in tests |-> {v \in DOMAIN vis : t \in vis[v].failures}]

Present(reports) == {i \in DOMAIN reports : reports[i] # Absent}

\* Every VI some pass could not test, once.
TestingErrors(reports) == UNION {reports[i].errors : i \in Present(reports)}

Total(f) == FoldFunction(LAMBDA x, n : n + x, 0, f)

Finalize(vis, reports) ==
  [vis      |-> vis,
   rules    |-> RuleCounts(vis),
   findings |-> Total([v \in DOMAIN vis |-> Cardinality(vis[v].failures)]),
   analyzed |-> Total([i \in Present(reports) |-> reports[i].analyzed]),
   errors   |-> TestingErrors(reports)]

SinglePage(reports) ==
  Finalize([v \in DOMAIN Failures(reports[1]) |->
              [config |-> "builtin", failures |-> Failures(reports[1])[v]]], reports)

\* Without its only report a run of one pass ends without a page; a run of
\* several makes a page of those it has, if need be an empty one.
BuildAnalyzer ==
  /\ viaPlan # <<>> /\ Len(viaReports) = Len(viaPlan) /\ viaPage = Absent
  /\ Single(viaPlan) => viaReports[1] # Absent
  /\ viaPage' = IF Single(viaPlan) THEN SinglePage(viaReports)
                ELSE Finalize(MergePasses(viaPlan, viaReports), viaReports)
  /\ UNCHANGED <<viaPlan, viaReports>>

AnalyzerIdle == viaPlan = <<>> /\ viaReports = <<>> /\ viaPage = Absent

AnalyzerInit == /\ \E s \in Settings : viaPlan = Plan(s)
                /\ viaReports = <<>> /\ viaPage = Absent

AnalyzerNext == RunPass \/ BuildAnalyzer

-----------------------------------------------------------------------------
(* Properties. *)

Owners(vi) == {i \in DOMAIN viaPlan : viaPlan[i].kind = "rule" /\ InScope(vi, viaPlan[i])}

Default == {i \in DOMAIN viaPlan : viaPlan[i].kind = "default"}

\* A VI of the project is at the top of the workspace, or in no folder of the
\* tooling.
ProjectVI(vi) == Len(vi) = 1 \/ Head(vi) \notin {".github", "ci-out", "build"}

\* A rule's scope replaces the default for the VIs below it, and an excluded
\* scope drops its VIs: what the page says of a VI was found by a
\* configuration that applies to it, whatever pass crashed or found nothing.
AppliedConfig ==
  viaPage # Absent =>
    \A v \in DOMAIN viaPage.vis :
       /\ ~Excluded(v, viaPlan)
       /\ \E i \in IF Owners(v) = {} THEN Default ELSE Owners(v) :
             viaPage.vis[v].config = viaPlan[i].config

\* No failure is lost in the merge: where one configuration applies to a VI of
\* the project and its pass left a report, the page has all it says of the VI,
\* in the VI's card and in the count of each test.
FindingsShown ==
  viaPage # Absent =>
    \A v \in Code : ProjectVI(v) /\ ~Excluded(v, viaPlan) =>
      \A i \in IF Owners(v) = {} THEN Default ELSE Owners(v) :
        (Owners(v) \subseteq {i} /\ viaReports[i] # Absent /\ v \in DOMAIN viaReports[i].vis) =>
           /\ v \in DOMAIN viaPage.vis
           /\ viaPage.vis[v].failures = viaReports[i].vis[v]
           /\ \A t \in viaReports[i].vis[v] : v \in viaPage.rules[t]

\* The merge neither hides nor misattributes what the passes found.
MergeFaithful == AppliedConfig /\ FindingsShown

\* The first rule whose scope contains a VI owns it.  A later rule must not
\* speak for a VI the first one found clean.
FirstRuleOwns ==
  viaPage # Absent =>
    \A v \in DOMAIN viaPage.vis :
       Owners(v) # {} =>
          viaPage.vis[v].config =
            viaPlan[CHOOSE i \in Owners(v) : \A j \in Owners(v) : i <= j].config
=============================================================================
