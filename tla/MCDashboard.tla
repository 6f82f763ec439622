---------------------------- MODULE MCDashboard ----------------------------
(***************************************************************************)
(* Values for the constants of Dashboard in the runs.                      *)
(***************************************************************************)
EXTENDS Dashboard

Commits(kinds) == [k \in DOMAIN kinds |-> [id |-> Len(kinds) + 1 - k, project |-> kinds[k] = "P"]]

OneRow(cap, plan, done, losses) ==
  [cap |-> cap, plan |-> plan, done |-> done, history |-> Commits(<<"P">>), pushes |-> 0, main |-> TRUE,
   faults |-> losses]
NoCI(kinds, pushes, main) ==
  [cap |-> "antidoc", plan |-> <<>>, done |-> {}, history |-> Commits(kinds), pushes |-> pushes, main |-> main,
   faults |-> 1]

Pushed(p)     == [plat |-> p, event |-> "push"]
Dispatched(p) == [plat |-> p, event |-> "dispatch"]
Untitled(p)   == [plat |-> p, event |-> "untitled"]
Both          == <<Pushed("windows"), Dispatched("linux")>>

\* Deep histories, scanned with a window of two and pages of two.
Histories ==
  {NoCI(<<"P", "T", "T", "T", "P", "T", "P", "T">>, 1, FALSE),
   NoCI(<<"T", "T", "P", "P", "T", "P">>, 1, TRUE),
   NoCI(<<"T", "P", "T", "P">>, 2, TRUE)}

\* One run that moves, after none or one of the same platform or the other.
Columns ==
  {OneRow(cap, Both, {1}, 0) : cap \in {"masscompile", "vi-analyzer", "vidiff", "builds"}}
  \cup {OneRow(cap, <<Pushed("linux")>>, {}, 0) :
          cap \in {"masscompile", "vi-analyzer", "vidiff", "builds"}}
  \cup {OneRow("unit-tests", <<Pushed("windows"), Dispatched("windows")>>, {1}, 0),
        OneRow("snapshots", <<Dispatched("windows")>>, {}, 0),
        OneRow("antidoc", <<Untitled("windows")>>, {}, 0),
        OneRow("sbom-generation", <<Dispatched("windows")>>, {}, 0)}

OneRun == {OneRow("masscompile", <<Pushed("windows")>>, {}, 1)}

AllScenarios == Histories \cup Columns \cup OneRun

Reports ==
  [cap \in Cap |->
     CASE cap = "masscompile" -> {[percent |-> 100, status |-> "ok"], [percent |-> 80, status |-> "failed"]}
       [] cap = "vi-analyzer" -> {[analyzed |-> 2, errors |-> 0, findings |-> 1]}
       [] cap = "unit-tests"  -> {[tests |-> 0, passed |-> 0, failed |-> 0, errored |-> 0],
                                  [tests |-> 2, passed |-> 1, failed |-> 1, errored |-> 0]}
       [] cap = "snapshots"   -> {[have |-> 0, total |-> 2], [have |-> 1, total |-> 2]}
       [] cap = "builds"      -> {[total |-> 0, failed |-> 0], [total |-> 2, failed |-> 1]}
       [] OTHER               -> {[done |-> TRUE]}]

MassGate == [green |-> 95, yellow |-> 80, red |-> 80]
UnitGate == [green |-> 100, yellow |-> 80, red |-> 80]

=============================================================================
