------------------------------ MODULE Builders ------------------------------
(***************************************************************************)
(* The programs that turn what a container left into what the dashboard    *)
(* and the worker read.  Each runs in a job of its own on files of its     *)
(* own, so they share no state, and one at a time is enough to see all     *)
(* they do.                                                                *)
(***************************************************************************)
EXTENDS AnalyzerReport, CompileReport, TestReport, ToolingClosure

vars == <<viaVars, compileVars, testVars, closureVars>>

Init == \/ AnalyzerInit /\ CompileIdle /\ TestsIdle /\ ClosureIdle
        \/ AnalyzerIdle /\ CompileInit /\ TestsIdle /\ ClosureIdle
        \/ AnalyzerIdle /\ CompileIdle /\ TestsInit /\ ClosureIdle
        \/ AnalyzerIdle /\ CompileIdle /\ TestsIdle /\ ClosureInit

Next == \/ AnalyzerNext /\ UNCHANGED <<compileVars, testVars, closureVars>>
        \/ CompileNext  /\ UNCHANGED <<viaVars, testVars, closureVars>>
        \/ TestsNext    /\ UNCHANGED <<viaVars, compileVars, closureVars>>
        \/ ClosureNext  /\ UNCHANGED <<viaVars, compileVars, testVars>>

Spec == Init /\ [][Next]_vars
=============================================================================
