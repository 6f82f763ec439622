---------------------------- MODULE MCRunOverlay ----------------------------
(***************************************************************************)
(* Values for the constants of RunOverlay in the runs.                     *)
(***************************************************************************)
EXTENDS RunOverlay

Arrow  == [kind |-> "arrow", ts |-> 0]
Result == [kind |-> "result", ts |-> 0]

SetupOf(mode, plats, cells, n) == [mode |-> mode, plats |-> plats, cells |-> cells, clicks |-> n]

Both == {"windows", "linux"}

\* A cell clicked twice, or two cells at once.
Activities ==
  {SetupOf("single", {"windows"}, <<s>>, 2) : s \in {Arrow, Result}}
  \cup {SetupOf("single", {"windows"}, <<Arrow, Result>>, 1),
        SetupOf("single", Both, <<Result>>, 1),
        SetupOf("batch", Both, <<Arrow>>, 1),
        SetupOf("batch", {"windows"}, <<Arrow, Result>>, 1),
        SetupOf("gallery", {"windows"}, <<Arrow, Result>>, 1)}

=============================================================================
