-------------------------- MODULE MCReleasePipeline --------------------------
(***************************************************************************)
(* Values for the constants of ReleasePipeline in the runs.                *)
(***************************************************************************)
EXTENDS ReleasePipeline

Work_(m, d, p) == [merge |-> m, dispatch |-> d, promote |-> p]
OneEach    == Work_(1, 1, 1)
OneAndTwo  == Work_(0, 1, 2)
TwoAndOne  == Work_(2, 0, 1)
=============================================================================
