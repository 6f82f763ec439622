----------------------------- MODULE MCGhPages -----------------------------
(***************************************************************************)
(* Values for the constants of GhPages in the runs.                        *)
(***************************************************************************)
EXTENDS GhPages, TLC

\* 1 then 2 are runs of one group and share "latest"; 3 is from another
\* workflow and shares "index" with 1; 4 is of a fork; nobody publishes "old".
SharedPaths == {"latest", "index", "r1", "r3", "old"}
SharedFiles == <<{"latest", "index", "r1"}, {"latest"}, {"index", "r3"}, {"index"}>>
OneGroup    == <<{}, {1}, {}, {}>>

\* Publishers that all write the same file.
OneFile == [p \in Publishers |-> {"index"}]
NoGroup == [p \in Publishers |-> {}]
Symmetric == Permutations(Publishers)
=============================================================================
