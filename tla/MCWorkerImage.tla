---------------------------- MODULE MCWorkerImage ----------------------------
(***************************************************************************)
(* Values for the constants of WorkerImage in the runs.                    *)
(***************************************************************************)
EXTENDS WorkerImage, TLC

Ask(kind, policy, mode) == [kind |-> kind, policy |-> policy, mode |-> mode]

Rebuilds == {Ask("build", "drain", "replace"), Ask("build", "cancel", "replace"),
             Ask("copy", "drain", "replace")}
AllModes == Rebuilds \cup {Ask("build", "drain", "new")}
Drains   == {Ask("build", "drain", "replace")}

=============================================================================
