---------------------------- MODULE PagesOverlay ----------------------------
(***************************************************************************)
(* What publish-gh-pages promises the workflows that use it: one publisher *)
(* at a time lays its own files over the published tree ("keep_files       *)
(* semantics: overlay our files, never delete others").                    *)
(***************************************************************************)
CONSTANTS
  Publishers,  \* the runs that publish
  Paths,       \* the paths of the gh-pages tree
  Files        \* publisher |-> the paths it publishes

VARIABLE tree  \* path |-> whose content it has

\* A tree with the files of p laid over it.
Overlay(t, p) == [f \in Paths |-> IF f \in Files[p] THEN p ELSE t[f]]

Init == \A f \in Paths : tree[f] \notin Publishers

Publish(p) == tree' = Overlay(tree, p)

Next == \E p \in Publishers : Publish(p)

Spec == Init /\ [][Next]_tree
=============================================================================
