--------------------------- MODULE ReleaseChannels ---------------------------
(***************************************************************************)
(* What a consumer of LabVIEW CI may rely on, whatever happens in the      *)
(* workflows that publish it (README, "Which tag to pin"): a version tag   *)
(* is written once, and a moving ref names a published release of its line.*)
(***************************************************************************)
EXTENDS Naturals

CONSTANTS
  Versions,      \* every version there could be
  RefName,       \* the moving refs
  NoVersion,     \* an absent ref
  V0,            \* the first published version
  OnLine(_, _)   \* OnLine(r, v): ref r may name version v

VARIABLES
  tags,  \* version |-> the commit it names, 0 while unpublished
  refs   \* moving ref |-> the version it names

vars == <<tags, refs>>

Published(v) == tags[v] # 0

Init ==
  /\ \A v \in Versions : Published(v) <=> v = V0
  /\ \A r \in RefName : refs[r] \in {V0, NoVersion} /\ (refs[r] = V0 => OnLine(r, V0))

\* A release is published: its tag, and nothing else, comes into being.
Publish(v) ==
  /\ ~Published(v) /\ Published(v)'
  /\ tags' = [tags EXCEPT ![v] = tags'[v]]
  /\ UNCHANGED refs

\* A moving ref is set to a published release of its line.
Move(r, v) ==
  /\ Published(v) /\ OnLine(r, v)
  /\ refs' = [refs EXCEPT ![r] = v]
  /\ UNCHANGED tags

Next == \/ \E v \in Versions : Publish(v)
        \/ \E r \in RefName, v \in Versions : Move(r, v)

Spec == Init /\ [][Next]_vars
=============================================================================
