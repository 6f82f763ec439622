--------------------------- MODULE GhPagesProofs ---------------------------
(***************************************************************************)
(* Proofs about GhPages, for any publishers, paths, groups and attempts.   *)
(***************************************************************************)
EXTENDS GhPages, FiniteSetTheorems, SequenceTheorems, TLAPS

\* The run is under way, or has content on the branch.
Active(q) == \/ pc[q] \in {"fetch", "push"}
             \/ \E i \in DOMAIN branch, f \in Paths : branch[i][f] = q

\* The runs before an active one in its group are over.
GroupClear ==
  \A q \in Publishers : Active(q) => \A r \in Earlier[q] : pc[r] \in Ended

IInv == /\ TypeOK /\ CloneFaithful /\ SuccessLanded
        /\ NoPartialReport /\ GroupClear

-----------------------------------------------------------------------------
\* The operators the actions are built from.

LEMMA OverlayType ==
  ASSUME NEW t \in Tree, NEW p \in Publishers
  PROVE  Overlay(t, p) \in Tree /\ HasAll(Overlay(t, p), p)
BY FilesAssumption DEF Overlay, Tree, HasAll

LEMMA TipType == TypeOK => Tip \in Tree
<1> SUFFICES ASSUME TypeOK PROVE Tip \in Tree
  OBVIOUS
<1>1. Empty \in Tree
  BY DEF Empty, Tree
<1>2. ASSUME branch # <<>> PROVE branch[Len(branch)] \in Tree
  <2>1. branch \in Seq(Tree) /\ Len(branch) \in 1..Len(branch)
    BY <1>2 DEF TypeOK
  <2> QED BY <2>1, ElementOfSeq
<1> QED BY <1>1, <1>2 DEF Tip

\* A clone that is up to date carries the tip with its own files over it.
LEMMA CurrentClone ==
  ASSUME TypeOK, CloneFaithful, NEW p \in Publishers, pc[p] = "push", Accepted(p)
  PROVE  clone[p].tree = Overlay(Tip, p)
<1>1. branch \in Seq(Tree) /\ Len(branch) \in Nat
  BY DEF TypeOK
<1>2. clone[p].base = Len(branch)
  BY DEF Accepted
<1>3. clone[p].tree = Overlay(IF Len(branch) = 0 THEN Empty ELSE branch[Len(branch)], p)
  BY <1>2 DEF CloneFaithful
<1>4. Len(branch) = 0 <=> branch = <<>>
  BY <1>1
<1> QED BY <1>3, <1>4 DEF Tip

\* The branch after one more commit.
LEMMA Appended ==
  ASSUME TypeOK, NEW t \in Tree, branch' = Append(branch, t)
  PROVE  /\ branch' \in Seq(Tree) /\ branch' # <<>>
         /\ Len(branch') = Len(branch) + 1 /\ Len(branch) \in Nat
         /\ DOMAIN branch = 1..Len(branch) /\ DOMAIN branch' = 1..(Len(branch) + 1)
         /\ \A i \in 1..Len(branch) : branch'[i] = branch[i]
         /\ branch'[Len(branch) + 1] = t /\ Tip' = t
<1>1. branch \in Seq(Tree)
  BY DEF TypeOK
<1>2. /\ branch' \in Seq(Tree) /\ Len(branch') = Len(branch) + 1
      /\ \A i \in 1..Len(branch) : branch'[i] = branch[i]
      /\ branch'[Len(branch) + 1] = t
  BY <1>1, AppendProperties
<1>3. Len(branch) \in Nat /\ DOMAIN branch = 1..Len(branch) /\ DOMAIN branch' = 1..Len(branch')
  BY <1>1, <1>2
<1>4. branch' # <<>>
  BY <1>2, <1>3
<1> QED BY <1>2, <1>3, <1>4 DEF Tip

-----------------------------------------------------------------------------
\* The actions, as the kinds of step the invariants distinguish.

\* A clone is made, and has a commit to push or nothing to add.
Prepares(p) ==
  /\ pc[p] = "fetch"
  /\ \/ Prepare(p, Len(branch), Tip) /\ branch # <<>>
     \/ Prepare(p, 0, Empty) /\ (branch = <<>> \/ MayFail)

\* A commit lands, and the run learns of it or not.
Lands(p) ==
  /\ pc[p] = "push" /\ Accepted(p) /\ UNCHANGED clone
  /\ branch' = Append(branch, clone[p].tree)
  /\ \/ Goto(p, "published") /\ UNCHANGED attempt
     \/ NextAttempt(p) /\ MayFail

\* The run moves on without touching a clone or the branch.
Moves(p) ==
  /\ UNCHANGED <<branch, clone>>
  /\ \/ MayStart(p) /\ \E l \in {"skipped", "fetch"} : Goto(p, l) /\ UNCHANGED attempt
     \/ pc[p] \in {"fetch", "push"} /\ NextAttempt(p)
     \/ pc[p] \notin Ended /\ Goto(p, "killed") /\ UNCHANGED attempt

LEMMA Cases ==
  ASSUME Next
  PROVE  \E p \in Publishers : Prepares(p) \/ Lands(p) \/ Moves(p)
<1> PICK p \in Publishers : Step(p) \/ Kill(p)
  BY DEF Next
<1>1. CASE Skip(p) \/ Start(p)
  BY <1>1 DEF Skip, Start, Moves
<1>2. CASE Fetch(p) \/ FetchFails(p)
  BY <1>2 DEF Fetch, FetchFails, Prepares
<1>3. CASE Push(p) \/ AnswerLost(p)
  BY <1>3 DEF Push, AnswerLost, Lands
<1>4. CASE PushRejected(p) \/ AttemptErrors(p) \/ Kill(p)
  BY <1>4 DEF PushRejected, AttemptErrors, Kill, Moves
<1> QED BY <1>1, <1>2, <1>3, <1>4 DEF Step

-----------------------------------------------------------------------------
LEMMA InitInvariant == Init => IInv
<1> SUFFICES ASSUME Init PROVE IInv
  OBVIOUS
<1> DEFINE old == [f \in Paths |-> Old]
<1>1. Empty \in Tree /\ old \in Tree
  BY DEF Empty, Tree
<1>2. /\ branch \in Seq(Tree)
      /\ \A i \in DOMAIN branch, f \in Paths : branch[i][f] \notin Publishers
  <2>1. CASE branch = <<>>
    BY <2>1
  <2>2. CASE branch = <<old>>
    <3>1. branch \in Seq(Tree) /\ DOMAIN branch = {1} /\ branch[1] = old
      BY <2>2, <1>1
    <3> QED BY <3>1, ContentAssumption
  <2> QED BY <2>1, <2>2 DEF Init
<1>3. TypeOK
  BY <1>1, <1>2 DEF Init, TypeOK, PC, Clone
<1>4. CloneFaithful /\ SuccessLanded /\ GroupClear
  BY <1>2 DEF Init, CloneFaithful, SuccessLanded, GroupClear, Active
<1>5. NoPartialReport
  BY <1>2, FilesAssumption DEF NoPartialReport
<1> QED BY <1>3, <1>4, <1>5 DEF IInv

LEMMA PreparesInvariant ==
  ASSUME IInv, NEW p \in Publishers, Prepares(p)
  PROVE  IInv'
<1> USE DEF IInv
<1>1. PICK base \in Nat, tree \in Tree :
        /\ Prepare(p, base, tree)
        /\ base <= Len(branch)
        /\ tree = IF base = 0 THEN Empty ELSE branch[base]
  <2>1. Tip \in Tree /\ Empty \in Tree
    BY TipType DEF Empty, Tree
  <2>2. branch \in Seq(Tree) /\ Len(branch) \in Nat /\ (Len(branch) = 0 <=> branch = <<>>)
    BY DEF TypeOK
  <2>3. Tip = IF Len(branch) = 0 THEN Empty ELSE branch[Len(branch)]
    BY <2>2 DEF Tip
  <2>4. CASE Prepare(p, Len(branch), Tip)
    BY <2>1, <2>2, <2>3, <2>4
  <2>5. CASE Prepare(p, 0, Empty)
    BY <2>1, <2>2, <2>5
  <2> QED BY <2>4, <2>5 DEF Prepares
<1>2. /\ branch' = branch /\ attempt' = attempt
      /\ clone' = [clone EXCEPT ![p] = [base |-> base, tree |-> Overlay(tree, p)]]
      /\ \E l \in {"push", "published"} :
           /\ pc' = [pc EXCEPT ![p] = l]
           /\ l = "published" => base > 0 /\ Overlay(tree, p) = tree
  BY <1>1 DEF Prepare, Goto
<1>3. branch \in Seq(Tree) /\ Len(branch) \in Nat /\ DOMAIN branch = 1..Len(branch)
  BY DEF TypeOK
<1>4. /\ base <= Len(branch)
      /\ Overlay(tree, p) = Overlay(IF base = 0 THEN Empty ELSE branch[base], p)
      /\ base > 0 => tree = branch[base]
  BY <1>1, <1>3
<1>5. Overlay(tree, p) \in Tree /\ HasAll(Overlay(tree, p), p)
  BY OverlayType
<1>6. pc[p] = "fetch" /\ pc \in [Publishers -> PC] /\ clone \in [Publishers -> Clone]
  BY DEF Prepares, TypeOK
<1>7. TypeOK'
  <2>1. [base |-> base, tree |-> Overlay(tree, p)] \in Clone
    BY <1>5 DEF Clone
  <2>2. clone' \in [Publishers -> Clone]
    BY <2>1, <1>2, <1>6
  <2>3. pc' \in [Publishers -> PC]
    BY <1>2, <1>6 DEF PC
  <2> QED BY <2>2, <2>3, <1>2 DEF TypeOK
<1>8. CloneFaithful'
  <2> SUFFICES ASSUME NEW q \in Publishers, pc'[q] = "push"
               PROVE  /\ clone'[q].base <= Len(branch')
                      /\ clone'[q].tree =
                           Overlay(IF clone'[q].base = 0 THEN Empty ELSE branch'[clone'[q].base], q)
    BY DEF CloneFaithful, Empty, Overlay
  <2>1. CASE q = p
    <3>1. clone'[q] = [base |-> base, tree |-> Overlay(tree, p)]
      BY <2>1, <1>2, <1>6
    <3> QED BY <3>1, <2>1, <1>2, <1>4
  <2>2. CASE q # p
    BY <2>2, <1>2, <1>6 DEF CloneFaithful
  <2> QED BY <2>1, <2>2
<1>9. SuccessLanded'
  <2> SUFFICES ASSUME NEW q \in Publishers, pc'[q] = "published"
               PROVE  \E i \in DOMAIN branch : HasAll(branch[i], q)
    BY <1>2 DEF SuccessLanded, HasAll
  <2>1. CASE q = p
    <3>1. base > 0 /\ Overlay(tree, p) = tree
      BY <2>1, <1>2, <1>6
    <3>2. base \in DOMAIN branch /\ HasAll(branch[base], p)
      BY <3>1, <1>3, <1>4, <1>5
    <3> QED BY <3>2, <2>1
  <2>2. CASE q # p
    BY <2>2, <1>2, <1>6 DEF SuccessLanded
  <2> QED BY <2>1, <2>2
<1>10. NoPartialReport'
  BY <1>2 DEF NoPartialReport, HasAll
<1>11. GroupClear'
  <2> SUFFICES ASSUME NEW q \in Publishers, Active(q)' PROVE \A r \in Earlier[q] : pc'[r] \in Ended
    BY DEF GroupClear, Ended
  <2>1. Active(q)
    BY <1>2, <1>6 DEF Active
  <2> QED BY <2>1, <1>2, <1>6, EarlierAssumption DEF GroupClear, Ended
<1> QED BY <1>7, <1>8, <1>9, <1>10, <1>11

LEMMA LandsInvariant ==
  ASSUME IInv, NEW p \in Publishers, Lands(p)
  PROVE  IInv'
<1> USE DEF IInv
<1> DEFINE n == Len(branch)  new == Overlay(Tip, p)
<1>1. new \in Tree /\ HasAll(new, p) /\ branch' = Append(branch, new)
  BY TipType, OverlayType, CurrentClone DEF Lands
<1>2. /\ branch' \in Seq(Tree) /\ n \in Nat
      /\ DOMAIN branch = 1..n /\ DOMAIN branch' = 1..(n + 1) /\ Len(branch') = n + 1
      /\ \A i \in 1..n : branch'[i] = branch[i]
      /\ branch'[n + 1] = new
  BY <1>1, Appended
<1>3. /\ clone' = clone
      /\ \E l \in {"published", "fetch", "failed"} : pc' = [pc EXCEPT ![p] = l]
      /\ pc[p] = "push"
      /\ attempt' = attempt \/ attempt' = [attempt EXCEPT ![p] = @ + 1]
  BY DEF Lands, Goto, NextAttempt
<1>4. pc \in [Publishers -> PC] /\ attempt \in [Publishers -> Nat] /\ clone \in [Publishers -> Clone]
  BY DEF TypeOK
<1>5. TypeOK'
  <2>1. pc' \in [Publishers -> PC]
    BY <1>3, <1>4 DEF PC
  <2>2. attempt' \in [Publishers -> Nat]
    BY <1>3, <1>4
  <2> QED BY <2>1, <2>2, <1>2, <1>3, <1>4 DEF TypeOK
<1>6. CloneFaithful'
  <2> SUFFICES ASSUME NEW q \in Publishers, pc'[q] = "push"
               PROVE  /\ clone[q].base <= n + 1
                      /\ clone[q].tree =
                           Overlay(IF clone[q].base = 0 THEN Empty ELSE branch'[clone[q].base], q)
    BY <1>2, <1>3 DEF CloneFaithful, Empty, Overlay
  <2>1. pc[q] = "push" /\ clone[q].base \in Nat
    BY <1>3, <1>4 DEF Clone
  <2>2. /\ clone[q].base <= n
        /\ clone[q].tree = Overlay(IF clone[q].base = 0 THEN Empty ELSE branch[clone[q].base], q)
    BY <2>1 DEF CloneFaithful
  <2>3. clone[q].base # 0 => branch'[clone[q].base] = branch[clone[q].base]
    BY <2>1, <2>2, <1>2
  <2> QED BY <2>1, <2>2, <2>3, <1>2
<1>7. SuccessLanded'
  <2> SUFFICES ASSUME NEW q \in Publishers, pc'[q] = "published"
               PROVE  \E i \in 1..(n + 1) : HasAll(branch'[i], q)
    BY <1>2 DEF SuccessLanded, HasAll
  <2>1. CASE q = p
    BY <2>1, <1>1, <1>2
  <2>2. CASE q # p
    <3>1. PICK i \in 1..n : HasAll(branch[i], q)
      BY <2>2, <1>2, <1>3, <1>4 DEF SuccessLanded
    <3> QED BY <3>1, <1>2
  <2> QED BY <2>1, <2>2
<1>8. NoPartialReport'
  <2> SUFFICES ASSUME NEW i \in 1..(n + 1), NEW q \in Publishers,
                      NEW f \in Files[q], branch'[i][f] = q
               PROVE  \E j \in 1..i : HasAll(branch'[j], q)
    BY <1>2 DEF NoPartialReport, HasAll
  <2>1. ASSUME NEW k \in 1..n, branch[k][f] = q, k <= i
        PROVE  \E j \in 1..i : HasAll(branch'[j], q)
    <3>1. PICK j \in 1..k : HasAll(branch[j], q)
      BY <2>1, <1>2 DEF NoPartialReport
    <3> QED BY <3>1, <2>1, <1>2
  <2>2. CASE i \in 1..n
    BY <2>1, <2>2, <1>2
  <2>3. CASE i = n + 1 /\ q = p
    <3>1. i \in 1..i /\ branch'[i] = new
      BY <2>3, <1>2
    <3> QED BY <3>1, <2>3, <1>1
  <2>4. CASE i = n + 1 /\ q # p
    <3>1. f \in Paths /\ new[f] = q /\ Tip[f] = q
      BY <2>4, <1>2, FilesAssumption DEF Overlay
    <3>2. branch # <<>> /\ n \in 1..n /\ branch[n] = Tip
      BY <3>1, <1>2, ContentAssumption DEF Tip, Empty, TypeOK
    <3> QED BY <3>1, <3>2, <2>1, <2>4, <1>2
  <2> QED BY <2>2, <2>3, <2>4, <1>2
<1>9. GroupClear'
  <2> SUFFICES ASSUME NEW q \in Publishers, Active(q)' PROVE \A r \in Earlier[q] : pc'[r] \in Ended
    BY DEF GroupClear, Ended
  <2>1. Active(q)
    <3>1. CASE q = p \/ pc'[q] \in {"fetch", "push"}
      BY <3>1, <1>3, <1>4 DEF Active
    <3>2. CASE q # p /\ \E i \in DOMAIN branch', f \in Paths : branch'[i][f] = q
      <4>1. PICK i \in 1..(n + 1), f \in Paths : branch'[i][f] = q
        BY <3>2, <1>2
      <4>2. CASE i \in 1..n
        BY <4>1, <4>2, <1>2 DEF Active
      <4>3. CASE i = n + 1
        <5>1. Tip[f] = q
          BY <4>1, <4>3, <3>2, <1>2 DEF Overlay
        <5>2. n \in 1..n /\ Tip = branch[n]
          BY <5>1, <1>2, ContentAssumption DEF Tip, Empty, TypeOK
        <5> QED BY <5>1, <5>2, <1>2 DEF Active
      <4> QED BY <4>1, <4>2, <4>3, <1>2
    <3> QED BY <3>1, <3>2 DEF Active
  <2> QED BY <2>1, <1>3, <1>4, EarlierAssumption DEF GroupClear, Ended
<1> QED BY <1>5, <1>6, <1>7, <1>8, <1>9

LEMMA MovesInvariant ==
  ASSUME IInv, NEW p \in Publishers, Moves(p)
  PROVE  IInv'
<1> USE DEF IInv
<1>1. PICK l \in {"skipped", "fetch", "failed", "killed"} :
        /\ pc' = [pc EXCEPT ![p] = l]
        /\ branch' = branch /\ clone' = clone
        /\ attempt' = attempt \/ attempt' = [attempt EXCEPT ![p] = @ + 1]
        /\ MayStart(p) \/ pc[p] \in {"fetch", "push"} \/ l = "killed"
        /\ pc[p] \notin Ended
  <2>1. CASE \E l \in {"skipped", "fetch"} : MayStart(p) /\ Goto(p, l) /\ UNCHANGED <<branch, clone, attempt>>
    BY <2>1 DEF MayStart, Goto, Ended
  <2>2. CASE pc[p] \in {"fetch", "push"} /\ NextAttempt(p) /\ UNCHANGED <<branch, clone>>
    BY <2>2 DEF NextAttempt, Goto, Ended
  <2>3. CASE pc[p] \notin Ended /\ Goto(p, "killed") /\ UNCHANGED <<branch, clone, attempt>>
    BY <2>3 DEF Goto
  <2> QED BY <2>1, <2>2, <2>3 DEF Moves
<1>2. pc \in [Publishers -> PC] /\ attempt \in [Publishers -> Nat]
  BY DEF TypeOK
<1>3. TypeOK'
  <2>1. pc' \in [Publishers -> PC]
    BY <1>1, <1>2 DEF PC
  <2>2. attempt' \in [Publishers -> Nat]
    BY <1>1, <1>2
  <2> QED BY <2>1, <2>2, <1>1 DEF TypeOK
<1>4. \A q \in Publishers : pc'[q] \in {"push", "published", "queued"} => pc[q] = pc'[q]
  BY <1>1, <1>2
<1>5. CloneFaithful' /\ SuccessLanded' /\ NoPartialReport'
  <2>1. CloneFaithful'
    BY <1>1, <1>4 DEF CloneFaithful, Empty, Overlay
  <2>2. SuccessLanded'
    BY <1>1, <1>4 DEF SuccessLanded, HasAll
  <2>3. NoPartialReport'
    BY <1>1 DEF NoPartialReport, HasAll
  <2> QED BY <2>1, <2>2, <2>3
<1>6. GroupClear'
  <2> SUFFICES ASSUME NEW q \in Publishers, Active(q)' PROVE \A r \in Earlier[q] : pc'[r] \in Ended
    BY DEF GroupClear, Ended
  <2>1. Active(q) \/ (q = p /\ MayStart(p))
    BY <1>1, <1>2 DEF Active
  <2>2. \A r \in Earlier[q] : pc[r] \in Ended
    BY <2>1 DEF GroupClear, MayStart
  <2> QED BY <2>2, <1>1, <1>2, EarlierAssumption DEF Ended
<1> QED BY <1>3, <1>5, <1>6

LEMMA NextInvariant == IInv /\ [Next]_vars => IInv'
<1> SUFFICES ASSUME IInv, [Next]_vars PROVE IInv'
  OBVIOUS
<1>1. CASE Next
  BY <1>1, Cases, PreparesInvariant, LandsInvariant, MovesInvariant
<1>2. CASE UNCHANGED vars
  BY <1>2 DEF vars, IInv, TypeOK, CloneFaithful, SuccessLanded, NoPartialReport,
              GroupClear, Active, HasAll, Overlay, Empty
<1> QED BY <1>1, <1>2

\* The inductive invariant of GhPages.
THEOREM Invariant == Spec => []IInv
BY InitInvariant, NextInvariant, PTL DEF Spec

\* Every variable stays within its type, for any publishers, paths and groups.
THEOREM TypeCorrect == Spec => []TypeOK
BY Invariant, PTL DEF IInv

\* A run that reports success has put all its files on the branch, even when
\* pushes fail or are lost and the branch moves on.
THEOREM SuccessIsReal == Spec => []SuccessLanded
BY Invariant, PTL DEF IInv

\* No reader ever sees a part of a report.
THEOREM ReportsWhole == Spec => []NoPartialReport
BY Invariant, PTL DEF IInv

-----------------------------------------------------------------------------
\* A step of the loop is a publication of the abstract site, or no change.
LEMMA StepOverlays == IInv /\ [Next]_vars => [Promise!Next]_Tip
<1> SUFFICES ASSUME IInv, [Next]_vars PROVE [Promise!Next]_Tip
  OBVIOUS
<1>1. ASSUME NEW p \in Publishers, Lands(p) PROVE Promise!Next
  <2>1. Overlay(Tip, p) \in Tree /\ branch' = Append(branch, Overlay(Tip, p))
    BY <1>1, TipType, OverlayType, CurrentClone DEF Lands, IInv
  <2>2. Tip' = Overlay(Tip, p)
    BY <2>1, Appended DEF IInv
  <2> QED BY <2>2 DEF Promise!Next, Promise!Publish, Promise!Overlay, Overlay
<1>2. ASSUME branch' = branch PROVE Tip' = Tip
  BY <1>2 DEF Tip, Empty
<1>3. ASSUME NEW p \in Publishers, Prepares(p) \/ Moves(p) PROVE branch' = branch
  BY <1>3 DEF Prepares, Moves, Prepare
<1> QED BY <1>1, <1>2, <1>3, Cases DEF vars

\* The retry loop without a lock implements a site to which publishers take
\* turns: every commit is the one before it with one publisher's files.
THEOREM LoopImplementsOverlay == Spec => ImplementsOverlay
<1>1. Init => Promise!Init
  <2> SUFFICES ASSUME Init PROVE \A f \in Paths : Tip[f] \notin Publishers
    BY DEF Promise!Init
  <2>1. CASE branch = <<>>
    BY <2>1, ContentAssumption DEF Tip, Empty
  <2>2. CASE branch = <<[f \in Paths |-> Old]>>
    <3>1. Tip = [f \in Paths |-> Old]
      BY <2>2 DEF Tip
    <3> QED BY <3>1, ContentAssumption
  <2> QED BY <2>1, <2>2 DEF Init
<1> QED BY <1>1, StepOverlays, Invariant, PTL DEF Spec, ImplementsOverlay, Promise!Spec

\* A file that the runs of one concurrency group share is never set back to
\* the copy of a run that came earlier in the group.
THEOREM GroupOrder == Spec => GroupOrderKept
<1> DEFINE Kept == \A f \in Paths, q \in Publishers :
                     Tip[f] = q /\ Tip'[f] # q => Tip'[f] \notin Earlier[q]
<1>1. IInv /\ [Next]_vars => [Kept]_vars
  <2> SUFFICES ASSUME IInv, Next, NEW f \in Paths, NEW q \in Publishers,
                      Tip[f] = q, Tip'[f] # q
               PROVE  Tip'[f] \notin Earlier[q]
    BY DEF vars
  <2>1. PICK p \in Publishers : Prepares(p) \/ Lands(p) \/ Moves(p)
    BY Cases
  <2>2. CASE Lands(p)
    <3>1. Overlay(Tip, p) \in Tree /\ branch' = Append(branch, Overlay(Tip, p)) /\ pc[p] = "push"
      BY <2>2, TipType, OverlayType, CurrentClone DEF Lands, IInv
    <3>2. Tip' = Overlay(Tip, p)
      BY <3>1, Appended DEF IInv
    <3>3. Tip'[f] = p
      BY <3>2 DEF Overlay
    <3>4. Active(q)
      <4>1. branch # <<>> /\ Tip = branch[Len(branch)]
        BY ContentAssumption DEF Tip, Empty
      <4>2. Len(branch) \in DOMAIN branch
        BY <4>1 DEF IInv, TypeOK
      <4> QED BY <4>1, <4>2 DEF Active
    <3> QED BY <3>1, <3>3, <3>4 DEF IInv, GroupClear, Ended
  <2>3. CASE Prepares(p) \/ Moves(p)
    BY <2>3 DEF Prepares, Moves, Prepare, Tip, Empty
  <2> QED BY <2>1, <2>2, <2>3
<1> QED BY <1>1, Invariant, PTL DEF Spec, GroupOrderKept

-----------------------------------------------------------------------------
(***************************************************************************)
(* Without failures a lost attempt is paid for by a publisher that landed. *)
(***************************************************************************)
Landed == {p \in Publishers : pc[p] = "published"}

\* What p has lost, and stands to lose, to publishers that landed.
Budget(p) ==
  /\ pc[p] = "queued" => attempt[p] = 1
  /\ pc[p] = "fetch" => attempt[p] <= Cardinality(Landed) + 1
  /\ pc[p] = "push" => attempt[p] + (Len(branch) - clone[p].base) <= Cardinality(Landed) + 1
  /\ pc[p] # "failed"

Budgets == \A p \in Publishers : Budget(p)

\* Fewer publishers than attempts, and nothing fails.
Calm == ~MayFail /\ Cardinality(Publishers) <= MaxAttempts

LEMMA LandedSize ==
  ASSUME NEW p \in Publishers, pc[p] # "published"
  PROVE  /\ IsFiniteSet(Landed) /\ Cardinality(Landed) \in Nat
         /\ Cardinality(Landed) + 1 <= Cardinality(Publishers)
<1>1. Landed \subseteq Publishers \ {p}
  BY DEF Landed
<1>2. /\ IsFiniteSet(Publishers \ {p}) /\ Cardinality(Publishers) \in Nat
      /\ Cardinality(Publishers \ {p}) = Cardinality(Publishers) - 1
  BY PublishersAssumption, FS_RemoveElement, FS_CardinalityType
<1>3. IsFiniteSet(Landed) /\ Cardinality(Landed) <= Cardinality(Publishers \ {p})
  BY <1>1, <1>2, FS_Subset
<1> QED BY <1>2, <1>3, FS_CardinalityType

LEMMA LandedGrows ==
  ASSUME TypeOK, NEW p \in Publishers, pc[p] # "published", pc' = [pc EXCEPT ![p] = "published"]
  PROVE  Cardinality(Landed') = Cardinality(Landed) + 1
<1>1. Landed' = Landed \cup {p} /\ p \notin Landed
  BY DEF Landed, TypeOK
<1>2. IsFiniteSet(Landed)
  BY LandedSize
<1> QED BY <1>1, <1>2, FS_AddElement

LEMMA LandedSame ==
  ASSUME TypeOK, NEW p \in Publishers, NEW l, l # "published", pc[p] # "published",
         pc' = [pc EXCEPT ![p] = l]
  PROVE  Landed' = Landed
BY DEF Landed, TypeOK

LEMMA CalmBudgets == Calm /\ IInv /\ Budgets /\ [Next]_vars => Budgets'
<1> SUFFICES ASSUME Calm, IInv, Budgets, [Next]_vars PROVE Budgets'
  OBVIOUS
<1>1. /\ pc \in [Publishers -> PC] /\ attempt \in [Publishers -> Nat]
      /\ clone \in [Publishers -> Clone]
      /\ branch \in Seq(Tree) /\ Len(branch) \in Nat /\ TypeOK
      /\ (branch = <<>> => Len(branch) = 0) /\ MaxAttempts \in Nat
  BY AttemptsAssumption DEF IInv, TypeOK
<1>2. \A q \in Publishers : attempt[q] \in Nat /\ clone[q].base \in Nat
  BY <1>1 DEF Clone
<1>3. ASSUME NEW p \in Publishers, Prepares(p) PROVE Budgets'
  <2>1. PICK l \in {"push", "published"} :
          /\ pc' = [pc EXCEPT ![p] = l] /\ branch' = branch /\ attempt' = attempt
          /\ \E t : clone' = [clone EXCEPT ![p] = [base |-> Len(branch), tree |-> t]]
          /\ pc[p] = "fetch"
    BY <1>3, <1>1 DEF Prepares, Prepare, Goto, Calm
  <2>2. Cardinality(Landed) \in Nat
    BY <2>1, LandedSize
  <2>3. Cardinality(Landed') \in {Cardinality(Landed), Cardinality(Landed) + 1}
    BY <2>1, <1>1, LandedGrows, LandedSame
  <2>4. pc'[p] # "published" => Cardinality(Landed') = Cardinality(Landed)
    BY <2>1, <1>1, LandedSame
  <2> SUFFICES ASSUME NEW q \in Publishers PROVE Budget(q)'
    BY DEF Budgets
  <2>5. Budget(p) /\ Budget(q)
    BY DEF Budgets
  <2>6. CASE q = p
    <3>1. pc'[q] = l /\ attempt'[q] = attempt[q] /\ clone'[q].base = Len(branch)
      BY <2>1, <2>6, <1>1
    <3>2. attempt[q] + (Len(branch) - Len(branch)) = attempt[q]
      BY <1>1, <1>2
    <3> QED BY <3>1, <3>2, <2>1, <2>2, <2>3, <2>4, <2>5, <2>6, <1>1, <1>2 DEF Budget
  <2>7. CASE q # p
    <3>1. pc'[q] = pc[q] /\ attempt'[q] = attempt[q] /\ clone'[q] = clone[q]
      BY <2>1, <2>7, <1>1
    <3> QED BY <3>1, <2>1, <2>2, <2>3, <2>5, <1>1, <1>2 DEF Budget
  <2> QED BY <2>6, <2>7
<1>4. ASSUME NEW p \in Publishers, Lands(p) PROVE Budgets'
  <2>1. /\ pc' = [pc EXCEPT ![p] = "published"] /\ attempt' = attempt /\ clone' = clone
        /\ pc[p] = "push" /\ Len(branch') = Len(branch) + 1
    <3>1. Overlay(Tip, p) \in Tree /\ branch' = Append(branch, Overlay(Tip, p))
      BY <1>4, TipType, OverlayType, CurrentClone DEF Lands, IInv
    <3> QED BY <3>1, <1>1, <1>4, Appended DEF Lands, Goto, Calm
  <2>2. Cardinality(Landed) \in Nat /\ Cardinality(Landed') = Cardinality(Landed) + 1
    BY <2>1, <1>1, LandedSize, LandedGrows
  <2> SUFFICES ASSUME NEW q \in Publishers PROVE Budget(q)'
    BY DEF Budgets
  <2>3. Budget(q)
    BY DEF Budgets
  <2>4. CASE q = p
    BY <2>1, <2>4, <1>1 DEF Budget
  <2>5. CASE q # p
    <3>1. pc'[q] = pc[q] /\ attempt'[q] = attempt[q] /\ clone'[q] = clone[q]
      BY <2>1, <2>5, <1>1
    <3> QED BY <3>1, <2>1, <2>2, <2>3, <1>1, <1>2 DEF Budget
  <2> QED BY <2>4, <2>5
<1>5. ASSUME NEW p \in Publishers, PushRejected(p) PROVE Budgets'
  <2>1. /\ pc[p] = "push" /\ clone[p].base # Len(branch)
        /\ branch' = branch /\ clone' = clone
        /\ attempt' = [attempt EXCEPT ![p] = @ + 1]
        /\ pc' = [pc EXCEPT ![p] = IF attempt[p] < MaxAttempts THEN "fetch" ELSE "failed"]
    BY <1>5 DEF PushRejected, Accepted, NextAttempt, Goto
  <2>2. clone[p].base <= Len(branch)
    BY <2>1 DEF IInv, CloneFaithful
  <2>3. Cardinality(Landed) \in Nat /\ Cardinality(Landed) + 1 <= Cardinality(Publishers)
    BY <2>1, LandedSize
  <2>4. attempt[p] + (Len(branch) - clone[p].base) <= Cardinality(Landed) + 1
    BY <2>1 DEF Budgets, Budget
  <2>5. attempt[p] + 1 <= Cardinality(Landed) + 1
    BY <2>1, <2>2, <2>3, <2>4, <1>1, <1>2
  <2>6. attempt[p] < MaxAttempts
    BY <2>3, <2>5, <1>1, <1>2, PublishersAssumption, FS_CardinalityType DEF Calm
  <2>7. pc' = [pc EXCEPT ![p] = "fetch"]
    BY <2>1, <2>6
  <2>8. Landed' = Landed
    BY <2>1, <2>7, <1>1, LandedSame
  <2> SUFFICES ASSUME NEW q \in Publishers PROVE Budget(q)'
    BY DEF Budgets
  <2>9. Budget(q)
    BY DEF Budgets
  <2>10. CASE q = p
    BY <2>1, <2>5, <2>7, <2>8, <2>10, <1>1 DEF Budget
  <2>11. CASE q # p
    BY <2>1, <2>7, <2>8, <2>9, <2>11, <1>1 DEF Budget
  <2> QED BY <2>10, <2>11
<1>6. ASSUME NEW p \in Publishers, Skip(p) \/ Start(p) PROVE Budgets'
  <2>1. PICK l \in {"skipped", "fetch"} :
          /\ pc' = [pc EXCEPT ![p] = l] /\ pc[p] = "queued"
          /\ branch' = branch /\ clone' = clone /\ attempt' = attempt
    BY <1>6 DEF Skip, Start, MayStart, Goto
  <2>2. Cardinality(Landed) \in Nat
    BY <2>1, LandedSize
  <2>3. Landed' = Landed
    BY <2>1, <1>1, LandedSame
  <2> SUFFICES ASSUME NEW q \in Publishers PROVE Budget(q)'
    BY DEF Budgets
  <2>4. Budget(q)
    BY DEF Budgets
  <2>5. CASE q = p
    BY <2>1, <2>2, <2>3, <2>4, <2>5, <1>1 DEF Budget
  <2>6. CASE q # p
    BY <2>1, <2>3, <2>4, <2>6, <1>1 DEF Budget
  <2> QED BY <2>5, <2>6
<1>7. CASE UNCHANGED vars
  <2>1. Landed' = Landed
    BY <1>7 DEF Landed, vars
  <2> QED BY <1>7, <2>1 DEF Budgets, Budget, vars
<1>8. CASE Next
  <2>1. PICK p \in Publishers : Step(p)
    BY <1>8 DEF Next, Kill, Calm
  <2>2. Prepares(p) \/ Lands(p) \/ PushRejected(p) \/ Skip(p) \/ Start(p)
    BY <2>1 DEF Step, Fetch, FetchFails, Push, AnswerLost, AttemptErrors, Prepares, Lands, Calm
  <2> QED BY <2>2, <1>3, <1>4, <1>5, <1>6
<1> QED BY <1>7, <1>8

\* Without failures, no more publishers than attempts means that every one of
\* them lands, however they are interleaved.
THEOREM FewLand == Spec => []FewAllLand
<1>1. Calm /\ Init => Budgets
  BY DEF Calm, Init, Budgets, Budget
<1>2. Budgets => FewAllLand
  BY DEF Budgets, Budget, FewAllLand
<1>3. ~Calm => FewAllLand
  BY DEF Calm, FewAllLand
<1>4. CASE Calm
  <2>1. Spec => []Budgets
    <3>1. Init => Budgets
      BY <1>1, <1>4
    <3>2. IInv /\ Budgets /\ [Next]_vars => Budgets'
      BY <1>4, CalmBudgets
    <3> QED BY <3>1, <3>2, Invariant, PTL DEF Spec
  <2> QED BY <2>1, <1>2, PTL
<1>5. CASE ~Calm
  <2>1. FewAllLand
    BY <1>3, <1>5
  <2> QED BY <2>1, PTL
<1> QED BY <1>4, <1>5

=============================================================================
