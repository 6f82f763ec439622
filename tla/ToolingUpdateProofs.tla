-------------------------- MODULE ToolingUpdateProofs --------------------------
(* Proofs about updates: whatever the catalogs, the trees and the interleaving *)
(* of runs, people and releases, an update never goes backwards, is offered by *)
(* one pull request the runs tend, arrives whole and spares the consumer's     *)
(* files.                                                                      *)
EXTENDS ToolingUpdate, FiniteSetTheorems, TLAPS

(* A commit and the one it is based on: both are trees, and the newer one is   *)
(* not of an older release.                                                    *)
Forward(base, head) ==
    /\ IsTree(base) /\ IsTree(head)
    /\ base.man.ver \in Nat /\ head.man.ver \in Nat
    /\ base.man.ver <= head.man.ver /\ head.man.ver <= latest

Running == run.pc \in {"push", "repush", "pushrest", "branch"}

RunShape == run = [pc |-> run.pc, usable |-> run.usable, base |-> run.base, seen |-> run.seen,
                   head |-> run.head, ver |-> run.ver, deferred |-> run.deferred,
                   outcome |-> run.outcome]

(* A run that has not lost a race holds a commit on top of the branch's tip.   *)
RunInv ==
    /\ RunShape
    /\ run.pc \in {"idle", "checkout", "tidy"} \/ Running
    /\ Running => /\ Forward(run.base, run.head)
                  /\ run.seen \in Nat /\ run.seen <= tip
                  /\ run.seen = tip => run.base = main

(* An offer as PR makes it, stray or not.                                      *)
IsPR(p) == p = [kind |-> p.kind, ver |-> p.ver, base |-> p.base, head |-> p.head,
                stray |-> p.stray]

PRsInv == \A p \in prs : IsPR(p) /\ Forward(p.base, p.head)

(* The requests a run opened or brought up to date and nobody gave up on.      *)
Tended == {p \in UpdatePRs : ~p.stray}

(* A release has one branch, so at most one offer; of two releases at most one *)
(* is tended, but for a run that has not tidied up yet.                        *)
OnePR ==
    /\ \A p, q \in Updates : p.ver = q.ver => p = q
    /\ run.pc = "tidy" => run.outcome \in {"applied", "offered"}
    /\ run.pc # "tidy" => \A p, q \in Tended : p = q
    /\ run.pc = "idle" /\ run.outcome = "applied" => Tended = {}

MainInv ==
    /\ latest \in Nat \ {0} /\ tip \in Nat
    /\ IsTree(main) /\ main.man.ver \in Nat /\ main.man.ver <= latest

Inv == MainInv /\ RunInv /\ PRsInv /\ OnePR

-----------------------------------------------------------------------------
(* What the installer and git make of a tree is a tree. *)

\* An installation leaves a tree of the release it installed.
LEMMA InstalledTree ==
    ASSUME NEW t, IsTree(t), NEW rel, NEW arg, NEW at
    PROVE  /\ IsTree(Installed(t, rel, arg, at))
           /\ Installed(t, rel, arg, at).man.ver = rel
           /\ IsTree(ThinInstalled(t, rel, arg, at))
           /\ ThinInstalled(t, rel, arg, at).man.ver = rel
<1> DEFINE Shaped(x) == x = [files |-> x.files, man |-> x.man, root |-> x.root]
<1>1. ASSUME NEW x, Shaped(x), NEW m
      PROVE  Shaped([x EXCEPT !.man = m]) /\ [x EXCEPT !.man = m].man = m
  BY <1>1
<1>2. ASSUME NEW x, Shaped(x), NEW f
      PROVE  Shaped([x EXCEPT !.files = f])
  BY <1>2
<1>3. Shaped(t)
  BY DEF IsTree
<1>4. ASSUME NEW entries, NEW opt PROVE Shaped(CopyEntries(t, rel, entries, opt))
  BY <1>2, <1>3 DEF CopyEntries
<1>5. ASSUME NEW x, Shaped(x), NEW entries, NEW opt, NEW branch
      PROVE  Shaped(RewriteDashboard(x, rel, entries, branch)) /\ Shaped(Scaffold(x, rel, opt))
  <2>1. Shaped(RewriteDashboard(x, rel, entries, branch))
    BY <1>2, <1>5 DEF RewriteDashboard
  <2>2. Shaped(Scaffold(x, rel, opt))
    BY DEF Scaffold
  <2> QED  BY <2>1, <2>2
<1> HIDE DEF Shaped
<1>6. \E x, acts, os, branch, provider :
         /\ Shaped(x)
         /\ Installed(t, rel, arg, at) =
              [x EXCEPT !.man = Manifest(rel, at, acts, os, branch, provider, 0, {}, {})]
  BY <1>4, <1>5 DEF Installed
<1>7. PICK acts, os : \E f : ThinInstalled(t, rel, arg, at) =
         [t EXCEPT !.files = f, !.man = Manifest(rel, at, acts, os, "", "", 5, {}, {})]
  BY DEF ThinInstalled
<1>8. \A a, b, c, d, e, f, g, h, i :
         IsManifest(Manifest(a, b, c, d, e, f, g, h, i)) /\ Manifest(a, b, c, d, e, f, g, h, i).ver = a
  BY DEF IsManifest, Manifest
<1>9. IsTree(Installed(t, rel, arg, at)) /\ Installed(t, rel, arg, at).man.ver = rel
  <2>1. PICK x, acts1, os1, branch, provider :
         /\ Shaped(x)
         /\ Installed(t, rel, arg, at) =
              [x EXCEPT !.man = Manifest(rel, at, acts1, os1, branch, provider, 0, {}, {})]
    BY <1>6
  <2> QED  BY <1>1, <1>8, <2>1 DEF IsTree, Shaped
<1>10. IsTree(ThinInstalled(t, rel, arg, at)) /\ ThinInstalled(t, rel, arg, at).man.ver = rel
  <2>1. PICK f : ThinInstalled(t, rel, arg, at) =
         [t EXCEPT !.files = f, !.man = Manifest(rel, at, acts, os, "", "", 5, {}, {})]
    BY <1>7
  <2> DEFINE m == Manifest(rel, at, acts, os, "", "", 5, {}, {})
  <2>2. IsManifest(m) /\ m.ver = rel
    BY DEF IsManifest, Manifest
  <2> HIDE DEF m
  <2>3. ThinInstalled(t, rel, arg, at) = [files |-> f, man |-> m, root |-> t.root]
    BY <1>3, <2>1 DEF m, Shaped
  <2> QED  BY <2>2, <2>3 DEF IsTree
<1> QED
  BY <1>9, <1>10

\* A merge without conflict is no older than the branch it goes to.
LEMMA MergeTree ==
    ASSUME NEW base, NEW head, Forward(base, head), MainInv, ~Conflict(base, head, main)
    PROVE  Forward(main, Merged(base, head, main))
<1> DEFINE new == Merged(base, head, main)
<1>1. /\ new.man = IF head.man # base.man THEN head.man ELSE main.man
      /\ new = [files |-> new.files, man |-> new.man, root |-> new.root]
  BY DEF Merged
<1>2. IsTree(new)
  BY <1>1 DEF IsTree, Forward, MainInv
<1>3. head.man # base.man => main.man = base.man \/ main.man = head.man
  BY DEF Conflict
<1>4. new.man.ver \in Nat /\ main.man.ver <= new.man.ver /\ new.man.ver <= latest
  BY <1>1, <1>3 DEF Forward, MainInv
<1> QED
  BY <1>2, <1>4 DEF Forward, MainInv

\* A commit without its workflow files is of the same release.
LEMMA StrippedTree ==
    ASSUME NEW base, NEW head, Forward(base, head)
    PROVE  Forward(base, Stripped(base, head))
<1>1. Stripped(base, head).man = head.man /\ IsTree(Stripped(base, head))
  BY DEF Stripped, Forward, IsTree
<1> QED
  BY <1>1 DEF Forward

\* What was a commit on an older one stays one when a release comes out.
LEMMA StaysForward ==
    ASSUME NEW base, NEW head, Forward(base, head), MainInv, latest' \in Nat, latest <= latest'
    PROVE  Forward(base, head)'
BY DEF Forward, MainInv

-----------------------------------------------------------------------------
(* Each action keeps the invariant, and the branch does not go backwards. *)

Newer == main'.man.ver >= main.man.ver

LEMMA Initially == Init => Inv
<1> SUFFICES ASSUME Init PROVE Inv
  OBVIOUS
<1>1. MainInv
  BY UpdateAssumption DEF Init, MainInv
<1>2. RunInv
  BY DEF Init, RunInv, RunShape, Running
<1>3. PRsInv /\ OnePR
  BY DEF Init, PRsInv, OnePR, Updates, Tended, UpdatePRs
<1> QED
  BY <1>1, <1>2, <1>3 DEF Inv

\* A run that ends, at once or after tidying up, holds no commit.
Ends(o) == \E d, pc : /\ pc \in {"idle", "tidy"}
                      /\ run' = [pc |-> pc, usable |-> FALSE, base |-> NoTree, seen |-> 0,
                                 head |-> NoTree, ver |-> run.ver, deferred |-> d, outcome |-> o]

LEMMA EndsNow ==
    ASSUME NEW o, run' = EndedAs(o)
    PROVE  Ends(o) /\ run'.pc = "idle"
BY DEF Ends, EndedAs

LEMMA EndedRun ==
    ASSUME MainInv, NEW o, Ends(o)
    PROVE  RunInv' /\ run'.outcome = o /\ run'.pc \in {"idle", "tidy"}
<1>1. PICK d, pc : /\ pc \in {"idle", "tidy"}
                   /\ run' = [pc |-> pc, usable |-> FALSE, base |-> NoTree, seen |-> 0,
                              head |-> NoTree, ver |-> run.ver, deferred |-> d, outcome |-> o]
  BY DEF Ends
<1> QED
  BY <1>1 DEF RunInv, RunShape, Running

\* A step that leaves the branch and the releases alone.
LEMMA Steady ==
    ASSUME MainInv, UNCHANGED <<main, tip, latest>>
    PROVE  MainInv' /\ Newer
<1>1. main.man.ver \in Nat /\ main.man.ver >= main.man.ver
  BY DEF MainInv
<1> QED
  BY <1>1 DEF MainInv, Newer, IsTree, IsManifest

LEMMA SamePRs ==
    ASSUME MainInv, PRsInv, prs' \subseteq prs, latest' \in Nat, latest <= latest'
    PROVE  PRsInv'
BY StaysForward DEF PRsInv

LEMMA CheckTokenStep == ASSUME Inv, CheckToken PROVE Inv' /\ Newer
<1>1. MainInv' /\ Newer /\ PRsInv'
  BY Steady, SamePRs DEF Inv, MainInv, CheckToken
<1>2. PICK answered \in BOOLEAN :
        run' = [EndedAs("none") EXCEPT !.pc = "checkout", !.ver = 0, !.deferred = FALSE,
                                       !.usable = token = "good" /\ answered]
  BY DEF CheckToken
<1>3. RunInv' /\ run'.pc = "checkout"
  BY <1>2 DEF EndedAs, RunInv, RunShape, Running
<1>4. OnePR'
  BY <1>3 DEF Inv, OnePR, Updates, Tended, UpdatePRs, CheckToken
<1> QED
  BY <1>1, <1>3, <1>4 DEF Inv

LEMMA RunInstallerStep == ASSUME Inv, RunInstaller PROVE Inv' /\ Newer
<1>1. MainInv' /\ Newer /\ PRsInv'
  BY Steady, SamePRs DEF Inv, MainInv, RunInstaller
<1>2. PICK arg :
        \/ run' = EndedAs("failed")
        \/ run' = [run EXCEPT !.pc = "push", !.base = main, !.seen = tip,
                      !.head = [Installed(main, latest, arg, stamp + 1)
                                  EXCEPT !.man.maxParallel = main.man.maxParallel],
                      !.ver = latest]
  BY DEF RunInstaller
<1>3. CASE run' = EndedAs("failed")
  <2>1. RunInv' /\ run'.outcome = "failed" /\ run'.pc = "idle"
    BY <1>3, EndsNow, EndedRun DEF Inv
  <2>2. OnePR'
    BY <2>1 DEF Inv, OnePR, Updates, Tended, UpdatePRs, RunInstaller
  <2> QED  BY <1>1, <2>1, <2>2 DEF Inv
<1>4. CASE run' # EndedAs("failed")
  <2> DEFINE tree == Installed(main, latest, arg, stamp + 1)
             head == [tree EXCEPT !.man.maxParallel = main.man.maxParallel]
  <2>1. IsTree(tree) /\ tree.man.ver = latest
    BY InstalledTree DEF Inv, MainInv
  <2>2. run' = [run EXCEPT !.pc = "push", !.base = main, !.seen = tip, !.head = head,
                           !.ver = latest]
    BY <1>2, <1>4
  <2> HIDE DEF tree
  <2>3. head.man = [tree.man EXCEPT !.maxParallel = main.man.maxParallel]
        /\ head = [files |-> head.files, man |-> head.man, root |-> head.root]
    BY <2>1 DEF IsTree
  <2>4. IsManifest(head.man) /\ head.man.ver = latest
    <3>1. tree.man = Manifest(tree.man.ver, tree.man.at, tree.man.acts, tree.man.os,
                              tree.man.branch, tree.man.provider, tree.man.maxParallel,
                              tree.man.vipc, tree.man.dragon)
      BY <2>1 DEF IsTree, IsManifest
    <3> QED  BY <2>1, <2>3, <3>1 DEF IsManifest, Manifest
  <2> HIDE DEF head
  <2>5. Forward(main, head)
    BY <2>3, <2>4 DEF Forward, IsTree, Inv, MainInv
  <2>6. /\ run'.pc = "push" /\ run'.base = main /\ run'.seen = tip /\ run'.head = head
        /\ run'.ver = latest /\ RunShape'
    BY <2>2 DEF Inv, RunInv, RunShape
  <2>7. Forward(run.base, run.head)'
    BY <2>5, <2>6 DEF Forward, RunInstaller
  <2>8. RunInv'
    BY <2>6, <2>7 DEF RunInv, Running, Inv, MainInv, RunInstaller
  <2>9. OnePR'
    BY <2>6 DEF Inv, OnePR, Updates, Tended, UpdatePRs, RunInstaller
  <2> QED  BY <1>1, <2>8, <2>9 DEF Inv
<1> QED
  BY <1>3, <1>4

LEMMA PushLandsStep == ASSUME Inv, PushLands PROVE Inv' /\ Newer
<1>1. run.pc \in {"push", "repush", "pushrest"} /\ run.base = main
  BY DEF PushLands, Lands, Race, Inv, RunInv, Running
<1>2. Forward(main, run.head)
  BY <1>1 DEF Inv, RunInv, Running
<1>3. MainInv' /\ Newer
  BY <1>2 DEF Forward, Inv, MainInv, Newer, PushLands, MoveMain, IsTree, IsManifest
<1>4. RunInv' /\ run'.pc = "tidy" /\ run'.outcome = "applied"
  <2>1. run' = [EndedAs("applied") EXCEPT !.pc = "tidy"]
    BY DEF PushLands
  <2> QED  BY <2>1 DEF EndedAs, RunInv, RunShape, Running
<1>5. PRsInv'
  BY SamePRs DEF Inv, MainInv, PushLands
<1>6. OnePR'
  BY <1>4 DEF Inv, OnePR, Updates, Tended, UpdatePRs, PushLands
<1> QED
  BY <1>3, <1>4, <1>5, <1>6 DEF Inv

LEMMA RebaseStep == ASSUME Inv, Rebase PROVE Inv' /\ Newer
<1>1. MainInv' /\ Newer /\ PRsInv'
  BY Steady, SamePRs DEF Inv, MainInv, Rebase
<1>2. Running /\ Forward(run.base, run.head)
  BY DEF Rebase, Inv, RunInv, Running
<1>3. CASE Conflict(run.base, run.head, main)
  <2>1. run' = [run EXCEPT !.pc = "branch"]
    BY <1>3 DEF Rebase
  <2>2. RunInv' /\ run'.pc = "branch"
    BY <1>2, <2>1 DEF Rebase, Inv, RunInv, RunShape, Running, Forward
  <2> QED  BY <1>1, <2>2 DEF Inv, OnePR, Updates, Tended, UpdatePRs, Rebase
<1>4. CASE ~Conflict(run.base, run.head, main)
  <2> DEFINE new == Merged(run.base, run.head, main)
  <2>1. Forward(main, new)
    BY <1>2, <1>4, MergeTree DEF Inv
  <2> HIDE DEF new
  <2>2. run' = [run EXCEPT !.pc = "repush", !.seen = tip, !.base = main, !.head = new]
    BY <1>4 DEF Rebase, new
  <2>3. /\ run'.pc = "repush" /\ run'.seen = tip /\ run'.base = main /\ run'.head = new
        /\ run'.ver = run.ver /\ RunShape'
    BY <2>2 DEF Inv, RunInv, RunShape
  <2>4. RunInv'
    BY <1>2, <2>1, <2>3 DEF Rebase, Inv, RunInv, Running, Forward, MainInv
  <2> QED  BY <1>1, <2>3, <2>4 DEF Inv, OnePR, Updates, Tended, UpdatePRs, Rebase
<1> QED
  BY <1>3, <1>4

LEMMA DeferWorkflowsStep == ASSUME Inv, DeferWorkflows PROVE Inv' /\ Newer
<1>1. MainInv' /\ Newer /\ PRsInv'
  BY Steady, SamePRs DEF Inv, MainInv, DeferWorkflows
<1>2. Running /\ Forward(run.base, run.head)
  BY DEF DeferWorkflows, Inv, RunInv, Running
<1> DEFINE rest == Stripped(run.base, run.head)
<1>3. Forward(run.base, rest)
  BY <1>2, StrippedTree
<1> HIDE DEF rest
<1>4. \/ run' = EndedAs("token_needed")
      \/ run' = [run EXCEPT !.pc = "pushrest", !.head = rest, !.deferred = TRUE]
  BY DEF DeferWorkflows, rest
<1>5. CASE run' = EndedAs("token_needed")
  <2>1. RunInv' /\ run'.outcome = "token_needed" /\ run'.pc = "idle"
    BY <1>5, EndsNow, EndedRun DEF Inv
  <2> QED  BY <1>1, <2>1 DEF Inv, OnePR, Updates, Tended, UpdatePRs, DeferWorkflows
<1>6. CASE run' = [run EXCEPT !.pc = "pushrest", !.head = rest, !.deferred = TRUE]
  <2>1. /\ run'.pc = "pushrest" /\ run'.seen = run.seen /\ run'.base = run.base
        /\ run'.head = rest /\ run'.ver = run.ver /\ RunShape'
    BY <1>6 DEF Inv, RunInv, RunShape
  <2>2. RunInv'
    BY <1>2, <1>3, <2>1 DEF DeferWorkflows, Inv, RunInv, Running, Forward
  <2> QED  BY <1>1, <2>1, <2>2 DEF Inv, OnePR, Updates, Tended, UpdatePRs, DeferWorkflows
<1> QED
  BY <1>4, <1>5, <1>6

LEMMA FallBackStep == ASSUME Inv, FallBack PROVE Inv' /\ Newer
<1>1. MainInv' /\ Newer /\ PRsInv'
  BY Steady, SamePRs DEF Inv, MainInv, FallBack
<1>2. Running /\ run' = [run EXCEPT !.pc = "branch"]
  BY DEF FallBack, Running
<1>3. RunInv' /\ run'.pc = "branch"
  BY <1>2 DEF FallBack, Inv, RunInv, RunShape, Running, Forward
<1> QED
  BY <1>1, <1>3 DEF Inv, OnePR, Updates, Tended, UpdatePRs, FallBack

\* What a run offers: the offer of its release is replaced by its commit.
OffersBy(head, kind, stray) ==
    /\ kind \in {"update", "branch"} /\ stray \in BOOLEAN
    /\ prs' = (prs \ {p \in Updates : p.ver = run.ver})
              \cup {[PR(kind, run.ver, run.base, head) EXCEPT !.stray = stray]}

LEMMA OpenPRCases ==
    ASSUME OpenPR
    PROVE  \E head, o : /\ head = run.head \/ head = Stripped(run.base, run.head)
                        /\ Ends(o)
                        /\ \/ UNCHANGED prs /\ o = "token_needed" /\ run'.pc = "idle"
                           \/ /\ OffersBy(head, "update", FALSE)
                              /\ o = "offered" /\ run'.pc = "tidy"
                           \/ /\ OffersBy(head, "branch", FALSE) \/ OffersBy(head, "branch", TRUE)
                                 \/ OffersBy(head, "update", TRUE)
                              /\ o \in {"manual", "failed"} /\ run'.pc = "idle"
<1> DEFINE defer == NeedsScope
           head  == IF defer THEN Stripped(run.base, run.head) ELSE run.head
           old   == {p \in Updates : p.ver = run.ver}
           open  == old \cap UpdatePRs # {}
           Offer(kind) == PR(kind, run.ver, run.base, head)
           Ended(o) == [EndedAs(o) EXCEPT !.deferred = @ \/ defer]
<1>1. ASSUME NEW o PROVE /\ run' = EndedAs(o) => Ends(o) /\ run'.pc = "idle"
                         /\ run' = Ended(o) => Ends(o) /\ run'.pc = "idle"
                         /\ run' = [Ended(o) EXCEPT !.pc = "tidy"] => Ends(o) /\ run'.pc = "tidy"
  <2> DEFINE d == EndedAs(o).deferred \/ defer
             no == FALSE
  <2>1. Ended(o) = [EndedAs(o) EXCEPT !.deferred = d]
    OBVIOUS
  <2> HIDE DEF d, Ended
  <2>2. Ended(o) = [pc |-> "idle", usable |-> no, base |-> NoTree, seen |-> 0,
                    head |-> NoTree, ver |-> run.ver, deferred |-> d, outcome |-> o]
    BY <2>1 DEF EndedAs
  <2> HIDE DEF no
  <2>3. ASSUME NEW r, NEW u, NEW v, NEW x, NEW y, NEW z, NEW pc, NEW idle,
               r = [pc |-> idle, usable |-> u, base |-> y, seen |-> z,
                    head |-> y, ver |-> v, deferred |-> x, outcome |-> o]
        PROVE  /\ [r EXCEPT !.pc = pc] =
                     [pc |-> pc, usable |-> u, base |-> y, seen |-> z,
                      head |-> y, ver |-> v, deferred |-> x, outcome |-> o]
               /\ r = [r EXCEPT !.pc = idle]
    BY <2>3
  <2>4. \A pc : [Ended(o) EXCEPT !.pc = pc] =
                 [pc |-> pc, usable |-> no, base |-> NoTree, seen |-> 0, head |-> NoTree,
                  ver |-> run.ver, deferred |-> d, outcome |-> o]
    BY <2>2, <2>3
  <2>5. Ended(o) = [Ended(o) EXCEPT !.pc = "idle"]
    BY <2>2, <2>3
  <2>6. \A pc \in {"idle", "tidy"} :
          run' = [Ended(o) EXCEPT !.pc = pc] => Ends(o) /\ run'.pc = pc
    BY <2>4 DEF Ends, no
  <2> QED  BY <2>5, <2>6, EndsNow
<1>2. head = run.head \/ head = Stripped(run.base, run.head)
  OBVIOUS
<1>3. ASSUME NEW kind \in {"update", "branch"}
      PROVE  /\ prs' = (prs \ old) \cup {Offer(kind)} => OffersBy(head, kind, FALSE)
             /\ prs' = (prs \ old) \cup {[Offer(kind) EXCEPT !.stray = TRUE]} =>
                   OffersBy(head, kind, TRUE)
  BY DEF OffersBy, PR
<1>4. \/ run' = EndedAs("token_needed") /\ UNCHANGED prs
      \/ prs' = (prs \ old) \cup {Offer("update")} /\ run' = [Ended("offered") EXCEPT !.pc = "tidy"]
      \/ prs' = (prs \ old) \cup {Offer("branch")} /\ run' = Ended("manual")
      \/ \E kind \in {"update", "branch"} :
            /\ prs' = (prs \ old) \cup {[Offer(kind) EXCEPT !.stray = TRUE]}
            /\ run' = Ended("failed")
  BY DEF OpenPR
<1> HIDE DEF head, old, Offer, Ended
<1> QED
  BY <1>1, <1>2, <1>3, <1>4

LEMMA OpenPRStep == ASSUME Inv, OpenPR PROVE Inv' /\ Newer
<1>1. MainInv' /\ Newer
  BY Steady DEF Inv, OpenPR
<1>2. Running /\ Forward(run.base, run.head) /\ latest' = latest
  BY DEF OpenPR, Inv, RunInv, Running
<1>3. PICK head, o :
        /\ head = run.head \/ head = Stripped(run.base, run.head)
        /\ Ends(o)
        /\ \/ UNCHANGED prs /\ o = "token_needed" /\ run'.pc = "idle"
           \/ OffersBy(head, "update", FALSE) /\ o = "offered" /\ run'.pc = "tidy"
           \/ /\ OffersBy(head, "branch", FALSE) \/ OffersBy(head, "branch", TRUE)
                 \/ OffersBy(head, "update", TRUE)
              /\ o \in {"manual", "failed"} /\ run'.pc = "idle"
  BY OpenPRCases
<1>4. Forward(run.base, head)
  BY <1>2, <1>3, StrippedTree
<1>5. RunInv' /\ run'.outcome = o
  BY <1>3, EndedRun DEF Inv
<1>6. CASE UNCHANGED prs
  <2>1. PRsInv'
    BY <1>2, <1>6, SamePRs DEF Inv, MainInv
  <2>2. run.pc # "tidy" /\ Updates' = Updates /\ Tended' = Tended
    BY <1>2, <1>6 DEF Running, Updates, Tended, UpdatePRs
  <2>3. OnePR'
    BY <1>3, <1>5, <2>2 DEF Inv, OnePR
  <2> QED  BY <1>1, <1>5, <2>1, <2>3 DEF Inv
<1>7. ASSUME NEW kind, NEW stray, OffersBy(head, kind, stray),
             \/ kind = "update" /\ ~stray /\ run'.pc = "tidy" /\ o = "offered"
             \/ (kind = "branch" \/ stray) /\ run'.pc = "idle" /\ o # "applied"
      PROVE  PRsInv' /\ OnePR'
  <2> DEFINE new == [PR(kind, run.ver, run.base, head) EXCEPT !.stray = stray]
  <2>1. /\ IsPR(new) /\ new.kind = kind /\ new.ver = run.ver /\ new.base = run.base
        /\ new.head = head /\ new.stray = stray
    BY DEF IsPR, PR
  <2>2. prs' = (prs \ {p \in Updates : p.ver = run.ver}) \cup {new}
    BY <1>7 DEF OffersBy
  <2> HIDE DEF new
  <2>3. PRsInv'
    BY <1>2, <1>4, <2>1, <2>2 DEF Inv, PRsInv, Forward
  <2>4. \A p \in Updates' : p = new \/ (p \in Updates /\ p.ver # run.ver)
    BY <2>2 DEF Updates
  <2>5. \A p, q \in Updates' : p.ver = q.ver => p = q
    BY <2>1, <2>4 DEF Inv, OnePR
  <2>6. \A p \in Tended' : p \in Updates' /\ p.kind = "update" /\ ~p.stray
    BY DEF Tended, UpdatePRs, Updates
  <2>7. run'.pc # "tidy" => \A p \in Tended' : p \in Tended
    BY <1>7, <2>1, <2>4, <2>6 DEF Tended, Updates, UpdatePRs
  <2>8. run.pc # "tidy"
    BY <1>2 DEF Running
  <2> QED  BY <1>5, <1>7, <2>3, <2>5, <2>7, <2>8 DEF Inv, OnePR
<1> QED
  BY <1>1, <1>3, <1>5, <1>6, <1>7 DEF Inv

\* Offers are relabelled: each keeps its commit, its release and its branch.
Relabels(f) ==
    /\ \A p \in prs' : \E q \in prs : p = f[q]
    /\ \A q \in prs : /\ IsPR(f[q])
                      /\ f[q].ver = q.ver /\ f[q].base = q.base /\ f[q].head = q.head
                      /\ f[q].kind = "settings" <=> q.kind = "settings"
                      /\ f[q] \in Updates' => q \in Updates

LEMMA Relabelled ==
    ASSUME MainInv, PRsInv, OnePR, NEW f, Relabels(f), latest' = latest
    PROVE  PRsInv' /\ \A p, q \in Updates' : p.ver = q.ver => p = q
<1>1. PRsInv'
  BY DEF Relabels, PRsInv, Forward
<1>2. ASSUME NEW p \in Updates', NEW q \in Updates', p.ver = q.ver PROVE p = q
  <2>1. p \in prs' /\ q \in prs'
    BY DEF Updates
  <2>2. PICK x \in prs, y \in prs : p = f[x] /\ q = f[y]
    BY <2>1 DEF Relabels
  <2>3. x \in Updates /\ y \in Updates /\ x.ver = y.ver
    BY <1>2, <2>2 DEF Relabels
  <2> QED  BY <2>2, <2>3 DEF OnePR
<1> QED
  BY <1>1, <1>2

\* What tidying up and people opening a request do to the offers.
Tidied(left, bare) ==
    [q \in prs |-> IF q \in left THEN [q EXCEPT !.stray = TRUE]
                   ELSE IF q \in bare THEN [q EXCEPT !.kind = "branch"] ELSE q]
Opened(p) == [q \in prs |-> IF q = p THEN [q EXCEPT !.kind = "update", !.stray = TRUE] ELSE q]

LEMMA TidyCases ==
    ASSUME PRsInv, Tidy
    PROVE  \E f : /\ Relabels(f)
                  /\ \A q \in prs : f[q] \in Tended' => q \in Tended /\ q \notin Stale
<1>1. PICK left \in SUBSET Stale : \E bare \in SUBSET (Stale \ left) :
        prs' = (prs \ Stale) \cup {[p EXCEPT !.stray = TRUE] : p \in left}
                             \cup {[p EXCEPT !.kind = "branch"] : p \in bare}
  BY DEF Tidy
<1>2. PICK bare \in SUBSET (Stale \ left) :
        prs' = (prs \ Stale) \cup {[p EXCEPT !.stray = TRUE] : p \in left}
                             \cup {[p EXCEPT !.kind = "branch"] : p \in bare}
  BY <1>1
<1>3. Stale \subseteq UpdatePRs /\ UpdatePRs \subseteq prs
  BY DEF Stale, UpdatePRs
<1> DEFINE f == Tidied(left, bare)
<1>4. \A p \in prs' : \E q \in prs : p = f[q]
  <2> SUFFICES ASSUME NEW p \in prs' PROVE \E q \in prs : p = f[q]
    OBVIOUS
  <2>1. CASE p \in prs \ Stale
    BY <2>1 DEF Tidied
  <2>2. CASE \E q \in left : p = [q EXCEPT !.stray = TRUE]
    BY <1>3, <2>2 DEF Tidied
  <2>3. CASE \E q \in bare : p = [q EXCEPT !.kind = "branch"]
    BY <1>3, <2>3 DEF Tidied
  <2> QED  BY <1>2, <2>1, <2>2, <2>3
<1>5. ASSUME NEW q \in prs
      PROVE  /\ IsPR(f[q]) /\ f[q].ver = q.ver /\ f[q].base = q.base /\ f[q].head = q.head
             /\ f[q].kind = "settings" <=> q.kind = "settings"
             /\ f[q].kind = "update" => q.kind = "update"
             /\ f[q].kind = "branch" => q.kind \in {"update", "branch"}
             /\ ~f[q].stray /\ f[q].kind = "update" => ~q.stray /\ q \notin left /\ q \notin bare
  <2>1. IsPR(q) /\ (q \in left \cup bare => q.kind = "update")
    BY <1>3 DEF PRsInv, UpdatePRs
  <2>2. f[q] = IF q \in left THEN [q EXCEPT !.stray = TRUE]
               ELSE IF q \in bare THEN [q EXCEPT !.kind = "branch"] ELSE q
    BY DEF Tidied
  <2> QED  BY <2>1, <2>2 DEF IsPR, PR
<1> HIDE DEF f
<1>6. Relabels(f)
  BY <1>4, <1>5 DEF Relabels, Updates
<1>7. ASSUME NEW q \in prs, f[q] \in Tended' PROVE q \in Tended /\ q \notin Stale
  <2>1. f[q] \in prs' /\ f[q].kind = "update" /\ ~f[q].stray
    BY <1>7 DEF Tended, UpdatePRs
  <2>2. q \in Tended /\ q \notin left /\ q \notin bare
    BY <1>5, <2>1 DEF Tended, UpdatePRs
  <2>3. f[q] = q
    BY <2>2 DEF f, Tidied
  <2>4. q \in prs \ Stale
    <3>1. \A x \in left : [x EXCEPT !.stray = TRUE].stray
      BY <1>3 DEF PRsInv, IsPR, PR
    <3>2. \A x \in bare : [x EXCEPT !.kind = "branch"].kind = "branch"
      BY <1>3 DEF PRsInv, IsPR, PR
    <3> QED  BY <1>2, <2>1, <2>3, <3>1, <3>2
  <2> QED  BY <2>2, <2>4
<1> QED
  BY <1>6, <1>7

LEMMA TidyStep == ASSUME Inv, Tidy PROVE Inv' /\ Newer
<1>1. /\ MainInv' /\ Newer /\ latest' = latest /\ run.pc = "tidy"
      /\ run' = [run EXCEPT !.pc = "idle"]
  BY Steady DEF Inv, Tidy
<1>2. RunInv' /\ run'.pc = "idle" /\ run'.outcome = run.outcome /\ run'.ver = run.ver
  BY <1>1 DEF Inv, RunInv, RunShape, Running
<1>3. PICK f : Relabels(f) /\ \A q \in prs : f[q] \in Tended' => q \in Tended /\ q \notin Stale
  BY TidyCases DEF Inv
<1>4. PRsInv' /\ \A p, q \in Updates' : p.ver = q.ver => p = q
  BY <1>1, <1>3, Relabelled DEF Inv
<1>5. ASSUME NEW p \in Tended' PROVE p \in Updates' /\ run.outcome = "offered" /\ p.ver = run.ver
  <2>1. p \in prs' /\ p \in Updates'
    BY DEF Tended, UpdatePRs, Updates
  <2>2. PICK q \in prs : p = f[q]
    BY <1>3, <2>1 DEF Relabels
  <2>3. q \in Tended /\ q \notin Stale /\ p.ver = q.ver
    BY <1>3, <2>2 DEF Relabels
  <2>4. run.outcome = "offered" /\ q.ver = run.ver
    BY <2>3 DEF Stale, Tended
  <2> QED  BY <2>1, <2>3, <2>4
<1>6. OnePR'
  BY <1>2, <1>4, <1>5 DEF OnePR
<1> QED
  BY <1>1, <1>2, <1>4, <1>6 DEF Inv

LEMMA PushFailsStep == ASSUME Inv, PushFails PROVE Inv' /\ Newer
<1>1. MainInv' /\ Newer /\ PRsInv'
  BY Steady, SamePRs DEF Inv, MainInv, PushFails
<1>2. RunInv' /\ run'.outcome = "failed" /\ run'.pc = "idle"
  BY EndsNow, EndedRun DEF Inv, PushFails
<1> QED
  BY <1>1, <1>2 DEF Inv, OnePR, Updates, Tended, UpdatePRs, PushFails

\* A step that is not the run's: its commit stays on the tip it saw.
LEMMA RunWaits ==
    ASSUME Inv, run' = run, latest' \in Nat, latest <= latest', tip' \in Nat,
           \/ tip' = tip /\ main' = main
           \/ tip' = tip + 1
    PROVE  RunInv'
<1>1. ASSUME Running PROVE Forward(run.base, run.head)'
  BY <1>1, StaysForward DEF Inv, RunInv
<1>2. ASSUME Running PROVE (run.seen = tip => run.base = main)' /\ (run.seen <= tip)'
  BY <1>2 DEF Inv, RunInv, MainInv
<1> QED
  BY <1>1, <1>2 DEF Inv, RunInv, RunShape, Running

LEMMA ReconfigureStep == ASSUME Inv, Reconfigure PROVE Inv' /\ Newer
<1>1. MainInv' /\ Newer /\ RunInv'
  BY Steady, RunWaits DEF Inv, MainInv, Reconfigure
<1>2. PICK acts, vipc, dragon :
        prs' = prs \cup {PR("settings", stamp + 1, main,
                 [main EXCEPT !.man = Reconfigured(main.man, acts, vipc, dragon, stamp + 1)])}
  BY DEF Reconfigure
<1> DEFINE m == Reconfigured(main.man, acts, vipc, dragon, stamp + 1)
           head == [main EXCEPT !.man = m]
           new == PR("settings", stamp + 1, main, head)
<1>3. IsManifest(m) /\ m.ver = main.man.ver
  BY DEF Reconfigured, IsManifest, Manifest
<1> HIDE DEF m
<1>4. head = [files |-> head.files, man |-> head.man, root |-> head.root] /\ head.man = m
  BY DEF Inv, MainInv, IsTree
<1> HIDE DEF head
<1>5. Forward(main, head)
  BY <1>3, <1>4 DEF Forward, IsTree, Inv, MainInv
<1>6. IsPR(new) /\ new.kind = "settings" /\ Forward(new.base, new.head)
  BY <1>5 DEF IsPR, PR
<1> HIDE DEF new
<1>7. prs' = prs \cup {new}
  BY <1>2 DEF new, head, m
<1>8. PRsInv'
  BY <1>6, <1>7 DEF Inv, PRsInv, Forward, Reconfigure
<1>9. OnePR'
  BY <1>6, <1>7 DEF Inv, OnePR, Updates, Tended, UpdatePRs, Reconfigure
<1> QED
  BY <1>1, <1>8, <1>9 DEF Inv

LEMMA MergePRStep == ASSUME Inv, MergePR PROVE Inv' /\ Newer
<1>1. PICK p \in prs : /\ ~Conflict(p.base, p.head, main)
                       /\ MoveMain(Merged(p.base, p.head, main))
                       /\ prs' = prs \ {p}
  BY DEF MergePR
<1>2. Forward(main, Merged(p.base, p.head, main))
  BY <1>1, MergeTree DEF Inv, PRsInv
<1>3. MainInv' /\ Newer
  BY <1>1, <1>2 DEF Forward, Inv, MainInv, Newer, MoveMain, MergePR, IsTree, IsManifest
<1>4. RunInv'
  BY <1>1, RunWaits DEF Inv, MainInv, MoveMain, MergePR
<1>5. PRsInv'
  BY <1>1, SamePRs DEF Inv, MainInv, MergePR
<1>6. OnePR'
  BY <1>1 DEF Inv, OnePR, Updates, Tended, UpdatePRs, MergePR
<1> QED
  BY <1>3, <1>4, <1>5, <1>6 DEF Inv

LEMMA OpenByHandCases ==
    ASSUME PRsInv, OpenByHand
    PROVE  \E f : Relabels(f) /\ Tended' \subseteq Tended
<1>1. PICK p \in Updates :
        /\ p.kind = "branch"
        /\ prs' = (prs \ {p}) \cup {[p EXCEPT !.kind = "update", !.stray = TRUE]}
  BY DEF OpenByHand
<1>2. p \in prs /\ IsPR(p)
  BY DEF PRsInv, Updates
<1> DEFINE f == Opened(p)
           new == [p EXCEPT !.kind = "update", !.stray = TRUE]
<1>3. /\ IsPR(new) /\ new.kind = "update" /\ new.stray /\ new.ver = p.ver
      /\ new.base = p.base /\ new.head = p.head
  <2>1. new = [kind |-> "update", ver |-> p.ver, base |-> p.base, head |-> p.head,
               stray |-> TRUE]
    <3> DEFINE mid == [p EXCEPT !.kind = "update"]
    <3>1. mid = [kind |-> "update", ver |-> p.ver, base |-> p.base, head |-> p.head,
                 stray |-> p.stray]
      BY <1>2 DEF IsPR
    <3>2. new = [mid EXCEPT !.stray = TRUE]
      BY <1>2 DEF IsPR
    <3> HIDE DEF mid, new
    <3> QED  BY <3>1, <3>2
  <2> HIDE DEF new
  <2> QED  BY <2>1 DEF IsPR
<1>4. \A q \in prs : f[q] = IF q = p THEN new ELSE q
  BY DEF Opened
<1> HIDE DEF f, new
<1>5. prs' = (prs \ {p}) \cup {new}
  BY <1>1 DEF new
<1>6. Relabels(f)
  BY <1>1, <1>2, <1>3, <1>4, <1>5 DEF Relabels, PRsInv, Updates
<1>7. Tended' \subseteq Tended
  BY <1>3, <1>5 DEF Tended, UpdatePRs
<1> QED
  BY <1>6, <1>7

LEMMA OpenByHandStep == ASSUME Inv, OpenByHand PROVE Inv' /\ Newer
<1>1. /\ MainInv' /\ Newer /\ RunInv' /\ latest' = latest /\ run' = run
  BY Steady, RunWaits DEF Inv, MainInv, OpenByHand
<1>2. PICK f : Relabels(f) /\ Tended' \subseteq Tended
  BY OpenByHandCases DEF Inv
<1>3. PRsInv' /\ \A p, q \in Updates' : p.ver = q.ver => p = q
  BY <1>1, <1>2, Relabelled DEF Inv
<1>4. OnePR'
  BY <1>1, <1>2, <1>3 DEF Inv, OnePR
<1> QED
  BY <1>1, <1>3, <1>4 DEF Inv

\* What moves the branch to a tree no older, and nothing else the proof is about.
LEMMA PeopleStep ==
    ASSUME Inv, NEW new, MoveMain(new), Forward(main, new), UNCHANGED <<latest, run, prs>>
    PROVE  Inv' /\ Newer
<1>1. MainInv' /\ Newer
  BY DEF Forward, Inv, MainInv, Newer, MoveMain, IsTree, IsManifest
<1>2. RunInv'
  BY RunWaits DEF Inv, MainInv, MoveMain
<1>3. PRsInv'
  BY SamePRs DEF Inv, MainInv
<1> QED
  BY <1>1, <1>2, <1>3 DEF Inv, OnePR, Updates, Tended, UpdatePRs

LEMMA PushOwnStep == ASSUME Inv, PushOwn PROVE Inv' /\ Newer
<1>1. PICK new, f : MoveMain(new) /\ new = [main EXCEPT !.files = f]
  BY DEF PushOwn
<1>2. new = [files |-> new.files, man |-> new.man, root |-> new.root] /\ new.man = main.man
  BY <1>1 DEF Inv, MainInv, IsTree
<1>3. Forward(main, new)
  BY <1>2 DEF Forward, IsTree, Inv, MainInv
<1> QED
  BY <1>1, <1>3, PeopleStep DEF PushOwn

LEMMA InstallByHandStep == ASSUME Inv, InstallByHand PROVE Inv' /\ Newer
<1>1. PICK arg, new : /\ MoveMain(new)
                      /\ \/ new = Installed(main, latest, arg, stamp + 1)
                         \/ new = ThinInstalled(main, latest, arg, stamp + 1)
  <2>1. PICK arg \in HandArgs, thin \in BOOLEAN :
          MoveMain(IF thin THEN ThinInstalled(main, latest, arg, stamp + 1)
                   ELSE Installed(main, latest, arg, stamp + 1))
    BY DEF InstallByHand
  <2> DEFINE t == IF thin THEN ThinInstalled(main, latest, arg, stamp + 1)
                  ELSE Installed(main, latest, arg, stamp + 1)
  <2>2. MoveMain(t)
    BY <2>1
  <2>3. t = Installed(main, latest, arg, stamp + 1) \/ t = ThinInstalled(main, latest, arg, stamp + 1)
    OBVIOUS
  <2> QED  BY <2>2, <2>3
<1>2. IsTree(new) /\ new.man.ver = latest
  BY <1>1, InstalledTree DEF Inv, MainInv
<1>3. Forward(main, new)
  BY <1>2 DEF Forward, Inv, MainInv
<1> QED
  BY <1>1, <1>3, PeopleStep DEF InstallByHand

LEMMA ReleaseStep == ASSUME Inv, Release PROVE Inv' /\ Newer
<1>1. latest' \in Nat \ {0} /\ latest <= latest'
  BY UpdateAssumption DEF Release, Inv, MainInv
<1>2. MainInv' /\ Newer
  BY <1>1 DEF Release, Inv, MainInv, Newer, IsTree, IsManifest
<1>3. RunInv' /\ PRsInv'
  BY <1>1, RunWaits, SamePRs DEF Release, Inv, MainInv
<1> QED
  BY <1>2, <1>3 DEF Release, Inv, OnePR, Updates, Tended, UpdatePRs

LEMMA QuietStep ==
    ASSUME Inv, UNCHANGED <<main, tip, latest, run, prs>> PROVE Inv' /\ Newer
<1>1. MainInv' /\ Newer
  BY Steady DEF Inv
<1>2. RunInv' /\ PRsInv'
  BY RunWaits, SamePRs DEF Inv, MainInv
<1> QED
  BY <1>1, <1>2 DEF Inv, OnePR, Updates, Tended, UpdatePRs

LEMMA Step == ASSUME Inv, [Next]_vars PROVE Inv' /\ Newer
<1>1. CASE UNCHANGED vars
  BY <1>1, QuietStep DEF vars
<1>2. CASE TokenChanges
  BY <1>2, QuietStep DEF TokenChanges
<1> QED
  BY <1>1, <1>2, CheckTokenStep, RunInstallerStep, PushLandsStep, RebaseStep,
     DeferWorkflowsStep, FallBackStep, OpenPRStep, PushFailsStep, TidyStep, ReconfigureStep,
     MergePRStep, OpenByHandStep, PushOwnStep, InstallByHandStep, ReleaseStep DEF Next, Deliver

(* No update goes backwards, whatever release a run fetched, whoever pushed or *)
(* merged meanwhile and however long a pull request stayed open                *)
(* (apply-tooling-update.yml:339-347, 490-508).                                *)
THEOREM NeverDowngraded == Spec => NoDowngrade
<1>1. Inv /\ [Next]_vars => [Newer]_vars /\ Inv'
  BY Step
<1>2. [Newer]_vars => [main'.man.ver >= main.man.ver]_vars
  BY DEF Newer
<1> QED
  BY Initially, <1>1, <1>2, PTL DEF Spec, NoDowngrade

-----------------------------------------------------------------------------
(* What an installation, a merge and a deferral make of the files of a tree.   *)

(* The consumer's paths OwnKept is about.                                      *)
Kept == Owned \ ((UNION {Under[d] : d \in Dirs}) \ Preserved)

(* A change leaves the consumer's files alone; at most the shipped default of  *)
(* one that is preserved appears where there was no file.                      *)
Spares(old, new) ==
    \A p \in Kept : \/ new.files[p] = old.files[p]
                    \/ old.files[p] = Absent /\ new.files[p].by = "tooling"

(* What any installation does, by hand and forced ones too.                    *)
Defaults(old, new) ==
    \A p \in Kept : \/ new.files[p] = old.files[p]
                    \/ p \in Preserved /\ new.files[p].by = "tooling"

(* Every selected file is of the tree's release, or among those that may lag.  *)
Whole(tree, lag) ==
    /\ tree.man.ver \in Releases
    /\ \A p \in Selected(tree.man) \ Catalog[tree.man.ver].preserve :
          AtRelease(tree, p) \/ p \in lag

\* The consumer's own files are shipped only as preserved defaults, and are
\* not what the GitLab package or the fixed paths of the installer hold.
LEMMA KeptPaths ==
    ASSUME NEW p \in Kept, NEW rel \in Releases
    PROVE  /\ p \in Paths /\ p \in Owned
           /\ p \in Shipped[rel] => p \in Preserved /\ p \in Catalog[rel].preserve
           /\ p \in Preserved => p \in Catalog[rel].preserve
           /\ p \notin Provider[rel].files
           /\ p \notin {DashboardPages, PipelineYml, LegacyBuilder, ThinCaller, ThinDashboard,
                        Dependabot}
           /\ \A d \in Dirs : p \in Under[d] => p \in Preserved
<1>1. p \in Owned /\ \A d \in Dirs : p \in Under[d] => p \in Preserved
  BY DEF Kept
<1>2. /\ p \in Paths /\ p \notin Provider[rel].files
      /\ p \notin {DashboardPages, PipelineYml, LegacyBuilder, ThinCaller, ThinDashboard,
                   Dependabot}
  BY <1>1, OwnedAssumption
<1>3. p \in Shipped[rel] \/ p \in Preserved => p \in Catalog[rel].preserve
  BY <1>1, OwnedAssumption
<1>4. p \in Catalog[rel].preserve => p \in Preserved
  BY DEF Preserved
<1> QED
  BY <1>1, <1>2, <1>3, <1>4

LEMMA Contents ==
    ASSUME NEW rel, NEW p, NEW branch
    PROVE  /\ Content(rel, p, branch).by = "tooling" /\ Content(rel, p, branch).ver = rel
           /\ File("tooling", rel, branch).by = "tooling" /\ File("tooling", rel, branch).ver = rel
           /\ Absent.by = "nobody"
BY DEF Content, File, Absent

\* Copying brings what the release ships and otherwise leaves or prunes.
LEMMA Copies ==
    ASSUME NEW t, IsTree(t), Versioned(t), NEW rel \in Releases, NEW entries, NEW opt
    PROVE  LET c == CopyEntries(t, rel, entries, opt)
           IN  /\ Versioned(c)
               /\ Defaults(t, c)
               /\ opt.update => Spares(t, c)
               /\ opt.force => \A p \in (UNION {Brings(rel, e) : e \in entries}) \ Catalog[rel].preserve :
                                  c.files[p].by = "tooling" /\ c.files[p].ver = rel
<1> DEFINE c == CopyEntries(t, rel, entries, opt)
           brought == UNION {Brings(rel, e) : e \in entries}
           orphans == (UNION {Under[e] : e \in {x \in entries : Mirrored(rel, x)}})
                      \ (brought \cup Catalog[rel].preserve)
<1>1. c.files = [p \in Paths |-> IF p \in brought THEN CopyOne(t, rel, p, opt)
                    ELSE IF opt.update /\ p \in orphans THEN Absent ELSE t.files[p]]
  BY DEF CopyEntries, IsTree
<1>2. brought \subseteq Shipped[rel] /\ brought \subseteq Paths
  BY UpdateAssumption DEF Brings
<1>3. \A p \in Kept : p \notin orphans
  <2> SUFFICES ASSUME NEW p \in Kept, p \in orphans PROVE FALSE
    OBVIOUS
  <2>1. PICK d \in Dirs : p \in Under[d]
    BY DEF Mirrored
  <2>2. p \in Catalog[rel].preserve
    BY <2>1, KeptPaths
  <2> QED  BY <2>2
<1> HIDE DEF c, orphans
<1>4. \A p \in Paths : \/ CopyOne(t, rel, p, opt) = t.files[p]
                       \/ /\ CopyOne(t, rel, p, opt) = Content(rel, p, opt.branch)
                          /\ opt.update /\ p \in Catalog[rel].preserve => t.files[p] = Absent
  BY DEF CopyOne, Exists
<1>5. Versioned(c)
  <2>1. DOMAIN c.files = Paths
    BY <1>1
  <2>2. ASSUME NEW p \in Paths, c.files[p].by = "tooling" PROVE c.files[p].ver \in Releases
    <3>1. \/ c.files[p] = t.files[p] \/ c.files[p] = Absent
          \/ c.files[p] = Content(rel, p, opt.branch)
      BY <1>1, <1>4
    <3> QED  BY <3>1, <2>2, Contents DEF Versioned
  <2> QED  BY <2>1, <2>2 DEF Versioned
<1>6. ASSUME NEW p \in Kept
      PROVE  \/ c.files[p] = t.files[p]
             \/ /\ p \in Preserved /\ c.files[p].by = "tooling"
                /\ opt.update => t.files[p] = Absent
  <2>1. p \in Paths /\ p \notin orphans
        /\ (p \in brought => p \in Preserved /\ p \in Catalog[rel].preserve)
    BY <1>2, <1>3, KeptPaths
  <2>2. CASE p \in brought
    <3>1. c.files[p] = CopyOne(t, rel, p, opt)
      BY <1>1, <2>1, <2>2
    <3> QED  BY <1>4, <2>1, <2>2, <3>1, Contents
  <2>3. CASE p \notin brought
    BY <1>1, <2>1, <2>3
  <2> QED  BY <2>2, <2>3
<1>7. ASSUME opt.force, NEW p \in brought \ Catalog[rel].preserve
      PROVE  c.files[p].by = "tooling" /\ c.files[p].ver = rel
  <2>1. c.files[p] = CopyOne(t, rel, p, opt)
    BY <1>1, <1>2
  <2>2. CopyOne(t, rel, p, opt) = Content(rel, p, opt.branch)
    BY <1>7 DEF CopyOne
  <2> QED  BY <2>1, <2>2, Contents
<1>8. Defaults(t, c) /\ (opt.update => Spares(t, c))
  BY <1>6 DEF Defaults, Spares
<1> QED
  BY <1>5, <1>7, <1>8 DEF c

\* Rewriting the dashboard workflow changes no file of the consumer's.
LEMMA DashboardFiles ==
    ASSUME NEW c, c = [files |-> c.files, man |-> c.man, root |-> c.root], Versioned(c),
           NEW rel \in Releases, NEW entries, NEW branch
    PROVE  LET new == RewriteDashboard(c, rel, entries, branch)
           IN  /\ Versioned(new)
               /\ \A p \in Kept : new.files[p] = c.files[p]
               /\ \A p \in Paths : c.files[p].by = "tooling" /\ c.files[p].ver = rel =>
                                    new.files[p].by = "tooling" /\ new.files[p].ver = rel
<1>1. PICK f : /\ f = RewriteDashboard(c, rel, entries, branch)
               /\ DOMAIN f.files = Paths
               /\ \A p \in Paths : \/ f.files[p] = c.files[p]
                                   \/ p = DashboardPages /\ f.files[p] = File("tooling", rel, branch)
  <2> DEFINE f == RewriteDashboard(c, rel, entries, branch)
             new == File("tooling", rel, branch)
  <2>1. f = c \/ f = [c EXCEPT !.files[DashboardPages] = new]
    BY DEF RewriteDashboard
  <2> HIDE DEF f, new
  <2>2. f = c \/ f.files = [c.files EXCEPT ![DashboardPages] = new]
    BY <2>1
  <2>3. DOMAIN c.files = Paths
    BY DEF Versioned
  <2>4. DOMAIN f.files = Paths
        /\ \A p \in Paths : f.files[p] = c.files[p] \/ (p = DashboardPages /\ f.files[p] = new)
    BY <2>2, <2>3
  <2> QED  BY <2>4 DEF f, new
<1>2. Versioned(f) /\ \A p \in Paths : c.files[p].by = "tooling" /\ c.files[p].ver = rel =>
                         f.files[p].by = "tooling" /\ f.files[p].ver = rel
  BY <1>1, Contents DEF Versioned
<1>3. \A p \in Kept : f.files[p] = c.files[p]
  BY <1>1, KeptPaths
<1> QED
  BY <1>1, <1>2, <1>3

\* Neither does writing the GitLab package, nor pruning the one before it.
LEMMA PackageFiles ==
    ASSUME NEW c, Versioned(c), NEW rel \in Releases, NEW opt
    PROVE  /\ Versioned(Scaffold(c, rel, opt))
           /\ \A p \in Kept : Scaffold(c, rel, opt).files[p] = c.files[p]
<1> DEFINE gone == IF opt.update THEN ProviderOrphans(c, rel) ELSE {}
           s == Scaffold(c, rel, opt)
<1>1. s.files = [p \in Paths |->
             IF p \in Provider[rel].files \cup {PipelineYml} THEN File("tooling", rel, "")
             ELSE IF p \in gone THEN Absent ELSE c.files[p]]
  BY DEF Scaffold
<1>2. \A p \in Kept : p \notin gone
  <2> SUFFICES ASSUME NEW p \in Kept, p \in gone PROVE FALSE
    OBVIOUS
  <2>1. p \in Paths /\ p # LegacyBuilder
    BY KeptPaths
  <2>2. PICK old : /\ old = c.files[ProviderManifest] /\ old.by = "tooling"
                   /\ p \in Provider[old.ver].files
    BY <2>1 DEF ProviderOrphans
  <2>3. old.ver \in Releases
    BY <2>2, UpdateAssumption DEF Versioned
  <2> QED  BY <2>2, <2>3, KeptPaths
<1> HIDE DEF s, gone
<1>3. Versioned(s)
  <2>1. ASSUME NEW p \in Paths, s.files[p].by = "tooling" PROVE s.files[p].ver \in Releases
    <3>1. s.files[p] = File("tooling", rel, "") \/ s.files[p] = Absent \/ s.files[p] = c.files[p]
      BY <1>1
    <3>2. File("tooling", rel, "").ver = rel /\ Absent.by # "tooling"
      BY DEF File, Absent
    <3>3. c.files[p].by = "tooling" => c.files[p].ver \in Releases
      BY DEF Versioned
    <3> QED  BY <2>1, <3>1, <3>2, <3>3
  <2>2. DOMAIN s.files = Paths
    BY <1>1
  <2> QED  BY <2>1, <2>2 DEF Versioned
<1>4. \A p \in Kept : s.files[p] = c.files[p]
  BY <1>1, <1>2, KeptPaths
<1> QED
  BY <1>3, <1>4 DEF s

\* An installation leaves the consumer's files alone, and one that is an update
\* and not for GitLab brings everything selected that is not preserved.
LEMMA InstalledFiles ==
    ASSUME NEW t, IsTree(t), Versioned(t), NEW rel \in Releases, NEW arg, NEW at
    PROVE  LET new == Installed(t, rel, arg, at)
           IN  /\ Versioned(new) /\ Defaults(t, new)
               /\ new.man.at = at /\ new.man.provider = Options(t, rel, arg).provider
               /\ arg.update => Spares(t, new)
               /\ arg.update /\ new.man.provider # "gitlab" => Whole(new, {})
<1> DEFINE opt == Options(t, rel, arg)
           gitlab == opt.provider = "gitlab"
           acts == IF gitlab THEN {c \in opt.acts : Recorded(rel, c, opt.os)} ELSE opt.acts
           listed == FileList(Catalog[rel], acts, opt.os)
           entries == IF gitlab THEN listed \ Workflows ELSE listed
           copied == CopyEntries(t, rel, entries, opt)
           wired == IF gitlab THEN Scaffold(copied, rel, opt)
                    ELSE RewriteDashboard(copied, rel, entries, opt.branch)
           man == Manifest(rel, at, acts, opt.os, opt.branch, opt.provider, 0, {}, {})
           new == Installed(t, rel, arg, at)
<1>1. new = [wired EXCEPT !.man = man]
  BY DEF Installed
<1>2. man.ver = rel /\ man.at = at /\ man.acts = acts /\ man.os = opt.os
      /\ man.provider = opt.provider
  BY DEF Manifest
<1>3. opt.update = arg.update /\ (arg.update => opt.force)
  BY DEF Options
<1> HIDE DEF opt, entries, man
<1>4. copied = [files |-> copied.files, man |-> copied.man, root |-> copied.root]
  <2>1. \E f : copied = [t EXCEPT !.files = f]
    BY DEF CopyEntries
  <2> QED  BY <2>1 DEF IsTree
<1>5. /\ Versioned(copied) /\ Defaults(t, copied) /\ (opt.update => Spares(t, copied))
      /\ opt.force => \A p \in (UNION {Brings(rel, e) : e \in entries}) \ Catalog[rel].preserve :
                         copied.files[p].by = "tooling" /\ copied.files[p].ver = rel
  BY Copies
<1> HIDE DEF copied
<1>6. wired = [files |-> wired.files, man |-> wired.man, root |-> wired.root]
  BY <1>4 DEF Scaffold, RewriteDashboard
<1>7. /\ Versioned(wired) /\ \A p \in Kept : wired.files[p] = copied.files[p]
      /\ ~gitlab => \A p \in Paths : copied.files[p].by = "tooling" /\ copied.files[p].ver = rel =>
                      wired.files[p].by = "tooling" /\ wired.files[p].ver = rel
  <2> DEFINE viewed == RewriteDashboard(copied, rel, entries, opt.branch)
             package == Scaffold(copied, rel, opt)
  <2>1. /\ Versioned(viewed) /\ \A p \in Kept : viewed.files[p] = copied.files[p]
        /\ \A p \in Paths : copied.files[p].by = "tooling" /\ copied.files[p].ver = rel =>
               viewed.files[p].by = "tooling" /\ viewed.files[p].ver = rel
        /\ Versioned(package) /\ \A p \in Kept : package.files[p] = copied.files[p]
    BY <1>4, <1>5, DashboardFiles, PackageFiles
  <2>2. wired = IF gitlab THEN package ELSE viewed
    OBVIOUS
  <2> HIDE DEF viewed, package, wired, gitlab
  <2> QED  BY <2>1, <2>2
<1> HIDE DEF wired, new
<1>8. new.files = wired.files /\ new.man = man
  BY <1>1, <1>6
<1>9. Versioned(new) /\ Defaults(t, new) /\ (arg.update => Spares(t, new))
  BY <1>3, <1>5, <1>7, <1>8 DEF Versioned, Defaults, Spares
<1>10. ASSUME arg.update, ~gitlab, NEW p \in Selected(new.man) \ Catalog[rel].preserve
       PROVE  new.files[p].by = "tooling" /\ new.files[p].ver = rel
  <2>1. entries = listed
    BY <1>10 DEF entries
  <2>2. p \in (UNION {Brings(rel, e) : e \in entries}) \ Catalog[rel].preserve
    BY <1>2, <1>8, <2>1, <1>10 DEF Selected
  <2>3. p \in Paths
    BY <2>2, UpdateAssumption DEF Brings
  <2> QED  BY <1>3, <1>5, <1>7, <1>8, <1>10, <2>2, <2>3
<1>11. ASSUME arg.update, ~gitlab PROVE Whole(new, {})
  BY <1>2, <1>8, <1>10, <1>11 DEF Whole, AtRelease
<1> QED
  BY <1>2, <1>8, <1>9, <1>11 DEF new, opt

\* A thin installation writes none of the consumer's files.
LEMMA ThinFiles ==
    ASSUME NEW t, IsTree(t), Versioned(t), NEW rel \in Releases, NEW arg, NEW at
    PROVE  LET new == ThinInstalled(t, rel, arg, at)
           IN  /\ Versioned(new) /\ Defaults(t, new)
               /\ new.man.at = at /\ new.man.provider # "gitlab"
<1> DEFINE new == ThinInstalled(t, rel, arg, at)
<1>1. PICK acts, branch, os :
         new = [t EXCEPT !.files = [p \in Paths |-> IF p \in ThinPaths(acts)
                                     THEN File("tooling", rel, branch) ELSE t.files[p]],
                         !.man = Manifest(rel, at, acts, os, "", "", 5, {}, {})]
  BY DEF ThinInstalled
<1> DEFINE f == [p \in Paths |-> IF p \in ThinPaths(acts) THEN File("tooling", rel, branch)
                                 ELSE t.files[p]]
           m == Manifest(rel, at, acts, os, "", "", 5, {}, {})
<1>2. new = [t EXCEPT !.files = f, !.man = m] /\ m.at = at /\ m.provider # "gitlab"
  BY <1>1 DEF Manifest
<1> HIDE DEF new, f, m
<1>3. new.files = f /\ new.man = m
  BY <1>2 DEF IsTree
<1>4. Versioned(new)
  <2>1. ASSUME NEW p \in Paths, new.files[p].by = "tooling" PROVE new.files[p].ver \in Releases
    <3>1. new.files[p] = File("tooling", rel, branch) \/ new.files[p] = t.files[p]
      BY <1>3 DEF f
    <3> QED  BY <2>1, <3>1, Contents DEF Versioned
  <2>2. DOMAIN new.files = Paths
    BY <1>3 DEF f
  <2> QED  BY <2>1, <2>2 DEF Versioned
<1>5. Defaults(t, new)
  <2>1. \A p \in Kept : p \in Paths /\ p \notin ThinPaths(acts)
    BY KeptPaths DEF ThinPaths
  <2> QED  BY <1>3, <2>1 DEF Defaults, f
<1> QED
  BY <1>2, <1>3, <1>4, <1>5 DEF new

(* A commit keeps what is the consumer's, is for GitHub and is newer than the  *)
(* one it is based on.                                                         *)
Sound(base, head) ==
    /\ Versioned(base) /\ Versioned(head) /\ Spares(base, head)
    /\ head.man.provider # "gitlab"
    /\ base.man.at \in Nat /\ head.man.at \in Nat /\ base.man.at < head.man.at

(* The manifest dates a tree: a commit that is not on the branch yet has a     *)
(* date of its own, and as long as the branch has the date of the base, only   *)
(* people have written to it.                                                  *)
Current(base, head) ==
    /\ head.man.at <= stamp /\ head.man.at # main.man.at
    /\ base.man.at <= main.man.at
    /\ base.man.at = main.man.at =>
          base.man = main.man /\ \A p \in Paths \ Owned : base.files[p] = main.files[p]

Hosted(m) == m # NoManifest /\ m.provider # "gitlab"

TipInv ==
    /\ latest \in Releases /\ stamp \in Nat /\ pushes \in Nat
    /\ Versioned(main) /\ main.man.at \in Nat /\ main.man.at <= stamp
    /\ \A p \in Kept : main.files[p].by = "people" =>
          main.files[p].ver \in Nat /\ main.files[p].ver <= pushes

HeldInv ==
    /\ run.outcome = "applied" => run.pc \in {"idle", "tidy"}
    /\ run.pc = "checkout" => Hosted(main.man)
    /\ Running => /\ Sound(run.base, run.head) /\ Current(run.base, run.head)
                  /\ Whole(run.head, IF run.deferred THEN Workflows ELSE {})

OffersInv ==
    \A p \in prs : /\ Sound(p.base, p.head) /\ Current(p.base, p.head)
                   /\ p.kind # "settings" => Whole(p.head, Workflows)
                   /\ p.kind = "settings" => p.head.man.ver = p.base.man.ver

ApartInv ==
    /\ \A p, q \in prs : p.head.man.at = q.head.man.at => p = q
    /\ Running => \A p \in prs : p.head.man.at # run.head.man.at

(* Since the last update was applied, whatever else offers one has a base the  *)
(* branch has left behind.                                                     *)
BehindInv ==
    run.outcome = "applied" =>
        \A p \in prs : p.kind # "settings" => p.base.man.at < main.man.at

FilesInv == TipInv /\ HeldInv /\ OffersInv /\ ApartInv

(* What UpdateWhole and OwnKept say of one step.                               *)
WholeStep ==
    main'.man.ver # main.man.ver /\ pushes' = pushes =>
         \A p \in Selected(main'.man) \ Catalog[main'.man.ver].preserve :
            \/ AtRelease(main', p)
            \/ p \in Workflows /\ (run'.deferred \/ run'.outcome # "applied")
KeptStep ==
    \A p \in Kept : main.files[p].by = "people" =>
        \/ main'.files[p].by = "people" /\ main'.files[p].ver >= main.files[p].ver
        \/ p \in Preserved /\ pushes' # pushes /\ main'.files[p].by = "tooling"

\* What is selected and not preserved is not the consumer's.
LEMMA SelectedPaths ==
    ASSUME NEW man, man.ver \in Releases, NEW p \in Selected(man) \ Catalog[man.ver].preserve
    PROVE  p \in Paths \ Owned
<1>1. p \in Shipped[man.ver]
  BY DEF Selected, Brings
<1> QED
  BY <1>1, UpdateAssumption, OwnedAssumption

\* A commit that merges without conflict is on top of a branch to which only
\* people have written since its base, so that it arrives as it was made.
LEMMA MergeSound ==
    ASSUME NEW base, NEW head, Sound(base, head), Current(base, head), TipInv,
           ~Conflict(base, head, main)
    PROVE  LET new == Merged(base, head, main)
           IN  /\ Sound(main, new) /\ new.man = head.man /\ base.man = main.man
               /\ \A p \in Paths \ Owned : new.files[p] = head.files[p]
<1> DEFINE new == Merged(base, head, main)
<1>1. head.man # base.man /\ head.man # main.man
  BY DEF Sound, Current
<1>2. base.man = main.man /\ new.man = head.man
  BY <1>1 DEF Conflict, Merged
<1>3. \A p \in Paths \ Owned : base.files[p] = main.files[p]
  BY <1>2 DEF Current
<1>4. DOMAIN new.files = Paths
      /\ \A p \in Paths : new.files[p] = IF head.files[p] # base.files[p] THEN head.files[p]
                                         ELSE main.files[p]
  BY DEF Merged
<1> HIDE DEF new
<1>5. \A p \in Paths \ Owned : new.files[p] = head.files[p]
  BY <1>3, <1>4
<1>6. Versioned(new)
  BY <1>4 DEF Versioned, Sound, TipInv
<1>7. Spares(main, new)
  <2> SUFFICES ASSUME NEW p \in Kept, new.files[p] # main.files[p]
               PROVE  main.files[p] = Absent /\ new.files[p].by = "tooling"
    BY DEF Spares
  <2>1. p \in Paths
    BY UpdateAssumption, KeptPaths
  <2>2. head.files[p] # base.files[p] /\ new.files[p] = head.files[p]
    BY <1>4, <2>1
  <2>3. base.files[p] = Absent /\ head.files[p].by = "tooling"
    BY <2>2 DEF Sound, Spares
  <2>4. main.files[p] = base.files[p] \/ main.files[p] = head.files[p]
    BY <2>1, <2>2 DEF Conflict
  <2> QED  BY <2>2, <2>3, <2>4
<1> QED
  BY <1>2, <1>5, <1>6, <1>7 DEF Sound, TipInv, new

LEMMA MergeWhole ==
    ASSUME NEW head, NEW new, NEW lag, Whole(head, lag), new.man = head.man,
           \A p \in Paths \ Owned : new.files[p] = head.files[p]
    PROVE  Whole(new, lag)
BY SelectedPaths DEF Whole, AtRelease

\* Holding workflow files back leaves only those behind.
LEMMA StrippedSound ==
    ASSUME NEW base, NEW head, Forward(base, head), Sound(base, head), Current(base, head),
           NEW lag, Whole(head, lag), lag \subseteq Workflows
    PROVE  LET rest == Stripped(base, head)
           IN  Sound(base, rest) /\ Current(base, rest) /\ Whole(rest, Workflows)
               /\ rest.man = head.man
<1> DEFINE rest == Stripped(base, head)
<1>1. /\ rest.man = head.man
      /\ rest.files = [p \in Paths |-> IF p \in Workflows THEN base.files[p] ELSE head.files[p]]
  BY DEF Stripped, Forward, IsTree
<1> HIDE DEF rest
<1>2. Versioned(rest)
  BY <1>1 DEF Versioned, Sound
<1>3. Spares(base, rest)
  BY <1>1, KeptPaths, UpdateAssumption DEF Spares, Sound
<1>4. Whole(rest, Workflows)
  BY <1>1, SelectedPaths DEF Whole, AtRelease
<1> QED
  BY <1>1, <1>2, <1>3, <1>4 DEF Sound, Current, rest

-----------------------------------------------------------------------------
(* Each action keeps these invariants, and the steps are as they should be. *)

Good == FilesInv' /\ WholeStep /\ KeptStep

LEMMA InitFiles == Init => FilesInv /\ BehindInv
<1> SUFFICES ASSUME Init PROVE FilesInv /\ BehindInv
  OBVIOUS
<1>1. main \in Trees /\ latest = 1 /\ stamp = 1 /\ pushes = 0 /\ prs = {}
      /\ run.pc = "idle" /\ run.outcome = "none"
  BY DEF Init
<1>2. Versioned(main) /\ main.man.at \in {0, 1}
      /\ \A p \in Owned : main.files[p].by = "people" => main.files[p].ver = 0
  BY <1>1, UpdateAssumption
<1>3. Kept \subseteq Owned
  BY DEF Kept
<1>4. TipInv
  BY <1>1, <1>2, <1>3, UpdateAssumption DEF TipInv
<1> QED
  BY <1>1, <1>4 DEF FilesInv, HeldInv, OffersInv, ApartInv, BehindInv, Running

\* A commit stays current while only people write to the branch, and when the
\* branch takes a commit of another date.
LEMMA StaysCurrent ==
    ASSUME NEW base, NEW head, Sound(base, head), Current(base, head), TipInv,
           stamp' \in Nat, stamp <= stamp',
           \/ main' = main
           \/ /\ main'.man = main.man
              /\ \A p \in Paths \ Owned : main'.files[p] = main.files[p]
           \/ /\ main'.man.at \in Nat /\ main.man.at < main'.man.at
              /\ head.man.at # main'.man.at
    PROVE  Current(base, head)'
BY DEF Sound, Current, TipInv

\* A step that leaves the branch, the people and the releases alone.
LEMMA BranchAlone ==
    ASSUME TipInv, UNCHANGED <<main, latest, pushes>>, stamp' \in Nat, stamp <= stamp'
    PROVE  TipInv' /\ WholeStep /\ KeptStep
<1>1. TipInv'
  BY DEF TipInv, Versioned
<1>2. KeptStep
  BY DEF KeptStep, TipInv
<1> QED
  BY <1>1, <1>2 DEF WholeStep

LEMMA OffersAlone ==
    ASSUME TipInv, OffersInv, prs' \subseteq prs, main' = main, stamp' \in Nat, stamp <= stamp'
    PROVE  OffersInv'
BY StaysCurrent DEF OffersInv, Sound, Whole

\* A run that holds no commit, and one that holds the commit it held.
LEMMA EndedHeld ==
    ASSUME NEW o, Ends(o) \/ run' = EndedAs(o)
    PROVE  HeldInv' /\ ~Running' /\ run'.outcome = o
<1>1. PICK d, pc : /\ pc \in {"idle", "tidy"}
                   /\ run' = [pc |-> pc, usable |-> FALSE, base |-> NoTree, seen |-> 0,
                              head |-> NoTree, ver |-> run.ver, deferred |-> d, outcome |-> o]
  BY EndsNow DEF Ends
<1> QED
  BY <1>1 DEF HeldInv, Running

LEMMA SameHeld ==
    ASSUME TipInv, HeldInv, UNCHANGED run, main' = main, stamp' \in Nat, stamp <= stamp'
    PROVE  HeldInv'
<1>1. Running => Current(run.base, run.head)'
  BY StaysCurrent DEF HeldInv
<1> QED
  BY <1>1 DEF HeldInv, Running

LEMMA CheckTokenFiles == ASSUME Inv, FilesInv, CheckToken PROVE Good
<1>1. TipInv' /\ WholeStep /\ KeptStep
  BY BranchAlone DEF FilesInv, TipInv, CheckToken
<1>2. OffersInv'
  BY OffersAlone DEF FilesInv, TipInv, CheckToken
<1>3. PICK answered \in BOOLEAN :
        run' = [EndedAs("none") EXCEPT !.pc = "checkout", !.ver = 0, !.deferred = FALSE,
                                       !.usable = token = "good" /\ answered]
  BY DEF CheckToken
<1>4. run'.pc = "checkout" /\ run'.outcome = "none"
  BY <1>3 DEF EndedAs
<1>5. HeldInv' /\ ApartInv'
  BY <1>4 DEF HeldInv, ApartInv, Running, Hosted, CheckToken, FilesInv
<1> QED
  BY <1>1, <1>2, <1>5 DEF Good, FilesInv

\* What the installer makes in an update run is a commit as described above.
LEMMA UpdateSound ==
    ASSUME Inv, TipInv, Hosted(main.man), NEW acts
    PROVE  LET arg  == [NoArgs EXCEPT !.update = TRUE, !.acts = acts]
               tree == Installed(main, latest, arg, stamp + 1)
               head == [tree EXCEPT !.man.maxParallel = main.man.maxParallel]
           IN  Sound(main, head) /\ Whole(head, {}) /\ head.man.at = stamp + 1
<1> DEFINE arg  == [NoArgs EXCEPT !.update = TRUE, !.acts = acts]
           tree == Installed(main, latest, arg, stamp + 1)
           head == [tree EXCEPT !.man.maxParallel = main.man.maxParallel]
<1>1. arg.update /\ arg.provider = ""
  BY DEF NoArgs
<1> HIDE DEF arg
<1>2. Options(main, latest, arg).provider # "gitlab"
  BY <1>1 DEF Options, Hosted
<1>3. IsTree(main) /\ Versioned(main) /\ latest \in Releases
  BY DEF Inv, MainInv, TipInv
<1>4. /\ Versioned(tree) /\ Spares(main, tree) /\ Whole(tree, {})
      /\ tree.man.at = stamp + 1 /\ tree.man.provider # "gitlab"
  <2>1. Versioned(tree) /\ tree.man.at = stamp + 1
    BY <1>3, InstalledFiles
  <2>2. tree.man.provider # "gitlab"
    BY <1>2, <1>3, InstalledFiles
  <2>3. Spares(main, tree)
    BY <1>1, <1>3, InstalledFiles
  <2>4. Whole(tree, {})
    BY <1>1, <1>3, <2>2, InstalledFiles
  <2> QED  BY <2>1, <2>2, <2>3, <2>4
<1>5. IsTree(tree) /\ tree.man.ver = latest
  BY <1>3, InstalledTree
<1> HIDE DEF tree
<1>6. /\ head.files = tree.files
      /\ head.man = [tree.man EXCEPT !.maxParallel = main.man.maxParallel]
  BY <1>5 DEF IsTree
<1> HIDE DEF head
<1>7. /\ head.man.ver = latest /\ head.man.at = stamp + 1 /\ head.man.acts = tree.man.acts
      /\ head.man.os = tree.man.os /\ head.man.provider # "gitlab"
  <2>1. tree.man = Manifest(tree.man.ver, tree.man.at, tree.man.acts, tree.man.os,
                            tree.man.branch, tree.man.provider, tree.man.maxParallel,
                            tree.man.vipc, tree.man.dragon)
    BY <1>5 DEF IsTree, IsManifest
  <2> QED  BY <1>4, <1>5, <1>6, <2>1 DEF Manifest
<1>8. Selected(head.man) = Selected(tree.man)
  BY <1>5, <1>7 DEF Selected
<1>9. Whole(head, {})
  BY <1>3, <1>4, <1>6, <1>7, <1>8 DEF Whole, AtRelease
<1>10. Sound(main, head)
  BY <1>3, <1>4, <1>6, <1>7 DEF Sound, Spares, Versioned, TipInv
<1> QED
  BY <1>7, <1>9, <1>10 DEF head, tree, arg

LEMMA RunInstallerFiles == ASSUME Inv, FilesInv, RunInstaller PROVE Good
<1>1. stamp' \in Nat /\ stamp <= stamp' /\ UNCHANGED <<main, latest, prs, pushes>>
  BY DEF RunInstaller, FilesInv, TipInv
<1>2. TipInv' /\ WholeStep /\ KeptStep /\ OffersInv'
  BY <1>1, BranchAlone, OffersAlone DEF FilesInv
<1>3. PICK acts, arg :
        /\ arg = [NoArgs EXCEPT !.update = TRUE, !.acts = acts]
        /\ \/ run' = EndedAs("failed")
           \/ /\ run' = [run EXCEPT !.pc = "push", !.base = main, !.seen = tip,
                            !.head = [Installed(main, latest, arg, stamp + 1)
                                        EXCEPT !.man.maxParallel = main.man.maxParallel],
                            !.ver = latest]
              /\ stamp' = stamp + 1
  BY DEF RunInstaller
<1>4. CASE run' = EndedAs("failed")
  BY <1>1, <1>2, <1>4, EndedHeld DEF Good, FilesInv, ApartInv
<1>5. CASE run' # EndedAs("failed")
  <2> DEFINE head == [Installed(main, latest, arg, stamp + 1)
                        EXCEPT !.man.maxParallel = main.man.maxParallel]
  <2>1. Hosted(main.man)
    BY DEF FilesInv, HeldInv, RunInstaller
  <2>2. stamp' = stamp + 1
    BY <1>3, <1>5
  <2>3. Sound(main, head) /\ Whole(head, {}) /\ head.man.at = stamp + 1
    BY <1>1, <1>3, <2>1, <2>2, UpdateSound DEF FilesInv
  <2>4. run' = [run EXCEPT !.pc = "push", !.base = main, !.seen = tip, !.head = head,
                           !.ver = latest]
    BY <1>3, <1>5
  <2> HIDE DEF head
  <2>5. run'.pc = "push" /\ run'.base = main /\ run'.head = head /\ run'.outcome = run.outcome
    BY <2>4 DEF Inv, RunInv, RunShape
  <2>6. run.outcome # "applied"
    BY DEF FilesInv, HeldInv, RunInstaller
  <2>7. Whole(run'.head, IF run'.deferred THEN Workflows ELSE {})
    BY <2>3, <2>5 DEF Whole
  <2>8. Sound(run'.base, run'.head) /\ run'.base = main' /\ run'.head.man.at = stamp'
    BY <1>1, <2>2, <2>3, <2>5
  <2>9. Current(run.base, run.head)'
    BY <1>1, <2>2, <2>8 DEF Current, FilesInv, TipInv
  <2>10. HeldInv'
    BY <2>5, <2>6, <2>7, <2>8, <2>9 DEF HeldInv, Sound, Whole
  <2>11. ApartInv'
    BY <1>1, <2>3, <2>5 DEF FilesInv, ApartInv, OffersInv, Current, Sound, TipInv, Running
  <2> QED  BY <1>2, <2>10, <2>11 DEF Good, FilesInv
<1> QED
  BY <1>4, <1>5

\* The branch takes a commit on top of its tip: the people's files are kept.
LEMMA TakesCommit ==
    ASSUME TipInv, NEW new, Sound(main, new), main' = new, new.man.at <= stamp,
           UNCHANGED <<latest, stamp, pushes>>
    PROVE  TipInv' /\ KeptStep /\ main.man.at < main'.man.at /\ Hosted(main'.man)
<1>1. \A p \in Kept : main.files[p].by = "people" => new.files[p] = main.files[p]
  <2>1. Absent.by = "nobody"
    BY DEF Absent
  <2> QED  BY <2>1 DEF Sound, Spares
<1>2. KeptStep
  BY <1>1 DEF KeptStep, TipInv
<1>3. \A p \in Kept : new.files[p].by = "people" => new.files[p] = main.files[p]
  BY DEF Sound, Spares
<1>4. TipInv'
  <2>1. Versioned(main)'
    BY DEF Sound, Versioned
  <2>2. (\A p \in Kept : main.files[p].by = "people" =>
            main.files[p].ver \in Nat /\ main.files[p].ver <= pushes)'
    BY <1>3 DEF TipInv
  <2> QED  BY <2>1, <2>2 DEF TipInv, Sound
<1>5. main.man.at < main'.man.at /\ Hosted(main'.man)
  <2>1. NoManifest.at = 0
    BY DEF NoManifest, Manifest
  <2>2. main.man.at \in Nat /\ main'.man.at \in Nat /\ main.man.at < main'.man.at
        /\ main'.man.provider # "gitlab"
    BY DEF Sound
  <2> QED  BY <2>1, <2>2 DEF Hosted
<1> QED
  BY <1>2, <1>4, <1>5

LEMMA PushLandsFiles == ASSUME Inv, FilesInv, PushLands PROVE Good
<1>1. Running /\ run.base = main
  BY DEF PushLands, Lands, Race, Inv, RunInv, Running
<1>2. /\ Sound(main, run.head) /\ Current(run.base, run.head)
      /\ Whole(run.head, IF run.deferred THEN Workflows ELSE {})
  BY <1>1 DEF FilesInv, HeldInv
<1>3. /\ main' = run.head /\ run' = [EndedAs("applied") EXCEPT !.pc = "tidy"]
      /\ UNCHANGED <<latest, prs, stamp, pushes>>
  BY DEF PushLands, MoveMain
<1>4. TipInv' /\ KeptStep /\ main.man.at < main'.man.at
  BY <1>2, <1>3, TakesCommit DEF FilesInv, Current
<1>5. HeldInv' /\ ~Running'
  BY <1>3 DEF EndedAs, HeldInv, Running
<1>6. OffersInv'
  <2> SUFFICES ASSUME NEW p \in prs' PROVE
         Sound(p.base, p.head) /\ Current(p.base, p.head)'
         /\ (p.kind # "settings" => Whole(p.head, Workflows))
         /\ (p.kind = "settings" => p.head.man.ver = p.base.man.ver)
    BY DEF OffersInv, Sound, Whole
  <2>1. p \in prs /\ p.head.man.at # main'.man.at
    BY <1>1, <1>3 DEF FilesInv, ApartInv
  <2>2. Current(p.base, p.head)'
    BY <1>3, <1>4, <2>1, StaysCurrent DEF FilesInv, OffersInv, TipInv
  <2> QED  BY <2>1, <2>2 DEF FilesInv, OffersInv
<1>7. WholeStep
  <2>1. run'.deferred = run.deferred
    BY <1>3 DEF EndedAs
  <2> QED  BY <1>2, <1>3, <2>1 DEF WholeStep, Whole
<1>8. ApartInv'
  BY <1>3, <1>5 DEF FilesInv, ApartInv
<1> QED
  BY <1>4, <1>5, <1>6, <1>7, <1>8 DEF Good, FilesInv

\* A run goes on, from one commit to another of the same date.
LEMMA GoesOn ==
    ASSUME FilesInv, Running, UNCHANGED <<main, latest, prs, stamp, pushes>>,
           run'.pc \in {"push", "repush", "pushrest", "branch"}, run'.outcome = run.outcome,
           run'.head.man.at = run.head.man.at, Sound(run'.base, run'.head),
           Current(run'.base, run'.head),
           Whole(run'.head, IF run'.deferred THEN Workflows ELSE {})
    PROVE  Good
<1>1. TipInv' /\ WholeStep /\ KeptStep
  BY BranchAlone DEF FilesInv, TipInv
<1>2. OffersInv'
  BY OffersAlone DEF FilesInv, TipInv
<1>3. run.outcome # "applied"
  BY DEF FilesInv, HeldInv, Running
<1>4. HeldInv'
  BY <1>3 DEF HeldInv, Sound, Current, Whole
<1>5. ApartInv'
  BY DEF FilesInv, ApartInv
<1> QED
  BY <1>1, <1>2, <1>4, <1>5 DEF Good, FilesInv

LEMMA RebaseFiles == ASSUME Inv, FilesInv, Rebase PROVE Good
<1>1. Running /\ RunShape /\ UNCHANGED <<main, latest, prs, stamp, pushes>>
  BY DEF Rebase, Running, Inv, RunInv
<1> DEFINE lag == IF run.deferred THEN Workflows ELSE {}
<1>2. Sound(run.base, run.head) /\ Current(run.base, run.head) /\ Whole(run.head, lag)
  BY <1>1 DEF FilesInv, HeldInv
<1>3. CASE Conflict(run.base, run.head, main)
  <2>1. run' = [run EXCEPT !.pc = "branch"]
    BY <1>3 DEF Rebase
  <2>2. /\ run'.pc = "branch" /\ run'.outcome = run.outcome /\ run'.head = run.head
        /\ run'.base = run.base /\ run'.deferred = run.deferred
    BY <1>1, <2>1 DEF RunShape
  <2> QED  BY <1>1, <1>2, <2>2, GoesOn
<1>4. CASE ~Conflict(run.base, run.head, main)
  <2> DEFINE new == Merged(run.base, run.head, main)
  <2>1. /\ Sound(main, new) /\ new.man = run.head.man
        /\ \A p \in Paths \ Owned : new.files[p] = run.head.files[p]
    BY <1>2, <1>4, MergeSound DEF FilesInv
  <2>2. run' = [run EXCEPT !.pc = "repush", !.seen = tip, !.base = main, !.head = new]
    BY <1>4 DEF Rebase
  <2> HIDE DEF new, lag
  <2>3. Whole(new, lag)
    BY <1>2, <2>1, MergeWhole
  <2>4. /\ run'.pc = "repush" /\ run'.outcome = run.outcome /\ run'.head = new
        /\ run'.base = main /\ run'.deferred = run.deferred
    BY <1>1, <2>2 DEF RunShape
  <2>5. Current(main, new)
    BY <1>2, <2>1 DEF Current, FilesInv, TipInv
  <2> QED  BY <1>1, <2>1, <2>3, <2>4, <2>5, GoesOn DEF lag
<1> QED
  BY <1>3, <1>4

LEMMA DeferWorkflowsFiles == ASSUME Inv, FilesInv, DeferWorkflows PROVE Good
<1>1. /\ Running /\ RunShape /\ Forward(run.base, run.head)
      /\ UNCHANGED <<main, latest, prs, stamp, pushes>>
  BY DEF DeferWorkflows, Running, Inv, RunInv
<1> DEFINE lag == IF run.deferred THEN Workflows ELSE {}
           rest == Stripped(run.base, run.head)
<1>2. Sound(run.base, run.head) /\ Current(run.base, run.head) /\ Whole(run.head, lag)
  BY <1>1 DEF FilesInv, HeldInv
<1>3. /\ Sound(run.base, rest) /\ Current(run.base, rest) /\ Whole(rest, Workflows)
      /\ rest.man = run.head.man
  BY <1>1, <1>2, StrippedSound
<1>4. \/ run' = EndedAs("token_needed")
      \/ run' = [run EXCEPT !.pc = "pushrest", !.head = rest, !.deferred = TRUE]
  BY DEF DeferWorkflows
<1> HIDE DEF lag, rest
<1>5. CASE run' = EndedAs("token_needed")
  <2>1. TipInv' /\ WholeStep /\ KeptStep /\ OffersInv'
    BY <1>1, BranchAlone, OffersAlone DEF FilesInv, TipInv
  <2> QED  BY <1>1, <1>5, <2>1, EndedHeld DEF Good, FilesInv, ApartInv
<1>6. CASE run' = [run EXCEPT !.pc = "pushrest", !.head = rest, !.deferred = TRUE]
  <2>1. /\ run'.pc = "pushrest" /\ run'.outcome = run.outcome /\ run'.head = rest
        /\ run'.base = run.base /\ run'.deferred = TRUE
    BY <1>1, <1>6 DEF RunShape
  <2>2. Whole(run'.head, IF run'.deferred THEN Workflows ELSE {})
    BY <1>3, <2>1
  <2> QED  BY <1>1, <1>3, <2>1, <2>2, GoesOn
<1> QED
  BY <1>4, <1>5, <1>6

LEMMA FallBackFiles == ASSUME Inv, FilesInv, FallBack PROVE Good
<1>1. /\ Running /\ RunShape /\ UNCHANGED <<main, latest, prs, stamp, pushes>>
      /\ run' = [run EXCEPT !.pc = "branch"]
  BY DEF FallBack, Running, Inv, RunInv
<1>2. /\ run'.pc = "branch" /\ run'.outcome = run.outcome /\ run'.head = run.head
      /\ run'.base = run.base /\ run'.deferred = run.deferred
  BY <1>1 DEF RunShape
<1> QED
  BY <1>1, <1>2, GoesOn DEF FilesInv, HeldInv

LEMMA OpenPRFiles == ASSUME Inv, FilesInv, OpenPR PROVE Good
<1>1. /\ Running /\ Forward(run.base, run.head)
      /\ UNCHANGED <<main, latest, stamp, pushes>>
  BY DEF OpenPR, Running, Inv, RunInv
<1> DEFINE lag == IF run.deferred THEN Workflows ELSE {}
<1>2. Sound(run.base, run.head) /\ Current(run.base, run.head) /\ Whole(run.head, lag)
  BY <1>1 DEF FilesInv, HeldInv
<1>3. Whole(run.head, Workflows)
  BY <1>2 DEF Whole
<1>4. PICK head, o :
        /\ head = run.head \/ head = Stripped(run.base, run.head)
        /\ Ends(o)
        /\ \/ UNCHANGED prs
           \/ \E kind, stray : OffersBy(head, kind, stray)
  BY OpenPRCases
<1>5. /\ Sound(run.base, head) /\ Current(run.base, head) /\ Whole(head, Workflows)
      /\ head.man = run.head.man
  <2>1. lag \subseteq Workflows
    OBVIOUS
  <2> HIDE DEF lag
  <2> QED  BY <1>1, <1>2, <1>3, <1>4, <2>1, StrippedSound
<1>6. TipInv' /\ WholeStep /\ KeptStep
  BY <1>1, BranchAlone DEF FilesInv, TipInv
<1>7. HeldInv' /\ ~Running'
  BY <1>4, EndedHeld
<1>8. ASSUME NEW p \in prs' \ prs
      PROVE  p.kind # "settings" /\ p.base = run.base /\ p.head = head
             /\ \A q \in prs' \ prs : q = p
  <2>1. PICK kind, stray : OffersBy(head, kind, stray)
    BY <1>4, <1>8
  <2> DEFINE new == [PR(kind, run.ver, run.base, head) EXCEPT !.stray = stray]
  <2>2. new.kind = kind /\ new.base = run.base /\ new.head = head
    BY DEF PR
  <2>3. prs' = (prs \ {x \in Updates : x.ver = run.ver}) \cup {new} /\ kind # "settings"
    BY <2>1 DEF OffersBy
  <2> HIDE DEF new
  <2> QED  BY <1>8, <2>2, <2>3
<1> HIDE DEF lag
<1>9. OffersInv'
  BY <1>1, <1>5, <1>8 DEF FilesInv, OffersInv, Sound, Current, Whole
<1>10. ApartInv'
  BY <1>1, <1>5, <1>7, <1>8 DEF FilesInv, ApartInv
<1> QED
  BY <1>6, <1>7, <1>9, <1>10 DEF Good, FilesInv

\* Relabelling the offers changes none of their commits.
LEMMA RelabelledFiles ==
    ASSUME Inv, FilesInv, NEW f, Relabels(f), UNCHANGED <<main, stamp>>,
           UNCHANGED run \/ ~Running'
    PROVE  OffersInv' /\ ApartInv'
<1>1. OffersInv'
  BY DEF FilesInv, OffersInv, Relabels, Sound, Current, Whole
<1>2. ASSUME NEW p \in prs' PROVE \E q \in prs : p = f[q] /\ p.head = q.head
  BY DEF Relabels
<1>3. ApartInv'
  BY <1>2 DEF FilesInv, ApartInv, Running
<1> QED
  BY <1>1, <1>3

LEMMA TidyFiles == ASSUME Inv, FilesInv, Tidy PROVE Good
<1>1. UNCHANGED <<main, latest, stamp, pushes>> /\ run' = [run EXCEPT !.pc = "idle"] /\ RunShape
  BY DEF Tidy, Inv, RunInv
<1>2. TipInv' /\ WholeStep /\ KeptStep
  BY <1>1, BranchAlone DEF FilesInv, TipInv
<1>3. HeldInv' /\ ~Running'
  BY <1>1 DEF RunShape, HeldInv, Running
<1>4. PICK f : Relabels(f)
  BY TidyCases DEF Inv
<1>5. OffersInv' /\ ApartInv'
  BY <1>1, <1>3, <1>4, RelabelledFiles
<1> QED
  BY <1>2, <1>3, <1>5 DEF Good, FilesInv

LEMMA OpenByHandFiles == ASSUME Inv, FilesInv, OpenByHand PROVE Good
<1>1. UNCHANGED <<main, latest, run, stamp, pushes>>
  BY DEF OpenByHand
<1>2. TipInv' /\ WholeStep /\ KeptStep /\ HeldInv'
  BY <1>1, BranchAlone, SameHeld DEF FilesInv, TipInv
<1>3. PICK f : Relabels(f)
  BY OpenByHandCases DEF Inv
<1>4. OffersInv' /\ ApartInv'
  BY <1>1, <1>3, RelabelledFiles
<1> QED
  BY <1>2, <1>4 DEF Good, FilesInv

LEMMA PushFailsFiles == ASSUME Inv, FilesInv, PushFails PROVE Good
<1>1. UNCHANGED <<main, latest, prs, stamp, pushes>> /\ run' = EndedAs("failed")
  BY DEF PushFails
<1>2. TipInv' /\ WholeStep /\ KeptStep /\ OffersInv'
  BY <1>1, BranchAlone, OffersAlone DEF FilesInv, TipInv
<1> QED
  BY <1>1, <1>2, EndedHeld DEF Good, FilesInv, ApartInv

LEMMA ReconfigureFiles == ASSUME Inv, FilesInv, Reconfigure PROVE Good
<1>1. /\ stamp' = stamp + 1 /\ stamp' \in Nat /\ stamp <= stamp'
      /\ UNCHANGED <<main, latest, run, pushes>>
  BY DEF Reconfigure, FilesInv, TipInv
<1>2. TipInv' /\ WholeStep /\ KeptStep /\ HeldInv'
  BY <1>1, BranchAlone, SameHeld DEF FilesInv
<1>3. PICK acts, vipc, dragon :
        prs' = prs \cup {PR("settings", stamp + 1, main,
                 [main EXCEPT !.man = Reconfigured(main.man, acts, vipc, dragon, stamp + 1)])}
  BY DEF Reconfigure
<1> DEFINE m == Reconfigured(main.man, acts, vipc, dragon, stamp + 1)
           head == [main EXCEPT !.man = m]
           new == PR("settings", stamp + 1, main, head)
<1>4. m.at = stamp + 1 /\ m.ver = main.man.ver /\ m.provider # "gitlab"
  BY DEF Reconfigured, Manifest
<1> HIDE DEF m
<1>5. head.files = main.files /\ head.man = m
  BY DEF Inv, MainInv, IsTree
<1>6. new.kind = "settings" /\ new.base = main /\ new.head = head
  BY DEF PR
<1>7. prs' = prs \cup {new}
  BY <1>3 DEF m
<1> HIDE DEF head, new
<1>8. Sound(main, head) /\ head.man.at = stamp'
  BY <1>1, <1>4, <1>5 DEF Sound, Spares, Versioned, FilesInv, TipInv
<1>9. OffersInv'
  <2>1. ASSUME NEW p \in prs PROVE Current(p.base, p.head)'
    BY <1>1, StaysCurrent DEF FilesInv, OffersInv
  <2>2. ASSUME NEW p, p = new
        PROVE  /\ p.kind = "settings" /\ Current(p.base, p.head)' /\ Sound(p.base, p.head)
               /\ p.head.man.ver = p.base.man.ver
    BY <1>1, <1>4, <1>5, <1>6, <1>8, <2>2 DEF Current, FilesInv, TipInv
  <2> QED  BY <1>7, <2>1, <2>2 DEF FilesInv, OffersInv, Sound, Whole
<1>10. ApartInv'
  <2>1. \A p \in prs : p.head.man.at \in Nat /\ p.head.man.at <= stamp
    BY DEF FilesInv, OffersInv, Current, Sound
  <2>2. Running => run.head.man.at \in Nat /\ run.head.man.at <= stamp
    BY DEF FilesInv, HeldInv, Current, Sound
  <2>3. new.head.man.at = stamp + 1 /\ stamp \in Nat
    BY <1>1, <1>6, <1>8 DEF FilesInv, TipInv
  <2> QED  BY <1>1, <1>7, <2>1, <2>2, <2>3 DEF FilesInv, ApartInv, Running
<1> QED
  BY <1>2, <1>9, <1>10 DEF Good, FilesInv

LEMMA MergePRFiles == ASSUME Inv, FilesInv, BehindInv, MergePR PROVE Good
<1>1. PICK p \in prs : /\ ~Conflict(p.base, p.head, main)
                       /\ main' = Merged(p.base, p.head, main)
                       /\ prs' = prs \ {p}
  BY DEF MergePR, MoveMain
<1>2. UNCHANGED <<latest, run, stamp, pushes>>
  BY DEF MergePR
<1>3. /\ Sound(p.base, p.head) /\ Current(p.base, p.head)
      /\ p.kind # "settings" => Whole(p.head, Workflows)
      /\ p.kind = "settings" => p.head.man.ver = p.base.man.ver
  BY DEF FilesInv, OffersInv
<1> DEFINE new == Merged(p.base, p.head, main)
<1>4. /\ Sound(main, new) /\ new.man = p.head.man /\ p.base.man = main.man
      /\ \A q \in Paths \ Owned : new.files[q] = p.head.files[q]
  BY <1>1, <1>3, MergeSound DEF FilesInv
<1>5. main' = new
  BY <1>1
<1> HIDE DEF new
<1>6. TipInv' /\ KeptStep /\ main.man.at < main'.man.at /\ Hosted(main'.man)
  BY <1>2, <1>3, <1>4, <1>5, TakesCommit DEF FilesInv, Current
<1>7. stamp' \in Nat /\ stamp <= stamp' /\ main'.man.at \in Nat /\ main'.man.at = p.head.man.at
  BY <1>2, <1>4, <1>5, <1>6 DEF FilesInv, TipInv
<1>8. WholeStep
  <2>1. CASE p.kind # "settings"
    <3>1. Whole(new, Workflows)
      BY <1>3, <1>4, <2>1, MergeWhole
    <3>2. ~(p.base.man.at < main.man.at)
      <4>1. p.base.man.at = main.man.at /\ main.man.at \in Nat
        BY <1>4 DEF FilesInv, TipInv
      <4> QED  BY <4>1
    <3>3. run' = run /\ run.outcome # "applied"
      BY <1>2, <2>1, <3>2 DEF BehindInv
    <3> QED  BY <1>5, <3>1, <3>3 DEF WholeStep, Whole
  <2>2. CASE p.kind = "settings"
    BY <1>3, <1>4, <1>5, <2>2 DEF WholeStep
  <2> QED  BY <2>1, <2>2
<1>9. HeldInv'
  <2>1. Running => Current(run.base, run.head)'
    <3> SUFFICES ASSUME Running PROVE Current(run.base, run.head)'
      OBVIOUS
    <3>1. /\ Sound(run.base, run.head) /\ Current(run.base, run.head)
          /\ run.head.man.at # main'.man.at
      BY <1>7 DEF FilesInv, HeldInv, ApartInv
    <3>2. ASSUME NEW base, NEW head, base = run.base, head = run.head PROVE Current(base, head)'
      BY <1>6, <1>7, <3>1, <3>2, StaysCurrent DEF FilesInv
    <3> QED  BY <1>2, <3>2 DEF Current
  <2> QED  BY <1>2, <1>6, <2>1 DEF FilesInv, HeldInv, Running
<1>10. OffersInv'
  <2> SUFFICES ASSUME NEW q \in prs' PROVE Current(q.base, q.head)'
    BY <1>1 DEF FilesInv, OffersInv, Sound, Whole
  <2>1. q \in prs /\ q.head.man.at # main'.man.at
    BY <1>1, <1>7 DEF FilesInv, ApartInv
  <2> QED  BY <1>6, <1>7, <2>1, StaysCurrent DEF FilesInv, OffersInv
<1>11. ApartInv'
  BY <1>1, <1>2 DEF FilesInv, ApartInv, Running
<1> QED
  BY <1>6, <1>8, <1>9, <1>10, <1>11 DEF Good, FilesInv

\* Nothing but the branch moves: to a tree of the same date that differs in the
\* people's files only, or to one of a later date.
LEMMA BranchMoves ==
    ASSUME Inv, FilesInv, UNCHANGED <<latest, run, prs>>, stamp' \in Nat, stamp <= stamp',
           \/ /\ main'.man = main.man
              /\ \A p \in Paths \ Owned : main'.files[p] = main.files[p]
           \/ main'.man.at \in Nat /\ stamp < main'.man.at,
           Hosted(main.man) => Hosted(main'.man)
    PROVE  HeldInv' /\ OffersInv' /\ ApartInv'
<1>1. ASSUME NEW base, NEW head, Sound(base, head), Current(base, head)
      PROVE  Current(base, head)'
  <2>1. \/ /\ main'.man = main.man
           /\ \A p \in Paths \ Owned : main'.files[p] = main.files[p]
        \/ /\ main'.man.at \in Nat /\ main.man.at < main'.man.at
           /\ head.man.at # main'.man.at
    BY <1>1 DEF Sound, Current, FilesInv, TipInv
  <2> QED  BY <1>1, <2>1, StaysCurrent DEF FilesInv
<1>2. OffersInv'
  BY <1>1 DEF FilesInv, OffersInv, Sound, Whole
<1>3. Running => Current(run.base, run.head)'
  <2> SUFFICES ASSUME Running PROVE Current(run.base, run.head)'
    OBVIOUS
  <2>1. ASSUME NEW base, NEW head, base = run.base, head = run.head PROVE Current(base, head)'
    BY <1>1, <2>1 DEF FilesInv, HeldInv
  <2> QED  BY <2>1 DEF Current
<1>4. HeldInv' /\ ApartInv'
  BY <1>3 DEF FilesInv, HeldInv, ApartInv, Running
<1> QED
  BY <1>2, <1>4

LEMMA PushOwnFiles == ASSUME Inv, FilesInv, PushOwn PROVE Good
<1>1. PICK q \in Owned : main' = [main EXCEPT !.files[q] = File("people", pushes + 1, "")]
  BY DEF PushOwn, MoveMain
<1>2. pushes' = pushes + 1 /\ UNCHANGED <<latest, run, prs, stamp>>
  BY DEF PushOwn
<1> DEFINE f == File("people", pushes + 1, "")
<1>3. f.by = "people" /\ f.ver = pushes + 1
  BY DEF File
<1> HIDE DEF f
<1>4. main'.man = main.man /\ main'.files = [main.files EXCEPT ![q] = f]
  BY <1>1 DEF f, Inv, MainInv, IsTree
<1>5. DOMAIN main.files = Paths
  BY DEF FilesInv, TipInv, Versioned
<1>6. \A p \in Paths : main'.files[p] = main.files[p] \/ (p = q /\ main'.files[p] = f)
  BY <1>4, <1>5
<1>7. Kept \subseteq Paths
  BY OwnedAssumption DEF Kept
<1>8. TipInv'
  <2>1. Versioned(main)'
    BY <1>3, <1>4, <1>5, <1>6 DEF Versioned, FilesInv, TipInv
  <2>2. ASSUME NEW p \in Kept, main'.files[p].by = "people"
        PROVE  main'.files[p].ver \in Nat /\ main'.files[p].ver <= pushes'
    BY <1>2, <1>3, <1>6, <1>7, <2>2 DEF FilesInv, TipInv
  <2> QED  BY <1>2, <1>4, <2>1, <2>2 DEF FilesInv, TipInv
<1>9. KeptStep
  BY <1>3, <1>6, <1>7 DEF KeptStep, FilesInv, TipInv
<1>10. HeldInv' /\ OffersInv' /\ ApartInv'
  <2>1. \A p \in Paths \ Owned : main'.files[p] = main.files[p]
    BY <1>6
  <2> QED  BY <1>2, <1>4, <2>1, BranchMoves DEF FilesInv, TipInv
<1> QED
  BY <1>2, <1>4, <1>8, <1>9, <1>10 DEF Good, FilesInv, WholeStep

LEMMA InstallByHandFiles == ASSUME Inv, FilesInv, InstallByHand PROVE Good
<1>1. PICK arg \in HandArgs, thin \in BOOLEAN :
        main' = IF thin THEN ThinInstalled(main, latest, arg, stamp + 1)
                ELSE Installed(main, latest, arg, stamp + 1)
  BY DEF InstallByHand, MoveMain
<1>2. stamp' = stamp + 1 /\ pushes' = pushes + 1 /\ UNCHANGED <<latest, run, prs>>
  BY DEF InstallByHand
<1>3. IsTree(main) /\ Versioned(main) /\ latest \in Releases
  BY DEF Inv, MainInv, FilesInv, TipInv
<1>4. stamp \in Nat /\ pushes \in Nat
  BY DEF FilesInv, TipInv
<1>5. \/ main' = ThinInstalled(main, latest, arg, stamp + 1)
      \/ main' = Installed(main, latest, arg, stamp + 1)
  BY <1>1
<1>6. Versioned(main') /\ Defaults(main, main') /\ main'.man.at = stamp + 1
  <2>1. CASE main' = ThinInstalled(main, latest, arg, stamp + 1)
    BY <1>3, <2>1, ThinFiles
  <2>2. CASE main' = Installed(main, latest, arg, stamp + 1)
    BY <1>3, <2>2, InstalledFiles
  <2> QED  BY <1>5, <2>1, <2>2
<1>7. Hosted(main.man) => Hosted(main'.man)
  <2> SUFFICES ASSUME Hosted(main.man) PROVE Hosted(main'.man)
    OBVIOUS
  <2>1. arg.provider = ""
    BY DEF HandArgs, Hosted
  <2>2. Options(main, latest, arg).provider # "gitlab"
    BY <2>1 DEF Options, Hosted, NoManifest, Manifest
  <2>3. main'.man.provider # "gitlab"
    <3>1. CASE main' = ThinInstalled(main, latest, arg, stamp + 1)
      BY <1>3, <3>1, ThinFiles
    <3>2. CASE main' = Installed(main, latest, arg, stamp + 1)
      BY <1>3, <2>2, <3>2, InstalledFiles
    <3> QED  BY <1>5, <3>1, <3>2
  <2>4. NoManifest.at = 0
    BY DEF NoManifest, Manifest
  <2> QED  BY <1>4, <1>6, <2>3, <2>4 DEF Hosted
<1>8. HeldInv' /\ OffersInv' /\ ApartInv'
  BY <1>2, <1>4, <1>6, <1>7, BranchMoves
<1>9. TipInv'
  <2>1. ASSUME NEW p \in Kept, main'.files[p].by = "people"
        PROVE  main'.files[p].ver \in Nat /\ main'.files[p].ver <= pushes'
    BY <1>2, <1>6, <2>1 DEF Defaults, FilesInv, TipInv
  <2> QED  BY <1>2, <1>3, <1>4, <1>6, <2>1 DEF TipInv, Versioned
<1>10. KeptStep
  BY <1>2, <1>4, <1>6 DEF KeptStep, Defaults, FilesInv, TipInv
<1> QED
  BY <1>2, <1>4, <1>8, <1>9, <1>10 DEF Good, FilesInv, WholeStep

LEMMA QuietFiles ==
    ASSUME Inv, FilesInv, UNCHANGED <<main, run, prs, stamp, pushes>>, latest' \in Releases
    PROVE  Good
<1>1. HeldInv' /\ OffersInv' /\ ApartInv'
  BY DEF FilesInv, HeldInv, OffersInv, ApartInv, Running, Current, Sound, Whole
<1>2. TipInv'
  BY DEF FilesInv, TipInv, Versioned
<1>3. KeptStep /\ WholeStep
  BY DEF KeptStep, WholeStep, FilesInv, TipInv
<1> QED
  BY <1>1, <1>2, <1>3 DEF Good, FilesInv

\* The date of the branch never goes back, and once an update was applied no
\* offer of one is based on it.
LEMMA BehindStep == ASSUME Inv, FilesInv, BehindInv, [Next]_vars PROVE BehindInv'
<1> DEFINE Dates == \A p \in prs : /\ p.base.man.at \in Nat /\ p.base.man.at <= main.man.at
           Same  == \A p \in prs' : p.kind # "settings" =>
                       \E q \in prs : q.kind # "settings" /\ q.base = p.base
           Later == main'.man.at \in Nat /\ main.man.at <= main'.man.at
<1>1. Dates /\ main.man.at \in Nat /\ stamp \in Nat /\ main.man.at <= stamp
  BY DEF FilesInv, OffersInv, Sound, Current, TipInv
<1>2. ASSUME Same, Later, run'.outcome = "applied" => run.outcome = "applied" PROVE BehindInv'
  BY <1>1, <1>2 DEF BehindInv
<1> HIDE DEF Later
<1>3. main'.man = main.man => Later
  BY <1>1 DEF Later
<1>4. prs' \subseteq prs => Same
  OBVIOUS
<1>5. ASSUME NEW o, o # "applied", Ends(o) \/ run' = EndedAs(o) PROVE run'.outcome # "applied"
  BY <1>5 DEF Ends, EndedAs
<1> HIDE DEF Same, Dates
<1>6. CASE UNCHANGED vars \/ Release \/ TokenChanges
  BY <1>2, <1>3, <1>4, <1>6 DEF vars, Release, TokenChanges
<1>7. CASE CheckToken \/ PushFails \/ OpenPR
  <2>1. run'.outcome # "applied"
    <3>1. CASE CheckToken
      BY <3>1 DEF CheckToken, EndedAs
    <3>2. CASE PushFails
      BY <1>5, <3>2 DEF PushFails
    <3>3. CASE OpenPR
      BY <1>5, <3>3, OpenPRCases
    <3> QED  BY <1>7, <3>1, <3>2, <3>3
  <2> QED  BY <2>1 DEF BehindInv
<1>8. CASE RunInstaller \/ Rebase \/ DeferWorkflows \/ FallBack
  <2>1. run.outcome # "applied" /\ RunShape
    BY <1>8 DEF RunInstaller, Rebase, DeferWorkflows, FallBack, FilesInv, HeldInv, Inv, RunInv
  <2>2. run'.outcome # "applied"
    <3>1. CASE RunInstaller
      <4>1. \/ run' = EndedAs("failed")
            \/ \E head : run' = [run EXCEPT !.pc = "push", !.base = main, !.seen = tip,
                                          !.head = head, !.ver = latest]
        BY <3>1 DEF RunInstaller
      <4>2. CASE run' = EndedAs("failed")
        BY <4>2 DEF EndedAs
      <4>3. ASSUME NEW head, run' = [run EXCEPT !.pc = "push", !.base = main, !.seen = tip,
                                                !.head = head, !.ver = latest]
            PROVE  run'.outcome = run.outcome
        BY <2>1, <4>3 DEF RunShape
      <4> QED  BY <2>1, <4>1, <4>2, <4>3
    <3>2. CASE Rebase
      BY <2>1, <3>2 DEF Rebase, RunShape
    <3>3. CASE DeferWorkflows
      BY <2>1, <3>3 DEF DeferWorkflows, EndedAs, RunShape
    <3>4. CASE FallBack
      BY <2>1, <3>4 DEF FallBack, RunShape
    <3> QED  BY <1>8, <3>1, <3>2, <3>3, <3>4
  <2> QED  BY <2>2 DEF BehindInv
<1>9. CASE PushLands
  <2>1. Running /\ run.base = main
    BY <1>9 DEF PushLands, Lands, Race, Inv, RunInv, Running
  <2>2. main.man.at < run.head.man.at /\ run.head.man.at \in Nat
    BY <2>1 DEF FilesInv, HeldInv, Sound
  <2>3. main' = run.head /\ prs' = prs
    BY <1>9 DEF PushLands, MoveMain
  <2> QED  BY <1>1, <2>2, <2>3 DEF BehindInv, Dates
<1>10. CASE Tidy
  <2>1. PICK f : Relabels(f)
    BY <1>10, TidyCases DEF Inv
  <2>2. Same
    BY <2>1 DEF Relabels, Same
  <2>3. run'.outcome = run.outcome /\ main' = main
    BY <1>10 DEF Tidy, Inv, RunInv, RunShape
  <2> QED  BY <1>2, <1>3, <2>2, <2>3
<1>11. CASE OpenByHand
  <2>1. PICK f : Relabels(f)
    BY <1>11, OpenByHandCases DEF Inv
  <2>2. Same
    BY <2>1 DEF Relabels, Same
  <2> QED  BY <1>2, <1>3, <1>11, <2>2 DEF OpenByHand
<1>12. CASE Reconfigure
  <2>1. PICK new : prs' = prs \cup {new} /\ new.kind = "settings"
    <3> DEFINE offer(acts, vipc, dragon) ==
                 PR("settings", stamp + 1, main,
                    [main EXCEPT !.man = Reconfigured(main.man, acts, vipc, dragon, stamp + 1)])
    <3>1. \E acts, vipc, dragon : prs' = prs \cup {offer(acts, vipc, dragon)}
      BY <1>12 DEF Reconfigure
    <3>2. \A acts, vipc, dragon : offer(acts, vipc, dragon).kind = "settings"
      BY DEF PR
    <3> HIDE DEF offer
    <3> QED  BY <3>1, <3>2
  <2>2. Same
    BY <2>1 DEF Same
  <2> QED  BY <1>2, <1>3, <1>12, <2>2 DEF Reconfigure
<1>13. CASE MergePR
  <2>1. PICK p \in prs : /\ ~Conflict(p.base, p.head, main)
                         /\ main' = Merged(p.base, p.head, main)
                         /\ prs' = prs \ {p}
    BY <1>13 DEF MergePR, MoveMain
  <2>2. Sound(p.base, p.head) /\ Current(p.base, p.head)
    BY DEF FilesInv, OffersInv
  <2>3. Sound(main, main')
    BY <2>1, <2>2, MergeSound DEF FilesInv
  <2>4. Later
    BY <2>3 DEF Later, Sound
  <2> QED  BY <1>2, <1>4, <1>13, <2>1, <2>4 DEF MergePR
<1>14. CASE PushOwn
  <2>1. main'.man = main.man /\ UNCHANGED <<run, prs>>
    BY <1>14 DEF PushOwn, MoveMain, Inv, MainInv, IsTree
  <2> QED  BY <1>2, <1>3, <1>4, <2>1
<1>15. CASE InstallByHand
  <2>1. PICK arg \in HandArgs, thin \in BOOLEAN :
          main' = IF thin THEN ThinInstalled(main, latest, arg, stamp + 1)
                  ELSE Installed(main, latest, arg, stamp + 1)
    BY <1>15 DEF InstallByHand, MoveMain
  <2>2. IsTree(main) /\ Versioned(main) /\ latest \in Releases
    BY DEF Inv, MainInv, FilesInv, TipInv
  <2>3. main'.man.at = stamp + 1
    <3>1. CASE main' = ThinInstalled(main, latest, arg, stamp + 1)
      BY <2>2, <3>1, ThinFiles
    <3>2. CASE main' = Installed(main, latest, arg, stamp + 1)
      BY <2>2, <3>2, InstalledFiles
    <3> QED  BY <2>1, <3>1, <3>2
  <2>4. Later
    BY <1>1, <2>3 DEF Later
  <2> QED  BY <1>2, <1>4, <1>15, <2>4 DEF InstallByHand
<1> QED
  BY <1>6, <1>7, <1>8, <1>9, <1>10, <1>11, <1>12, <1>13, <1>14, <1>15 DEF Next, Deliver

LEMMA StepFiles == ASSUME Inv, FilesInv, BehindInv, [Next]_vars PROVE Good
<1>1. CASE UNCHANGED vars
  BY <1>1, QuietFiles DEF vars, FilesInv, TipInv
<1>2. CASE TokenChanges
  BY <1>2, QuietFiles DEF TokenChanges, FilesInv, TipInv
<1>3. CASE Release
  BY <1>3, QuietFiles DEF Release
<1> QED
  BY <1>1, <1>2, <1>3, CheckTokenFiles, RunInstallerFiles, PushLandsFiles, RebaseFiles,
     DeferWorkflowsFiles, FallBackFiles, OpenPRFiles, PushFailsFiles, TidyFiles,
     ReconfigureFiles, MergePRFiles, OpenByHandFiles, PushOwnFiles, InstallByHandFiles
     DEF Next, Deliver

(* An update that reaches the default branch arrives whole, however many races *)
(* it lost, whatever it was rebased onto and however long its pull request was *)
(* open (apply-tooling-update.yml:316-324, 338-363).                           *)
THEOREM UpdatesArriveWhole == Spec => UpdateWhole
<1>1. Inv /\ FilesInv /\ BehindInv /\ [Next]_vars =>
        [WholeStep]_vars /\ Inv' /\ FilesInv' /\ BehindInv'
  BY Step, StepFiles, BehindStep DEF Good
<1>2. [WholeStep]_vars =>
        [main'.man.ver # main.man.ver /\ pushes' = pushes =>
         \A p \in Selected(main'.man) \ Catalog[main'.man.ver].preserve :
            \/ AtRelease(main', p)
            \/ p \in Workflows /\ (run'.deferred \/ run'.outcome # "applied")]_vars
  BY DEF WholeStep
<1> QED
  BY Initially, InitFiles, <1>1, <1>2, PTL DEF Spec, UpdateWhole

(* The consumer's own files outlive every update, whatever people pushed or    *)
(* merged between its checkout and its push (install.py:281-292, 335-366).     *)
THEOREM ConsumersFilesKept == Spec => OwnKept
<1>1. Inv /\ FilesInv /\ BehindInv /\ [Next]_vars =>
        [KeptStep]_vars /\ Inv' /\ FilesInv' /\ BehindInv'
  BY Step, StepFiles, BehindStep DEF Good
<1>2. [KeptStep]_vars =>
        [\A p \in Owned \ ((UNION {Under[d] : d \in Dirs}) \ Preserved) :
           main.files[p].by = "people" =>
             \/ main'.files[p].by = "people" /\ main'.files[p].ver >= main.files[p].ver
             \/ p \in Preserved /\ pushes' # pushes /\ main'.files[p].by = "tooling"]_vars
  BY DEF KeptStep, Kept
<1> QED
  BY Initially, InitFiles, <1>1, <1>2, PTL DEF Spec, OwnKept

\* A set in which any two are equal has one member at most.
LEMMA AtMostOne == ASSUME NEW S, \A p, q \in S : p = q PROVE Cardinality(S) <= 1
<1>1. CASE S = {}
  BY <1>1, FS_EmptySet
<1>2. CASE S # {}
  <2>1. PICK p : S = {p}
    BY <1>2
  <2>2. Cardinality(S) = 1
    BY <2>1, FS_Singleton
  <2> QED  BY <2>2
<1> QED
  BY <1>1, <1>2

(* However often an update is offered, one request at most is open between     *)
(* runs that no failed close, dying run or person left there, and none once an *)
(* update was applied; what they left conflicts with what was applied, however *)
(* the branch goes on (apply-tooling-update.yml:391-396, 490-508).             *)
THEOREM UpdateOfferedOnce == Spec => []OneUpdatePR
<1>1. Inv /\ FilesInv /\ BehindInv /\ [Next]_vars => Inv' /\ FilesInv' /\ BehindInv'
  BY Step, StepFiles, BehindStep DEF Good
<1>2. Inv /\ FilesInv /\ BehindInv => OneUpdatePR
  <2> SUFFICES ASSUME Inv, FilesInv, BehindInv PROVE OneUpdatePR
    OBVIOUS
  <2>1. run.pc # "tidy" => Cardinality(Tended) <= 1
    BY AtMostOne DEF Inv, OnePR
  <2>2. ASSUME run.outcome = "applied", NEW p \in UpdatePRs PROVE Conflict(p.base, p.head, main)
    <3>1. p \in prs /\ p.kind # "settings"
      BY DEF UpdatePRs
    <3>2. /\ p.base.man.at < main.man.at /\ p.base.man.at < p.head.man.at
          /\ p.head.man.at # main.man.at /\ p.base.man.at \in Nat
      BY <2>2, <3>1 DEF BehindInv, FilesInv, OffersInv, Sound, Current
    <3>3. p.head.man # p.base.man /\ main.man # p.base.man /\ p.head.man # main.man
      BY <3>2, <3>1 DEF FilesInv, TipInv, OffersInv, Sound
    <3> QED  BY <3>3 DEF Conflict
  <2> QED  BY <2>1, <2>2 DEF Inv, OnePR, OneUpdatePR, Tended
<1> QED
  BY Initially, InitFiles, <1>1, <1>2, PTL DEF Spec

=============================================================================
