------------------------------ MODULE GhPages ------------------------------
(***************************************************************************)
(* The composite action publish-gh-pages: many workflow runs publish into  *)
(* one branch, gh-pages, without a lock.  Each attempt works in a fresh    *)
(* clone (fetch, overlay the files, commit) and ends in a push that is     *)
(* accepted only as a fast-forward; a lost race is retried.                *)
(* A step is one remote operation with the local work that leads to it.    *)
(***************************************************************************)
EXTENDS Naturals, Sequences, FiniteSets

CONSTANTS
  Publishers,   \* the runs that publish
  Forks,        \* those of them that run for a pull request of a fork
  Earlier,      \* publisher |-> the runs before it in its concurrency group
  Paths,        \* the paths of the gh-pages tree
  Files,        \* publisher |-> the paths its publish_dir holds, {} if it is missing
  MaxAttempts,  \* attempts of the loop (6 in the action)
  MayFail,      \* TRUE when fetches, pushes and runners may fail
  Old,          \* content published before
  NoContent     \* an absent path

ASSUME PublishersAssumption == IsFiniteSet(Publishers) /\ Forks \subseteq Publishers
ASSUME FilesAssumption == Files \in [Publishers -> SUBSET Paths]
ASSUME EarlierAssumption == Earlier \in [Publishers -> SUBSET Publishers]
ASSUME AttemptsAssumption == MaxAttempts \in Nat \ {0} /\ MayFail \in BOOLEAN
ASSUME ContentAssumption == Old \notin Publishers /\ NoContent \notin Publishers

VARIABLES
  branch,   \* the commits of gh-pages, oldest first; empty while there is no branch
  pc,       \* publisher |-> where it is in the action
  clone,    \* publisher |-> the tree it will push and the commit it is based on
  attempt   \* publisher |-> the attempt under way

vars == <<branch, pc, clone, attempt>>

PC    == {"queued", "fetch", "push", "published", "skipped", "failed", "killed"}
Ended == {"published", "skipped", "failed", "killed"}
Tree  == [Paths -> Publishers \cup {Old, NoContent}]
Clone == [base : Nat, tree : Tree]

Empty   == [f \in Paths |-> NoContent]
Tip     == IF branch = <<>> THEN Empty ELSE branch[Len(branch)]
Overlay(t, p) == [f \in Paths |-> IF f \in Files[p] THEN p ELSE t[f]]

\* The site has been published before, or this is the very first publication.
Init ==
  /\ branch \in {<<>>, <<[f \in Paths |-> Old]>>}
  /\ pc = [p \in Publishers |-> "queued"]
  /\ clone = [p \in Publishers |-> [base |-> 0, tree |-> Empty]]
  /\ attempt = [p \in Publishers |-> 1]

Goto(p, l) == pc' = [pc EXCEPT ![p] = l]

\* Mutant of MayStart: without the concurrency group of the workflow.
StartsAnyTime(p) == pc[p] = "queued"

\* A run starts when the runs before it in its group are over.
MayStart(p) == pc[p] = "queued" /\ \A q \in Earlier[p] : pc[q] \in Ended

\* A fork's pull request may not publish; nor is there anything to do
\* without a publish_dir.
Skip(p) ==
  /\ MayStart(p) /\ (p \in Forks \/ Files[p] = {})
  /\ Goto(p, "skipped")
  /\ UNCHANGED <<branch, clone, attempt>>

Start(p) ==
  /\ MayStart(p) /\ p \notin Forks /\ Files[p] # {}
  /\ Goto(p, "fetch")
  /\ UNCHANGED <<branch, clone, attempt>>

\* Commit the overlay on top of position base, unless that changes nothing.
Prepare(p, base, tree) ==
  /\ clone' = [clone EXCEPT ![p] = [base |-> base, tree |-> Overlay(tree, p)]]
  /\ Goto(p, IF base > 0 /\ Overlay(tree, p) = tree THEN "published" ELSE "push")
  /\ UNCHANGED <<branch, attempt>>

Fetch(p) ==
  /\ pc[p] = "fetch" /\ branch # <<>>
  /\ Prepare(p, Len(branch), Tip)

\* The fetch fails, because there is no branch yet or for any other reason:
\* the attempt goes on with an orphan branch.
FetchFails(p) ==
  /\ pc[p] = "fetch" /\ (branch = <<>> \/ MayFail)
  /\ Prepare(p, 0, Empty)

\* The attempt is lost: the clone is thrown away, and the loop goes on.
NextAttempt(p) ==
  /\ attempt' = [attempt EXCEPT ![p] = @ + 1]
  /\ Goto(p, IF attempt[p] < MaxAttempts THEN "fetch" ELSE "failed")

\* Mutant of Accepted: git push --force.
AcceptedAlways(p) == clone[p].base <= Len(branch)

\* git push of a branch: a fast-forward, or the creation of the branch.
Accepted(p) == clone[p].base = Len(branch)

\* Mutant of Push: one commit and push per file.
PushFileByFile(p) ==
  /\ pc[p] = "push" /\ Accepted(p)
  /\ \E f \in Files[p] :
       LET t == [Tip EXCEPT ![f] = p]
       IN /\ t # Tip
          /\ branch' = Append(branch, t)
          /\ clone' = [clone EXCEPT ![p].base = @ + 1]
          /\ Goto(p, IF t = Overlay(t, p) THEN "published" ELSE "push")
  /\ UNCHANGED attempt

Push(p) ==
  /\ pc[p] = "push" /\ Accepted(p)
  /\ branch' = Append(branch, clone[p].tree)
  /\ Goto(p, "published")
  /\ UNCHANGED <<clone, attempt>>

\* Mutant of PushRejected: the rejection is taken for success.
RejectionIgnored(p) ==
  /\ pc[p] = "push" /\ ~Accepted(p)
  /\ Goto(p, "published")
  /\ UNCHANGED <<branch, clone, attempt>>

PushRejected(p) ==
  /\ pc[p] = "push" /\ ~Accepted(p)
  /\ NextAttempt(p)
  /\ UNCHANGED <<branch, clone>>

\* The remote takes the push but the runner never hears of it.
AnswerLost(p) ==
  /\ MayFail /\ pc[p] = "push" /\ Accepted(p)
  /\ branch' = Append(branch, clone[p].tree)
  /\ NextAttempt(p)
  /\ UNCHANGED clone

\* A git command of the attempt fails, or the push does not reach the remote.
AttemptErrors(p) ==
  /\ MayFail /\ pc[p] \in {"fetch", "push"}
  /\ NextAttempt(p)
  /\ UNCHANGED <<branch, clone>>

\* The run is cancelled (cancel-in-progress) or its runner is lost.
Kill(p) ==
  /\ MayFail /\ pc[p] \notin Ended
  /\ Goto(p, "killed")
  /\ UNCHANGED <<branch, clone, attempt>>

Step(p) == \/ Skip(p) \/ Start(p) \/ Fetch(p) \/ FetchFails(p)
           \/ Push(p) \/ PushRejected(p) \/ AnswerLost(p) \/ AttemptErrors(p)

Next == \E p \in Publishers : Step(p) \/ Kill(p)

Spec == Init /\ [][Next]_vars

\* GitHub starts a run when its group is free; a runner executes its job.
FairSpec == Spec /\ \A p \in Publishers : WF_vars(Step(p))

-----------------------------------------------------------------------------
(***************************************************************************)
(* Properties.                                                             *)
(***************************************************************************)
\* Every variable stays within its type.
TypeOK ==
  /\ branch \in Seq(Tree)
  /\ pc \in [Publishers -> PC]
  /\ clone \in [Publishers -> Clone]
  /\ attempt \in [Publishers -> Nat]

\* What a clone with a commit to push may rely on: its tree is the overlay of
\* the commit it is based on.
CloneFaithful ==
  \A p \in Publishers : pc[p] = "push" =>
    /\ clone[p].base <= Len(branch)
    /\ clone[p].tree = Overlay(IF clone[p].base = 0 THEN Empty ELSE branch[clone[p].base], p)

\* The lock-free loop implements PagesOverlay: every commit of gh-pages is the
\* commit before it with the files of one publisher laid over it, so parallel
\* reports are never reverted or deleted, whatever is fetched when.
Promise == INSTANCE PagesOverlay WITH tree <- Tip
ImplementsOverlay == Promise!Spec

HasAll(t, p) == \A f \in Files[p] : t[f] = p

\* A run that reports success has put all its files on the branch.
SuccessLanded ==
  \A p \in Publishers : pc[p] = "published" =>
    \E i \in DOMAIN branch : HasAll(branch[i], p)

\* A reader never sees half a report: a run that fails or is killed midway has
\* published everything or nothing.
NoPartialReport ==
  \A i \in DOMAIN branch, p \in Publishers :
    (\E f \in Files[p] : branch[i][f] = p) => \E j \in 1..i : HasAll(branch[j], p)

\* A file two runs of one group publish (latest.json, index.html) never goes
\* back to the copy of the earlier run.
GroupOrderKept ==
  [][\A f \in Paths, q \in Publishers :
       Tip[f] = q /\ Tip'[f] # q => Tip'[f] \notin Earlier[q]]_vars

\* Without failures, as many publishers as the loop has attempts all succeed:
\* an attempt is only ever lost to another publisher that landed.
FewAllLand ==
  ~MayFail /\ Cardinality(Publishers) <= MaxAttempts =>
    \A p \in Publishers : pc[p] # "failed"

\* The loop is bounded: every run of the action ends.
EveryRunEnds == \A p \in Publishers : <>(pc[p] \in Ended)
=============================================================================
