---------------------------- MODULE ToolingUpdate ----------------------------
(* A consumer repository between releases of the tooling: the installer run by *)
(* hand, the "Update now" workflow (apply-tooling-update.yml) that pushes the  *)
(* update to the default branch or falls back to a pull request, the           *)
(* Reconfigure workflow that rewrites the same manifest through a pull         *)
(* request, and the people who push, merge, and rotate the token meanwhile.    *)
EXTENDS Installer

CONSTANTS
    Owned,        \* the paths only the consumer's people write
    Trees,        \* the default branches a history may start from
    Lists,        \* the monitored lists a Reconfigure may be asked for
    Selections,   \* the activities a Reconfigure or an installation may name
    MaxStamps,    \* bound: manifests written (installedAt, configuredAt)
    MaxPushes,    \* bound: pushes by people
    MaxPRs        \* bound: what is offered when a Reconfigure offers more

IsManifest(m) == m = Manifest(m.ver, m.at, m.acts, m.os, m.branch, m.provider,
                              m.maxParallel, m.vipc, m.dragon)
IsTree(t) == t = [files |-> t.files, man |-> t.man, root |-> t.root] /\ IsManifest(t.man)

(* The files the tooling wrote carry the release they came from.               *)
Versioned(t) ==
    /\ DOMAIN t.files = Paths
    /\ \A p \in Paths : t.files[p].by = "tooling" => t.files[p].ver \in Releases

Preserved == UNION {Catalog[r].preserve : r \in Releases}

(* Releases are numbered from 1; a history starts with the first one, or with  *)
(* none installed.                                                             *)
ASSUME UpdateAssumption ==
    /\ Releases \subseteq Nat \ {0} /\ 1 \in Releases
    /\ ProviderManifest \in Paths /\ \A r \in Releases : Shipped[r] \subseteq Paths
    /\ \A t \in Trees :
          /\ IsTree(t) /\ Versioned(t)
          /\ t.man.ver \in {0, 1} /\ t.man.at \in {0, 1}
          /\ \A p \in Owned : t.files[p].by = "people" => t.files[p].ver = 0

(* What is the consumer's alone: no release ships it or once preserved it      *)
(* without preserving it, and it is none of the files written whoever wrote    *)
(* what is there.                                                              *)
ASSUME OwnedAssumption ==
    /\ Owned \subseteq Paths
    /\ \A r \in Releases :
          /\ Owned \cap (Shipped[r] \cup Preserved) \subseteq Catalog[r].preserve
          /\ Owned \cap Provider[r].files = {}
    /\ Owned \cap {DashboardPages, PipelineYml, LegacyBuilder, ThinCaller, ThinDashboard,
                   Dependabot} = {}

VARIABLES
    main,         \* the default branch: the tree at its tip
    tip,          \* how often the default branch has moved
    guarded,      \* branch protection asks for a pull request
    latest,       \* the newest release of the tooling
    token,        \* TOOLING_UPDATE_TOKEN: "absent", "good", "expired"
    run,          \* the update run of the concurrency group
    prs,          \* the open pull requests, and update branches without one
    stamp,        \* manifests written so far
    pushes        \* pushes by people so far

vars == <<main, tip, guarded, latest, token, run, prs, stamp, pushes>>

(* A run: where it is, what it verified, the commit it is based on and the one *)
(* it holds, whether workflow files are left out, and how it ended.            *)
NoTree == [files |-> [p \in Paths |-> Absent], man |-> NoManifest, root |-> "none"]
EndedAs(o) == [pc |-> "idle", usable |-> FALSE, base |-> NoTree, seen |-> 0,
               head |-> NoTree, ver |-> run.ver, deferred |-> run.deferred, outcome |-> o]

(* An offer: a "settings" or an "update" pull request, or a "branch" pushed for *)
(* an update that no request is open for; the commit it offers and the one it  *)
(* is based on.  One is stray when no run keeps it up to date any more: its     *)
(* close failed, its run died next to it, or people opened it.                 *)
PR(kind, ver, base, head) ==
    [kind |-> kind, ver |-> ver, base |-> base, head |-> head, stray |-> FALSE]
Updates == {p \in prs : p.kind \in {"update", "branch"}}
UpdatePRs == {p \in prs : p.kind = "update"}

(****************************** git ****************************************)

(* A three-way merge of trees.  Both sides changing one file to different      *)
(* contents is a conflict; so is both sides writing the manifest, whose stamp  *)
(* line no two writers agree on.                                               *)
Conflict(base, ours, theirs) ==
    \/ /\ ours.man # base.man /\ theirs.man # base.man /\ ours.man # theirs.man
    \/ /\ ours.root # base.root /\ theirs.root # base.root /\ ours.root # theirs.root
    \/ \E p \in Paths : /\ ours.files[p] # base.files[p] /\ theirs.files[p] # base.files[p]
                        /\ ours.files[p] # theirs.files[p]
Merged(base, ours, theirs) ==
    [files |-> [p \in Paths |-> IF ours.files[p] # base.files[p] THEN ours.files[p]
                                ELSE theirs.files[p]],
     man   |-> IF ours.man # base.man THEN ours.man ELSE theirs.man,
     root  |-> IF ours.root # base.root THEN ours.root ELSE theirs.root]

TouchesWorkflows(base, head) == \E p \in Workflows : base.files[p] # head.files[p]

(* strip_workflows: the commit without its changes to workflow files.          *)
Stripped(base, head) ==
    [head EXCEPT !.files = [p \in Paths |-> IF p \in Workflows THEN base.files[p]
                                            ELSE head.files[p]]]

MoveMain(tree) == main' = tree /\ tip' = tip + 1

(****************************** Update now *********************************)

NoArgs == [update |-> FALSE, force |-> FALSE, provider |-> "", acts |-> {}, os |-> {},
           branch |-> ""]

(* Dispatched, one run of the group at a time; the token is tried first and    *)
(* one that does not answer 200 is not used.                                   *)
CheckToken ==
    /\ run.pc = "idle" /\ stamp < MaxStamps
    /\ main.man # NoManifest /\ main.man.provider # "gitlab"
    /\ \E answered \in BOOLEAN :
          run' = [EndedAs("none") EXCEPT !.pc = "checkout", !.ver = 0, !.deferred = FALSE,
                                         !.usable = token = "good" /\ answered]
    /\ UNCHANGED <<main, tip, guarded, latest, token, prs, stamp, pushes>>

(* Check out the default branch, fetch the newest release, run the installer   *)
(* in update mode with the activities recorded (and, when asked, every stable  *)
(* capability), put the runner cap back and commit.                            *)
RunInstaller ==
    /\ run.pc = "checkout"
    /\ \E enableNew \in BOOLEAN :
          LET cat  == Catalog[latest]
              acts == main.man.acts \cup
                      IF enableNew THEN {c \in DOMAIN cat.caps : cat.caps[c].status = "stable"}
                      ELSE {}
              arg  == [NoArgs EXCEPT !.update = TRUE, !.acts = acts]
              tree == Installed(main, latest, arg, stamp + 1)
              head == [tree EXCEPT !.man.maxParallel = main.man.maxParallel]
          IN  IF Refused(main, latest, arg)
              THEN run' = EndedAs("failed") /\ stamp' = stamp
              ELSE /\ run' = [run EXCEPT !.pc = "push", !.base = main, !.seen = tip,
                                         !.head = head, !.ver = latest]
                   /\ stamp' = stamp + 1
    /\ UNCHANGED <<main, tip, guarded, latest, token, prs, pushes>>

(* What the server says to a push of run.head: the race is seen first; among   *)
(* the other refusals either may be the one reported.                          *)
Credentials == run.usable => token = "good"
Race == run.seen # tip
NeedsScope == ~run.usable /\ TouchesWorkflows(run.base, run.head)
Lands == Credentials /\ ~Race /\ ~guarded /\ ~NeedsScope

(* The push lands and the update is applied; requests are tidied up next.      *)
PushLands ==
    /\ run.pc \in {"push", "repush", "pushrest"} /\ Lands
    /\ MoveMain(run.head)
    /\ run' = [EndedAs("applied") EXCEPT !.pc = "tidy"]
    /\ UNCHANGED <<guarded, latest, token, prs, stamp, pushes>>

(* Mutants: the retry overwrites what was pushed; the rebase prefers its own   *)
(* side of a conflict.                                                         *)
RetryByForce ==
    /\ run.pc = "push" /\ Credentials /\ Race
    /\ run' = [run EXCEPT !.pc = "repush", !.seen = tip]
    /\ UNCHANGED <<main, tip, guarded, latest, token, prs, stamp, pushes>>
RebaseOwnSide ==
    /\ run.pc = "push" /\ Credentials /\ Race
    /\ run' = [run EXCEPT !.pc = "repush", !.seen = tip, !.base = main,
                          !.head = Merged(run.base, run.head, main)]
    /\ UNCHANGED <<main, tip, guarded, latest, token, prs, stamp, pushes>>

(* Lost to a concurrent push: rebase onto the new tip and try once more; a     *)
(* rebase that conflicts leaves the commit where it was.                       *)
Rebase ==
    /\ run.pc = "push" /\ Credentials /\ Race
    /\ run' = IF Conflict(run.base, run.head, main)
              THEN [run EXCEPT !.pc = "branch"]
              ELSE [run EXCEPT !.pc = "repush", !.seen = tip, !.base = main,
                               !.head = Merged(run.base, run.head, main)]
    /\ UNCHANGED <<main, tip, guarded, latest, token, prs, stamp, pushes>>

(* Refused for the workflow files: hold them back and push the rest; with      *)
(* nothing left, ask for a token.                                              *)
DeferWorkflows ==
    /\ run.pc \in {"push", "repush"} /\ Credentials /\ ~Race /\ NeedsScope
    /\ LET rest == Stripped(run.base, run.head)
       IN  run' = IF rest = run.base THEN EndedAs("token_needed")
                  ELSE [run EXCEPT !.pc = "pushrest", !.head = rest, !.deferred = TRUE]
    /\ UNCHANGED <<main, tip, guarded, latest, token, prs, stamp, pushes>>

(* Mutant: only protection and credentials fall back.                         *)
FallBackOnRefusal ==
    /\ run.pc \in {"push", "repush", "pushrest"} /\ ~Race
    /\ ~Credentials \/ guarded
    /\ run' = [run EXCEPT !.pc = "branch"]
    /\ UNCHANGED <<main, tip, guarded, latest, token, prs, stamp, pushes>>

(* Any other refusal goes to the update branch: protection, a second lost      *)
(* race, credentials that died since they were checked.                        *)
FallBack ==
    /\ \/ run.pc \in {"push", "repush", "pushrest"} /\ (~Credentials \/ (~Race /\ guarded))
       \/ run.pc \in {"repush", "pushrest"} /\ Race
    /\ run' = [run EXCEPT !.pc = "branch"]
    /\ UNCHANGED <<main, tip, guarded, latest, token, prs, stamp, pushes>>

(* Force-push the branch of this release, without the workflow files when the  *)
(* token may not push them, and offer it by the request open on it or by a new *)
(* one; where Actions may open none, it ends here, and it dies when it cannot  *)
(* tell what is open.                                                          *)
OpenPR ==
    /\ run.pc = "branch" /\ Credentials
    /\ LET defer == NeedsScope
           head  == IF defer THEN Stripped(run.base, run.head) ELSE run.head
           old   == {p \in Updates : p.ver = run.ver}
           open  == old \cap UpdatePRs # {}
           Offer(kind) == PR(kind, run.ver, run.base, head)
           Ended(o) == [EndedAs(o) EXCEPT !.deferred = @ \/ defer]
       IN  IF defer /\ head = run.base
           THEN run' = EndedAs("token_needed") /\ UNCHANGED prs
           ELSE \/ /\ prs' = (prs \ old) \cup {Offer("update")}
                   /\ run' = [Ended("offered") EXCEPT !.pc = "tidy"]
                \/ /\ ~open /\ prs' = (prs \ old) \cup {Offer("branch")}
                   /\ run' = Ended("manual")
                \/ /\ prs' = (prs \ old) \cup
                       {[Offer(IF open THEN "update" ELSE "branch") EXCEPT !.stray = TRUE]}
                   /\ run' = Ended("failed")
    /\ UNCHANGED <<main, tip, guarded, latest, token, stamp, pushes>>

StaleNone == {p \in UpdatePRs : FALSE}   \* mutant: older requests stay open
Stale == {p \in UpdatePRs : run.outcome = "offered" => p.ver # run.ver}

(* The last step of a run that applied or offered its update: close the other  *)
(* update requests and delete their branches.  Any close may fail, and so may  *)
(* a deletion or, before them, the listing; the run goes on regardless.        *)
Tidy ==
    /\ run.pc = "tidy"
    /\ \E left \in SUBSET Stale : \E bare \in SUBSET (Stale \ left) :
          prs' = (prs \ Stale) \cup {[p EXCEPT !.stray = TRUE] : p \in left}
                               \cup {[p EXCEPT !.kind = "branch"] : p \in bare}
    /\ run' = [run EXCEPT !.pc = "idle"]
    /\ UNCHANGED <<main, tip, guarded, latest, token, stamp, pushes>>

PushFails ==
    /\ run.pc = "branch" /\ ~Credentials
    /\ run' = EndedAs("failed")
    /\ UNCHANGED <<main, tip, guarded, latest, token, prs, stamp, pushes>>

Deliver == PushLands \/ Rebase \/ DeferWorkflows \/ FallBack \/ OpenPR \/ PushFails \/ Tidy

(****************************** Reconfigure ********************************)

(* reconfigure.yml reads the manifest with a parser of its own, whose vipc     *)
(* list does not end at the dragon list that follows it, and writes it back    *)
(* with the settings asked for, keeping the rest and leaving out the lines it  *)
(* does not know (branch, provider, distribution).                             *)
ReadVipc(man) == man.vipc \cup IF man.vipc = {} THEN {} ELSE man.dragon
Reconfigured(man, acts, vipc, dragon, at) ==
    Manifest(man.ver, at, IF acts = {} THEN man.acts ELSE acts, man.os, "", "",
             IF man.maxParallel = 0 THEN 5 ELSE man.maxParallel,
             IF vipc = {} THEN ReadVipc(man) ELSE vipc,
             IF dragon = {} THEN man.dragon ELSE dragon)

Reconfigure ==
    /\ stamp < MaxStamps /\ Cardinality(prs) < MaxPRs
    /\ main.man # NoManifest /\ main.man.provider # "gitlab"
    /\ \E acts \in {{}} \cup Selections, vipc, dragon \in {{}} \cup Lists :
          prs' = prs \cup
              {PR("settings", stamp + 1, main,
                  [main EXCEPT !.man = Reconfigured(main.man, acts, vipc, dragon, stamp + 1)])}
    /\ stamp' = stamp + 1
    /\ UNCHANGED <<main, tip, guarded, latest, token, run, pushes>>

(****************************** People *************************************)

(* A pull request that does not conflict with the branch may be merged, by     *)
(* people or by the auto-merge the run asked for.                              *)
MergePR ==
    /\ \E p \in prs :
          /\ p.kind # "branch"
          /\ ~Conflict(p.base, p.head, main)
          /\ MoveMain(Merged(p.base, p.head, main))
          /\ prs' = prs \ {p}
    /\ UNCHANGED <<guarded, latest, token, run, stamp, pushes>>

(* People open the request a run could not, from the branch it left.           *)
OpenByHand ==
    /\ \E p \in Updates :
          /\ p.kind = "branch"
          /\ prs' = (prs \ {p}) \cup {[p EXCEPT !.kind = "update", !.stray = TRUE]}
    /\ UNCHANGED <<main, tip, guarded, latest, token, run, stamp, pushes>>

(* People write their own files, by a push or by a merge of their own.         *)
PushOwn ==
    /\ pushes < MaxPushes
    /\ \E p \in Owned : MoveMain([main EXCEPT !.files[p] = File("people", pushes + 1, "")])
    /\ pushes' = pushes + 1
    /\ UNCHANGED <<guarded, latest, token, run, prs, stamp>>

(* The installer run by hand on an up-to-date clone and pushed: an             *)
(* installation, a forced one, an update or a thin one.                        *)
HandArgs ==
    [update : BOOLEAN, force : BOOLEAN, acts : {{}} \cup Selections, os : {{}}, branch : {""},
     provider : {""} \cup IF main.man = NoManifest THEN {"gitlab"} ELSE {}]
InstallByHand ==
    /\ pushes < MaxPushes /\ stamp < MaxStamps
    /\ \E arg \in HandArgs, thin \in BOOLEAN :
          /\ ~Refused(main, latest, arg)
          /\ thin => ~arg.update /\ Options(main, latest, arg).provider = "github"
          /\ MoveMain(IF thin THEN ThinInstalled(main, latest, arg, stamp + 1)
                      ELSE Installed(main, latest, arg, stamp + 1))
    /\ stamp' = stamp + 1 /\ pushes' = pushes + 1
    /\ UNCHANGED <<guarded, latest, token, run, prs>>

Release ==
    /\ latest + 1 \in Releases
    /\ latest' = latest + 1
    /\ UNCHANGED <<main, tip, guarded, token, run, prs, stamp, pushes>>

TokenChanges ==
    /\ token' = CASE token = "absent"  -> "good"
                  [] token = "good"    -> "expired"
                  [] token = "expired" -> "good"
    /\ UNCHANGED <<main, tip, guarded, latest, run, prs, stamp, pushes>>

Init ==
    /\ main \in Trees /\ tip = 0 /\ guarded \in BOOLEAN
    /\ latest = 1 /\ token \in {"absent", "good"}
    /\ run = [pc |-> "idle", usable |-> FALSE, base |-> NoTree, seen |-> 0, head |-> NoTree,
              ver |-> 0, deferred |-> FALSE, outcome |-> "none"]
    /\ prs = {} /\ stamp = 1 /\ pushes = 0

Next ==
    \/ CheckToken \/ RunInstaller \/ Deliver \/ Reconfigure \/ MergePR \/ OpenByHand \/ PushOwn
    \/ InstallByHand \/ Release \/ TokenChanges

(* The script of the last step runs to its end; nobody has to do the rest.     *)
Spec == Init /\ [][Next]_vars /\ WF_vars(Deliver)

(****************************** Properties *********************************)

TypeOK ==
    /\ tip \in Nat /\ guarded \in BOOLEAN /\ latest \in Releases
    /\ token \in {"absent", "good", "expired"}
    /\ run.pc \in {"idle", "checkout", "push", "repush", "pushrest", "branch", "tidy"}
    /\ run.outcome \in {"none", "applied", "offered", "manual", "token_needed", "failed"}
    /\ main.root \in {"none", "ours", "includes", "no_stages", "foreign"}
    /\ stamp \in 1..(MaxStamps + 1) /\ pushes \in 0..MaxPushes

(* What an installation of release man.ver with this selection consists of.    *)
Selected(man) ==
    UNION {Brings(man.ver, e) : e \in FileList(Catalog[man.ver], man.acts, man.os)}
AtRelease(tree, p) == tree.files[p].by = "tooling" /\ tree.files[p].ver = tree.man.ver

(* An update that reaches the default branch arrives whole: when the workflow  *)
(* or the merge of its pull request changes installedVersion, every selected   *)
(* file is of that release; only workflow files may lag, and only when the run *)
(* says it deferred them (apply-tooling-update.yml:316-324, 338-363).          *)
UpdateWhole ==
    [][main'.man.ver # main.man.ver /\ pushes' = pushes =>
         \A p \in Selected(main'.man) \ Catalog[main'.man.ver].preserve :
            \/ AtRelease(main', p)
            \/ p \in Workflows /\ (run'.deferred \/ run'.outcome # "applied")]_vars

(* The consumer's own files outlive every update, whatever was pushed between  *)
(* its checkout and its push: one is replaced only by a newer version of       *)
(* itself.  Left out: files people put inside a mirrored directory, and, by    *)
(* a forced installation, the shipped defaults of the files the catalog        *)
(* preserves (install.py:281-292, 335-366, 614-653).                           *)
OwnKept ==
    [][\A p \in Owned \ ((UNION {Under[d] : d \in Dirs}) \ Preserved) :
         main.files[p].by = "people" =>
           \/ main'.files[p].by = "people" /\ main'.files[p].ver >= main.files[p].ver
           \/ p \in Preserved /\ pushes' # pushes /\ main'.files[p].by = "tooling"]_vars

(* No update goes backwards: a run that fetched an old release, or a pull      *)
(* request left open, never takes the default branch to an older one           *)
(* (apply-tooling-update.yml:339-347, 490-508).                                *)
NoDowngrade == [][main'.man.ver >= main.man.ver]_vars

(* One update pull request at a time, and none that an applied update left     *)
(* behind (apply-tooling-update.yml:391-396, 490-508).  Closing may fail, and  *)
(* people may open what a run could not; what survives those ways after an     *)
(* update was applied can never be merged: it conflicts until it is rebuilt.   *)
OneUpdatePR ==
    LET kept == {p \in UpdatePRs : ~p.stray}
    IN  /\ run.pc # "tidy" => Cardinality(kept) <= 1
        /\ run.outcome = "applied" =>
              /\ run.pc = "idle" => kept = {}
              /\ \A p \in UpdatePRs : Conflict(p.base, p.head, main)

(* A commit the run made is delivered: on the default branch, as a pull        *)
(* request, or as a branch to open one from; the only other end is a push      *)
(* whose credentials died meanwhile (apply-tooling-update.yml:335-475).        *)
Delivered(v) ==
    \/ run.outcome = "applied" /\ run.ver = v
    \/ run.outcome \in {"offered", "manual", "failed"} /\ run.ver = v
UpdateDelivered == \A v \in Releases : (run.pc = "push" /\ run.ver = v) ~> Delivered(v)

(* "with your own configuration and baked dependencies preserved"              *)
(* (apply-tooling-update.yml:410): an update keeps the monitored lists the     *)
(* consumer set.                                                               *)
MonitoringKept ==
    [][main'.man.ver # main.man.ver /\ pushes' = pushes =>
         main'.man.vipc = main.man.vipc /\ main'.man.dragon = main.man.dragon]_vars
==============================================================================
