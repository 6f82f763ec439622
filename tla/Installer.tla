------------------------------ MODULE Installer ------------------------------
(* The catalog-driven installer, .github/labview-ci/install.py: a function     *)
(* from a working tree, a tooling release and a set of options to a working    *)
(* tree.  A release is its catalog and its files; a working tree is its files, *)
(* its install manifest .github/labview-ci.yml and, for GitLab, its root       *)
(* pipeline.  A file is who wrote it, the release it comes from and the branch *)
(* its push trigger names; order of lists and wording are left out.            *)
EXTENDS Integers, FiniteSets

CONSTANTS
    Releases,   \* the releases of the tooling: 1, 2, ...
    Paths,      \* every path a working tree may hold
    Dirs,       \* the catalog entries that are directories
    Under,      \* a directory entry |-> the paths under it
    Workflows,  \* the paths under .github/workflows/
    Shipped,    \* a release |-> the paths its checkout holds
    Catalog,    \* a release |-> its catalog.json
    Provider,   \* a release |-> its GitLab provider package
    DashboardPages, PipelineYml, ProviderManifest, LegacyBuilder,  \* paths the
    ThinCaller, ThinDashboard, Dependabot                          \* code names

OSes == {"windows", "linux"}

Absent == [by |-> "nobody", ver |-> 0, branch |-> ""]
File(by, ver, branch) == [by |-> by, ver |-> ver, branch |-> branch]
Exists(tree, p) == tree.files[p] # Absent

(* install.py's manifest, as read_manifest returns it; `at` is installedAt.    *)
(* vipc, dragon and maxParallel are lines reconfigure.yml adds to the same     *)
(* file: read_manifest does not see them.                                      *)
Manifest(ver, at, acts, os, branch, provider, maxParallel, vipc, dragon) ==
    [ver |-> ver, at |-> at, acts |-> acts, os |-> os, branch |-> branch,
     provider |-> provider, maxParallel |-> maxParallel,
     vipc |-> vipc, dragon |-> dragon]
NoManifest == Manifest(0, 0, {}, {}, "", "", 0, {}, {})

(****************************** The selection ******************************)

Available(cat, c) == c \in DOMAIN cat.caps /\ cat.caps[c].status # "planned"

DefaultActivities(cat) ==
    {c \in DOMAIN cat.caps : cat.caps[c].recommended
                             /\ cat.caps[c].status \notin {"planned", "experimental"}}

(* resolve_activities: the available ones of acts and of what they require.    *)
ResolveActivities(cat, acts) ==
    LET reach[n \in Nat] ==
            IF n = 0 THEN acts
            ELSE LET before == reach[n - 1]
                 IN  before \cup UNION {cat.caps[c].requires : c \in {b \in before : Available(cat, b)}}
    IN  {c \in reach[Cardinality(DOMAIN cat.caps)] : Available(cat, c)}

(* resolve_file_list: the base entries, and each capability's shared entries   *)
(* and those of every operating system it supports and the consumer asked for. *)
FileList(cat, acts, os) ==
    cat.base \cup
    UNION {cat.caps[c].any \cup UNION {cat.caps[c].byOs[o] : o \in cat.caps[c].supports \cap os} :
              c \in ResolveActivities(cat, acts)}

(****************************** The files **********************************)

(* The paths an entry brings: a file the checkout lacks, or a directory it     *)
(* lacks altogether, is skipped with a warning.                                *)
Brings(rel, e) == Shipped[rel] \cap (IF e \in Dirs THEN Under[e] ELSE {e})
Mirrored(rel, e) == e \in Dirs /\ Brings(rel, e) # {}

(* The content of an installed file: a workflow carries the release stamp and  *)
(* its push trigger, rewritten when the branch is not main.                    *)
Content(rel, p, branch) == File("tooling", rel, IF p \in Workflows THEN branch ELSE "")

(* Mutant: update does not imply force.                                        *)
CopyAbsent(tree, rel, p, opt) ==
    IF Exists(tree, p) /\ ~opt.forced THEN tree.files[p] ELSE Content(rel, p, opt.branch)

(* copy_one: on update the consumer's own configuration is left alone, and an  *)
(* existing file is only replaced by force (which update implies).             *)
CopyOne(tree, rel, p, opt) ==
    IF \/ opt.update /\ p \in Catalog[rel].preserve /\ Exists(tree, p)
       \/ Exists(tree, p) /\ ~opt.force
    THEN tree.files[p] ELSE Content(rel, p, opt.branch)

(* copy_entry over a list of entries: what they bring is copied and, on        *)
(* update, what a mirrored directory holds beyond that is pruned.              *)
CopyEntries(tree, rel, entries, opt) ==
    LET brought == UNION {Brings(rel, e) : e \in entries}
        orphans == (UNION {Under[e] : e \in {x \in entries : Mirrored(rel, x)}})
                   \ (brought \cup Catalog[rel].preserve)
    IN  [tree EXCEPT !.files = [p \in Paths |->
            IF p \in brought THEN CopyOne(tree, rel, p, opt)
            ELSE IF opt.update /\ p \in orphans THEN Absent ELSE tree.files[p]]]

(* The vendored dashboard workflow is written over by a thin caller, whoever   *)
(* wrote the file that is there.                                               *)
RewriteDashboard(tree, rel, entries, branch) ==
    IF DashboardPages \in entries /\ Exists(tree, DashboardPages)
    THEN [tree EXCEPT !.files[DashboardPages] = File("tooling", rel, branch)]
    ELSE tree

(****************************** GitLab *************************************)

(* validate_gitlab_root_ci: an existing root pipeline must include the         *)
(* provider's and keep its stages; it is written only when there is none or by *)
(* force.                                                                      *)
RootAccepted(root, force) == root \in {"none", "ours", "includes"} \/ force
WritesRoot(root, force) == root = "none" \/ force

(* gitlab_supported_activities fails when a capability has no template for an  *)
(* operating system it would run on, and drops one that runs on none of them.  *)
Applicable(cat, c, os) == cat.caps[c].supports \cap os
HasJob(rel, c, os) ==
    \/ c \in Provider[rel].builtIn
    \/ /\ c \in DOMAIN Provider[rel].templates
       /\ Applicable(Catalog[rel], c, os) \subseteq Provider[rel].templates[c]
Recorded(rel, c, os) ==
    c \in Provider[rel].builtIn \/ Applicable(Catalog[rel], c, os) # {}

(* prune_gitlab_provider_files: what the package installed before owned and    *)
(* this one does not (nothing when its manifest cannot be read), and the       *)
(* dashboard builder of the first scaffold, known by its text.                 *)
ProviderOrphans(tree, rel) ==
    LET old == tree.files[ProviderManifest]
        legacy == {p \in {LegacyBuilder} : tree.files[p].by = "scaffold"}
    IN  legacy \cup IF old.by = "tooling"
                    THEN Provider[old.ver].files \ Provider[rel].files ELSE {}

(* write_gitlab_scaffold: the generated pipeline, the prune, then every file   *)
(* of the package, whether or not it exists.                                   *)
Scaffold(tree, rel, opt) ==
    LET gone == IF opt.update THEN ProviderOrphans(tree, rel) ELSE {}
    IN  [files |-> [p \in Paths |->
             IF p \in Provider[rel].files \cup {PipelineYml} THEN File("tooling", rel, "")
             ELSE IF p \in gone THEN Absent ELSE tree.files[p]],
         man   |-> tree.man,
         root  |-> IF WritesRoot(tree.root, opt.forced) THEN "ours" ELSE tree.root]

(****************************** main() *************************************)

(* The options of a run, after the arguments, the previous manifest and the    *)
(* catalog's defaults have been consulted in that order.                       *)
Options(tree, rel, arg) ==
    LET prev == IF arg.update THEN tree.man ELSE NoManifest
        Or(a, b) == IF a \in {{}, ""} THEN b ELSE a
        provider == IF arg.provider # "" THEN arg.provider
                    ELSE IF prev.provider # "" THEN prev.provider ELSE "github"
        os == IF arg.os # {} THEN arg.os ELSE IF prev.os # {} THEN prev.os ELSE {"windows"}
        named == IF arg.acts # {} THEN arg.acts
                 ELSE IF prev.acts # {} THEN prev.acts ELSE DefaultActivities(Catalog[rel])
    IN  [update |-> arg.update, forced |-> arg.force, force |-> arg.force \/ arg.update,
         provider |-> provider, os |-> os,
         acts |-> ResolveActivities(Catalog[rel], named),
         branch |-> IF arg.branch # "" THEN arg.branch
                    ELSE IF prev.branch # "" THEN prev.branch ELSE "main"]

(* Every refusal comes before the first write.                                 *)
Refused(tree, rel, arg) ==
    LET opt == Options(tree, rel, arg)
    IN  \/ arg.update /\ tree.man = NoManifest
        \/ /\ opt.provider = "gitlab"
           /\ \/ \E c \in opt.acts : ~HasJob(rel, c, opt.os)
              \/ ~RootAccepted(tree.root, arg.force)

(* The working tree a run that is not refused leaves; the manifest is written  *)
(* last and wholesale.                                                         *)
Installed(tree, rel, arg, at) ==
    LET opt == Options(tree, rel, arg)
        gitlab == opt.provider = "gitlab"
        acts == IF gitlab THEN {c \in opt.acts : Recorded(rel, c, opt.os)} ELSE opt.acts
        listed == FileList(Catalog[rel], acts, opt.os)
        entries == IF gitlab THEN listed \ Workflows ELSE listed
        copied == CopyEntries(tree, rel, entries, opt)
        wired == IF gitlab THEN Scaffold(copied, rel, opt)
                 ELSE RewriteDashboard(copied, rel, entries, opt.branch)
    IN  [wired EXCEPT !.man = Manifest(rel, at, acts, opt.os, opt.branch, opt.provider, 0, {}, {})]

(* thin_install: two callers, the Dependabot file and a fresh configuration    *)
(* that pins the release, over whatever is there; it copies nothing.           *)
ThinPaths(acts) == {ThinCaller, Dependabot}
                   \cup IF "dashboard" \in acts THEN {ThinDashboard} ELSE {}
ThinInstalled(tree, rel, arg, at) ==
    LET opt == Options(tree, rel, arg)
    IN  [tree EXCEPT
            !.files = [p \in Paths |-> IF p \in ThinPaths(opt.acts)
                                       THEN File("tooling", rel, opt.branch) ELSE tree.files[p]],
            !.man = Manifest(rel, at, opt.acts, opt.os, "", "", 5, {}, {})]
==============================================================================
