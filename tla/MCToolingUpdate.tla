--------------------------- MODULE MCToolingUpdate ---------------------------
(* Two releases.  Three capabilities: the dashboard, documentation (Windows    *)
(* only, and requiring the image) and the image, which brings a directory.     *)
(* Between the releases the directory swaps one file for another, the GitLab   *)
(* package too.                                                                *)
EXTENDS ToolingUpdate

CONSTANTS SmallHistory   \* GitLab and empty repositories left out when TRUE

AllPaths == {"install", "dashw", "docw", "doc", "pkgs", "vold", "vnew", "vmine", "own",
             "glman", "gltpl1", "gltpl2", "glpipe", "glold", "glmine",
             "thinw", "thindash", "dependabot"}
UnderVipm == [d \in {"vipm/"} |-> {"pkgs", "vold", "vnew", "vmine"}]
ShippedBy == [r \in Releases |-> {"install", "dashw", "docw", "doc", "pkgs"}
                                 \cup IF r = 1 THEN {"vold"} ELSE {"vnew"}]

Cap(status, supports, requires, any, win) ==
    [status |-> status, recommended |-> status = "stable", supports |-> supports,
     requires |-> requires, any |-> any,
     byOs |-> [o \in OSes |-> IF o = "windows" THEN win ELSE {}]]
CatalogOf == [r \in Releases |->
    [base |-> {"install"}, preserve |-> {"pkgs"},
     caps |-> [c \in {"dashboard", "docs", "image"} |->
        CASE c = "dashboard" -> Cap("stable", OSes, {}, {"dashw"}, {})
          [] c = "docs"  -> Cap("experimental", {"windows"}, {"image"}, {"doc"}, {"docw"})
          [] c = "image" -> Cap("stable", OSes, {}, {"vipm/"}, {})]]]
ProviderOf == [r \in Releases |->
    [files |-> {"glman"} \cup IF r = 1 THEN {"gltpl1"} ELSE {"gltpl2"},
     builtIn |-> {"dashboard"},
     templates |-> [c \in {"image"} |-> OSes]]]

Empty(root, mine) ==
    [files |-> [p \in AllPaths |-> IF p \in mine THEN File("people", 0, "") ELSE Absent],
     man |-> NoManifest, root |-> root]
Hand(acts, provider, branch) ==
    [NoArgs EXCEPT !.acts = acts, !.provider = provider, !.branch = branch]
GitHubTree == Installed(Empty("none", {"own", "pkgs"}), 1, Hand({"dashboard", "docs"}, "", "dev"), 1)
GitLabTree == [Installed(Empty("includes", {"own", "glmine"}), 1,
                         Hand({"dashboard", "image"}, "gitlab", ""), 1)
               EXCEPT !.files["glold"] = File("scaffold", 1, "")]
InitTrees == {GitHubTree} \cup
             IF SmallHistory THEN {}
             ELSE {GitLabTree, Empty("foreign", {"own", "thindash"})}
OwnedPaths == {"own", "pkgs", "vmine", "glmine"}
==============================================================================
