--------------------------- MODULE MCDependencies ---------------------------
(***************************************************************************)
(* Two VIPC files, one of them in a dot-directory, the capability's VIPC   *)
(* and two Dragon files, one of them under build, over three packages, one *)
(* of them with two versions.                                              *)
(***************************************************************************)
EXTENDS Dependencies, TLC

CONSTANTS a, b, d, g, cap, p1, p2, p3

Pin(name, version) == [manager |-> "vipm", name |-> name, version |-> version]
Nipm(name, version) == [manager |-> "nipm", name |-> name, version |-> version]

MCVipcs == {a, b}
MCDragons == {d, g}
MCWalked == {a, b, d}
MCGlobbed == [p \in {"windows", "linux"} |-> {a, d, g}]
MCBaseName == [f \in {a, b, d, g, cap} |-> f]
MCRank == (a :> 1) @@ (b :> 2) @@ (d :> 3) @@ (g :> 4) @@ (cap :> 5)
MCAntidocPackages == {Pin(p3, 1)}
MCVipcContents == {{Pin(p1, 1)}, {Pin(p2, 1)}}
MCDragonContents == {{Pin(p1, 1), Nipm(p2, 1)}, {Pin(p1, 2)}}
MCOsChoices == {{"windows"}, {"linux"}}
WindowsOnly == [monitor |-> "true", on |-> {"windows"}]
LinuxOnly == [monitor |-> "true", on |-> {"linux"}]
MCEntries == {WindowsOnly, LinuxOnly, [monitor |-> "false", on |-> Everywhere]}

\* A repository with one VIPC and one Dragon file, with and without lists.
MCInitRepos ==
  {[file    |-> (a :> {Pin(p1, 1)}) @@ (b :> NoFile) @@ (g :> NoFile)
                  @@ (d :> {Pin(p1, 1), Nipm(p2, 1)}),
    entry   |-> [f \in {a, b, d, g} |-> IF f = a /\ os = "windows" THEN WindowsOnly ELSE NoEntry],
    listed  |-> [vipc |-> os = "windows", dragon |-> FALSE],
    antidoc |-> FALSE,
    use     |-> "latest",
    os      |-> {os}] : os \in {"windows", "linux"}}

=============================================================================
