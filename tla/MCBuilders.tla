----------------------------- MODULE MCBuilders -----------------------------
(***************************************************************************)
(* Small inputs for the builders.                                          *)
(***************************************************************************)
EXTENDS Builders

\* Four VIs of the project, one of the tooling, one named like a tooling folder.
A1 == <<"lib", "a">>
B1 == <<"lib", "sub", "b">>
C1 == <<"app", "c">>
D1 == <<"build">>
T1 == <<".github", "t">>
Workspace == {A1, B1, C1, D1, T1}

\* "strict" finds something everywhere, "loose" in one VI only, "hollow" runs nothing.
Found == [c \in {"builtin", "strict", "loose", "hollow"} |->
            [v \in Workspace |-> CASE c = "builtin" -> {"doc", "style"}
                                   [] c = "strict"  -> {"doc"}
                                   [] c = "loose"   -> IF v = B1 THEN {"style"} ELSE {}
                                   [] OTHER         -> {}]]
Unreadable == [c \in DOMAIN Found |-> IF c = "builtin" THEN {T1} ELSE {}]

RuleOf == [config : {"strict", "loose", "none"}, paths : {{<<"lib">>}, {<<"lib", "sub">>, <<"app">>}, {B1}}]
ManySettings == [default : {"", "none", "strict", "hollow"},
                 rules : {<<>>} \cup {<<r>> : r \in RuleOf} \cup (RuleOf \X RuleOf)]

\* Two VIs share a base name; one caller is the tooling's, one LabVIEW's own.
M1 == <<"Lib", "Main">>
M2 == <<"app", "main">>
S1 == <<"app", "solo">>
G1 == <<".github", "solo">>
V1 == <<"C:", "vi.lib", "error">>
Compiled == {M1, M2, S1, G1}
SmallLetters == "Lib" :> "lib" @@ "Main" :> "main"
Control == <<"app", "type.ctl">>

\* The log breaks the path of S1, its ending, and the folder of G1; the report reads a space.
BrokenS1 == <<"app", "so lo">>
TornS1   == <<"app", "solo.v i">>
BrokenG1 == <<".git hub", "solo">>
NotVI    == {Control, TornS1}

Written ==
  {[kind |-> "bad", path |-> p, read |-> p] : p \in {M1, S1, G1, V1, Control}}
  \cup {[kind |-> "bad", path |-> S1, read |-> r] : r \in {BrokenS1, TornS1}}
  \cup {[kind |-> "bad", path |-> G1, read |-> BrokenG1]}
  \cup {[kind |-> "path", path |-> p, read |-> p, near |-> n] : p \in {Key(M1), M2}, n \in BOOLEAN}
  \cup {[kind |-> "search", dep |-> "x", caller |-> c, read |-> c] : c \in {M1, S1, G1}}
  \cup {[kind |-> "search", dep |-> "x", caller |-> S1, read |-> BrokenS1]}

\* Test VIs, one with a twin.
U1 == <<"tests", "add tests">>
U2 == <<"src", "add">>
U3 == <<"old", "twin">>
U4 == <<"src", "twin">>
TestWorkspace == {U1, U2, U3, U4}
Id(path, vi) == [path |-> path, vi |-> vi]
None == Id(<<>>, FALSE)
CaseOf == [elements : {{}, {"failure"}, {"skipped"}, {"skipped", "error"}},
           file : {None, Id(U1, TRUE)}, class : {None, Id(<<"twin">>, FALSE)},
           name : {Id(<<"add tests">>, FALSE), Id(<<"other">>, FALSE)}]
FewCases == {<<>>} \cup {<<c>> : c \in CaseOf}
            \cup {<<c, [c EXCEPT !.elements = {"failure", "skipped"}]>> : c \in CaseOf}
Torn == [torn |-> TRUE, root |-> "other", own |-> <<>>, nested |-> <<>>]
OneSuite(own, nested) == [torn |-> FALSE, root |-> "testsuite", own |-> own, nested |-> nested]
ManySuites(own, nested) == [torn |-> FALSE, root |-> "other", own |-> own, nested |-> nested]
Failed == [elements |-> {"failure"}, file |-> None, class |-> None, name |-> Id(<<"other">>, FALSE)]
ManyReports == {Torn, ManySuites(<<Failed>>, <<>>), OneSuite(<<>>, <<Failed>>)}
               \cup {ManySuites(<<>>, cases) : cases \in FewCases}
               \cup {OneSuite(<<c>>, <<Failed>>) : c \in CaseOf}
Affixes == "add tests" :> "add" @@ "twin tests" :> "twin"
TwoTools == <<"junit", "utf">>

\* Packages a, b, c: a and b require each other, c is required in two ways.
Rec(n, v, req) == [name |-> n, version |-> v, requires |-> req, assets |-> TRUE]
Req(n, v, op) == [name |-> n, version |-> v, op |-> op]
AnyReq == {<<>>, <<Req("c", 1, ">=")>>, <<Req("c", 2, ">=")>>, <<Req("c", 1, "=")>>, <<Req("b", 0, ""), Req("z", 1, ">=")>>}
PublishedIndexes ==
  {{Rec("a", 1, <<>>), Rec("a", 2, ra), Rec("b", 1, rb), Rec("b", 2, <<Req("a", 1, ">="), Req("c", 0, "")>>),
    Rec("c", 1, <<Req("d", 0, "")>>), Rec("c", 2, rc), Rec("d", 1, <<>>)} :
      ra \in AnyReq, rb \in {<<>>, <<Req("a", 2, ">=")>>}, rc \in {<<>>, <<Req("b", 2, ">=")>>}}
  \cup {{Rec("a", 1, <<>>), [Rec("b", 1, <<Req("a", 1, ">=")>>) EXCEPT !.assets = FALSE]}}

Pkg(n, v) == [name |-> n, version |-> v, include |-> TRUE]
Packages ==
  [defaults : {<<>>, <<Pkg("A", 2)>>, <<Pkg("b", 0), Pkg("c", 2)>>},
   own : {<<>>, <<Pkg("a", 1)>>, <<Pkg("a", 0), Pkg("b", 0)>>, <<Pkg("b", 2), Pkg("c", 1)>>, <<Pkg("b", 2), Pkg("c", 3)>>,
          <<Pkg("c", 0)>>,
          <<Pkg("old-c", 1), Pkg("c", 2)>>, <<[Pkg("a", 1) EXCEPT !.include = FALSE], Pkg("b", 1)>>}]
BigLetters == "A" :> "a"
Aliases == "old-c" :> "c" @@ "A" :> "a"
=============================================================================
