---------------------------- MODULE CompileReport ----------------------------
(***************************************************************************)
(* One mass compile: the container writes its log line by line and exits   *)
(* (or is killed), and build-masscompile-report.py reads the log against   *)
(* the workspace.                                                          *)
(*                                                                         *)
(* A file is its path below the workspace (or elsewhere), a sequence of    *)
(* names; Lower gives a name's lower-case form.  The log breaks its lines  *)
(* where they get long, also inside a name, and the report reads a break   *)
(* as a space: a line holds the VI LabVIEW meant and, as read, what the    *)
(* report makes of the text.  A line is                                    *)
(*   [kind |-> "bad", path, read]         ### Bad VI: ... Path="..."       *)
(*   [kind |-> "path", path, read, near]  another Path="...", near a       *)
(*                                        "bad vi"                         *)
(*   [kind |-> "search", dep, caller, read]  a subVI not found; the log    *)
(*                                  names the caller by its last name only *)
(* The encodings of the log are left out.                                  *)
(***************************************************************************)
EXTENDS Naturals, FiniteSets, SequencesExt

CONSTANTS
  Files,      \* the .vi files of the workspace
  Lower,      \* name -> lower-case name, for the names that change
  NotVIs,     \* paths that do not end in .vi, as read
  LogLines,   \* the lines a container may write
  MaxLines,   \* bound on the lines of a log
  ExitCodes   \* how the container may end

ASSUME CompileAssumption == MaxLines \in Nat /\ 0 \in ExitCodes /\ ExitCodes \subseteq Nat

VARIABLES
  log,         \* the lines written so far
  exit,        \* [state |-> "idle" | "running" | "ended" | "killed", code]
  compilePage  \* the report

compileVars == <<log, exit, compilePage>>

NoPage == [absent |-> TRUE]

-----------------------------------------------------------------------------
(* Names and paths. *)

LowerName(n) == IF n \in DOMAIN Lower THEN Lower[n] ELSE n

Key(path) == [i \in DOMAIN path |-> LowerName(path[i])]

BaseName(path) == LowerName(path[Len(path)])

IsToolingVI(path) == LowerName(Head(path)) \in {".github", "ci-out", "build"} /\ Len(path) > 1

\* The denominator, and the VIs of a base name.
ProjectFiles == {f \in Files : ~IsToolingVI(f)}
ByBase(base) == {f \in ProjectFiles : BaseName(f) = base}

\* Two VIs of the project are different files also in lower case.
ASSUME CaseAssumption == \A f, g \in ProjectFiles : Key(f) = Key(g) => f = g

\* A path has a name, and no name has a colon.
ASSUME PathsAssumption ==
  /\ IsFiniteSet(Files) /\ Files \subseteq Seq(STRING) \ {<<>>}
  /\ \A f \in Files : LowerName(f[1]) # "name:"
  /\ \A l \in LogLines : l.read \in Seq(STRING) \ {<<>>}

\* The lines that may call a VI bad.
Naming == {l \in LogLines : l.kind \in {"bad", "path"}}

\* What is read differs from what was meant in white space only, and no two VIs do.
ASSUME BreaksAssumption ==
  /\ \A l, m \in Naming : Key(l.read) = Key(m.read) => Key(l.path) = Key(m.path)
  /\ \A l \in Naming, f \in Files : Key(l.read) = Key(f) => Key(l.path) = Key(f)
  /\ \A l \in LogLines \ Naming, f \in Files :
        BaseName(l.read) = BaseName(f) /\ l.caller \in Files => BaseName(l.caller) = BaseName(f)

-----------------------------------------------------------------------------
(* The container. *)

WriteLine == /\ exit.state = "running" /\ Len(log) < MaxLines
             /\ \E l \in LogLines : log' = Append(log, l)
             /\ UNCHANGED <<exit, compilePage>>

\* A container that is killed leaves no summary, and no report is built.
Exit == /\ exit.state = "running"
        /\ \/ \E e \in ExitCodes : exit' = [state |-> "ended", code |-> e]
           \/ exit' = [exit EXCEPT !.state = "killed"]
        /\ UNCHANGED <<log, compilePage>>

-----------------------------------------------------------------------------
(* The report. *)

Reported(l) == l.read \notin NotVIs /\ ~IsToolingVI(l.read)

LinesOf(lines, kind) == {i \in DOMAIN lines : lines[i].kind = kind}

\* Mutant of LooseBad: lines whose header was reworded are not read.
LooseNothing(lines) == {}

\* Paths flagged outside a header: only near the words "bad vi".
LooseBad(lines) ==
  {i \in LinesOf(lines, "path") : lines[i].near /\ Reported(lines[i])}

PairedBad(lines) == {i \in LinesOf(lines, "bad") : Reported(lines[i])}

BadKeys(lines) == {Key(lines[i].read) : i \in PairedBad(lines) \cup LooseBad(lines)}

\* A caller's name stands for a VI only when one VI of the project has it.
CallerKey(name) ==
  LET found == ByBase(name)
  IN IF Cardinality(found) = 1 THEN Key(CHOOSE f \in found : TRUE) ELSE <<"name:", name>>

\* The cards: how often each VI was flagged, and the subVIs it misses.
Cards(lines) ==
  LET callers == {CallerKey(BaseName(lines[i].read)) : i \in LinesOf(lines, "search")}
      headers(k) == {i \in PairedBad(lines) : Key(lines[i].read) = k}
  IN [k \in BadKeys(lines) \cup callers |->
        [broken |-> IF headers(k) # {} THEN Cardinality(headers(k))
                    ELSE IF k \in BadKeys(lines) THEN 1 ELSE 0,
         missing |-> {lines[i].dep : i \in {j \in LinesOf(lines, "search") :
                        CallerKey(BaseName(lines[j].read)) = k}}]]

\* 3 is the code of a compile that ended with bad VIs.
Classify(code, total, bad) ==
  LET ok == IF bad > total THEN 0 ELSE total - bad
  IN IF code \notin {0, 3} \/ total = 0 THEN [status |-> "failed", ok |-> 0]
     ELSE IF code = 0 /\ bad = 0 THEN [status |-> "passed", ok |-> ok]
     ELSE IF ok = 0 THEN [status |-> "failed", ok |-> 0]
     ELSE [status |-> "partial", ok |-> ok]

MissingCount(cards) == FoldSet(LAMBDA k, n : n + Cardinality(cards[k].missing), 0, DOMAIN cards)

CompileData(lines, code) ==
  LET cards   == Cards(lines)
      total   == Cardinality(ProjectFiles)
      verdict == Classify(code, total, Cardinality(BadKeys(lines)))
  IN [status  |-> verdict.status, ok |-> verdict.ok, total |-> total,
      bad     |-> Cardinality(BadKeys(lines)),
      missing |-> MissingCount(cards),
      cards   |-> cards]

BuildCompile == /\ exit.state = "ended" /\ compilePage = NoPage
                /\ compilePage' = CompileData(log, exit.code)
                /\ UNCHANGED <<log, exit>>

CompileIdle == log = <<>> /\ exit = [state |-> "idle", code |-> 0] /\ compilePage = NoPage
CompileInit == log = <<>> /\ exit = [state |-> "running", code |-> 0] /\ compilePage = NoPage
CompileNext == WriteLine \/ Exit \/ BuildCompile

-----------------------------------------------------------------------------
(* Properties. *)

\* The lines that call f bad, however they are worded.
Flags(f) == {i \in DOMAIN log : \/ log[i].kind = "bad" /\ Key(log[i].path) = Key(f)
                                \/ log[i].kind = "path" /\ log[i].near /\ Key(log[i].path) = Key(f)}

\* The VIs of the project LabVIEW called bad in a line whose .vi no break tore.
ToldFiles == {f \in ProjectFiles : \E i \in Flags(f) : Reported(log[i])}

\* The page never says more compiled than did: wherever the log's lines are
\* broken, it counts no VI it was told of among the compiled ones, shows each
\* such line on a card that says so, calls a VI of the project bad only if
\* LabVIEW did, and says "passed" only of a compile that ended well and told
\* of nothing.
CountsHonest ==
  compilePage # NoPage =>
    /\ compilePage.ok <= Cardinality(ProjectFiles \ ToldFiles)
    /\ \A f \in ProjectFiles : \A i \in Flags(f) : Reported(log[i]) =>
         /\ Key(log[i].read) \in DOMAIN compilePage.cards
         /\ compilePage.cards[Key(log[i].read)].broken > 0
    /\ \A f \in ProjectFiles :
         Key(f) \in DOMAIN compilePage.cards /\ compilePage.cards[Key(f)].broken > 0
           => f \in ToldFiles
    /\ compilePage.status = "passed" => exit.code = 0 /\ ToldFiles = {}

\* A missing subVI is held against a VI of the project only when that VI asked
\* for it, or the VI that did is none of the project's; a name two VIs of the
\* project have stays a name.
BlameRight ==
  compilePage # NoPage =>
    \A f \in ProjectFiles : Key(f) \in DOMAIN compilePage.cards =>
      \A d \in compilePage.cards[Key(f)].missing :
        \E i \in DOMAIN log : /\ log[i].kind = "search" /\ log[i].dep = d
                              /\ log[i].caller \in ProjectFiles => log[i].caller = f

\* What the report says of a VI of the project, and of the whole, is so.
CompileHonest == CountsHonest /\ BlameRight
=============================================================================
