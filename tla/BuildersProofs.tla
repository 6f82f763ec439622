---------------------------- MODULE BuildersProofs ----------------------------
(***************************************************************************)
(* Proofs about the builders, for any files, rules, logs and indexes.      *)
(***************************************************************************)
EXTENDS Builders, FiniteSetTheorems, SequenceTheorems, WellFoundedInduction, TLAPS

-----------------------------------------------------------------------------
(***************************************************************************)
(* The analyzer report.  The plan is made once; a report is nothing or the *)
(* native report of its pass; the page is the merge of all of them.        *)
(***************************************************************************)
PlanOK ==
  /\ \E n \in Nat : DOMAIN viaPlan = 1..n
  /\ \A i \in DOMAIN viaPlan :
       /\ viaPlan[i].kind \in {"rule", "exclude", "default"}
       /\ viaPlan[i].kind = "rule" => viaPlan[i].config # "none"
  /\ \A i, j \in Default : i = j

PageOf(plan, reports) ==
  IF Single(plan) THEN SinglePage(reports) ELSE Finalize(MergePasses(plan, reports), reports)

PageOK ==
  viaPage # Absent =>
    /\ Len(viaReports) = Len(viaPlan)
    /\ viaPage = PageOf(viaPlan, viaReports)

LEMMA FinalVis == ASSUME NEW vis, NEW reports
  PROVE /\ Finalize(vis, reports).vis = vis
        /\ Finalize(vis, reports).rules = RuleCounts(vis)
BY DEF Finalize

LEMMA LeastIsIn ==
  ASSUME NEW S \in SUBSET Nat, S # {}
  PROVE  LET m == CHOOSE i \in S : \A j \in S : i <= j IN m \in S /\ \A j \in S : m <= j
<1>1. PICK R : R = OpToRel(<, Nat)
  OBVIOUS
<1>2. \A x, y \in Nat : <<x, y>> \in R <=> x < y
  BY <1>1 DEF OpToRel
<1>3. PICK m \in S : \A y \in S : ~(<<y, m>> \in R)
  BY <1>1, NatLessThanWellFounded, WFMin
<1>4. ASSUME NEW j \in S PROVE m <= j
  <2>1. m \in Nat /\ j \in Nat /\ ~(j < m)
    BY <1>2, <1>3
  <2> QED  BY <2>1
<1> QED
  BY <1>4

\* A failure the merge takes: by a rule from the first source, by the default
\* only where no rule applies.
LEMMA FromSource ==
  ASSUME PlanOK, NEW reports, NEW v \in DOMAIN MergePasses(viaPlan, reports)
  PROVE  \E i \in Sources(v, viaPlan, reports) :
           MergePasses(viaPlan, reports)[v] = [config |-> viaPlan[i].config,
                                               failures |-> Failures(reports[i])[v]]
<1> DEFINE S == Sources(v, viaPlan, reports)
           m == CHOOSE i \in S : \A j \in S : i <= j
<1>1. v \in {w \in Code : Sources(w, viaPlan, reports) # {}}
  BY DEF MergePasses
<1>2. S # {} /\ S \in SUBSET Nat
  BY <1>1 DEF Sources, PlanOK
<1>3. m \in S
  <2> HIDE DEF S
  <2> QED  BY <1>2, LeastIsIn
<1>4. MergePasses(viaPlan, reports)[v] = [config |-> viaPlan[m].config,
                                           failures |-> Failures(reports[m])[v]]
  BY <1>1 DEF MergePasses
<1> QED
  BY <1>3, <1>4

LEMMA SingleScope ==
  ASSUME Single(viaPlan), NEW v PROVE Owners(v) = {} /\ Default = {1} /\ ~Excluded(v, viaPlan)
                                      /\ viaPlan[1].config = "builtin" /\ DOMAIN viaPlan = {1}
BY DEF Single, DefaultPass, Owners, Default, Excluded

LEMMA AppliedStep == ASSUME PlanOK, PageOK PROVE AppliedConfig
<1> SUFFICES ASSUME viaPage # Absent, NEW v \in DOMAIN viaPage.vis
             PROVE  /\ ~Excluded(v, viaPlan)
                    /\ \E i \in IF Owners(v) = {} THEN Default ELSE Owners(v) :
                          viaPage.vis[v].config = viaPlan[i].config
  BY DEF AppliedConfig
<1>1. CASE Single(viaPlan)
  <2>1. viaPage.vis = [w \in DOMAIN Failures(viaReports[1]) |->
                         [config |-> "builtin", failures |-> Failures(viaReports[1])[w]]]
    BY <1>1, FinalVis DEF PageOK, PageOf, SinglePage
  <2>2. viaPage.vis[v].config = "builtin"
    BY <2>1
  <2> QED  BY <1>1, <2>2, SingleScope
<1>2. CASE ~Single(viaPlan)
  <2>1. viaPage.vis = MergePasses(viaPlan, viaReports)
    BY <1>2, FinalVis DEF PageOK, PageOf
  <2>2. PICK i \in Sources(v, viaPlan, viaReports) : viaPage.vis[v].config = viaPlan[i].config
    BY <2>1, FromSource
  <2> QED  BY <2>2 DEF Sources, Owners, Default, ClaimedByRule
<1> QED
  BY <1>1, <1>2

LEMMA FindingsStep == ASSUME PlanOK, PageOK PROVE FindingsShown
<1> SUFFICES ASSUME viaPage # Absent, NEW v \in Code, ProjectVI(v), ~Excluded(v, viaPlan),
                    NEW i \in IF Owners(v) = {} THEN Default ELSE Owners(v),
                    Owners(v) \subseteq {i}, viaReports[i] # Absent,
                    v \in DOMAIN viaReports[i].vis
             PROVE  /\ v \in DOMAIN viaPage.vis
                    /\ viaPage.vis[v].failures = viaReports[i].vis[v]
                    /\ \A t \in viaReports[i].vis[v] : v \in viaPage.rules[t]
  BY DEF FindingsShown
<1>1. v \in DOMAIN Failures(viaReports[i]) /\ Failures(viaReports[i])[v] = viaReports[i].vis[v]
  <2>1. ~IsTooling(v)
    <3>1. ~(1 > 1)
      OBVIOUS
    <3>2. Len(v) = 1 => ~(Len(v) > 1)
      BY <3>1, Zenon
    <3>3. Len(v) = 1 => ~IsTooling(v)
      BY <3>2, Zenon DEF IsTooling
    <3>4. Head(v) \notin {".github", "ci-out", "build"} => ~IsTooling(v)
      BY Zenon DEF IsTooling
    <3> QED  BY <3>3, <3>4 DEF ProjectVI
  <2> QED  BY <2>1 DEF Failures
<1>2. /\ v \in DOMAIN viaPage.vis
      /\ viaPage.vis[v].failures = viaReports[i].vis[v]
      /\ viaPage.rules = RuleCounts(viaPage.vis)
  <2>1. CASE Single(viaPlan)
    <3>1. i = 1
      BY <2>1, SingleScope
    <3>2. viaPage = Finalize([w \in DOMAIN Failures(viaReports[1]) |->
                       [config |-> "builtin", failures |-> Failures(viaReports[1])[w]]], viaReports)
      BY <2>1 DEF PageOK, PageOf, SinglePage
    <3>3. viaPage.vis = [w \in DOMAIN Failures(viaReports[1]) |->
                       [config |-> "builtin", failures |-> Failures(viaReports[1])[w]]]
          /\ viaPage.rules = RuleCounts(viaPage.vis)
      BY <3>2, FinalVis
    <3> QED  BY <1>1, <3>1, <3>3
  <2>2. CASE ~Single(viaPlan)
    <3>1. viaPage.vis = MergePasses(viaPlan, viaReports) /\ viaPage.rules = RuleCounts(viaPage.vis)
      BY <2>2, FinalVis DEF PageOK, PageOf
    <3>2. i \in Sources(v, viaPlan, viaReports)
      BY <1>1 DEF Sources, Owners, Default, ClaimedByRule
    <3>3. v \in DOMAIN MergePasses(viaPlan, viaReports)
      BY <3>2 DEF MergePasses
    <3>4. \A j \in Sources(v, viaPlan, viaReports) : j = i
      BY <3>2 DEF Sources, Owners, Default, ClaimedByRule, PlanOK
    <3>5. MergePasses(viaPlan, viaReports)[v] = [config |-> viaPlan[i].config,
                                                 failures |-> Failures(viaReports[i])[v]]
      BY <3>3, <3>4, FromSource
    <3> QED  BY <1>1, <3>1, <3>3, <3>5
  <2> QED  BY <2>1, <2>2
<1>3. ASSUME NEW t \in viaReports[i].vis[v] PROVE v \in viaPage.rules[t]
  BY <1>2 DEF RuleCounts
<1> QED
  BY <1>2, <1>3

\* The rules come first, in their order, and the default last, if at all.
LEMMA PlanMade == ASSUME NEW s \in Settings, viaPlan = Plan(s) PROVE PlanOK
<1> DEFINE def == DefaultOf(s)
<1>1. PICK passes : passes = [i \in DOMAIN s.rules |-> PassOf(s.rules[i])]
  OBVIOUS
<1>2. PICK n \in Nat : DOMAIN s.rules = 1..n
  <2>1. PICK R : s.rules \in Seq(R)
    BY AnalyzerAssumption
  <2> QED  BY <2>1
<1>3. PICK T : T = {DefaultPass(def)} \cup {passes[i] : i \in 1..n}
  OBVIOUS
<1>4. passes \in Seq(T) /\ Len(passes) = n /\ DOMAIN passes = 1..n
  <2>1. passes \in [1..n -> T]
    BY <1>1, <1>2, <1>3
  <2> QED  BY <1>2, <2>1
<1>5. ASSUME NEW i \in 1..n
      PROVE  /\ passes[i].kind \in {"rule", "exclude"}
             /\ passes[i].kind = "rule" => passes[i].config # "none"
  <2>1. passes[i] = PassOf(s.rules[i])
    BY <1>1, <1>2
  <2> QED  BY <2>1 DEF PassOf
<1>6. CASE def = "none"
  <2>1. viaPlan = passes \o <<>>
    BY <1>1, <1>6, Zenon DEF Plan
  <2>2. viaPlan = passes
    BY <1>4, <2>1
  <2>3. Default = {}
    BY <1>4, <1>5, <2>2 DEF Default
  <2> QED  BY <1>4, <1>5, <2>2, <2>3 DEF PlanOK
<1>7. CASE def # "none"
  <2>1. PICK d : d = DefaultPass(def)
    OBVIOUS
  <2>2. d.kind = "default" /\ d \in T
    BY <1>3, <2>1 DEF DefaultPass
  <2>3. viaPlan = passes \o <<d>>
    BY <1>1, <1>7, <2>1, Zenon DEF Plan
  <2>4. /\ DOMAIN viaPlan = 1..(n + 1) /\ viaPlan[n + 1] = d
        /\ \A i \in 1..n : viaPlan[i] = passes[i]
    BY <1>4, <2>2, <2>3
  <2>5. ASSUME NEW i \in DOMAIN viaPlan, i # n + 1 PROVE viaPlan[i] = passes[i] /\ i \in 1..n
    BY <2>4, <2>5
  <2>6. ASSUME NEW i \in Default PROVE i = n + 1
    <3>1. CASE i # n + 1
      <4>1. i \in DOMAIN viaPlan /\ viaPlan[i].kind = "default"
        BY DEF Default
      <4> QED  BY <1>5, <2>5, <3>1, <4>1
    <3> QED  BY <3>1
  <2>7. ASSUME NEW i \in DOMAIN viaPlan
        PROVE  /\ viaPlan[i].kind \in {"rule", "exclude", "default"}
               /\ viaPlan[i].kind = "rule" => viaPlan[i].config # "none"
    <3>1. CASE i = n + 1
      BY <2>2, <2>4, <3>1
    <3>2. CASE i # n + 1
      BY <1>5, <2>5, <3>2
    <3> QED  BY <3>1, <3>2
  <2> QED  BY <2>4, <2>6, <2>7 DEF PlanOK
<1> QED
  BY <1>6, <1>7

\* What the steps of this builder keep.
AnalyzerInv == AnalyzerIdle \/ (PlanOK /\ PageOK)

LEMMA AnalyzerStep == ASSUME AnalyzerInv, AnalyzerNext PROVE AnalyzerInv'
<1>1. CASE AnalyzerIdle
  <2>1. viaPlan = <<>> /\ ~(Len(viaReports) < Len(viaPlan))
    BY <1>1 DEF AnalyzerIdle
  <2> QED  BY <2>1 DEF AnalyzerNext, RunPass, BuildAnalyzer
<1>2. CASE PlanOK /\ PageOK
  <2>1. UNCHANGED viaPlan
    BY DEF AnalyzerNext, RunPass, BuildAnalyzer
  <2>2. PlanOK'
    BY <1>2, <2>1 DEF PlanOK, Default
  <2>3. CASE RunPass
    <3>1. PICK m \in Nat : Len(viaPlan) = m
      BY <1>2 DEF PlanOK
    <3>2. viaPage' = viaPage /\ ~(Len(viaReports) = Len(viaPlan))
      BY <2>3, <3>1 DEF RunPass
    <3>3. PageOK'
      BY <1>2, <3>2 DEF PageOK
    <3> QED  BY <2>2, <3>3 DEF AnalyzerInv
  <2>4. CASE BuildAnalyzer
    <3>1. PageOK'
      BY <2>4 DEF BuildAnalyzer, PageOK, PageOf
    <3> QED  BY <2>2, <3>1 DEF AnalyzerInv
  <2> QED  BY <2>3, <2>4 DEF AnalyzerNext
<1> QED
  BY <1>1, <1>2 DEF AnalyzerInv

\* The merged analyzer report neither hides nor misattributes a failure, for
\* any rules, any order of them, and whichever passes crashed.
THEOREM AnalyzerFaithful == Spec => []MergeFaithful
<1>1. Init => AnalyzerInv
  <2> SUFFICES ASSUME Init, AnalyzerInit PROVE AnalyzerInv
    BY DEF Init, AnalyzerInv
  <2>1. PlanOK
    BY PlanMade DEF AnalyzerInit
  <2> QED  BY <2>1 DEF AnalyzerInit, PageOK, AnalyzerInv
<1>2. AnalyzerInv /\ [Next]_vars => AnalyzerInv'
  <2> SUFFICES ASSUME AnalyzerInv, [Next]_vars PROVE AnalyzerInv'
    OBVIOUS
  <2>1. CASE AnalyzerNext
    BY <2>1, AnalyzerStep
  <2>2. CASE UNCHANGED viaVars
    BY <2>2 DEF viaVars, AnalyzerInv, AnalyzerIdle, PlanOK, Default, PageOK, PageOf, SinglePage
  <2> QED  BY <2>1, <2>2 DEF Next, vars
<1>3. AnalyzerInv => MergeFaithful
  <2>1. AnalyzerIdle => AppliedConfig /\ FindingsShown
    BY DEF AnalyzerIdle, AppliedConfig, FindingsShown
  <2> QED  BY <2>1, AppliedStep, FindingsStep DEF AnalyzerInv, MergeFaithful
<1> QED
  BY <1>1, <1>2, <1>3, PTL DEF Spec

-----------------------------------------------------------------------------
(***************************************************************************)
(* The mass compile report.  The page is written after the container has   *)
(* ended, from the whole log.                                              *)
(***************************************************************************)
CompileInv ==
  /\ log \in Seq(LogLines)
  /\ compilePage # NoPage => exit.state = "ended" /\ compilePage = CompileData(log, exit.code)

LEMMA CompileStep == ASSUME CompileInv, CompileNext PROVE CompileInv'
<1>1. CASE WriteLine
  BY <1>1 DEF CompileInv, WriteLine
<1>2. CASE Exit
  BY <1>2 DEF CompileInv, Exit
<1>3. CASE BuildCompile
  BY <1>3 DEF CompileInv, BuildCompile
<1> QED
  BY <1>1, <1>2, <1>3 DEF CompileNext

LEMMA KeyOf ==
  ASSUME NEW p \in Seq(STRING), p # <<>>
  PROVE  Key(p)[1] = LowerName(p[1]) /\ DOMAIN Key(p) = 1..Len(p) /\ Head(p) = p[1]
BY DEF Key

LEMMA LogFinite ==
  ASSUME CompileInv, NEW I \in SUBSET DOMAIN log
  PROVE  IsFiniteSet(I) /\ (I # {} => Cardinality(I) \in Nat \ {0})
<1>1. DOMAIN log = 1..Len(log) /\ Len(log) \in Nat
  BY DEF CompileInv
<1>2. IsFiniteSet(1..Len(log))
  BY <1>1, FS_Interval
<1>3. IsFiniteSet(I)
  BY <1>1, <1>2, FS_Subset
<1> QED
  BY <1>3, FS_EmptySet, FS_CardinalityType

LEMMA BadFinite == ASSUME CompileInv PROVE IsFiniteSet(BadKeys(log))
<1> DEFINE I == PairedBad(log) \cup LooseBad(log)
           f == [i \in I |-> Key(log[i].read)]
<1>1. I \in SUBSET DOMAIN log
  BY DEF PairedBad, LooseBad, LinesOf
<1>2. IsFiniteSet(I)
  BY <1>1, LogFinite
<1>3. f \in Surjection(I, BadKeys(log))
  BY DEF Surjection, BadKeys
<1> QED
  BY <1>2, <1>3, FS_Surjection

\* A line that names a VI is one of the container's.
LEMMA FlagLines ==
  ASSUME CompileInv, NEW f \in ProjectFiles, NEW i \in Flags(f)
  PROVE  i \in DOMAIN log /\ log[i] \in Naming /\ Key(log[i].path) = Key(f)
<1>1. i \in DOMAIN log /\ log[i].kind \in {"bad", "path"} /\ Key(log[i].path) = Key(f)
  BY DEF Flags
<1>2. log[i] \in LogLines
  BY <1>1 DEF CompileInv
<1> QED
  BY <1>1, <1>2 DEF Naming

\* However a line that flags a VI of the project is worded, it is counted, and
\* no line is counted for two VIs.
LEMMA ToldCounted ==
  ASSUME CompileInv
  PROVE  /\ \A f \in ProjectFiles : \A i \in Flags(f) : Reported(log[i]) => Key(log[i].read) \in BadKeys(log)
         /\ IsFiniteSet(ToldFiles)
         /\ Cardinality(ToldFiles) <= Cardinality(BadKeys(log))
<1>1. ASSUME NEW f \in ProjectFiles, NEW i \in Flags(f), Reported(log[i])
      PROVE  Key(log[i].read) \in BadKeys(log)
  <2>1. i \in PairedBad(log) \cup LooseBad(log)
    BY <1>1 DEF Flags, PairedBad, LooseBad, LinesOf
  <2> QED  BY <2>1 DEF BadKeys
<1> DEFINE at(f) == CHOOSE i \in Flags(f) : Reported(log[i])
           g == [f \in ToldFiles |-> Key(log[at(f)].read)]
<1>2. ASSUME NEW f \in ToldFiles PROVE f \in ProjectFiles /\ at(f) \in Flags(f) /\ Reported(log[at(f)])
  BY DEF ToldFiles
<1> HIDE DEF at
<1>3. ASSUME NEW f \in ToldFiles, NEW h \in ToldFiles, g[f] = g[h] PROVE f = h
  <2>1. /\ log[at(f)] \in Naming /\ Key(log[at(f)].path) = Key(f)
        /\ log[at(h)] \in Naming /\ Key(log[at(h)].path) = Key(h)
    BY <1>2, FlagLines
  <2>2. Key(log[at(f)].read) = Key(log[at(h)].read)
    BY <1>3
  <2>3. Key(f) = Key(h)
    BY <2>1, <2>2, BreaksAssumption
  <2> QED  BY <1>2, <2>3, CaseAssumption
<1>4. \A f \in ToldFiles : g[f] \in BadKeys(log)
  BY <1>1, <1>2
<1>5. g \in Injection(ToldFiles, BadKeys(log))
  <2>1. g \in [ToldFiles -> BadKeys(log)]
    BY <1>4
  <2> HIDE DEF g
  <2> QED  BY <1>3, <2>1 DEF Injection, IsInjective
<1> QED
  BY <1>1, <1>5, BadFinite, FS_Injection

LEMMA CompilePage ==
  ASSUME CompileInv, compilePage # NoPage
  PROVE  LET v == Classify(exit.code, Cardinality(ProjectFiles), Cardinality(BadKeys(log)))
         IN /\ compilePage.status = v.status /\ compilePage.ok = v.ok
            /\ compilePage.cards = Cards(log)
BY DEF CompileInv, CompileData

LEMMA CountsStep == ASSUME CompileInv PROVE CountsHonest
<1> SUFFICES ASSUME compilePage # NoPage
             PROVE  /\ compilePage.ok <= Cardinality(ProjectFiles \ ToldFiles)
                    /\ \A f \in ProjectFiles : \A i \in Flags(f) : Reported(log[i]) =>
                         /\ Key(log[i].read) \in DOMAIN compilePage.cards
                         /\ compilePage.cards[Key(log[i].read)].broken > 0
                    /\ \A f \in ProjectFiles :
                         Key(f) \in DOMAIN compilePage.cards /\ compilePage.cards[Key(f)].broken > 0
                           => f \in ToldFiles
                    /\ compilePage.status = "passed" => exit.code = 0 /\ ToldFiles = {}
  BY DEF CountsHonest
<1> DEFINE total == Cardinality(ProjectFiles)
           bad == Cardinality(BadKeys(log))
           told == Cardinality(ToldFiles)
           v == Classify(exit.code, total, bad)
<1>1. compilePage.status = v.status /\ compilePage.ok = v.ok /\ compilePage.cards = Cards(log)
  BY CompilePage
<1>2. total \in Nat /\ bad \in Nat /\ told \in Nat /\ told <= bad
      /\ Cardinality(ProjectFiles \ ToldFiles) = total - told
      /\ total - told \in Nat
  <2>1. IsFiniteSet(ProjectFiles)
    BY PathsAssumption, FS_Subset DEF ProjectFiles
  <2>2. ProjectFiles \cap ToldFiles = ToldFiles
    BY DEF ToldFiles
  <2>3. Cardinality(ProjectFiles \ ToldFiles) = total - told
        /\ IsFiniteSet(ProjectFiles \ ToldFiles)
    BY <2>1, <2>2, FS_Difference
  <2>4. total - told \in Nat
    BY <2>3, FS_CardinalityType
  <2> QED  BY <2>1, <2>3, <2>4, ToldCounted, BadFinite, FS_CardinalityType
<1>3. v.ok \in {0, total - bad} /\ (v.ok # 0 => bad <= total)
  <2> HIDE DEF total, bad
  <2> QED  BY <1>2 DEF Classify
<1>4. compilePage.ok <= Cardinality(ProjectFiles \ ToldFiles)
  <2> HIDE DEF total, bad, told, v
  <2> QED  BY <1>1, <1>2, <1>3
<1>5. ASSUME NEW f \in ProjectFiles, NEW i \in Flags(f), Reported(log[i])
      PROVE  Key(log[i].read) \in DOMAIN compilePage.cards /\ compilePage.cards[Key(log[i].read)].broken > 0
  <2> DEFINE k == Key(log[i].read)
             headers == {j \in PairedBad(log) : Key(log[j].read) = k}
  <2>1. k \in BadKeys(log)
    BY <1>5, ToldCounted
  <2>2. headers # {} => Cardinality(headers) \in Nat \ {0}
    <3>1. headers \in SUBSET DOMAIN log
      BY DEF PairedBad, LinesOf
    <3> HIDE DEF headers
    <3> QED  BY <3>1, LogFinite
  <2>3. k \in DOMAIN Cards(log)
        /\ Cards(log)[k].broken = IF headers # {} THEN Cardinality(headers) ELSE 1
    BY <2>1 DEF Cards
  <2> HIDE DEF headers, k
  <2>4. Cards(log)[k].broken > 0
    BY <2>2, <2>3
  <2> QED  BY <1>1, <2>3, <2>4 DEF k
<1>7. ASSUME NEW f \in ProjectFiles, Key(f) \in DOMAIN compilePage.cards,
             compilePage.cards[Key(f)].broken > 0
      PROVE  f \in ToldFiles
  <2> DEFINE headers == {j \in PairedBad(log) : Key(log[j].read) = Key(f)}
  <2>1. Cards(log)[Key(f)].broken = IF headers # {} THEN Cardinality(headers)
                                    ELSE IF Key(f) \in BadKeys(log) THEN 1 ELSE 0
    BY <1>1, <1>7 DEF Cards
  <2>2. headers # {} \/ Key(f) \in BadKeys(log)
    <3> HIDE DEF headers
    <3> QED  BY <1>1, <1>7, <2>1
  <2>3. PICK i \in PairedBad(log) \cup LooseBad(log) : Key(log[i].read) = Key(f)
    BY <2>2 DEF BadKeys
  <2>4. i \in DOMAIN log /\ Reported(log[i]) /\ log[i].kind \in {"bad", "path"}
        /\ (log[i].kind = "path" => log[i].near)
    BY <2>3 DEF PairedBad, LooseBad, LinesOf
  <2>5. log[i] \in Naming
    BY <2>4 DEF CompileInv, Naming
  <2>6. Key(log[i].path) = Key(f)
    BY <2>3, <2>5, BreaksAssumption DEF ProjectFiles
  <2> QED  BY <2>4, <2>6 DEF ToldFiles, Flags
<1>6. ASSUME compilePage.status = "passed" PROVE exit.code = 0 /\ ToldFiles = {}
  <2>1. exit.code = 0 /\ bad = 0
    <3> HIDE DEF total, bad
    <3> QED  BY <1>1, <1>6 DEF Classify
  <2>2. told = 0
    <3> HIDE DEF bad, told
    <3> QED  BY <1>2, <2>1
  <2> QED  BY <2>1, <2>2, ToldCounted, FS_EmptySet
<1> QED
  BY <1>4, <1>5, <1>6, <1>7

\* A caller of the project is found by its own name or not at all.
LEMMA CallerFound ==
  ASSUME NEW f \in ProjectFiles, NEW n, CallerKey(n) = Key(f)
  PROVE  ByBase(n) = {f}
<1> DEFINE found == ByBase(n)
<1>1. f \in Seq(STRING) /\ f # <<>> /\ LowerName(f[1]) # "name:"
  BY PathsAssumption DEF ProjectFiles
<1>2. IsFiniteSet(found)
  BY PathsAssumption, FS_Subset DEF ByBase, ProjectFiles
<1>3. CASE Cardinality(found) = 1
  <2>1. PICK x : found = {x}
    BY <1>2, <1>3, FS_Singleton
  <2>2. x \in ProjectFiles /\ (CHOOSE y \in found : TRUE) = x
    BY <2>1 DEF ByBase
  <2>3. Key(x) = Key(f)
    BY <1>3, <2>2 DEF CallerKey
  <2> QED  BY <2>1, <2>2, <2>3, CaseAssumption
<1>4. CASE Cardinality(found) # 1
  <2>1. Key(f) = <<"name:", n>>
    BY <1>4 DEF CallerKey
  <2>2. Key(f)[1] = "name:"
    BY <2>1
  <2> QED  BY <1>1, <2>2, KeyOf
<1> QED
  BY <1>3, <1>4

LEMMA BlameStep == ASSUME CompileInv PROVE BlameRight
<1> SUFFICES ASSUME compilePage # NoPage, NEW f \in ProjectFiles,
                    Key(f) \in DOMAIN compilePage.cards,
                    NEW d \in compilePage.cards[Key(f)].missing
             PROVE  \E i \in DOMAIN log : /\ log[i].kind = "search" /\ log[i].dep = d
                                          /\ log[i].caller \in ProjectFiles => log[i].caller = f
  BY DEF BlameRight
<1>1. compilePage.cards = Cards(log)
  BY CompilePage
<1>2. Cards(log)[Key(f)].missing =
        {log[i].dep : i \in {j \in LinesOf(log, "search") :
                               CallerKey(BaseName(log[j].read)) = Key(f)}}
  BY <1>1 DEF Cards
<1>3. PICK i \in LinesOf(log, "search") :
        log[i].dep = d /\ CallerKey(BaseName(log[i].read)) = Key(f)
  BY <1>1, <1>2
<1>4. i \in DOMAIN log /\ log[i].kind = "search" /\ log[i] \in LogLines \ Naming
  BY <1>3 DEF LinesOf, CompileInv, Naming
<1>5. ASSUME log[i].caller \in ProjectFiles PROVE log[i].caller = f
  <2>1. ByBase(BaseName(log[i].read)) = {f}
    BY <1>3, CallerFound
  <2>2. BaseName(f) = BaseName(log[i].read)
    BY <2>1 DEF ByBase
  <2>3. BaseName(log[i].caller) = BaseName(f)
    BY <1>4, <1>5, <2>2, BreaksAssumption DEF ProjectFiles
  <2>4. log[i].caller \in ByBase(BaseName(log[i].read))
    BY <1>5, <2>2, <2>3 DEF ByBase
  <2> QED  BY <2>1, <2>4
<1> QED
  BY <1>3, <1>4, <1>5

\* Whatever a container logs, wherever the log breaks its lines, and however
\* it ends: the mass compile page counts no VI it was told of as compiled,
\* calls none bad that LabVIEW did not, and blames no VI of the project for
\* another's missing subVI.
THEOREM CompileTrue == Spec => []CompileHonest
<1>1. Init => CompileInv
  <2> SUFFICES ASSUME Init PROVE CompileInv
    OBVIOUS
  <2>1. log = <<>> /\ compilePage = NoPage
    BY DEF Init, CompileInit, CompileIdle
  <2> QED  BY <2>1 DEF CompileInv
<1>2. CompileInv /\ [Next]_vars => CompileInv'
  <2> SUFFICES ASSUME CompileInv, [Next]_vars PROVE CompileInv'
    OBVIOUS
  <2>1. CASE CompileNext
    BY <2>1, CompileStep
  <2>2. CASE UNCHANGED compileVars
    BY <2>2 DEF compileVars, CompileInv
  <2> QED  BY <2>1, <2>2 DEF Next, vars
<1>3. CompileInv => CompileHonest
  BY CountsStep, BlameStep DEF CompileHonest
<1> QED
  BY <1>1, <1>2, <1>3, PTL DEF Spec

-----------------------------------------------------------------------------
(***************************************************************************)
(* The unit tests.  The page is merged once every tool had its turn, so no *)
(* result file is written after it.                                        *)
(***************************************************************************)
ResultFile == [tool : STRING, torn : BOOLEAN, root : {"testsuite", "other"},
               own : Seq(TestCase), nested : Seq(TestCase)]

TestsInv ==
  /\ ran \in -1..Len(Tools) /\ results \in Seq(ResultFile)
  /\ testPage # Unbuilt => ran = Len(Tools) /\ testPage = TestData(results, issues)

LEMMA TestsStep == ASSUME TestsInv, TestsNext PROVE TestsInv'
<1>1. Len(Tools) \in Nat /\ ran \in Int
  BY TestAssumption DEF TestsInv
<1>2. CASE ToolWrites \/ ToolFails
  <2>1. ran >= 0 /\ ran < Len(Tools) /\ testPage' = testPage /\ ran' = ran + 1
    BY <1>2 DEF ToolWrites, ToolFails, Leaves
  <2>2. testPage = Unbuilt /\ ran' \in -1..Len(Tools)
    BY <1>1, <2>1 DEF TestsInv
  <2>3. PICK file : Leaves(file) /\ (file = <<>> \/ file \in Seq(ResultFile))
    <3>1. CASE ToolFails
      BY <3>1 DEF ToolFails
    <3>2. CASE ToolWrites
      <4>1. Tools[ran + 1] \in STRING
        BY <1>1, <2>1, TestAssumption
      <4>2. PICK r \in Reports :
              Leaves(<<[tool |-> Tools[ran + 1], torn |-> r.torn, root |-> r.root,
                        own |-> r.own, nested |-> r.nested]>>)
        BY <3>2 DEF ToolWrites
      <4>3. r \in Report
        BY TestAssumption
      <4> DEFINE made == [tool |-> Tools[ran + 1], torn |-> r.torn, root |-> r.root,
                          own |-> r.own, nested |-> r.nested]
      <4>4. made \in ResultFile
        BY <4>1, <4>3 DEF ResultFile, Report
      <4> HIDE DEF made
      <4>5. <<made>> \in Seq(ResultFile)
        BY <4>4
      <4>6. Leaves(<<made>>)
        BY <4>2 DEF made
      <4> QED  BY <4>5, <4>6
    <3> QED  BY <1>2, <3>1, <3>2
  <2>4. results' = results \o file /\ results \in Seq(ResultFile)
    BY <2>3 DEF Leaves, TestsInv
  <2>5. file \in Seq(ResultFile)
    <3>1. <<>> \in Seq(ResultFile)
      OBVIOUS
    <3> QED  BY <2>3, <3>1
  <2>6. results \o file \in Seq(ResultFile)
    BY <2>4, <2>5, ConcatProperties
  <2> QED  BY <2>1, <2>2, <2>4, <2>6 DEF TestsInv
<1>3. CASE BuildTests
  BY <1>3 DEF BuildTests, TestsInv
<1> QED
  BY <1>2, <1>3 DEF TestsNext

LEMMA FoundCases ==
  ASSUME TestsInv, NEW i \in DOMAIN results
  PROVE  CasesIn(results[i]) \in Seq(TestCase)
<1>1. results[i] \in ResultFile
  BY DEF TestsInv
<1>2. results[i].own \in Seq(TestCase) /\ results[i].nested \in Seq(TestCase)
  BY <1>1 DEF ResultFile
<1>3. <<>> \in Seq(TestCase)
  OBVIOUS
<1> QED
  BY <1>2, <1>3 DEF CasesIn

LEMMA CasesFinite == ASSUME TestsInv PROVE IsFiniteSet(Cases)
<1> DEFINE Of(i) == {i} \X DOMAIN CasesIn(results[i])
           S == {Of(i) : i \in DOMAIN results}
           f == [i \in DOMAIN results |-> Of(i)]
<1>1. IsFiniteSet(DOMAIN results)
  <2>1. DOMAIN results = 1..Len(results) /\ Len(results) \in Nat
    BY DEF TestsInv
  <2> QED  BY <2>1, FS_Interval
<1>2. ASSUME NEW i \in DOMAIN results PROVE IsFiniteSet(Of(i))
  <2>1. CasesIn(results[i]) \in Seq(TestCase)
    BY FoundCases
  <2>2. IsFiniteSet(DOMAIN CasesIn(results[i]))
    <3>1. DOMAIN CasesIn(results[i]) = 1..Len(CasesIn(results[i])) /\ Len(CasesIn(results[i])) \in Nat
      BY <2>1
    <3> QED  BY <3>1, FS_Interval
  <2>3. IsFiniteSet({i})
    BY FS_Singleton
  <2> QED  BY <2>2, <2>3, FS_Product
<1>3. f \in Surjection(DOMAIN results, S)
  <2> HIDE DEF Of
  <2> QED  BY DEF Surjection
<1>4. IsFiniteSet(S)
  <2> HIDE DEF f, S
  <2> QED  BY <1>1, <1>3, FS_Surjection
<1>5. IsFiniteSet(UNION S)
  <2>1. \A T \in S : IsFiniteSet(T)
    BY <1>2
  <2> HIDE DEF S
  <2> QED  BY <1>4, <2>1, FS_UNION
<1> QED
  BY <1>5 DEF Cases

\* The four statuses share the cases out.
With(status) == {at \in Cases : CaseStatus(CaseAt(at)) = status}

LEMMA StatusesShare ==
  ASSUME TestsInv
  PROVE  /\ \A s \in {"passed", "failed", "error", "skipped"} :
              IsFiniteSet(With(s)) /\ Cardinality(With(s)) \in Nat
         /\ Cardinality(Cases) =
              Cardinality(With("passed")) + Cardinality(With("failed"))
                + Cardinality(With("error")) + Cardinality(With("skipped"))
<1>1. ASSUME NEW s PROVE IsFiniteSet(With(s)) /\ Cardinality(With(s)) \in Nat
  <2>1. With(s) \in SUBSET Cases
    BY DEF With
  <2> QED  BY <2>1, CasesFinite, FS_Subset, FS_CardinalityType
<1> DEFINE P == With("passed")
           F == With("failed")
           E == With("error")
           S == With("skipped")
<1>2. Cases = ((P \cup F) \cup E) \cup S
  BY DEF With, CaseStatus
<1>3. P \cap F = {} /\ (P \cup F) \cap E = {} /\ ((P \cup F) \cup E) \cap S = {}
  BY DEF With
<1>4. /\ IsFiniteSet(P) /\ IsFiniteSet(F) /\ IsFiniteSet(E) /\ IsFiniteSet(S)
      /\ Cardinality(P) \in Nat /\ Cardinality(F) \in Nat /\ Cardinality(E) \in Nat
      /\ Cardinality(S) \in Nat
  BY <1>1
<1> HIDE DEF P, F, E, S
<1>5. Cardinality({}) = 0
  BY FS_EmptySet
<1>6. IsFiniteSet(P \cup F) /\ Cardinality(P \cup F) = Cardinality(P) + Cardinality(F)
  <2>1. IsFiniteSet(P \cup F)
        /\ Cardinality(P \cup F) = Cardinality(P) + Cardinality(F) - Cardinality(P \cap F)
    BY <1>4, FS_Union
  <2>2. Cardinality(P \cap F) = 0
    BY <1>3, <1>5
  <2> QED  BY <1>4, <2>1, <2>2
<1>7. IsFiniteSet((P \cup F) \cup E)
      /\ Cardinality((P \cup F) \cup E) = Cardinality(P) + Cardinality(F) + Cardinality(E)
  <2>1. IsFiniteSet((P \cup F) \cup E)
        /\ Cardinality((P \cup F) \cup E) =
             Cardinality(P \cup F) + Cardinality(E) - Cardinality((P \cup F) \cap E)
    BY <1>4, <1>6, FS_Union
  <2>2. Cardinality((P \cup F) \cap E) = 0
    BY <1>3, <1>5
  <2> QED  BY <1>4, <1>6, <2>1, <2>2
<1>8. Cardinality(((P \cup F) \cup E) \cup S) =
        Cardinality(P) + Cardinality(F) + Cardinality(E) + Cardinality(S)
  <2>1. Cardinality(((P \cup F) \cup E) \cup S) =
          Cardinality((P \cup F) \cup E) + Cardinality(S) - Cardinality(((P \cup F) \cup E) \cap S)
    BY <1>4, <1>7, FS_Union
  <2>2. Cardinality(((P \cup F) \cup E) \cap S) = 0
    BY <1>3, <1>5
  <2> QED  BY <1>4, <1>7, <2>1, <2>2
<1>9. Cardinality(Cases) =
        Cardinality(P) + Cardinality(F) + Cardinality(E) + Cardinality(S)
  BY <1>2, <1>8
<1> QED
  BY <1>1, <1>9 DEF P, F, E, S

\* The page counts what the files have.
LEMMA Counted ==
  ASSUME NEW s
  PROVE  Count([i \in DOMAIN results |-> SuiteFrom(results[i])], s) = Cardinality(With(s))
<1> DEFINE suites == [i \in DOMAIN results |-> SuiteFrom(results[i])]
           Placed == UNION {{i} \X DOMAIN suites[i].cases : i \in DOMAIN suites}
<1>1. \A i \in DOMAIN results : DOMAIN suites[i].cases = DOMAIN CasesIn(results[i])
  BY DEF SuiteFrom
<1>2. Placed = Cases
  BY <1>1 DEF Cases
<1>3. ASSUME NEW at \in Cases
      PROVE  suites[at[1]].cases[at[2]].status = CaseStatus(CaseAt(at))
  <2>1. at[1] \in DOMAIN results /\ at[2] \in DOMAIN CasesIn(results[at[1]])
    BY DEF Cases
  <2> QED  BY <2>1 DEF SuiteFrom, CaseAt
<1>4. {at \in Placed : suites[at[1]].cases[at[2]].status = s} = With(s)
  <2> HIDE DEF suites, Placed
  <2> QED  BY <1>2, <1>3 DEF With
<1> QED
  BY <1>4 DEF Count

\* A case's status is its gravest element.
LEMMA Gravest ==
  ASSUME TestsInv, NEW at \in Cases
  PROVE  LET e == CaseAt(at).elements
         IN /\ e \in Marks
            /\ CaseStatus(CaseAt(at)) = "failed" <=> "failure" \in e
            /\ CaseStatus(CaseAt(at)) = "error" <=> "error" \in e /\ "failure" \notin e
            /\ CaseStatus(CaseAt(at)) = "skipped" <=> e = {"skipped"}
            /\ CaseStatus(CaseAt(at)) = "passed" <=> e = {}
<1>1. at[1] \in DOMAIN results /\ at[2] \in DOMAIN CasesIn(results[at[1]])
  BY DEF Cases
<1>2. CasesIn(results[at[1]]) \in Seq(TestCase)
  BY <1>1, FoundCases
<1>3. CaseAt(at) \in TestCase
  BY <1>1, <1>2 DEF CaseAt
<1> DEFINE e == CaseAt(at).elements
<1>4. e \in SUBSET {"failure", "error", "skipped"}
  BY <1>3 DEF TestCase
<1>5. CaseStatus(CaseAt(at)) = IF "failure" \in e THEN "failed"
                               ELSE IF "error" \in e THEN "error"
                               ELSE IF "skipped" \in e THEN "skipped" ELSE "passed"
  BY DEF CaseStatus
<1> HIDE DEF e
<1>6. e = {"skipped"} <=> "skipped" \in e /\ "error" \notin e /\ "failure" \notin e
  BY <1>4
<1>7. e = {} <=> "skipped" \notin e /\ "error" \notin e /\ "failure" \notin e
  BY <1>4
<1> QED
  BY <1>4, <1>5, <1>6, <1>7 DEF Marks, e

LEMMA Columns ==
  ASSUME TestsInv
  PROVE  /\ Cardinality(With("failed")) = Marked({e \in Marks : "failure" \in e})
         /\ Cardinality(With("error")) = Marked({e \in Marks : "error" \in e /\ "failure" \notin e})
         /\ Cardinality(With("skipped")) = Marked({{"skipped"}})
         /\ Cardinality(With("passed")) = Marked({{}})
<1>1. With("failed") = {at \in Cases : CaseAt(at).elements \in {e \in Marks : "failure" \in e}}
  BY Gravest DEF With
<1>2. With("error") = {at \in Cases : CaseAt(at).elements \in
                          {e \in Marks : "error" \in e /\ "failure" \notin e}}
  BY Gravest DEF With
<1>3. With("skipped") = {at \in Cases : CaseAt(at).elements \in {{"skipped"}}}
  BY Gravest DEF With
<1>4. With("passed") = {at \in Cases : CaseAt(at).elements \in {{}}}
  BY Gravest DEF With
<1> QED
  BY <1>1, <1>2, <1>3, <1>4 DEF Marked

LEMMA VerdictStep == ASSUME TestsInv PROVE VerdictRight
<1> SUFFICES ASSUME testPage # Unbuilt PROVE VerdictRight
  BY DEF VerdictRight
<1> DEFINE P == Cardinality(With("passed"))
           F == Cardinality(With("failed"))
           E == Cardinality(With("error"))
           S == Cardinality(With("skipped"))
           suites == [i \in DOMAIN results |-> SuiteFrom(results[i])]
<1>1. testPage = TestData(results, issues)
  BY DEF TestsInv
<1>2. /\ testPage.suites = suites
      /\ testPage.tests = P + F + E + S
      /\ testPage.status = Verdict(P, F, E, P + F + E + S)
      /\ \A s \in Statuses : testPage.counts[s] = Cardinality(With(s))
  BY <1>1, Counted DEF TestData
<1>3. P \in Nat /\ F \in Nat /\ E \in Nat /\ S \in Nat
  BY StatusesShare
<1>4. testPage.tests = Cardinality(Cases)
  BY <1>2, StatusesShare
<1>5. ASSUME testPage.status \in {"passed", "empty"}, NEW at \in Cases
      PROVE  CaseAt(at).elements \cap {"failure", "error"} = {}
  <2>1. F = 0 /\ E = 0
    <3> HIDE DEF P, F, E, S
    <3> QED  BY <1>2, <1>3, <1>5 DEF Verdict
  <2>2. With("failed") = {} /\ With("error") = {}
    BY <2>1, StatusesShare, FS_EmptySet
  <2>3. CaseStatus(CaseAt(at)) \notin {"failed", "error"}
    BY <2>2 DEF With
  <2> QED  BY <2>3 DEF CaseStatus
<1>6. ASSUME NEW i \in DOMAIN results, results[i].torn PROVE testPage.suites[i].parseError
  BY <1>2, <1>6 DEF SuiteFrom
<1>7. /\ testPage.counts["failed"] = F /\ testPage.counts["error"] = E
      /\ testPage.counts["skipped"] = S /\ testPage.counts["passed"] = P
  BY <1>2 DEF Statuses
<1> QED
  BY <1>4, <1>5, <1>6, <1>7, Columns DEF VerdictRight

\* A path is believed; a name is resolved to the one VI that has it.
LEMMA Resolved ==
  ASSUME NEW id, ResolveVI(id) # <<>>
  PROVE  \/ id.vi /\ ResolveVI(id) = id.path
         \/ id.path # <<>> /\ Only(ResolveVI(id), id.path[Len(id.path)])
<1> DEFINE n == id.path[Len(id.path)]
           v == CHOOSE f \in Named(n) : TRUE
<1>1. \/ id.vi /\ ResolveVI(id) = id.path
      \/ id.path # <<>> /\ Cardinality(Named(n)) = 1 /\ ResolveVI(id) = v
  BY DEF ResolveVI
<1>2. ASSUME Cardinality(Named(n)) = 1 PROVE Only(v, n)
  <2>1. Named(n) \in SUBSET TestFiles
    BY DEF Named, TestVIs
  <2>2. IsFiniteSet(Named(n))
    BY <2>1, TestAssumption, FS_Subset
  <2>3. PICK x : Named(n) = {x}
    BY <1>2, <2>2, FS_Singleton
  <2>4. v = x
    BY <2>3
  <2>5. \A f \in TestVIs : f[Len(f)] = n <=> f = x
    BY <2>3 DEF Named
  <2>6. x \in TestVIs
    BY <2>3 DEF Named
  <2> QED  BY <2>4, <2>5, <2>6 DEF Only
<1> QED
  BY <1>1, <1>2

LEMMA LinksStep == ASSUME TestsInv PROVE LinksRight
<1> SUFFICES ASSUME testPage # Unbuilt, NEW at \in Cases
             PROVE  LET case  == CaseAt(at)
                        shown == testPage.suites[at[1]].cases[at[2]]
                        named == IF shown.test # <<>> THEN shown.test ELSE case.name.path
                        bare  == named[Len(named)]
                    IN /\ shown.test # <<>> =>
                            \E id \in {case.file, case.class, case.name} :
                              \/ id.vi /\ shown.test = id.path
                              \/ id.path # <<>> /\ Only(shown.test, id.path[Len(id.path)])
                       /\ shown.target # <<>> => bare \in DOMAIN Stem /\ Only(shown.target, Stem[bare])
  BY DEF LinksRight
<1> DEFINE case == CaseAt(at)
           shown == testPage.suites[at[1]].cases[at[2]]
           named == IF shown.test # <<>> THEN shown.test ELSE case.name.path
           bare  == named[Len(named)]
<1>1. shown.test = TestVI(case) /\ shown.target = Target(case)
  <2>1. testPage.suites = [k \in DOMAIN results |-> SuiteFrom(results[k])]
    BY DEF TestsInv, TestData
  <2>2. at[1] \in DOMAIN results /\ at[2] \in DOMAIN CasesIn(results[at[1]])
    BY DEF Cases
  <2> QED  BY <2>1, <2>2 DEF SuiteFrom, CaseAt
<1> HIDE DEF case, shown
<1>2. ASSUME shown.test # <<>>
      PROVE  \E id \in {case.file, case.class, case.name} :
               \/ id.vi /\ shown.test = id.path
               \/ id.path # <<>> /\ Only(shown.test, id.path[Len(id.path)])
  <2>1. PICK id \in {case.file, case.class, case.name} : shown.test = ResolveVI(id)
    BY <1>1 DEF TestVI, Or
  <2> QED  BY <1>2, <2>1, Resolved
<1>3. ASSUME shown.target # <<>> PROVE bare \in DOMAIN Stem /\ Only(shown.target, Stem[bare])
  <2>1. named = Or(TestVI(case), case.name.path)
    BY <1>1 DEF Or
  <2> HIDE DEF named
  <2>2. bare \in DOMAIN Stem /\ shown.target = ResolveVI([path |-> <<Stem[bare]>>, vi |-> FALSE])
    BY <1>1, <1>3, <2>1 DEF Target
  <2> DEFINE id == [path |-> <<Stem[bare]>>, vi |-> FALSE]
  <2>3. ~id.vi /\ id.path[Len(id.path)] = Stem[bare]
    OBVIOUS
  <2>4. shown.target = ResolveVI(id)
    BY <2>2
  <2> HIDE DEF id, bare
  <2> QED  BY <1>3, <2>2, <2>3, <2>4, Resolved
<1> QED
  BY <1>2, <1>3 DEF case, shown

\* Whatever the tools write, the page and the status drawn from it are green
\* only when no test the reader found failed, every case found is counted once
\* and with its gravest element, and a case is linked to a VI whose path it
\* gives or whose name it gives and no other VI of the workspace has.
THEOREM TestsTrue == Spec => []TestsHonest
<1>1. Init => TestsInv
  <2> SUFFICES ASSUME Init PROVE TestsInv
    OBVIOUS
  <2>1. ran \in {-1, 0} /\ results = <<>> /\ testPage = Unbuilt
    BY DEF Init, TestsIdle, TestsInit
  <2>2. Len(Tools) \in Nat
    BY TestAssumption
  <2>3. ran \in -1..Len(Tools)
    BY <2>1, <2>2
  <2> QED  BY <2>1, <2>3 DEF TestsInv
<1>2. TestsInv /\ [Next]_vars => TestsInv'
  <2> SUFFICES ASSUME TestsInv, [Next]_vars PROVE TestsInv'
    OBVIOUS
  <2>1. CASE TestsNext
    BY <2>1, TestsStep
  <2>2. CASE UNCHANGED testVars
    BY <2>2 DEF testVars, TestsInv
  <2> QED  BY <2>1, <2>2 DEF Next, vars
<1>3. TestsInv => TestsHonest
  BY VerdictStep, LinksStep DEF TestsHonest
<1> QED
  BY <1>1, <1>2, <1>3, PTL DEF Spec

-----------------------------------------------------------------------------
(***************************************************************************)
(* The package closure.  A record is pushed only for a request not taken   *)
(* up before.                                                              *)
(***************************************************************************)
StackInv ==
  /\ \E T : stack \in Seq(T)
  /\ IsFiniteSet(visiting) /\ Len(stack) <= Cardinality(visiting)

\* A request leaves the stack, or adds one record and one request.
LEMMA TakeStep ==
  ASSUME StackInv, NEW written, NEW required, NEW rest,
         \E T : rest \in Seq(T), Len(rest) <= Len(stack),
         Take(written, required, rest)
  PROVE  StackInv'
<1> DEFINE r == Effective(written)
<1>1. PICK T : stack \in Seq(T)
  BY DEF StackInv
<1>2. PICK U : rest \in Seq(U)
  OBVIOUS
<1>3. Len(stack) \in Nat /\ Len(rest) \in Nat /\ Cardinality(visiting) \in Nat
      /\ IsFiniteSet(visiting) /\ Len(rest) <= Cardinality(visiting)
  BY <1>1, <1>2, FS_CardinalityType DEF StackInv
<1>4. CASE Guarded(r)
  BY <1>2, <1>3, <1>4 DEF Take, StackInv
<1>5. CASE ~Guarded(r)
  <2>1. visiting' = visiting \cup {r} /\ r \notin visiting
    BY <1>5 DEF Take, Guarded
  <2>2. IsFiniteSet(visiting') /\ Cardinality(visiting') = Cardinality(visiting) + 1
    BY <1>3, <2>1, FS_AddElement
  <2>3. stack' = rest \/ \E x : stack' = Append(rest, x)
    BY <1>5 DEF Take
  <2>4. CASE stack' = rest
    BY <1>2, <1>3, <2>2, <2>4 DEF StackInv
  <2>5. ASSUME NEW x, stack' = Append(rest, x) PROVE StackInv'
    <3>1. PICK W : W = U \cup {x}
      OBVIOUS
    <3>2. rest \in Seq(W) /\ x \in W
      <4>1. rest \in [1..Len(rest) -> W]
        BY <1>2, <3>1
      <4> QED  BY <1>3, <3>1, <4>1
    <3>3. stack' \in Seq(W) /\ Len(stack') = Len(rest) + 1
      BY <2>5, <3>2
    <3> QED  BY <1>3, <2>2, <3>3 DEF StackInv
  <2> QED  BY <2>3, <2>4, <2>5
<1> QED
  BY <1>4, <1>5

LEMMA FrontShorter ==
  ASSUME NEW T, NEW s \in Seq(T), s # <<>>
  PROVE  Front(s) \in Seq(T) /\ Len(Front(s)) = Len(s) - 1 /\ Len(s) \in Nat \ {0}
<1>1. Len(s) \in Nat /\ s \in [1..Len(s) -> T]
  OBVIOUS
<1>2. Len(s) # 0
  OBVIOUS
<1>3. \A i \in 1..(Len(s) - 1) : s[i] \in T
  BY <1>1
<1>4. CASE Len(s) = 1
  <2>1. SubSeq(s, 1, 0) = <<>>
    BY SubSeqEmpty
  <2>2. Len(s) - 1 = 0 /\ Front(s) = <<>>
    BY <1>4, <2>1 DEF Front
  <2>3. Front(s) \in Seq(T) /\ Len(Front(s)) = 0
    BY <2>2
  <2>4. Len(Front(s)) = Len(s) - 1
    BY <2>2, <2>3
  <2>5. Len(s) \in Nat \ {0}
    BY <1>4
  <2> QED  BY <2>3, <2>4, <2>5
<1>5. CASE Len(s) > 1
  <2> DEFINE n == Len(s) - 1
  <2>1. n \in Int /\ 1 \in Int /\ 1 <= n
    BY <1>1, <1>5
  <2>2. SubSeq(s, 1, n) \in Seq(T) /\ Len(SubSeq(s, 1, n)) = n - 1 + 1
    BY <2>1, <1>3, SubSeqProperties
  <2> QED  BY <1>1, <1>5, <2>2 DEF Front
<1>6. Len(s) = 1 \/ Len(s) > 1
  BY <1>1, <1>2
<1> QED
  BY <1>4, <1>5, <1>6

LEMMA ClosureStep == ASSUME StackInv, ClosureNext PROVE StackInv'
<1>1. PICK T : stack \in Seq(T)
  BY DEF StackInv
<1>2. CASE AskRoot
  <2>1. Take(roots[asked + 1], FALSE, <<>>) /\ stack = <<>>
    BY <1>2 DEF AskRoot
  <2>2. \E U : <<>> \in Seq(U)
    BY <1>1, <2>1
  <2>3. Len(<<>>) <= Len(stack)
    BY <2>1
  <2> QED  BY <2>1, <2>2, <2>3, TakeStep
<1>3. CASE Require
  <2> DEFINE top == Last(stack)
  <2>1. PICK written, x : Take(written, TRUE, Append(Front(stack), x)) /\ stack # <<>>
    BY <1>3 DEF Require
  <2>2. PICK W : W = T \cup {x}
    OBVIOUS
  <2>3. stack \in Seq(W) /\ x \in W
    <3>1. stack \in [1..Len(stack) -> W] /\ Len(stack) \in Nat
      BY <1>1, <2>2
    <3> QED  BY <2>2, <3>1
  <2>4. Append(Front(stack), x) \in Seq(W) /\ Len(Append(Front(stack), x)) = Len(stack)
    BY <2>1, <2>3, FrontShorter
  <2>5. Len(Append(Front(stack), x)) <= Len(stack)
    BY <1>1, <2>4
  <2>6. \E U : Append(Front(stack), x) \in Seq(U)
    BY <2>4
  <2> QED  BY <2>1, <2>5, <2>6, TakeStep
<1>4. CASE Resolve
  <2>1. stack' = Front(stack) /\ stack # <<>> /\ visiting' = visiting
    BY <1>4 DEF Resolve
  <2>2. stack' \in Seq(T) /\ Len(stack') = Len(stack) - 1 /\ Len(stack) \in Nat
    BY <1>1, <2>1, FrontShorter
  <2>3. Cardinality(visiting) \in Nat
    BY FS_CardinalityType DEF StackInv
  <2> QED  BY <2>1, <2>2, <2>3 DEF StackInv
<1>5. CASE WriteVipc
  BY <1>5 DEF WriteVipc, StackInv
<1> QED
  BY <1>2, <1>3, <1>4, <1>5 DEF ClosureNext

\* Packages that require each other, in any index, do not send the resolution
\* round: what is being resolved never exceeds the distinct requests.
THEOREM ClosureEnds == Spec => []RecursionEnds
<1>1. Init => StackInv
  <2> SUFFICES ASSUME Init PROVE StackInv
    OBVIOUS
  <2>1. stack = <<>> /\ visiting = {}
    BY DEF Init, ClosureIdle, ClosureInit, Fresh
  <2>2. Len(stack) = 0 /\ \E T : stack \in Seq(T)
    BY <2>1
  <2> QED  BY <2>1, <2>2, FS_EmptySet DEF StackInv
<1>2. StackInv /\ [Next]_vars => StackInv'
  <2> SUFFICES ASSUME StackInv, [Next]_vars PROVE StackInv'
    OBVIOUS
  <2>1. CASE ClosureNext
    BY <2>1, ClosureStep
  <2>2. CASE UNCHANGED closureVars
    BY <2>2 DEF closureVars, StackInv
  <2> QED  BY <2>1, <2>2 DEF Next, vars
<1>3. StackInv => RecursionEnds
  BY DEF StackInv, RecursionEnds
<1> QED
  BY <1>1, <1>2, <1>3, PTL DEF Spec

-----------------------------------------------------------------------------
(* Numbers and finite sets. *)

\* What is true of 0 and passes from each number below n to the next is true of n.
LEMMA CountUp ==
  ASSUME NEW n \in Nat, NEW B \in SUBSET (0..n), 0 \notin B,
         \A k \in 1..n : k \in B => k - 1 \in B
  PROVE  B = {}
<1> SUFFICES ASSUME B # {} PROVE FALSE
  OBVIOUS
<1>1. PICK m \in B : \A j \in B : m <= j
  <2>1. B \in SUBSET Nat
    OBVIOUS
  <2> QED  BY <2>1, LeastIsIn
<1>2. m \in 1..n
  OBVIOUS
<1>3. m - 1 \in B /\ m - 1 < m
  BY <1>2
<1>4. m <= m - 1
  BY <1>1, <1>3
<1> QED
  BY <1>2, <1>4

LEMMA GreatestIsIn ==
  ASSUME NEW n \in Nat, NEW S \in SUBSET (0..n), S # {}
  PROVE  \E m \in S : \A j \in S : j <= m
<1> DEFINE T == {k \in Nat : \A j \in S : j <= k}
<1>1. n \in T
  OBVIOUS
<1>2. PICK m \in T : \A k \in T : m <= k
  <2>1. T \in SUBSET Nat /\ T # {}
    BY <1>1
  <2> QED  BY <2>1, LeastIsIn
<1>3. CASE m \in S
  BY <1>3
<1>4. CASE m \notin S
  <2>1. m # 0
    <3>1. PICK j : j \in S
      OBVIOUS
    <3>2. j \in 0..n /\ j <= m /\ j # m
      BY <1>2, <1>4, <3>1
    <3> QED  BY <3>2
  <2>2. m - 1 \in T
    <3>1. ASSUME NEW j \in S PROVE j <= m - 1
      <4>1. j \in Nat /\ m \in Nat /\ j <= m /\ j # m
        BY <1>4
      <4> QED  BY <4>1
    <3>2. m - 1 \in Nat
      BY <2>1
    <3> QED  BY <3>1, <3>2
  <2>3. m <= m - 1
    BY <1>2, <2>2
  <2> QED  BY <2>3
<1> QED
  BY <1>3, <1>4

\* A finite set of records has one of the highest version.
LEMMA HighestVersion ==
  ASSUME NEW S, IsFiniteSet(S), S # {}, \A r \in S : r.version \in Nat
  PROVE  \E r \in S : \A s \in S : s.version <= r.version
<1>1. PICK f : f \in Bijection(1..Cardinality(S), S)
  BY FS_CardinalityType DEF ExistsBijection
<1>2. /\ Cardinality(S) \in Nat
      /\ f \in [1..Cardinality(S) -> S] /\ \A r \in S : \E i \in 1..Cardinality(S) : f[i] = r
  BY <1>1, FS_CardinalityType DEF Bijection, Surjection, Injection
<1> DEFINE n == Cardinality(S)
           B == {k \in 0..n : \A v \in Nat : \E i \in 1..k : ~(f[i].version <= v)}
<1>3. B = {}
  <2>1. 0 \notin B
    OBVIOUS
  <2>2. ASSUME NEW k \in 1..n, k - 1 \notin B PROVE k \notin B
    <3>1. PICK v \in Nat : \A i \in 1..(k - 1) : f[i].version <= v
      <4>1. k - 1 \in 0..n
        BY <1>2
      <4> QED  BY <2>2, <4>1
    <3>2. f[k].version \in Nat
      BY <1>2
    <3>3. PICK w \in Nat : v <= w /\ f[k].version <= w
      BY <3>2
    <3>4. ASSUME NEW i \in 1..k PROVE f[i].version <= w
      <4>1. CASE i = k
        BY <3>3, <4>1
      <4>2. CASE i # k
        <5>1. i \in 1..(k - 1) /\ f[i].version \in Nat
          BY <1>2, <4>2
        <5>2. f[i].version <= v
          BY <3>1, <5>1
        <5> QED  BY <3>3, <5>1, <5>2
      <4> QED  BY <4>1, <4>2
    <3> QED  BY <3>4
  <2>3. B \in SUBSET (0..n) /\ n \in Nat
    BY <1>2
  <2> HIDE DEF B, n
  <2> QED  BY <2>1, <2>2, <2>3, CountUp
<1>4. PICK v \in Nat : \A i \in 1..n : f[i].version <= v
  <2>1. n \in 0..n
    BY <1>2
  <2> QED  BY <1>3, <2>1
<1> DEFINE V == {r.version : r \in S}
<1>5. V \in SUBSET (0..v) /\ V # {}
  BY <1>2, <1>4
<1>6. PICK m \in V : \A j \in V : j <= m
  <2> HIDE DEF V
  <2> QED  BY <1>5, GreatestIsIn
<1> QED
  BY <1>6

Increasing(f) == \A a, b \in DOMAIN f : a < b => f[a] < f[b]

\* A finite set of numbers can be listed in order.
LEMMA Listed ==
  ASSUME NEW n \in Nat, NEW S \in SUBSET (1..n)
  PROVE  /\ IsFiniteSet(S) /\ Cardinality(S) \in Nat
         /\ \E f \in [1..Cardinality(S) -> S] : Increasing(f)
<1>1. IsFiniteSet(S) /\ Cardinality(S) \in Nat
  <2>1. IsFiniteSet(1..n)
    BY FS_Interval
  <2> QED  BY <2>1, FS_Subset, FS_CardinalityType
<1> DEFINE Lists(k, m, f) == /\ f \in [1..m -> S \cap (1..k)] /\ Increasing(f)
                             /\ \A s \in S \cap (1..k) : \E a \in 1..m : f[a] = s
           B == {k \in 0..n : ~\E m \in Nat : \E f : Lists(k, m, f)}
<1>2. 0 \notin B
  <2> DEFINE f == [a \in 1..0 |-> a]
  <2>1. Lists(0, 0, f)
    BY DEF Increasing
  <2> QED  BY <2>1
<1>3. ASSUME NEW k \in 1..n, k - 1 \notin B PROVE k \notin B
  <2>1. PICK m \in Nat : \E f : Lists(k - 1, m, f)
    BY <1>3
  <2>2. PICK f : Lists(k - 1, m, f)
    BY <2>1
  <2>3. CASE k \notin S
    <3>1. S \cap (1..k) = S \cap (1..(k - 1))
      BY <2>3
    <3>2. Lists(k, m, f)
      BY <2>2, <3>1
    <3> QED  BY <3>2
  <2>4. CASE k \in S
    <3> DEFINE g == [a \in 1..(m + 1) |-> IF a = m + 1 THEN k ELSE f[a]]
    <3>1. \A a \in 1..m : f[a] \in S /\ f[a] \in 1..(k - 1)
      BY <2>2
    <3>2. g \in [1..(m + 1) -> S \cap (1..k)]
      <4>1. ASSUME NEW a \in 1..(m + 1) PROVE g[a] \in S \cap (1..k)
        <5>1. CASE a = m + 1
          BY <2>4, <5>1
        <5>2. CASE a # m + 1
          <6>1. a \in 1..m /\ g[a] = f[a]
            BY <5>2
          <6> QED  BY <3>1, <6>1
        <5> QED  BY <5>1, <5>2
      <4> QED  BY <4>1
    <3>3. ASSUME NEW a \in 1..(m + 1), NEW b \in 1..(m + 1), a < b PROVE g[a] < g[b]
      <4>1. a \in 1..m /\ g[a] = f[a] /\ f[a] \in 1..(k - 1)
        BY <3>1, <3>3
      <4>2. CASE b = m + 1
        BY <4>1, <4>2
      <4>3. CASE b # m + 1
        <5>1. b \in 1..m /\ g[b] = f[b]
          BY <4>3
        <5>2. DOMAIN f = 1..m
          BY <2>2
        <5> QED  BY <2>2, <3>3, <4>1, <5>1, <5>2 DEF Increasing
      <4> QED  BY <4>2, <4>3
    <3>4. ASSUME NEW s \in S \cap (1..k) PROVE \E a \in 1..(m + 1) : g[a] = s
      <4>1. CASE s = k
        BY <4>1
      <4>2. CASE s # k
        <5>1. s \in S \cap (1..(k - 1))
          BY <4>2
        <5>2. PICK a \in 1..m : f[a] = s
          BY <2>2, <5>1
        <5>3. a \in 1..(m + 1) /\ a # m + 1
          OBVIOUS
        <5> QED  BY <5>2, <5>3
      <4> QED  BY <4>1, <4>2
    <3>5. Lists(k, m + 1, g)
      <4>1. DOMAIN g = 1..(m + 1)
        OBVIOUS
      <4> HIDE DEF g
      <4> QED  BY <3>2, <3>3, <3>4, <4>1 DEF Increasing
    <3> QED  BY <3>5
  <2> QED  BY <2>3, <2>4
<1>4. B = {}
  <2>1. B \in SUBSET (0..n)
    OBVIOUS
  <2> HIDE DEF B
  <2> QED  BY <1>2, <1>3, <2>1, CountUp
<1>5. PICK m \in Nat : \E f : Lists(n, m, f)
  <2>1. n \in 0..n
    OBVIOUS
  <2> HIDE DEF Lists
  <2> QED  BY <1>4, <2>1
<1>6. PICK f : Lists(n, m, f)
  BY <1>5
<1>7. S \cap (1..n) = S
  OBVIOUS
<1>8. f \in [1..m -> S] /\ Increasing(f) /\ \A s \in S : \E a \in 1..m : f[a] = s
  BY <1>6, <1>7
<1>9. f \in Bijection(1..m, S)
  <2>1. \A a, b \in 1..m : f[a] = f[b] => a = b
    <3> SUFFICES ASSUME NEW a \in 1..m, NEW b \in 1..m, f[a] = f[b], a # b PROVE FALSE
      OBVIOUS
    <3>1. f[a] \in Nat /\ DOMAIN f = 1..m
      <4>1. S \subseteq Nat
        OBVIOUS
      <4> QED  BY <1>8, <4>1
    <3>2. a < b \/ b < a
      OBVIOUS
    <3> QED  BY <1>8, <3>1, <3>2 DEF Increasing
  <2>2. DOMAIN f = 1..m
    BY <1>8
  <2> QED  BY <1>8, <2>1, <2>2 DEF Bijection, Injection, Surjection, IsInjective
<1>10. Cardinality(S) = m
  <2>1. IsFiniteSet(1..m) /\ Cardinality(1..m) = m
    BY FS_Interval
  <2> QED  BY <1>9, <2>1, FS_Bijection DEF ExistsBijection
<1> QED
  BY <1>1, <1>8, <1>10

-----------------------------------------------------------------------------
(* The roots: what the repository pins itself is among them. *)

LEMMA RootsHold ==
  ASSUME NEW lists \in Manifests
  PROVE  /\ \E n \in Nat : DOMAIN Roots(lists) = 1..n
         /\ \A i \in DOMAIN Roots(lists) :
              Roots(lists)[i].version \in Nat /\ Roots(lists)[i].minimum = FALSE
         /\ manifest = lists => \A p \in OwnPins : \E i \in DOMAIN Roots(lists) : Roots(lists)[i] = Exactly(p)
<1> DEFINE all == lists.defaults \o lists.own
           alike(i) == {j \in Selected(all) : FoldName(all[j].name) = FoldName(all[i].name)}
           firsts == {i \in Selected(all) : \A j \in alike(i) : i <= j}
           order == CHOOSE f \in [1..Cardinality(firsts) -> firsts] :
                      \A m, n \in DOMAIN f : m < n => f[m] < f[n]
           last(i) == CHOOSE k \in alike(i) : \A j \in alike(i) : j <= k
           merged == [n \in DOMAIN order |-> all[last(order[n])]]
<1>1. lists.defaults \in Seq(Package) /\ lists.own \in Seq(Package)
  BY ClosureAssumption
<1>2. PICK d \in Nat, o \in Nat, n \in Nat :
        d = Len(lists.defaults) /\ o = Len(lists.own) /\ n = d + o
  <2>1. Len(lists.defaults) \in Nat /\ Len(lists.own) \in Nat
    BY <1>1
  <2>2. \A d, o \in Nat : d + o \in Nat
    OBVIOUS
  <2> QED  BY <2>1, <2>2
<1>3. /\ all \in Seq(Package) /\ DOMAIN all = 1..n
      /\ DOMAIN lists.own = 1..o
      /\ \A j \in 1..o : d + j \in 1..n /\ all[d + j] = lists.own[j]
      /\ \A i \in 1..n : i > d => i - d \in 1..o /\ all[i] = lists.own[i - d]
  <2>1. PICK D \in Seq(Package), O \in Seq(Package) :
          D = lists.defaults /\ O = lists.own /\ Len(D) = d /\ Len(O) = o
    BY <1>1, <1>2
  <2>2. /\ D \o O \in Seq(Package) /\ Len(D \o O) = Len(D) + Len(O)
        /\ \A i \in 1..(Len(D) + Len(O)) : (D \o O)[i] = IF i <= Len(D) THEN D[i] ELSE O[i - Len(D)]
    BY ConcatProperties
  <2>3. n = Len(D) + Len(O) /\ n = d + o
    BY <1>2, <2>1
  <2>4. PICK A \in Seq(Package) :
          A = all /\ Len(A) = n /\ \A i \in 1..n : A[i] = IF i <= d THEN D[i] ELSE O[i - d]
    <3>1. all = D \o O
      BY <2>1
    <3> HIDE DEF all
    <3> QED  BY <2>1, <2>2, <2>3, <3>1
  <2> HIDE DEF all
  <2>5. DOMAIN A = 1..n /\ DOMAIN O = 1..o
    BY <2>1, <2>4
  <2>6. ASSUME NEW j \in 1..o PROVE d + j \in 1..n /\ A[d + j] = O[j]
    <3>1. d + j \in 1..n /\ ~(d + j <= d) /\ (d + j) - d = j
      BY <2>3
    <3> QED  BY <2>4, <3>1
  <2>7. ASSUME NEW i \in 1..n, i > d PROVE i - d \in 1..o /\ A[i] = O[i - d]
    <3>1. i - d \in 1..o /\ ~(i <= d)
      BY <2>3, <2>7
    <3> QED  BY <2>4, <3>1
  <2> QED  BY <2>1, <2>4, <2>5, <2>6, <2>7
<1>4. Selected(all) \in SUBSET (1..n) /\ firsts \in SUBSET (1..n) /\ \A i : alike(i) \in SUBSET (1..n)
  BY <1>3 DEF Selected
<1>5. Roots(lists) = [i \in DOMAIN merged |-> Exactly(merged[i])]
  BY DEF Roots, MergePackages
<1> HIDE DEF all, alike, firsts, last, merged
<1>6. /\ order \in [1..Cardinality(firsts) -> firsts] /\ Increasing(order)
      /\ IsFiniteSet(firsts) /\ Cardinality(firsts) \in Nat
  <2>1. /\ IsFiniteSet(firsts) /\ Cardinality(firsts) \in Nat
        /\ \E f \in [1..Cardinality(firsts) -> firsts] : Increasing(f)
    BY <1>4, Listed
  <2>2. \E f \in [1..Cardinality(firsts) -> firsts] : \A m, k \in DOMAIN f : m < k => f[m] < f[k]
    BY <2>1 DEF Increasing
  <2>3. order \in [1..Cardinality(firsts) -> firsts] /\ \A m, k \in DOMAIN order : m < k => order[m] < order[k]
    BY <2>2
  <2> QED  BY <2>1, <2>3 DEF Increasing
<1> HIDE DEF order
<1>7. DOMAIN Roots(lists) = 1..Cardinality(firsts)
  BY <1>5, <1>6 DEF merged
\* Every place in order is the first of its name, and every first has a place.
<1>8. ASSUME NEW i \in firsts PROVE \E a \in 1..Cardinality(firsts) : order[a] = i
  <2>1. \A a, b \in 1..Cardinality(firsts) : order[a] = order[b] => a = b
    <3> SUFFICES ASSUME NEW a \in 1..Cardinality(firsts), NEW b \in 1..Cardinality(firsts),
                        order[a] = order[b], a # b
                 PROVE  FALSE
      OBVIOUS
    <3>1. DOMAIN order = 1..Cardinality(firsts) /\ order[a] \in 1..n
      BY <1>4, <1>6
    <3>2. a < b \/ b < a
      BY <1>6
    <3>3. order[a] < order[b] \/ order[b] < order[a]
      BY <1>6, <3>1, <3>2 DEF Increasing
    <3> QED  BY <3>1, <3>3
  <2>2. order \in Injection(1..Cardinality(firsts), firsts)
    <3>1. DOMAIN order = 1..Cardinality(firsts)
      BY <1>6
    <3> QED  BY <1>6, <2>1, <3>1 DEF Injection, IsInjective
  <2>3. Cardinality(1..Cardinality(firsts)) = Cardinality(firsts)
    <3>1. \A c \in Nat : Cardinality(1..c) = c
      BY FS_Interval
    <3> QED  BY <1>6, <3>1
  <2>4. order \in Surjection(1..Cardinality(firsts), firsts)
    BY <1>6, <2>2, <2>3, FS_Injection
  <2> QED  BY <2>4 DEF Surjection
<1>9. ASSUME NEW i \in Selected(all)
      PROVE  last(i) \in alike(i) /\ \A j \in alike(i) : j <= last(i)
  <2>1. i \in alike(i)
    BY <1>9 DEF alike
  <2>2. alike(i) \in SUBSET (0..n)
    BY <1>4
  <2>3. \E k \in alike(i) : \A j \in alike(i) : j <= k
    BY <2>1, <2>2, GreatestIsIn
  <2> QED  BY <2>3 DEF last
<1>10. ASSUME NEW a \in DOMAIN Roots(lists)
       PROVE  Roots(lists)[a].version \in Nat /\ Roots(lists)[a].minimum = FALSE
  <2>1. order[a] \in Selected(all)
    BY <1>6, <1>7, <1>10 DEF firsts
  <2>2. last(order[a]) \in 1..n
    BY <1>4, <1>9, <2>1
  <2>3. all[last(order[a])] \in Package
    BY <1>3, <2>2
  <2>4. Roots(lists)[a] = Exactly(all[last(order[a])])
    BY <1>5, <1>6, <1>7, <1>10 DEF merged
  <2> QED  BY <2>3, <2>4 DEF Exactly, Package
<1>11. ASSUME manifest = lists, NEW p \in OwnPins
       PROVE  \E i \in DOMAIN Roots(lists) : Roots(lists)[i] = Exactly(p)
  <2>1. PICK j \in Selected(lists.own) :
          /\ p = lists.own[j]
          /\ \A k \in Selected(lists.own) : k > j => FoldName(lists.own[k].name) # FoldName(lists.own[j].name)
    BY <1>11 DEF OwnPins
  <2>2. j \in 1..o /\ p.include
    BY <1>3, <2>1 DEF Selected
  <2>3. PICK J \in 1..n : J = d + j /\ all[J] = p /\ J \in Selected(all)
    BY <1>3, <2>1, <2>2 DEF Selected
  <2>4. ASSUME NEW k \in alike(J) PROVE k <= J
    <3> SUFFICES ASSUME k > J PROVE FALSE
      BY <1>4, <2>3
    <3>1. k \in 1..n /\ k \in Selected(all) /\ FoldName(all[k].name) = FoldName(p.name)
      BY <1>4, <2>3 DEF alike
    <3>2. k > d /\ k - d > j
      BY <1>2, <2>2, <2>3, <3>1
    <3>3. k - d \in 1..o /\ all[k] = lists.own[k - d]
      BY <1>3, <3>1, <3>2
    <3>4. k - d \in Selected(lists.own)
      BY <1>3, <3>1, <3>3 DEF Selected
    <3> QED  BY <2>1, <3>1, <3>2, <3>3, <3>4
  <2>5. J \in alike(J) /\ alike(J) \in SUBSET Nat
    BY <1>4, <2>3 DEF alike
  <2>6. PICK i \in alike(J) : \A k \in alike(J) : i <= k
    BY <2>5, LeastIsIn
  <2>7. i \in Selected(all) /\ alike(i) = alike(J)
    BY <2>6 DEF alike
  <2>8. i \in firsts
    BY <2>6, <2>7 DEF firsts
  <2>9. last(i) = J
    <3>1. last(i) \in alike(J) /\ J <= last(i)
      BY <1>9, <2>5, <2>7
    <3>2. last(i) <= J /\ last(i) \in Nat /\ J \in Nat
      BY <2>4, <2>5, <3>1
    <3> QED  BY <3>1, <3>2
  <2>10. PICK a \in 1..Cardinality(firsts) : order[a] = i
    BY <1>8, <2>8
  <2>11. a \in DOMAIN Roots(lists) /\ Roots(lists)[a] = Exactly(all[last(i)])
    BY <1>5, <1>6, <1>7, <2>10 DEF merged
  <2> QED  BY <2>3, <2>9, <2>11
<1> QED
  BY <1>6, <1>7, <1>10, <1>11

-----------------------------------------------------------------------------
(* The requests taken up, the records they chose, and what is still to ask. *)

Reqs(record) == ToSet(ParseRequires(record))
Asks == UNION {Reqs(r) : r \in index}
Frame == [record : index, todo : Seq(Asks)]
Frames == ToSet(stack)
Records == {f.record : f \in Frames} \cup {resolved[n] : n \in DOMAIN resolved}

RootsInv ==
  /\ roots \in Seq(ToSet(roots))
  /\ \A i \in DOMAIN roots : roots[i].version \in Nat /\ roots[i].minimum = FALSE
  /\ \A p \in OwnPins : \E i \in DOMAIN roots : roots[i] = Exactly(p)
  /\ asked \in 0..Len(roots) /\ \A i \in 1..asked : roots[i] \in visiting

\* A request that something published meets has its package, or will have.
RequestsInv ==
  \A e \in visiting :
    /\ e.version \in Nat /\ e.minimum \in BOOLEAN
    /\ e.minimum => Pins(e.name) = {}
    /\ \/ Candidates(e) = {}
       \/ e.name \in DOMAIN resolved
       \/ \E f \in Frames : f.record.name = e.name

Chosen == {SelectRecord(e) : e \in {q \in visiting : Candidates(q) # {}}}

RecordsInv ==
  /\ stack \in Seq(Frame)
  /\ \A f \in Frames : f.record \in Chosen /\ ToSet(f.todo) \subseteq Reqs(f.record)
  /\ \A n \in DOMAIN resolved : resolved[n].name = n /\ resolved[n] \in Chosen

\* What a record requires was asked for, or is still to be asked.
AskedInv ==
  /\ \A n \in DOMAIN resolved : \A q \in Reqs(resolved[n]) : Effective(q) \in visiting
  /\ \A f \in Frames : \A q \in Reqs(f.record) : Effective(q) \in visiting \/ q \in ToSet(f.todo)

Settled == \A q \in visiting : Undisputed(q.name)

\* A record replaced by another of its name would leave what it required
\* behind; where nothing is disputed it is replaced by itself.
ReachedInv ==
  Settled =>
    /\ \A r \in Records :
         \/ \E i \in DOMAIN roots : roots[i].name = r.name
         \/ \E s \in Records : \E q \in Reqs(s) : q.name = r.name
    /\ outcome # "failed" =>
         \A e \in visiting : Candidates(e) = {} => \E s \in Records : \E q \in Reqs(s) : Effective(q) = e

ClosureInv ==
  /\ index \in Indexes \cup {{}}
  /\ RootsInv /\ RequestsInv /\ RecordsInv /\ AskedInv /\ ReachedInv
  /\ outcome = "written" => stack = <<>> /\ asked = Len(roots)

\* What ClosureAssumption says of the index that was published.
LEMMA IndexOf ==
  ASSUME index \in Indexes \cup {{}}
  PROVE  /\ IsFiniteSet(index)
         /\ \A r \in index : r.version \in Nat /\ r.requires \in Seq(Requirement)
         /\ \A r, s \in index : r.name = s.name /\ r.version = s.version => r = s
<1>1. CASE index \in Indexes
  BY <1>1, ClosureAssumption
<1>2. CASE index = {}
  BY <1>2, FS_EmptySet
<1> QED
  BY <1>1, <1>2

\* What a record requires, as requests.
LEMMA Required ==
  ASSUME index \in Indexes \cup {{}}, NEW record \in index
  PROVE  /\ ParseRequires(record) \in Seq(Asks)
         /\ \A q \in Reqs(record) : q.version \in Nat /\ q.minimum \in BOOLEAN
<1>1. PICK asks \in Seq(Requirement) : asks = record.requires
  BY IndexOf
<1>2. PICK n \in Nat : n = Len(asks) /\ DOMAIN asks = 1..n /\ \A i \in 1..n : asks[i] \in Requirement
  OBVIOUS
<1> DEFINE p == ParseRequires(record)
<1>3. /\ DOMAIN p = 1..n
      /\ \A i \in 1..n : p[i].version \in Nat /\ p[i].minimum \in BOOLEAN
  <2>1. DOMAIN p = 1..n
    BY <1>1, <1>2 DEF ParseRequires
  <2>2. ASSUME NEW i \in 1..n PROVE p[i].version \in Nat /\ p[i].minimum \in BOOLEAN
    <3>1. p[i].version = asks[i].version /\ p[i].minimum = (asks[i].op \in {"", ">="})
      BY <1>1, <1>2 DEF ParseRequires
    <3>2. asks[i].version \in Nat
      BY <1>2 DEF Requirement
    <3>3. (asks[i].op \in {"", ">="}) \in BOOLEAN
      OBVIOUS
    <3> QED  BY <3>1, <3>2, <3>3
  <2> QED  BY <2>1, <2>2
<1>4. p = [i \in 1..n |-> p[i]]
  BY <1>1, <1>2 DEF ParseRequires
<1> HIDE DEF p
<1>5. Reqs(record) = {p[i] : i \in 1..n}
  BY <1>3 DEF Reqs, ToSet, p
<1>6. Reqs(record) \subseteq Asks
  BY DEF Asks
<1>7. \A i \in 1..n : p[i] \in Asks
  BY <1>5, <1>6
<1>8. p \in [1..n -> Asks]
  BY <1>4, <1>7
<1>9. p \in Seq(Asks)
  BY <1>8
<1> QED
  BY <1>3, <1>5, <1>9 DEF p

\* The index and the roots stay, and with them what any request chooses.
LEMMA Unmoved ==
  ASSUME UNCHANGED <<index, roots>>
  PROVE  /\ \A q : Effective(q)' = Effective(q) /\ Candidates(q)' = Candidates(q)
         /\ \A q : SelectRecord(q)' = SelectRecord(q)
         /\ \A n : Pins(n)' = Pins(n)
         /\ Frame' = Frame
<1>1. \A n : Pins(n)' = Pins(n)
  BY DEF Pins
<1>2. \A q : Candidates(q)' = Candidates(q)
  BY DEF Candidates
<1>3. \A q : SelectRecord(q)' = SelectRecord(q)
  BY <1>2 DEF SelectRecord
<1>4. \A q : Effective(q)' = Effective(q)
  BY DEF Effective, Pins
<1>5. Frame' = Frame
  BY DEF Frame, Asks
<1> QED
  BY <1>1, <1>2, <1>3, <1>4, <1>5

\* The choice is one of the candidates, and none is later.
LEMMA BestCandidate ==
  ASSUME index \in Indexes \cup {{}}, NEW e, Candidates(e) # {}
  PROVE  /\ SelectRecord(e) \in Candidates(e) /\ SelectRecord(e) \in index
         /\ SelectRecord(e).name = e.name /\ SelectRecord(e).version \in Nat
         /\ \A s \in Candidates(e) : s.version <= SelectRecord(e).version
<1>1. Candidates(e) \subseteq index /\ \A r \in Candidates(e) : r.name = e.name
  BY DEF Candidates
<1>2. IsFiniteSet(Candidates(e)) /\ \A r \in index : r.version \in Nat
  BY <1>1, IndexOf, FS_Subset
<1>3. \E r \in Candidates(e) : \A s \in Candidates(e) : s.version <= r.version
  BY <1>1, <1>2, HighestVersion
<1>4. SelectRecord(e) \in Candidates(e) /\ \A s \in Candidates(e) : s.version <= SelectRecord(e).version
  BY <1>3 DEF SelectRecord
<1> QED
  BY <1>1, <1>2, <1>4

\* A request keeps its name, and only a minimum gives way.
LEMMA GivesWay ==
  ASSUME RootsInv, NEW q, q.version \in Nat, q.minimum \in BOOLEAN
  PROVE  /\ Effective(q).name = q.name
         /\ Effective(q).version \in Nat /\ Effective(q).minimum \in BOOLEAN
         /\ Effective(q).minimum => Pins(q.name) = {}
         /\ (q.minimum => Pins(q.name) = {}) => Effective(q) = q
<1>1. CASE q.minimum /\ Pins(q.name) # {}
  <2>1. PICK n \in Nat : DOMAIN roots = 1..n
    BY DEF RootsInv
  <2>2. Pins(q.name) \in SUBSET (0..n)
    BY <2>1 DEF Pins
  <2>3. \E m \in Pins(q.name) : \A j \in Pins(q.name) : j <= m
    BY <1>1, <2>2, GreatestIsIn
  <2>4. PICK i \in Pins(q.name) : Effective(q) = roots[i]
    BY <1>1, <2>3 DEF Effective
  <2>5. i \in DOMAIN roots /\ roots[i].name = q.name
    BY <2>4 DEF Pins
  <2>6. roots[i].version \in Nat /\ roots[i].minimum = FALSE
    BY <2>5 DEF RootsInv
  <2> QED  BY <1>1, <2>4, <2>5, <2>6
<1>2. CASE ~(q.minimum /\ Pins(q.name) # {})
  <2>1. Effective(q) = q
    BY <1>2 DEF Effective
  <2> QED  BY <1>2, <2>1
<1> QED
  BY <1>1, <1>2

\* What one of two requests that agree chooses is a candidate of the other.
LEMMA Meets ==
  ASSUME index \in Indexes \cup {{}}, NEW d, NEW e, d.name = e.name,
         d.version \in Nat, d.minimum \in BOOLEAN, e.version \in Nat, e.minimum \in BOOLEAN,
         Agree(d, e), Candidates(d) # {}, Candidates(e) # {}
  PROVE  SelectRecord(e) \in Candidates(d)
<1>1. PICK r : r = SelectRecord(e)
  OBVIOUS
<1>2. /\ r \in index /\ r \in Candidates(e) /\ r.name = e.name /\ r.version \in Nat
      /\ \A s \in Candidates(e) : s.version <= r.version
  BY <1>1, BestCandidate
<1>3. PICK c \in Candidates(d) : c \in index /\ c.name = d.name /\ c.version \in Nat
  BY IndexOf DEF Candidates
<1>4. CASE ~Open(d) /\ ~Open(e) /\ d.version = e.version
  BY <1>1, <1>2, <1>4 DEF Candidates, Open
<1>5. CASE Open(d) /\ d.version = 0
  BY <1>1, <1>2, <1>5 DEF Candidates
<1>6. CASE d.minimum /\ Open(e)
  <2>1. d.version = 0 \/ c.version >= d.version
    BY <1>3, <1>6 DEF Candidates
  <2>2. c \in Candidates(e) \/ (e.minimum /\ c.version < e.version /\ e.version # 0)
    BY <1>3, <1>6 DEF Candidates, Open
  <2>3. e.minimum /\ e.version # 0 => r.version >= e.version
    BY <1>2, <1>6 DEF Candidates
  <2>4. c.version <= r.version
    BY <1>2, <1>3, <2>2, <2>3
  <2>5. d.version = 0 \/ r.version >= d.version
    BY <1>2, <1>3, <2>1, <2>4
  <2> QED  BY <1>1, <1>2, <1>6, <2>5 DEF Candidates
<1> QED
  BY <1>4, <1>5, <1>6 DEF Agree, Open

LEMMA SameChoice ==
  ASSUME index \in Indexes \cup {{}}, NEW d, NEW e, d.name = e.name,
         d.version \in Nat, d.minimum \in BOOLEAN, e.version \in Nat, e.minimum \in BOOLEAN,
         Agree(d, e), Candidates(d) # {}, Candidates(e) # {}
  PROVE  SelectRecord(d) = SelectRecord(e)
<1>1. Agree(e, d)
  BY DEF Agree
<1>2. SelectRecord(e) \in Candidates(d) /\ SelectRecord(d) \in Candidates(e)
  BY <1>1, Meets
<1>3. /\ SelectRecord(d).version <= SelectRecord(e).version
      /\ SelectRecord(e).version <= SelectRecord(d).version
      /\ SelectRecord(d) \in index /\ SelectRecord(e) \in index
      /\ SelectRecord(d).name = SelectRecord(e).name
      /\ SelectRecord(d).version \in Nat /\ SelectRecord(e).version \in Nat
  BY <1>2, BestCandidate
<1>4. SelectRecord(d).version = SelectRecord(e).version
  BY <1>3
<1> QED
  BY <1>3, <1>4, IndexOf

\* The two ways to take one element off a sequence.
LEMMA Ends ==
  ASSUME NEW T, NEW s \in Seq(T), s # <<>>
  PROVE  /\ Head(s) \in T /\ Tail(s) \in Seq(T) /\ ToSet(s) = {Head(s)} \cup ToSet(Tail(s))
         /\ Last(s) \in T /\ Front(s) \in Seq(T) /\ ToSet(s) = ToSet(Front(s)) \cup {Last(s)}
<1>1. PICK n \in Nat : n = Len(s) /\ n # 0 /\ DOMAIN s = 1..n /\ \A i \in 1..n : s[i] \in T
  OBVIOUS
<1>2. ToSet(s) = {s[i] : i \in 1..n}
  BY <1>1 DEF ToSet
<1>3. Head(s) \in T /\ Tail(s) \in Seq(T) /\ ToSet(s) = {Head(s)} \cup ToSet(Tail(s))
  <2>1. /\ Tail(s) \in Seq(T) /\ Len(Tail(s)) = Len(s) - 1
        /\ \A i \in 1..Len(Tail(s)) : Tail(s)[i] = s[i + 1]
    BY HeadTailProperties
  <2>2. PICK t \in Seq(T), m \in Nat : t = Tail(s) /\ m = n - 1 /\ Len(t) = m /\ \A i \in 1..m : t[i] = s[i + 1]
    <3>1. PICK t \in Seq(T) : t = Tail(s) /\ Len(t) = n - 1 /\ \A i \in 1..Len(t) : t[i] = s[i + 1]
      BY <1>1, <2>1
    <3>2. PICK m \in Nat : m = n - 1
      BY <1>1
    <3> QED  BY <3>1, <3>2
  <2>3. ToSet(t) = {s[i + 1] : i \in 1..m}
    <3>1. DOMAIN t = 1..m
      BY <2>2
    <3> QED  BY <2>2, <3>1 DEF ToSet
  <2>4. {s[i] : i \in 1..n} = {s[1]} \cup {s[i + 1] : i \in 1..(n - 1)}
    <3>1. ASSUME NEW i \in 1..n, i # 1 PROVE i - 1 \in 1..(n - 1) /\ s[(i - 1) + 1] = s[i]
      BY <1>1, <3>1
    <3>2. \A i \in 1..(n - 1) : i + 1 \in 1..n
      BY <1>1
    <3>3. 1 \in 1..n
      BY <1>1
    <3> QED  BY <3>1, <3>2, <3>3
  <2>5. Head(s) = s[1] /\ Head(s) \in T
    BY <1>1
  <2> QED  BY <1>2, <2>2, <2>4, <2>5, <2>3
<1>4. Last(s) \in T /\ Front(s) \in Seq(T) /\ ToSet(s) = ToSet(Front(s)) \cup {Last(s)}
  <2>1. Front(s) \in Seq(T) /\ Len(Front(s)) = n - 1 /\ Last(s) = s[n]
    BY <1>1, FrontShorter DEF Last
  <2>2. \A i \in 1..(n - 1) : Front(s)[i] = s[i]
    <3>1. CASE n = 1
      BY <3>1
    <3>2. CASE n # 1
      <4>1. 1 \in Int /\ n - 1 \in Int /\ 1 <= n - 1 /\ \A i \in 1..(n - 1) : s[i] \in T
        BY <1>1, <3>2
      <4>2. \A i \in 1..((n - 1) - 1 + 1) : SubSeq(s, 1, n - 1)[i] = s[1 + i - 1]
        BY <4>1, SubSeqProperties
      <4>3. \A i \in 1..(n - 1) : i \in 1..((n - 1) - 1 + 1) /\ 1 + i - 1 = i
        BY <4>1
      <4> QED  BY <1>1, <4>2, <4>3 DEF Front
    <3> QED  BY <3>1, <3>2
  <2>3. PICK t \in Seq(T) : t = Front(s) /\ Len(t) = n - 1 /\ \A i \in 1..(n - 1) : t[i] = s[i]
    BY <2>1, <2>2
  <2>4. ToSet(t) = {s[i] : i \in 1..(n - 1)}
    BY <1>1, <2>3 DEF ToSet
  <2>5. {s[i] : i \in 1..n} = {s[i] : i \in 1..(n - 1)} \cup {s[n]}
    BY <1>1
  <2>6. Last(s) \in T
    BY <1>1, <2>1
  <2> QED  BY <1>2, <2>1, <2>3, <2>4, <2>5, <2>6
<1> QED
  BY <1>3, <1>4

LEMMA OneMore ==
  ASSUME NEW T, NEW s \in Seq(T), NEW x \in T
  PROVE  Append(s, x) \in Seq(T) /\ ToSet(Append(s, x)) = ToSet(s) \cup {x}
<1>1. PICK n \in Nat : n = Len(s) /\ DOMAIN s = 1..n
  OBVIOUS
<1>2. PICK t \in Seq(T) : /\ t = Append(s, x) /\ Len(t) = n + 1 /\ t[n + 1] = x
                          /\ \A i \in 1..n : t[i] = s[i]
  <2>1. /\ Append(s, x) \in Seq(T) /\ Len(Append(s, x)) = Len(s) + 1
        /\ \A i \in 1..Len(s) : Append(s, x)[i] = s[i]
        /\ Append(s, x)[Len(s) + 1] = x
    BY AppendProperties
  <2> QED  BY <1>1, <2>1
<1>3. ToSet(t) = {t[i] : i \in 1..(n + 1)} /\ ToSet(s) = {s[i] : i \in 1..n}
  BY <1>1, <1>2 DEF ToSet
<1>4. {t[i] : i \in 1..(n + 1)} = {t[i] : i \in 1..n} \cup {t[n + 1]}
  BY <1>1
<1>5. {t[i] : i \in 1..n} = {s[i] : i \in 1..n}
  BY <1>2
<1> QED
  BY <1>2, <1>3, <1>4, <1>5

Begun(e) == [record |-> SelectRecord(e), todo |-> ParseRequires(SelectRecord(e))]

\* What taking up a request changes.
LEMMA Taken ==
  ASSUME index \in Indexes \cup {{}}, outcome = "resolving",
         NEW written, NEW required \in BOOLEAN, NEW rest \in Seq(Frame),
         Take(written, required, rest)
  PROVE  LET e == Effective(written)
         IN /\ visiting' = visiting \cup {e}
            /\ stack' \in Seq(Frame)
            /\ \/ Frames' = ToSet(rest)
               \/ Candidates(e) # {} /\ Frames' = ToSet(rest) \cup {Begun(e)}
            /\ \/ e \in visiting \/ Candidates(e) = {} \/ e.name \in DOMAIN resolved
               \/ Begun(e) \in Frames'
            /\ outcome' \in {"resolving", "failed"}
            /\ e \notin visiting /\ Candidates(e) = {} /\ ~required => outcome' = "failed"
<1>1. PICK e : e = Effective(written)
  OBVIOUS
<1>2. CASE e \in visiting
  <2>1. stack' = rest /\ visiting' = visiting /\ outcome' = outcome
    BY <1>1, <1>2 DEF Take, Guarded
  <2> QED  BY <1>1, <1>2, <2>1 DEF Frames
<1>3. CASE e \notin visiting /\ Candidates(e) = {}
  <2>1. stack' = rest /\ visiting' = visiting \cup {e} /\ outcome' = IF required THEN outcome ELSE "failed"
    BY <1>1, <1>3 DEF Take, Guarded
  <2> QED  BY <1>1, <1>3, <2>1 DEF Frames
<1>4. CASE e \notin visiting /\ Candidates(e) # {}
  <2>1. /\ visiting' = visiting \cup {e} /\ outcome' = outcome
        /\ stack' = IF SelectRecord(e).name \in DOMAIN resolved THEN rest ELSE Append(rest, Begun(e))
    BY <1>1, <1>4 DEF Take, Guarded, Begun
  <2>2. SelectRecord(e).name = e.name /\ SelectRecord(e) \in index
    BY <1>4, BestCandidate
  <2>3. ParseRequires(SelectRecord(e)) \in Seq(Asks)
    BY <2>2, Required
  <2>4. Begun(e) \in Frame
    BY <2>2, <2>3 DEF Begun, Frame
  <2>5. Append(rest, Begun(e)) \in Seq(Frame) /\ ToSet(Append(rest, Begun(e))) = ToSet(rest) \cup {Begun(e)}
    BY <2>4, OneMore
  <2>6. CASE e.name \in DOMAIN resolved
    BY <1>1, <1>4, <2>1, <2>2, <2>6 DEF Frames
  <2>7. CASE e.name \notin DOMAIN resolved
    <3>1. stack' = Append(rest, Begun(e))
      BY <2>1, <2>2, <2>7
    <3>2. Frames' = ToSet(rest) \cup {Begun(e)}
      BY <2>5, <3>1 DEF Frames
    <3> QED  BY <1>1, <1>4, <2>1, <2>5, <3>1, <3>2
  <2> QED  BY <2>6, <2>7
<1> QED
  BY <1>2, <1>3, <1>4

\* Taking up a request keeps what is true of requests and records, when the
\* stack it leaves has the same records and lost no question but this one.
LEMMA TakeKeeps ==
  ASSUME ClosureInv, outcome = "resolving",
         NEW written, written.version \in Nat, written.minimum \in BOOLEAN,
         NEW required \in BOOLEAN, NEW rest \in Seq(Frame),
         {f.record : f \in ToSet(rest)} = {f.record : f \in Frames},
         \A f \in ToSet(rest) : ToSet(f.todo) \subseteq Reqs(f.record),
         \A f \in ToSet(rest) : \A q \in Reqs(f.record) :
           Effective(q) \in visiting \/ q \in ToSet(f.todo) \/ q = written,
         required => \E f \in Frames : written \in Reqs(f.record),
         ~required => \E i \in DOMAIN roots : roots[i] = written,
         Take(written, required, rest), UNCHANGED <<index, manifest, roots, resolved>>
  PROVE  /\ visiting' = visiting \cup {Effective(written)} /\ outcome' # "written"
         /\ RequestsInv' /\ RecordsInv' /\ AskedInv' /\ ReachedInv'
<1>1. PICK e : e = Effective(written)
  OBVIOUS
<1>2. /\ visiting' = visiting \cup {e}
      /\ stack' \in Seq(Frame)
      /\ \/ Frames' = ToSet(rest)
         \/ Candidates(e) # {} /\ Frames' = ToSet(rest) \cup {Begun(e)}
      /\ \/ e \in visiting \/ Candidates(e) = {} \/ e.name \in DOMAIN resolved
         \/ Begun(e) \in Frames'
      /\ outcome' \in {"resolving", "failed"}
      /\ e \notin visiting /\ Candidates(e) = {} /\ ~required => outcome' = "failed"
  BY <1>1, Taken DEF ClosureInv
<1>3. /\ e.name = written.name /\ e.version \in Nat /\ e.minimum \in BOOLEAN
      /\ e.minimum => Pins(e.name) = {}
  BY <1>1, GivesWay DEF ClosureInv
<1>4. /\ \A q : Effective(q)' = Effective(q) /\ Candidates(q)' = Candidates(q)
      /\ \A q : SelectRecord(q)' = SelectRecord(q)
      /\ \A n : Pins(n)' = Pins(n)
      /\ Frame' = Frame
  BY Unmoved
<1>5. \A f \in Frames : \E g \in Frames' : g.record = f.record
  <2>1. \A f \in Frames : \E g \in ToSet(rest) : g.record = f.record
    OBVIOUS
  <2> QED  BY <1>2, <2>1
<1>6. \A g \in Frames' : g \in ToSet(rest) \/ (g = Begun(e) /\ Candidates(e) # {})
  BY <1>2
<1>7. \A g \in ToSet(rest) : \E f \in Frames : g.record = f.record
  OBVIOUS
<1>8. /\ Begun(e).record = SelectRecord(e) /\ Begun(e).todo = ParseRequires(SelectRecord(e))
      /\ Candidates(e) # {} => SelectRecord(e).name = e.name
  BY BestCandidate DEF Begun, ClosureInv
<1>9. RequestsInv'
  <2>1. ASSUME NEW x \in visiting'
        PROVE  /\ x.version \in Nat /\ x.minimum \in BOOLEAN
               /\ x.minimum => Pins(x.name)' = {}
               /\ \/ Candidates(x)' = {}
                  \/ x.name \in DOMAIN resolved'
                  \/ \E f \in Frames' : f.record.name = x.name
    <3>1. CASE x \in visiting
      <4>1. /\ x.version \in Nat /\ x.minimum \in BOOLEAN /\ (x.minimum => Pins(x.name) = {})
            /\ Candidates(x) = {} \/ x.name \in DOMAIN resolved \/ \E f \in Frames : f.record.name = x.name
        BY <3>1 DEF ClosureInv, RequestsInv
      <4>2. (\E f \in Frames : f.record.name = x.name) => \E f \in Frames' : f.record.name = x.name
        BY <1>5
      <4>3. Candidates(x)' = Candidates(x) /\ Pins(x.name)' = Pins(x.name) /\ resolved' = resolved
        BY <1>4
      <4> QED  BY <4>1, <4>2, <4>3
    <3>2. CASE x = e /\ e \notin visiting
      <4>1. CASE Begun(e) \in Frames' /\ Candidates(e) # {}
        BY <1>3, <1>4, <1>8, <3>2, <4>1
      <4>2. CASE Candidates(e) = {} \/ e.name \in DOMAIN resolved
        BY <1>3, <1>4, <3>2, <4>2
      <4> QED  BY <1>2, <3>2, <4>1, <4>2
    <3> QED  BY <1>2, <3>1, <3>2
  <2> QED  BY <2>1 DEF RequestsInv
<1>10. Chosen \subseteq Chosen' /\ (Candidates(e) # {} => SelectRecord(e) \in Chosen')
  BY <1>2, <1>4 DEF Chosen
<1>11. RecordsInv'
  <2>1. ASSUME NEW g \in Frames' PROVE g.record \in Chosen' /\ ToSet(g.todo) \subseteq Reqs(g.record)
    <3>1. CASE g \in ToSet(rest)
      <4>1. PICK f \in Frames : g.record = f.record
        BY <1>7, <3>1
      <4>2. f.record \in Chosen /\ ToSet(g.todo) \subseteq Reqs(g.record)
        BY <3>1 DEF ClosureInv, RecordsInv
      <4> QED  BY <1>10, <4>1, <4>2
    <3>2. CASE g = Begun(e) /\ Candidates(e) # {}
      BY <1>8, <1>10, <3>2 DEF Reqs
    <3> QED  BY <1>6, <3>1, <3>2
  <2>2. \A n \in DOMAIN resolved : resolved[n].name = n /\ resolved[n] \in Chosen'
    BY <1>10 DEF ClosureInv, RecordsInv
  <2> QED  BY <1>2, <1>4, <2>1, <2>2 DEF RecordsInv, Reqs
<1>12. AskedInv'
  <2>1. ASSUME NEW n \in DOMAIN resolved, NEW q \in Reqs(resolved[n])
        PROVE  Effective(q)' \in visiting'
    BY <1>2, <1>4 DEF ClosureInv, AskedInv
  <2>2. ASSUME NEW g \in Frames', NEW q \in Reqs(g.record)
        PROVE  Effective(q)' \in visiting' \/ q \in ToSet(g.todo)
    <3>1. CASE g \in ToSet(rest)
      BY <1>1, <1>2, <1>4, <3>1
    <3>2. CASE g = Begun(e)
      BY <1>8, <3>2 DEF Reqs
    <3> QED  BY <1>6, <3>1, <3>2
  <2> QED  BY <2>1, <2>2 DEF AskedInv, Reqs
<1>13. Records \subseteq Records' /\ \A r \in Records' : r \in Records \/ (r = SelectRecord(e) /\ Candidates(e) # {})
  BY <1>5, <1>6, <1>7, <1>8 DEF Records
<1>14. ASSUME Candidates(e) # {}
       PROVE  \/ \E i \in DOMAIN roots : roots[i].name = SelectRecord(e).name
              \/ \E s \in Records' : \E q \in Reqs(s) : q.name = SelectRecord(e).name
  <2>1. SelectRecord(e).name = written.name
    BY <1>3, <1>8, <1>14
  <2>2. CASE required
    <3>1. PICK f \in Frames : written \in Reqs(f.record)
      BY <2>2
    <3>2. f.record \in Records'
      BY <1>13 DEF Records
    <3> QED  BY <2>1, <3>1, <3>2
  <2> QED  BY <2>1, <2>2
<1>15. ReachedInv'
  <2> SUFFICES ASSUME Settled'
               PROVE  /\ \A r \in Records' :
                           \/ \E i \in DOMAIN roots : roots[i].name = r.name
                           \/ \E s \in Records' : \E q \in Reqs(s) : q.name = r.name
                      /\ outcome' # "failed" =>
                           \A x \in visiting' : Candidates(x)' = {} =>
                             \E s \in Records' : \E q \in Reqs(s) : Effective(q)' = x
    BY DEF ReachedInv, Reqs, ToSet, ParseRequires
  <2>1. Settled
    BY <1>2, <1>4 DEF Settled, Undisputed, Agree, Open
  <2>2. ASSUME NEW r \in Records'
        PROVE  \/ \E i \in DOMAIN roots : roots[i].name = r.name
               \/ \E s \in Records' : \E q \in Reqs(s) : q.name = r.name
    <3>1. CASE r \in Records
      BY <1>13, <2>1, <3>1 DEF ClosureInv, ReachedInv
    <3>2. CASE r = SelectRecord(e) /\ Candidates(e) # {}
      BY <1>14, <3>2
    <3> QED  BY <1>13, <3>1, <3>2
  <2>3. ASSUME outcome' # "failed", NEW x \in visiting', Candidates(x)' = {}
        PROVE  \E s \in Records' : \E q \in Reqs(s) : Effective(q)' = x
    <3>1. CASE x \in visiting
      <4>1. PICK s \in Records : \E q \in Reqs(s) : Effective(q) = x
        BY <1>4, <2>1, <2>3, <3>1 DEF ClosureInv, ReachedInv
      <4> QED  BY <1>4, <1>13, <4>1
    <3>2. CASE x = e /\ e \notin visiting
      <4>1. Candidates(e) = {} /\ required
        BY <1>2, <1>4, <2>3, <3>2
      <4>2. PICK f \in Frames : written \in Reqs(f.record)
        BY <4>1
      <4>3. f.record \in Records'
        BY <1>13 DEF Records
      <4> QED  BY <1>1, <1>4, <3>2, <4>2, <4>3
    <3> QED  BY <1>2, <3>1, <3>2
  <2> QED  BY <2>2, <2>3
<1> QED
  BY <1>1, <1>2, <1>9, <1>11, <1>12, <1>15

\* A root is asked for on an empty stack, and gives way to nothing.
LEMMA AskRootKeeps == ASSUME ClosureInv, AskRoot PROVE ClosureInv'
<1>1. /\ outcome = "resolving" /\ stack = <<>> /\ asked < Len(roots) /\ asked' = asked + 1
      /\ Take(roots[asked + 1], FALSE, <<>>) /\ UNCHANGED <<index, manifest, roots, resolved>>
  BY DEF AskRoot
<1>2. PICK n \in Nat : n = Len(roots) /\ DOMAIN roots = 1..n /\ asked \in 0..n
  BY DEF ClosureInv, RootsInv
<1>3. PICK a \in 1..n : a = asked + 1 /\ asked = a - 1 /\ asked \in Nat
  BY <1>1, <1>2
<1>4. PICK w : w = roots[a] /\ w.version \in Nat /\ w.minimum = FALSE
  BY <1>3, <1>2 DEF ClosureInv, RootsInv
<1>5. Effective(w) = w
  BY <1>4 DEF Effective
<1>6. /\ <<>> \in Seq(Frame) /\ Frames = {} /\ ToSet(<<>>) = {}
  BY <1>1 DEF Frames, ToSet
<1>7. Take(w, FALSE, <<>>)
  BY <1>1, <1>2, <1>3, <1>4
<1>8. /\ visiting' = visiting \cup {w} /\ outcome' # "written"
      /\ RequestsInv' /\ RecordsInv' /\ AskedInv' /\ ReachedInv'
  <2>1. \E i \in DOMAIN roots : roots[i] = w
    BY <1>3, <1>4, <1>2
  <2>2. w.minimum \in BOOLEAN
    BY <1>4
  <2>3. {f.record : f \in ToSet(<<>>)} = {f.record : f \in Frames}
    BY <1>6
  <2>4. \A f \in ToSet(<<>>) : \A q \in Reqs(f.record) :
           Effective(q) \in visiting \/ q \in ToSet(f.todo) \/ q = w
    BY <1>6
  <2>5. \A f \in ToSet(<<>>) : ToSet(f.todo) \subseteq Reqs(f.record)
    BY <1>6
  <2> QED  BY <1>1, <1>4, <1>5, <1>6, <1>7, <2>1, <2>2, <2>3, <2>4, <2>5, TakeKeeps
<1>9. RootsInv'
  <2>1. asked' \in 0..Len(roots') /\ \A i \in 1..asked' : roots'[i] \in visiting'
    <3>1. asked' \in 0..n
      BY <1>1, <1>2, <1>3
    <3>2. ASSUME NEW i \in 1..asked' PROVE roots[i] \in visiting'
      <4>1. i = a \/ i \in 1..asked
        BY <1>1, <1>2, <1>3
      <4>2. \A j \in 1..asked : roots[j] \in visiting
        BY DEF ClosureInv, RootsInv
      <4> QED  BY <1>4, <1>8, <4>1, <4>2
    <3> QED  BY <1>1, <1>2, <1>3, <3>1, <3>2
  <2>2. OwnPins' = OwnPins
    BY <1>1 DEF OwnPins
  <2> QED  BY <1>1, <2>1, <2>2 DEF ClosureInv, RootsInv
<1> QED
  BY <1>1, <1>8, <1>9 DEF ClosureInv

\* The record on top keeps its place and has one question less.
LEMMA RequireKeeps == ASSUME ClosureInv, Require PROVE ClosureInv'
<1>1. PICK top, less, w :
        /\ top = Last(stack) /\ w = Head(top.todo) /\ less = [top EXCEPT !.todo = Tail(top.todo)]
        /\ stack # <<>> /\ top.todo # <<>> /\ outcome = "resolving"
        /\ Take(w, TRUE, Append(Front(stack), less))
        /\ UNCHANGED <<index, manifest, roots, asked, resolved>>
  BY DEF Require
<1>2. /\ top \in Frame /\ Front(stack) \in Seq(Frame) /\ Frames = ToSet(Front(stack)) \cup {top}
  BY <1>1, Ends DEF ClosureInv, RecordsInv, Frames
<1>3. /\ top.record \in index /\ top.todo \in Seq(Asks)
  BY <1>2 DEF Frame
<1>4. /\ w \in Asks /\ Tail(top.todo) \in Seq(Asks) /\ ToSet(top.todo) = {w} \cup ToSet(Tail(top.todo))
  BY <1>1, <1>3, Ends
<1>5. less.record = top.record /\ less.todo = Tail(top.todo) /\ less \in Frame
  BY <1>1, <1>2, <1>4 DEF Frame
<1>6. PICK rest \in Seq(Frame) : rest = Append(Front(stack), less) /\ ToSet(rest) = ToSet(Front(stack)) \cup {less}
  BY <1>2, <1>5, OneMore
<1>7. w.version \in Nat /\ w.minimum \in BOOLEAN
  BY <1>4, Required DEF Asks, ClosureInv
<1>8. {f.record : f \in ToSet(rest)} = {f.record : f \in Frames}
  BY <1>2, <1>5, <1>6
<1>9. ASSUME NEW f \in ToSet(rest), NEW q \in Reqs(f.record)
      PROVE  Effective(q) \in visiting \/ q \in ToSet(f.todo) \/ q = w
  BY <1>2, <1>4, <1>5, <1>6, <1>9 DEF ClosureInv, AskedInv
<1>10. \E f \in Frames : w \in Reqs(f.record)
  BY <1>2, <1>4 DEF ClosureInv, RecordsInv
<1>11. \A f \in ToSet(rest) : ToSet(f.todo) \subseteq Reqs(f.record)
  BY <1>2, <1>4, <1>5, <1>6 DEF ClosureInv, RecordsInv
<1>12. /\ visiting' = visiting \cup {Effective(w)} /\ outcome' # "written"
      /\ RequestsInv' /\ RecordsInv' /\ AskedInv' /\ ReachedInv'
  <2>1. Take(w, TRUE, rest)
    BY <1>1, <1>6
  <2> QED  BY <1>1, <1>7, <1>8, <1>9, <1>10, <1>11, <2>1, TakeKeeps
<1>13. RootsInv'
  <2>1. OwnPins' = OwnPins
    BY <1>1 DEF OwnPins
  <2> QED  BY <1>1, <1>12, <2>1 DEF ClosureInv, RootsInv
<1> QED
  BY <1>1, <1>12, <1>13 DEF ClosureInv

\* Requests of an undisputed name agree.
LEMMA Agreed ==
  ASSUME ClosureInv, NEW d \in visiting, NEW e \in visiting, d.name = e.name, Undisputed(d.name)
  PROVE  Agree(d, e)
<1>1. /\ d.minimum => Pins(d.name) = {}
      /\ e.minimum => Pins(d.name) = {}
  BY DEF ClosureInv, RequestsInv
<1> QED
  BY <1>1 DEF Undisputed

\* Of an undisputed name every request chooses the same record.
LEMMA OneChosen ==
  ASSUME ClosureInv, NEW r \in Chosen, NEW s \in Chosen, r.name = s.name, Undisputed(r.name)
  PROVE  r = s
<1>1. PICK d \in visiting : Candidates(d) # {} /\ r = SelectRecord(d)
  BY DEF Chosen
<1>2. PICK e \in visiting : Candidates(e) # {} /\ s = SelectRecord(e)
  BY DEF Chosen
<1>3. r.name = d.name /\ s.name = e.name /\ index \in Indexes \cup {{}}
  BY <1>1, <1>2, BestCandidate DEF ClosureInv
<1>4. Agree(d, e)
  BY <1>3, Agreed
<1>5. d.version \in Nat /\ d.minimum \in BOOLEAN /\ e.version \in Nat /\ e.minimum \in BOOLEAN
  BY DEF ClosureInv, RequestsInv
<1> QED
  BY <1>1, <1>2, <1>3, <1>4, <1>5, SameChoice

\* A record takes its name, maybe from another; all it requires was asked for.
LEMMA ResolveKeeps == ASSUME ClosureInv, Resolve PROVE ClosureInv'
<1>1. PICK last, record :
        /\ last = Last(stack) /\ record = last.record /\ last.todo = <<>>
        /\ stack # <<>> /\ outcome = "resolving" /\ stack' = Front(stack)
        /\ resolved' = [n \in DOMAIN resolved \cup {record.name} |->
                          IF n = record.name THEN record ELSE resolved[n]]
        /\ UNCHANGED <<index, manifest, roots, asked, visiting, outcome>>
  BY DEF Resolve
<1>2. /\ last \in Frame /\ stack' \in Seq(Frame) /\ Frames = Frames' \cup {last}
  BY <1>1, Ends DEF ClosureInv, RecordsInv, Frames
<1>3. /\ \A q : Effective(q)' = Effective(q) /\ Candidates(q)' = Candidates(q)
      /\ \A q : SelectRecord(q)' = SelectRecord(q)
      /\ \A n : Pins(n)' = Pins(n)
      /\ Frame' = Frame
  BY <1>1, Unmoved
<1>4. record \in Chosen /\ Chosen' = Chosen
  BY <1>1, <1>2, <1>3 DEF ClosureInv, RecordsInv, Chosen
<1>5. /\ DOMAIN resolved' = DOMAIN resolved \cup {record.name}
      /\ \A n \in DOMAIN resolved' : resolved'[n] = record \/ (n \in DOMAIN resolved /\ resolved'[n] = resolved[n])
      /\ \A n \in DOMAIN resolved' : resolved'[n].name = n
      /\ resolved'[record.name] = record
  BY <1>1 DEF ClosureInv, RecordsInv
<1>6. RootsInv'
  <2>1. OwnPins' = OwnPins
    BY <1>1 DEF OwnPins
  <2> QED  BY <1>1, <2>1 DEF ClosureInv, RootsInv
<1>7. RequestsInv'
  <2>1. ASSUME NEW e \in visiting
        PROVE  /\ e.version \in Nat /\ e.minimum \in BOOLEAN
               /\ e.minimum => Pins(e.name)' = {}
               /\ \/ Candidates(e)' = {}
                  \/ e.name \in DOMAIN resolved'
                  \/ \E f \in Frames' : f.record.name = e.name
    <3>1. /\ e.version \in Nat /\ e.minimum \in BOOLEAN /\ (e.minimum => Pins(e.name) = {})
          /\ Candidates(e) = {} \/ e.name \in DOMAIN resolved \/ \E f \in Frames : f.record.name = e.name
      BY DEF ClosureInv, RequestsInv
    <3>2. (\E f \in Frames : f.record.name = e.name) =>
            e.name = record.name \/ \E f \in Frames' : f.record.name = e.name
      BY <1>1, <1>2
    <3>3. Candidates(e)' = Candidates(e) /\ Pins(e.name)' = Pins(e.name)
      BY <1>3
    <3> QED  BY <1>5, <3>1, <3>2, <3>3
  <2> QED  BY <1>1, <2>1 DEF RequestsInv
<1>8. RecordsInv'
  <2>1. \A f \in Frames' : f.record \in Chosen' /\ ToSet(f.todo) \subseteq Reqs(f.record)
    BY <1>2, <1>4 DEF ClosureInv, RecordsInv
  <2>2. \A n \in DOMAIN resolved' : resolved'[n].name = n /\ resolved'[n] \in Chosen'
    BY <1>4, <1>5 DEF ClosureInv, RecordsInv
  <2> QED  BY <1>2, <1>3, <2>1, <2>2 DEF RecordsInv, Reqs
<1>9. \A q \in Reqs(record) : Effective(q) \in visiting
  <2>1. ToSet(last.todo) = {}
    BY <1>1 DEF ToSet
  <2>2. last \in Frames
    BY <1>2
  <2> QED  BY <1>1, <2>1, <2>2 DEF ClosureInv, AskedInv
<1>10. AskedInv'
  <2>1. ASSUME NEW n \in DOMAIN resolved', NEW q \in Reqs(resolved'[n])
        PROVE  Effective(q)' \in visiting'
    <3>1. Effective(q) \in visiting
      BY <1>5, <1>9 DEF ClosureInv, AskedInv
    <3> QED  BY <1>1, <1>3, <3>1
  <2>2. ASSUME NEW f \in Frames', NEW q \in Reqs(f.record)
        PROVE  Effective(q)' \in visiting' \/ q \in ToSet(f.todo)
    <3>1. Effective(q) \in visiting \/ q \in ToSet(f.todo)
      BY <1>2 DEF ClosureInv, AskedInv
    <3> QED  BY <1>1, <1>3, <3>1
  <2> QED  BY <2>1, <2>2 DEF AskedInv, Reqs
<1>11. ReachedInv'
  <2> SUFFICES ASSUME Settled'
               PROVE  /\ \A r \in Records' :
                           \/ \E i \in DOMAIN roots : roots[i].name = r.name
                           \/ \E s \in Records' : \E q \in Reqs(s) : q.name = r.name
                      /\ outcome # "failed" =>
                           \A x \in visiting : Candidates(x) = {} =>
                             \E s \in Records' : \E q \in Reqs(s) : Effective(q) = x
    BY <1>1, <1>3 DEF ReachedInv, Reqs, ToSet, ParseRequires
  <2>1. Settled
    BY <1>1, <1>3 DEF Settled, Undisputed, Agree, Open
  <2>2. record.name \in DOMAIN resolved => resolved[record.name] = record
    <3> SUFFICES ASSUME record.name \in DOMAIN resolved PROVE resolved[record.name] = record
      OBVIOUS
    <3>1. resolved[record.name] \in Chosen /\ resolved[record.name].name = record.name
      BY DEF ClosureInv, RecordsInv
    <3>2. Undisputed(record.name)
      <4>1. PICK d \in visiting : Candidates(d) # {} /\ record = SelectRecord(d)
        BY <1>4 DEF Chosen
      <4>2. record.name = d.name
        BY <4>1, BestCandidate DEF ClosureInv
      <4> QED  BY <2>1, <4>2 DEF Settled
    <3> QED  BY <1>4, <3>1, <3>2, OneChosen
  <2>3. Records' = Records
    <3>1. {resolved'[n] : n \in DOMAIN resolved'} = {resolved[n] : n \in DOMAIN resolved} \cup {record}
      BY <1>1, <1>5, <2>2
    <3>2. {f.record : f \in Frames} = {f.record : f \in Frames'} \cup {record}
      BY <1>1, <1>2
    <3> QED  BY <3>1, <3>2 DEF Records
  <2> QED  BY <2>1, <2>3 DEF ClosureInv, ReachedInv
<1> QED
  BY <1>1, <1>6, <1>7, <1>8, <1>10, <1>11 DEF ClosureInv

\* Once every root had its turn, writing changes the outcome alone.
LEMMA StutterKeeps ==
  ASSUME ClosureInv, UNCHANGED <<index, manifest, roots, asked, stack, visiting, resolved>>,
         outcome' = outcome \/ (outcome = "resolving" /\ stack = <<>> /\ asked = Len(roots))
  PROVE  ClosureInv'
<1>1. /\ \A q : Effective(q)' = Effective(q) /\ Candidates(q)' = Candidates(q)
      /\ \A q : SelectRecord(q)' = SelectRecord(q)
      /\ \A n : Pins(n)' = Pins(n)
      /\ Frame' = Frame
  BY Unmoved
<1>2. RootsInv'
  <2>1. OwnPins' = OwnPins
    BY DEF OwnPins
  <2> QED  BY <2>1 DEF ClosureInv, RootsInv
<1>3. RequestsInv' /\ Frames' = Frames /\ Records' = Records /\ Chosen' = Chosen
  <2>1. Frames' = Frames
    BY DEF Frames
  <2>2. Chosen' = Chosen
    BY <1>1 DEF Chosen
  <2> QED  BY <1>1, <2>1, <2>2 DEF ClosureInv, RequestsInv, Records
<1>4. RecordsInv'
  BY <1>1, <1>3 DEF ClosureInv, RecordsInv, Reqs
<1>5. AskedInv'
  BY <1>1, <1>3 DEF ClosureInv, AskedInv, Reqs
<1>6. ReachedInv'
  <2> SUFFICES ASSUME Settled'
               PROVE  /\ \A r \in Records :
                           \/ \E i \in DOMAIN roots : roots[i].name = r.name
                           \/ \E s \in Records : \E q \in Reqs(s) : q.name = r.name
                      /\ outcome' # "failed" =>
                           \A x \in visiting : Candidates(x) = {} =>
                             \E s \in Records : \E q \in Reqs(s) : Effective(q) = x
    BY <1>1, <1>3 DEF ReachedInv, Reqs, ToSet, ParseRequires
  <2>1. Settled
    BY <1>1 DEF Settled, Undisputed, Agree, Open
  <2> QED  BY <2>1 DEF ClosureInv, ReachedInv
<1> QED
  BY <1>2, <1>3, <1>4, <1>5, <1>6 DEF ClosureInv

\* Before the first root nothing was asked for.
LEMMA ClosureBegins == ASSUME ClosureIdle \/ ClosureInit PROVE ClosureInv
<1>1. /\ stack = <<>> /\ asked = 0 /\ visiting = {} /\ resolved = <<>> /\ DOMAIN resolved = {}
      /\ index \in Indexes \cup {{}} /\ outcome # "written"
  BY DEF ClosureIdle, ClosureInit, Fresh
<1>2. Frames = {} /\ Records = {} /\ stack \in Seq(Frame)
  BY <1>1 DEF Frames, ToSet, Records
<1>3. RequestsInv /\ RecordsInv /\ AskedInv /\ ReachedInv
  BY <1>1, <1>2 DEF RequestsInv, RecordsInv, AskedInv, ReachedInv
<1>4. \E n \in Nat : /\ DOMAIN roots = 1..n /\ roots = [i \in 1..n |-> roots[i]]
                     /\ \A i \in 1..n : roots[i].version \in Nat /\ roots[i].minimum = FALSE
                     /\ \A p \in OwnPins : \E i \in 1..n : roots[i] = Exactly(p)
  <2>1. CASE ClosureIdle
    <3>1. roots = <<>> /\ OwnPins = {} /\ DOMAIN roots = 1..0 /\ roots = [i \in 1..0 |-> roots[i]]
      BY <2>1 DEF ClosureIdle, OwnPins, Selected
    <3> QED  BY <3>1
  <2>2. CASE ClosureInit
    <3>1. roots = Roots(manifest) /\ manifest \in Manifests
      BY <2>2 DEF ClosureInit
    <3>2. Roots(manifest) = [i \in DOMAIN Roots(manifest) |-> Roots(manifest)[i]]
      BY DEF Roots
    <3> QED  BY <3>1, <3>2, RootsHold
  <2> QED  BY <2>1, <2>2
<1>5. RootsInv
  <2>1. PICK n \in Nat : /\ DOMAIN roots = 1..n /\ roots = [i \in 1..n |-> roots[i]]
                         /\ \A i \in 1..n : roots[i].version \in Nat /\ roots[i].minimum = FALSE
                         /\ \A p \in OwnPins : \E i \in 1..n : roots[i] = Exactly(p)
    BY <1>4
  <2>2. \A i \in 1..n : roots[i] \in ToSet(roots)
    BY <2>1 DEF ToSet
  <2>3. roots \in [1..n -> ToSet(roots)]
    BY <2>1, <2>2
  <2>4. roots \in Seq(ToSet(roots)) /\ Len(roots) \in Nat
    BY <2>3
  <2> QED  BY <1>1, <2>1, <2>4 DEF RootsInv
<1> QED
  BY <1>1, <1>3, <1>5 DEF ClosureInv

LEMMA ClosureKeeps == ASSUME ClosureInv, ClosureNext PROVE ClosureInv'
<1>1. CASE WriteVipc
  BY <1>1, StutterKeeps DEF WriteVipc
<1> QED
  BY <1>1, AskRootKeeps, RequireKeeps, ResolveKeeps DEF ClosureNext

\* What was written holds what was asked for.
LEMMA ArchiveHolds == ASSUME ClosureInv PROVE ArchiveSound
<1> SUFFICES ASSUME outcome = "written" PROVE ArchiveSound
  BY DEF ArchiveSound
<1>1. /\ index \in Indexes \cup {{}} /\ Frames = {}
      /\ \A i \in DOMAIN roots : roots[i] \in visiting /\ roots[i].version \in Nat /\ roots[i].minimum = FALSE
      /\ \A p \in OwnPins : \E i \in DOMAIN roots : roots[i] = Exactly(p)
  <2>1. stack = <<>> /\ asked = Len(roots)
    BY DEF ClosureInv
  <2>2. DOMAIN roots = 1..Len(roots)
    BY DEF ClosureInv, RootsInv
  <2> QED  BY <2>1, <2>2 DEF ClosureInv, RootsInv, Frames, ToSet
<1>2. \A e \in visiting : /\ e.version \in Nat /\ e.minimum \in BOOLEAN
                          /\ Candidates(e) # {} => e.name \in DOMAIN resolved
  BY <1>1 DEF ClosureInv, RequestsInv
<1>3. ASSUME NEW e \in visiting, Candidates(e) # {}, Undisputed(e.name)
      PROVE  e.name \in DOMAIN resolved /\ resolved[e.name] = SelectRecord(e)
  <2>1. e.name \in DOMAIN resolved
    BY <1>2, <1>3
  <2>2. resolved[e.name] \in Chosen /\ resolved[e.name].name = e.name
    BY <2>1 DEF ClosureInv, RecordsInv
  <2>3. SelectRecord(e) \in Chosen /\ SelectRecord(e).name = e.name
    BY <1>1, <1>3, BestCandidate DEF Chosen
  <2> QED  BY <1>3, <2>1, <2>2, <2>3, OneChosen
<1>4. ASSUME NEW p \in OwnPins, Undisputed(Published(p.name)), Candidates(Exactly(p)) # {}
      PROVE  /\ Published(p.name) \in DOMAIN resolved
             /\ resolved[Published(p.name)].version = p.version
  <2>1. PICK e \in visiting : e = Exactly(p)
    BY <1>1
  <2>2. e.name = Published(p.name) /\ e.version = p.version /\ e.minimum = FALSE
    BY <2>1 DEF Exactly
  <2>3. e.name \in DOMAIN resolved /\ resolved[e.name] = SelectRecord(e)
    BY <1>3, <1>4, <2>1, <2>2
  <2>4. SelectRecord(e) \in Candidates(e)
    BY <1>1, <1>4, <2>1, BestCandidate
  <2>5. p.version # 0
    BY DEF OwnPins
  <2> QED  BY <2>2, <2>3, <2>4, <2>5 DEF Candidates
<1>5. ASSUME NEW q \in Requirements, Candidates(Effective(q)) # {}
      PROVE  /\ q.name \in DOMAIN resolved
             /\ Undisputed(q.name) /\ (q.minimum => Pins(q.name) = {}) =>
                  resolved[q.name] \in Candidates(q)
  <2>1. PICK n \in DOMAIN resolved : q \in Reqs(resolved[n])
    BY DEF Requirements, Reqs
  <2>2. Effective(q) \in visiting
    BY <2>1 DEF ClosureInv, AskedInv
  <2>3. resolved[n] \in index
    <3>1. resolved[n] \in Chosen
      BY DEF ClosureInv, RecordsInv
    <3>2. PICK d \in visiting : Candidates(d) # {} /\ resolved[n] = SelectRecord(d)
      BY <3>1 DEF Chosen
    <3> QED  BY <1>1, <3>2, BestCandidate
  <2>4. q.version \in Nat /\ q.minimum \in BOOLEAN
    BY <1>1, <2>1, <2>3, Required
  <2>5. Effective(q).name = q.name /\ ((q.minimum => Pins(q.name) = {}) => Effective(q) = q)
    BY <2>4, GivesWay DEF ClosureInv
  <2>6. q.name \in DOMAIN resolved
    BY <1>2, <1>5, <2>2, <2>5
  <2>7. ASSUME Undisputed(q.name), q.minimum => Pins(q.name) = {}
        PROVE  resolved[q.name] \in Candidates(q)
    <3>1. q \in visiting /\ Candidates(q) # {}
      BY <1>5, <2>2, <2>5, <2>7
    <3> QED  BY <1>1, <1>3, <2>7, <3>1, BestCandidate
  <2> QED  BY <2>6, <2>7
<1>6. ASSUME \A q \in visiting : Undisputed(q.name)
      PROVE  /\ \A n \in DOMAIN resolved :
                  \/ \E i \in DOMAIN roots : roots[i].name = n
                  \/ \E q \in Requirements : q.name = n
             /\ \A i \in DOMAIN roots : Candidates(roots[i]) = {} =>
                  \E q \in Requirements : Effective(q) = roots[i]
  <2>1. Records = {resolved[n] : n \in DOMAIN resolved}
    BY <1>1 DEF Records
  <2>2. \A s \in Records : Reqs(s) \subseteq Requirements
    BY <2>1 DEF Requirements, Reqs
  <2>3. /\ \A r \in Records :
             \/ \E i \in DOMAIN roots : roots[i].name = r.name
             \/ \E q \in Requirements : q.name = r.name
        /\ \A e \in visiting : Candidates(e) = {} => \E q \in Requirements : Effective(q) = e
    BY <1>6, <2>2 DEF ClosureInv, ReachedInv, Settled
  <2>4. \A n \in DOMAIN resolved : resolved[n] \in Records /\ resolved[n].name = n
    BY <2>1 DEF ClosureInv, RecordsInv
  <2> QED  BY <1>1, <2>3, <2>4
<1>7. \A i \in DOMAIN roots : Candidates(roots[i]) # {} => roots[i].name \in DOMAIN resolved
  BY <1>1, <1>2
<1> QED
  BY <1>4, <1>5, <1>6, <1>7 DEF ArchiveSound

\* Of any index and any two lists: the resolution ends, and an archive it
\* writes holds what was asked for.
THEOREM ClosureIsSound == Spec => []ClosureSound
<1>1. Init => ClosureInv
  BY ClosureBegins DEF Init
<1>2. ClosureInv /\ [Next]_vars => ClosureInv'
  <2> SUFFICES ASSUME ClosureInv, [Next]_vars PROVE ClosureInv'
    OBVIOUS
  <2>1. CASE ClosureNext
    BY <2>1, ClosureKeeps
  <2>2. CASE UNCHANGED closureVars
    BY <2>2, StutterKeeps DEF closureVars
  <2> QED  BY <2>1, <2>2 DEF Next, vars
<1>3. RecursionEnds /\ ClosureInv => ClosureSound
  BY ArchiveHolds DEF ClosureSound
<1> QED
  BY <1>1, <1>2, <1>3, ClosureEnds, PTL DEF Spec
=============================================================================
