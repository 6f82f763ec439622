------------------------ MODULE ReleasePipelineProofs ------------------------
(***************************************************************************)
(* Proofs about ReleasePipeline, for any lanes, inputs and bounds.         *)
(***************************************************************************)
EXTENDS ReleasePipeline, SequenceTheorems, TLAPS

USE DEF MaybeVersion

\* The refs the publishing script touches are moving refs, and their names
\* determine the line: two versions share an alias iff they share the parts.
LEMMA RefNames ==
  /\ \A c \in {"stable", "beta", "dev"} : Channel(c) \in RefName
  /\ \A v \in Versions : MajorRef(v) \in RefName /\ MinorRef(v) \in RefName
BY DEF RefName

LEMMA V0Version == V0 \in Versions
BY BoundsAssumption DEF V0, Versions

LEMMA InitTypes == Init => TypeOK
<1> SUFFICES ASSUME Init PROVE TypeOK
  OBVIOUS
<1>1. Catalog0 \in Catalog
  BY V0Version DEF Catalog0, Catalog, NoPtr, Tier
<1>2. NoRefs \in [RefName -> MaybeVersion]
  BY DEF NoRefs
<1>3. IdleRun \in Run
  BY <1>1, <1>2 DEF IdleRun, Run, PC
<1>4. main \in Seq(Commit) /\ main # <<>>
  BY <1>1 DEF Init, Commit
<1>5. refs \in [RefName -> MaybeVersion]
  BY <1>2, V0Version, RefNames DEF Init
<1> QED
  BY <1>1, <1>3, <1>4, <1>5, V0Version, BoundsAssumption DEF Init, TypeOK

-----------------------------------------------------------------------------
(***************************************************************************)
(* The catalog edits produce catalogs.                                     *)
(***************************************************************************)
LEMMA WithEntryType ==
  ASSUME NEW c \in Catalog, NEW v, WithEntry(c, v).version \in Versions
  PROVE  WithEntry(c, v) \in Catalog
<1> DEFINE Entry == [v : Versions, tiers : SUBSET Tier]
           e == <<[v |-> v, tiers |-> {}]>>
<1>1. v \in Versions
  BY DEF WithEntry, Catalog
<1>2. e \in Seq(Entry) /\ c.hist \in Seq(Entry)
  BY <1>1 DEF Catalog
<1>3. e \o c.hist \in Seq(Entry)
  BY <1>2
<1>4. WithEntry(c, v) = [c EXCEPT !.version = v, !.hist = e \o c.hist]
  BY DEF WithEntry
<1> HIDE DEF e
<1> QED
  BY <1>1, <1>3, <1>4 DEF Catalog

LEMMA PromotedType ==
  ASSUME NEW c \in Catalog, NEW job \in Job, job.kind = "promote",
         NEW i \in DOMAIN c.hist, NEW d \in Promoted(c, i, job)
  PROVE  d \in Catalog
<1> DEFINE Entry == [v : Versions, tiers : SUBSET Tier]
           h == Flagged(c.hist, i, job)
<1>1. job.target \in Versions /\ job.tier \in Tier
  BY DEF Job
<1>2. h \in Seq(Entry)
  <2>1. c.hist \in Seq(Entry) /\ i \in 1..Len(c.hist)
    BY DEF Catalog
  <2>2. c.hist[i] \in Entry
    BY <2>1, ElementOfSeq
  <2>3. PICK ts \in SUBSET Tier : h = [c.hist EXCEPT ![i].tiers = ts]
    <3>1. c.hist[i].tiers \ {job.tier} \in SUBSET Tier
          /\ c.hist[i].tiers \cup {job.tier} \in SUBSET Tier
      BY <1>1, <2>2
    <3> QED  BY <3>1 DEF Flagged
  <2>4. h = [c.hist EXCEPT ![i] = [v |-> c.hist[i].v, tiers |-> ts]]
    BY <2>1, <2>2, <2>3
  <2> HIDE DEF h
  <2>5. [v |-> c.hist[i].v, tiers |-> ts] \in Entry
    BY <2>2
  <2> QED  BY <2>1, <2>4, <2>5
<1>3. PointerChoice(h, job) \subseteq MaybeVersion
  <2> HIDE DEF h
  <2>1. \A j \in 1..Len(h) : h[j] \in Entry
    BY <1>2, ElementOfSeq
  <2>2. DOMAIN h = 1..Len(h)
    BY <1>2
  <2>3. \A j \in DOMAIN h : h[j].v \in Versions
    BY <2>1, <2>2
  <2> QED  BY <1>1, <2>3 DEF PointerChoice, First
<1>4. PICK p \in PointerChoice(h, job) :
         d = [c EXCEPT !.hist = h, !.ptr[job.tier] = p]
  BY DEF Promoted
<1> HIDE DEF h
<1>5. p \in MaybeVersion
  BY <1>3
<1> QED
  BY <1>1, <1>2, <1>4, <1>5 DEF Catalog

LEMMA NewCatalogsType ==
  ASSUME NEW c \in Catalog, NEW job \in Job, NEW known \in SUBSET Versions,
         NEW d \in NewCatalogs(job, c, known), d.version \in Versions
  PROVE  d \in Catalog
<1>1. CASE job.kind = "release"
  <2>1. d \in ReleaseCatalogs(job, c, known)
    BY <1>1 DEF NewCatalogs
  <2> QED  BY <2>1, WithEntryType DEF ReleaseCatalogs
<1>2. CASE job.kind = "promote"
  <2>1. d \in PromoteCatalogs(job, c, known)
    BY <1>2 DEF NewCatalogs
  <2>2. PICK i \in DOMAIN c.hist :
           \E e \in Promoted(c, i, job) : \E v : d = WithEntry(e, v)
    BY <2>1 DEF PromoteCatalogs, First
  <2>a. PICK e \in Promoted(c, i, job) : \E v : d = WithEntry(e, v)
    BY <2>2
  <2>3. e \in Catalog
    BY <1>2, PromotedType
  <2> QED  BY <2>a, <2>3, WithEntryType
<1> QED
  BY <1>1, <1>2 DEF Job

-----------------------------------------------------------------------------
(***************************************************************************)
(* Remote state only grows, so what a clone knows stays true.              *)
(***************************************************************************)
Grows ==
  /\ main' \in Seq(Commit) /\ Len(main') >= Len(main)
  /\ \A i \in DOMAIN main : main'[i] = main[i]
  /\ tags' \in [Versions -> Nat]
  /\ \A v \in Versions : tags[v] # 0 => tags'[v] = tags[v]

LEMMA ConsistentGrows ==
  ASSUME TypeOK, Grows, NEW r \in Run, Consistent(r)
  PROVE  Consistent(r)'
<1>1. DOMAIN main \subseteq DOMAIN main'
  BY DEF Grows, TypeOK
<1>2. TagSet \subseteq TagSet'
  BY DEF Grows, TagSet
<1> QED
  BY <1>1, <1>2 DEF Consistent, Grows

\* A step of lane l alone keeps the runs consistent if it keeps its own.
LEMMA RunStep ==
  ASSUME TypeOK, RunsConsistent, Grows, UNCHANGED pending, NEW l \in Lanes,
         run' \in [Lanes -> Run],
         \A k \in Lanes \ {l} : run'[k] = run[k],
         Consistent(run[l])'
  PROVE  RunsConsistent'
<1>1. DOMAIN main \subseteq DOMAIN main'
  BY DEF Grows, TypeOK
<1>2. ASSUME NEW k \in Lanes \ {l} PROVE Consistent(run[k])'
  <2>1. PICK r \in Run : r = run[k] /\ r = run'[k]
    BY DEF TypeOK
  <2>2. Consistent(r)'
    BY <2>1, ConsistentGrows DEF RunsConsistent
  <2> QED  BY <2>1, <2>2
<1> QED
  BY <1>1, <1>2 DEF RunsConsistent

\* Such a step that leaves everything remote alone preserves the invariant.
LEMMA LocalStep ==
  ASSUME IInv, UNCHANGED <<main, tags, refs, released, pending, budget>>,
         NEW l \in Lanes, NEW r \in Run, run' = [run EXCEPT ![l] = r], Consistent(r)
  PROVE  IInv'
<1>1. Grows
  BY DEF Grows, IInv, TypeOK
<1>2. run' \in [Lanes -> Run] /\ run'[l] = r /\ \A k \in Lanes \ {l} : run'[k] = run[k]
  BY DEF IInv, TypeOK
<1>3. Consistent(r)'
  BY <1>1, ConsistentGrows DEF IInv
<1>4. RunsConsistent'
  <2>1. Consistent(run[l])'
    BY <1>2, <1>3
  <2> QED  BY <1>1, <1>2, <2>1, RunStep DEF IInv
<1>5. TypeOK' /\ TagIntegrity' /\ RefsPublished'
  BY <1>2 DEF IInv, TypeOK, TagIntegrity, RefsPublished, TagSet
<1> QED
  BY <1>4, <1>5 DEF IInv

LEMMA IdleConsistent == ASSUME IInv PROVE IdleRun \in Run /\ Consistent(IdleRun)
<1>1. Catalog0 \in Catalog
  BY V0Version DEF Catalog0, Catalog, NoPtr, Tier
<1>2. IdleRun \in Run
  BY <1>1 DEF IdleRun, Run, PC, NoRefs
<1>3. 1 \in DOMAIN main
  BY DEF IInv, TypeOK
<1> QED
  BY <1>2, <1>3 DEF IdleRun, Consistent, Publishing

\* The steps that end a run.
LEMMA FinishInv ==
  ASSUME IInv, NEW l \in Lanes, Finish(l),
         UNCHANGED <<main, tags, refs, released, pending, budget>>
  PROVE  IInv'
BY IdleConsistent, LocalStep DEF Finish

LEMMA PrepareInv == ASSUME IInv, NEW l \in Lanes, Prepare(l) PROVE IInv'
<1>1. PICK c \in NewCatalogs(run[l].job, run[l].cat, run[l].tags) :
        c.version \in Versions /\ run' = [run EXCEPT ![l].pc = "push", ![l].cat = c]
  BY DEF Prepare
<1>2. run[l] \in Run /\ run[l].job \in Job /\ Consistent(run[l])
  BY DEF IInv, TypeOK, RunsConsistent, Consistent, Prepare
<1>3. c \in Catalog
  BY <1>1, <1>2, NewCatalogsType DEF Run
<1> DEFINE r == [run[l] EXCEPT !.pc = "push", !.cat = c]
<1>4. r \in Run
  BY <1>2, <1>3 DEF Run, PC
<1>5. Consistent(r)
  BY <1>2 DEF Consistent, Publishing, Run
<1>6. run' = [run EXCEPT ![l] = r]
  BY <1>1 DEF IInv, TypeOK
<1> QED
  BY <1>4, <1>5, <1>6, LocalStep DEF Prepare

LEMMA PushRejectedInv == ASSUME IInv, NEW l \in Lanes, PushRejected(l) PROVE IInv'
<1> DEFINE n == run[l].tries + 1
           r == [run[l] EXCEPT !.pc = "rebase", !.tries = n]
<1>1. run[l] \in Run /\ Consistent(run[l])
  BY DEF IInv, TypeOK, RunsConsistent
<1>2. r \in Run
  <2>1. n \in Nat
    BY <1>1 DEF Run
  <2> HIDE DEF n
  <2> QED  BY <1>1, <2>1 DEF Run, PC
<1>3. Consistent(r)
  BY <1>1 DEF Consistent, Publishing, Run, PushRejected
<1>4. run' = [run EXCEPT ![l] = r]
  BY DEF PushRejected, IInv, TypeOK
<1> QED
  BY <1>2, <1>3, <1>4, LocalStep DEF PushRejected

LEMMA RebaseInv == ASSUME IInv, NEW l \in Lanes, Rebase(l) PROVE IInv'
<1> DEFINE rs == [x \in RefName |-> IF run[l].refs[x] = NoVersion THEN refs[x] ELSE run[l].refs[x]]
           ts == run[l].tags \cup TagSet
           n  == Len(main)
           r == [run[l] EXCEPT !.pc = "push", !.base = n, !.tags = ts, !.refs = rs]
<1>1. run[l] \in Run /\ Consistent(run[l]) /\ TagSet \subseteq Versions
  BY DEF IInv, TypeOK, RunsConsistent, TagSet
<1>2. rs \in [RefName -> MaybeVersion] /\ Len(main) \in DOMAIN main
  BY <1>1 DEF IInv, TypeOK, Run
<1>3. r \in Run
  <2>1. ts \in SUBSET Versions /\ n \in Nat
    BY <1>1, <1>2 DEF Run, IInv, TypeOK
  <2> HIDE DEF rs, ts, n
  <2> QED  BY <1>1, <1>2, <2>1 DEF Run, PC
<1>4. Consistent(r)
  BY <1>1, <1>2 DEF Consistent, Publishing, Run, Rebase
<1>5. run' = [run EXCEPT ![l] = r]
  BY DEF Rebase, IInv, TypeOK
<1> QED
  BY <1>3, <1>4, <1>5, LocalStep DEF Rebase

LEMMA TagExistsInv == ASSUME IInv, NEW l \in Lanes, TagExists(l) PROVE IInv'
<1> DEFINE r == [run[l] EXCEPT !.pc = "minor"]
<1>1. run[l] \in Run /\ Consistent(run[l])
  BY DEF IInv, TypeOK, RunsConsistent
<1>2. r \in Run
  BY <1>1 DEF Run, PC
<1>3. Consistent(r)
  BY <1>1 DEF Consistent, Publishing, Run, TagExists, V
<1>4. run' = [run EXCEPT ![l] = r]
  BY DEF TagExists, Goto, IInv, TypeOK
<1> QED
  BY <1>2, <1>3, <1>4, LocalStep DEF TagExists

-----------------------------------------------------------------------------
(***************************************************************************)
(* The steps that push something.                                          *)
(***************************************************************************)
LEMMA RemoteStep ==
  ASSUME IInv, Grows, UNCHANGED <<pending, budget>>,
         NEW l \in Lanes, NEW r \in Run, run' = [run EXCEPT ![l] = r], Consistent(r)',
         refs' \in [RefName -> MaybeVersion], released' \subseteq Versions,
         TagIntegrity', RefsPublished'
  PROVE  IInv'
<1>1. run' \in [Lanes -> Run] /\ run'[l] = r /\ \A k \in Lanes \ {l} : run'[k] = run[k]
  BY DEF IInv, TypeOK
<1>2. RunsConsistent'
  <2>1. Consistent(run[l])'
    BY <1>1
  <2> QED  BY <1>1, <2>1, RunStep DEF IInv
<1>3. TypeOK'
  BY <1>1 DEF IInv, TypeOK, Grows
<1> QED
  BY <1>2, <1>3 DEF IInv

LEMMA PushInv == ASSUME IInv, NEW l \in Lanes, Push(l) PROVE IInv'
<1> DEFINE n == Len(main) + 1
           c == [cat |-> run[l].cat, merge |-> FALSE]
<1>1. PICK r : r = [run[l] EXCEPT !.pc = "tag", !.base = n]
  OBVIOUS
<1>2. run[l] \in Run /\ Consistent(run[l])
  BY DEF IInv, TypeOK, RunsConsistent
<1>3. c \in Commit
  BY <1>2 DEF Commit, Run
<1>4. main' = Append(main, c) /\ main \in Seq(Commit)
  BY DEF Push, IInv, TypeOK
<1>5. /\ n \in DOMAIN main' /\ main'[n] = c /\ n \in Nat
      /\ main' \in Seq(Commit) /\ Len(main') = n
      /\ \A i \in DOMAIN main : i \in DOMAIN main' /\ main'[i] = main[i]
  <2> HIDE DEF c
  <2> QED  BY <1>3, <1>4
<1>6. Grows
  BY <1>5 DEF Grows, Push, IInv, TypeOK
<1>7. r \in Run
  <2> HIDE DEF n
  <2> QED  BY <1>1, <1>2, <1>5 DEF Run, PC
<1>8. Consistent(r)'
  <2>1. r.pc = "tag" /\ r.base = n /\ r.tags = run[l].tags /\ r.cat = run[l].cat
        /\ r.job = run[l].job
    BY <1>1, <1>2 DEF Run
  <2>2. main'[n].cat = run[l].cat /\ n \in DOMAIN main'
    BY <1>5
  <2> HIDE DEF n
  <2> QED  BY <1>2, <2>1, <2>2 DEF Consistent, Publishing, Push, TagSet
<1>9. TagIntegrity' /\ RefsPublished'
  BY <1>5 DEF IInv, TagIntegrity, RefsPublished, Push, TagSet
<1>10. run' = [run EXCEPT ![l] = r]
  BY <1>1 DEF Push, IInv, TypeOK
<1> QED
  BY <1>6, <1>7, <1>8, <1>9, <1>10, RemoteStep DEF Push, IInv, TypeOK

LEMMA CreateTagInv == ASSUME IInv, NEW l \in Lanes, CreateTag(l) PROVE IInv'
<1> DEFINE v == V(l)
           b == run[l].base
           ts == run[l].tags \cup {v}
<1>1. PICK r : r = [run[l] EXCEPT !.pc = "minor", !.newTag = TRUE, !.tags = ts]
  OBVIOUS
<1>2. run[l] \in Run /\ Consistent(run[l])
  BY DEF IInv, TypeOK, RunsConsistent
<1>3. /\ v \in Versions /\ tags[v] = 0
      /\ b \in DOMAIN main /\ main[b].cat.version = v /\ b \in Nat \ {0}
  BY <1>2 DEF CreateTag, V, Run, Catalog, Consistent, Publishing, IInv, TypeOK
<1>4. tags' = [tags EXCEPT ![v] = b] /\ tags \in [Versions -> Nat]
  BY DEF CreateTag, IInv, TypeOK
<1> HIDE DEF v, b
<1>5. Grows
  BY <1>3, <1>4 DEF Grows, CreateTag, IInv, TypeOK
<1>6. TagSet' = TagSet \cup {v}
  BY <1>3, <1>4 DEF TagSet
<1>7. r \in Run
  <2>1. ts \in SUBSET Versions
    BY <1>2, <1>3 DEF Run
  <2> HIDE DEF ts
  <2> QED  BY <1>1, <1>2, <2>1 DEF Run, PC
<1>8. Consistent(r)'
  <2>1. r.pc = "minor" /\ r.base = run[l].base /\ r.tags = ts /\ r.cat = run[l].cat
        /\ r.job = run[l].job
    BY <1>1, <1>2 DEF Run
  <2>2. run[l].cat.version = v
    BY DEF v, V
  <2> QED  BY <1>2, <1>6, <2>1, <2>2 DEF Consistent, Publishing, CreateTag
<1>9. TagIntegrity' /\ RefsPublished'
  BY <1>3, <1>4, <1>6 DEF IInv, TypeOK, TagIntegrity, RefsPublished, CreateTag
<1>10. run' = [run EXCEPT ![l] = r]
  BY <1>1 DEF CreateTag, IInv, TypeOK, v
<1> QED
  BY <1>5, <1>7, <1>8, <1>9, <1>10, RemoteStep DEF CreateTag, IInv, TypeOK

\* Every use of git push -f: the ref is of the version's line, and the clone
\* has the version's tag.
LEMMA MoveRefInv ==
  ASSUME IInv, NEW l \in Lanes, NEW wanted, NEW ref \in RefName, NEW v,
         NEW next \in Publishing, next # "tag", run[l].pc \in Publishing \ {"tag"},
         wanted => v \in run[l].tags /\ OnLine(ref, v),
         MoveRef(l, wanted, ref, v, next)
  PROVE  IInv'
<1>1. run[l] \in Run /\ Consistent(run[l])
  BY DEF IInv, TypeOK, RunsConsistent
<1>2. next \in PC
  BY DEF Publishing, PC
<1>3. CASE wanted
  <2> DEFINE rs == [run[l].refs EXCEPT ![ref] = v]
  <2>1. PICK r : r = [run[l] EXCEPT !.pc = next, !.refs = rs]
    OBVIOUS
  <2>2. v \in TagSet /\ v \in Versions /\ OnLine(ref, v)
    BY <1>1, <1>3 DEF Consistent, TagSet
  <2>3. refs' = [refs EXCEPT ![ref] = v] /\ run' = [run EXCEPT ![l] = r]
    <3>1. refs' = [refs EXCEPT ![ref] = v]
          /\ run' = [run EXCEPT ![l].pc = next, ![l].refs[ref] = v]
      BY <1>3, Zenon DEF MoveRef
    <3>2. run \in [Lanes -> Run]
      BY DEF IInv, TypeOK
    <3>3. r = [run[l] EXCEPT !.pc = next, !.refs[ref] = v]
      BY <2>1, <1>1 DEF Run
    <3>4. run' = [run EXCEPT ![l] = [run[l] EXCEPT !.pc = next, !.refs[ref] = v]]
      BY <3>1, <3>2
    <3> QED  BY <3>1, <3>3, <3>4
  <2>4. r \in Run
    <3>1. rs \in [RefName -> MaybeVersion]
      BY <1>1, <2>2 DEF Run
    <3> HIDE DEF rs
    <3> QED  BY <2>1, <1>1, <1>2, <3>1 DEF Run
  <2>5. Consistent(r)'
    <3>1. r.pc = next /\ r.base = run[l].base /\ r.tags = run[l].tags
          /\ r.cat = run[l].cat /\ r.job = run[l].job
      BY <2>1, <1>1 DEF Run
    <3> QED  BY <1>1, <3>1 DEF Consistent, Publishing, MoveRef, TagSet
  <2>6. Grows
    BY DEF Grows, MoveRef, IInv, TypeOK
  <2>7. RefsPublished' /\ TagIntegrity'
    BY <2>2, <2>3 DEF IInv, TypeOK, RefsPublished, TagIntegrity, MoveRef, TagSet, OnLine
  <2> QED
    BY <2>2, <2>3, <2>4, <2>5, <2>6, <2>7, RemoteStep DEF MoveRef, IInv, TypeOK
<1>4. CASE ~wanted
  <2> DEFINE r  == [run[l] EXCEPT !.pc = next]
  <2>1. r \in Run /\ Consistent(r)
    BY <1>1, <1>2 DEF Run, Consistent, Publishing
  <2>2. run' = [run EXCEPT ![l] = r]
    BY <1>4 DEF MoveRef, Goto, IInv, TypeOK
  <2> QED
    BY <1>4, <2>1, <2>2, LocalStep DEF MoveRef
<1> QED
  BY <1>3, <1>4

\* What the five uses know of their run.
LEMMA PublishingRun ==
  ASSUME IInv, NEW l \in Lanes, run[l].pc \in Publishing \ {"tag"}
  PROVE  /\ run[l] \in Run
         /\ V(l) \in Versions /\ V(l) \in run[l].tags
         /\ run[l].cat.ptr \in [Tier -> MaybeVersion]
BY DEF IInv, TypeOK, RunsConsistent, Consistent, V, Run, Catalog

LEMMA MoveMinorInv == ASSUME IInv, NEW l \in Lanes, MoveMinor(l) PROVE IInv'
<1>1. run[l].pc \in Publishing \ {"tag"} /\ "major" \in Publishing
  BY DEF MoveMinor, Publishing
<1>2. MinorRef(V(l)) \in RefName /\ V(l) \in run[l].tags /\ OnLine(MinorRef(V(l)), V(l))
  BY <1>1, PublishingRun, RefNames DEF OnLine
<1>3. MoveRef(l, run[l].newTag \/ force(l), MinorRef(V(l)), V(l), "major")
  BY DEF MoveMinor
<1> QED
  BY <1>1, <1>2, <1>3, MoveRefInv

LEMMA MoveMajorInv == ASSUME IInv, NEW l \in Lanes, MoveMajor(l) PROVE IInv'
<1> DEFINE stable == run[l].cat.ptr["stable"]
<1>1. run[l].pc \in Publishing \ {"tag"} /\ "stable" \in Publishing
  BY DEF MoveMajor, Publishing
<1>2. MajorRef(V(l)) \in RefName
  BY <1>1, PublishingRun, RefNames
<1>3. WantsMajor(l) => stable \in run[l].tags /\ OnLine(MajorRef(V(l)), stable)
  BY DEF WantsMajor, OnLine, MajorRef
<1>4. MoveRef(l, WantsMajor(l), MajorRef(V(l)), stable, "stable")
  BY DEF MoveMajor
<1> QED
  BY <1>1, <1>2, <1>3, <1>4, MoveRefInv

LEMMA MoveChannelInv ==
  ASSUME IInv, NEW l \in Lanes, NEW name \in {"stable", "beta", "dev"}, NEW v,
         NEW next \in Publishing, next # "tag", run[l].pc \in Publishing \ {"tag"},
         MoveRef(l, WantsChannel(l, name, v), Channel(name), v, next)
  PROVE  IInv'
<1>1. Channel(name) \in RefName
  BY RefNames
<1>2. WantsChannel(l, name, v) => v \in run[l].tags /\ OnLine(Channel(name), v)
  BY DEF WantsChannel, OnLine
<1> QED
  BY <1>1, <1>2, MoveRefInv

LEMMA ChannelsInv ==
  ASSUME IInv, NEW l \in Lanes, MoveStable(l) \/ MoveBeta(l) \/ MoveDev(l) PROVE IInv'
<1>1. {"stable", "beta", "dev", "release"} \subseteq Publishing \ {"tag"}
  BY DEF Publishing
<1>2. CASE MoveStable(l)
  BY <1>1, <1>2, MoveChannelInv DEF MoveStable
<1>3. CASE MoveBeta(l)
  BY <1>1, <1>3, MoveChannelInv DEF MoveBeta
<1>4. CASE MoveDev(l)
  BY <1>1, <1>4, MoveChannelInv DEF MoveDev
<1> QED
  BY <1>2, <1>3, <1>4

LEMMA PublishReleaseInv == ASSUME IInv, NEW l \in Lanes, PublishRelease(l) PROVE IInv'
<1>1. run[l].pc \in Publishing \ {"tag"}
  BY DEF PublishRelease, Publishing
<1>2. V(l) \in TagSet /\ V(l) \in Versions
  BY <1>1, PublishingRun DEF IInv, RunsConsistent, Consistent
<1>3. Grows
  BY DEF Grows, PublishRelease, IInv, TypeOK
<1>4. PICK r : r = IdleRun
  OBVIOUS
<1>5. r \in Run /\ Consistent(r)'
  BY <1>3, <1>4, IdleConsistent, ConsistentGrows DEF IInv
<1>6. TagIntegrity' /\ RefsPublished' /\ released' \subseteq Versions
  BY <1>2 DEF IInv, TypeOK, TagIntegrity, RefsPublished, PublishRelease, TagSet
<1> QED
  BY <1>3, <1>4, <1>5, <1>6, RemoteStep DEF PublishRelease, Finish, IInv, TypeOK

-----------------------------------------------------------------------------
(***************************************************************************)
(* Requests and the start of a run.                                        *)
(***************************************************************************)
LEMMA CheckoutInv == ASSUME IInv, NEW l \in Lanes, Checkout(l) PROVE IInv'
<1> DEFINE b == pending[l].base
           alone == \A k2 \in Lanes \ {l} : run[k2].pc = "idle"
           new == [pc |-> "prepare", job |-> pending[l], base |-> b,
                   tags |-> TagSet, refs |-> refs, cat |-> main[b].cat,
                   tries |-> 0, newTag |-> FALSE, alone |-> alone]
           other(k) == [run[k] EXCEPT !.alone = FALSE]
<1>1. pending[l] \in Job /\ b \in DOMAIN main
  BY DEF Checkout, IInv, TypeOK, RunsConsistent
<1>2. new \in Run /\ Consistent(new)
  <2>1. main[b] \in Commit /\ b \in Nat
    BY <1>1, ElementOfSeq DEF IInv, TypeOK
  <2>2. alone \in BOOLEAN /\ TagSet \in SUBSET Versions /\ main[b].cat \in Catalog
    BY <2>1 DEF TagSet, Commit
  <2>3. refs \in [RefName -> MaybeVersion] /\ "prepare" \in PC /\ "prepare" \notin Publishing
    BY DEF IInv, TypeOK, PC, Publishing
  <2> HIDE DEF b, alone
  <2> QED  BY <1>1, <2>1, <2>2, <2>3 DEF Run, Consistent, b
<1>3. ASSUME NEW k \in Lanes PROVE other(k) \in Run /\ Consistent(other(k))
  BY DEF IInv, TypeOK, RunsConsistent, Run, Consistent
<1>4. run' = [k \in Lanes |-> IF k # l THEN other(k) ELSE new]
  BY DEF Checkout
<1> HIDE DEF new, other
<1>5. \A k \in Lanes : run'[k] \in Run /\ Consistent(run'[k])
  BY <1>2, <1>3, <1>4
<1>6. run' \in [Lanes -> Run] /\ pending' \in [Lanes -> Job \cup {NoJob}]
  BY <1>4, <1>5 DEF Checkout, IInv, TypeOK
<1>7. TypeOK' /\ TagIntegrity' /\ RefsPublished'
  BY <1>6 DEF IInv, TypeOK, TagIntegrity, RefsPublished, TagSet, Checkout
<1>8. RunsConsistent'
  <2>1. ASSUME NEW k \in Lanes PROVE Consistent(run[k])'
    BY <1>5 DEF Consistent, TagSet, Checkout
  <2>2. ASSUME NEW k \in Lanes, pending'[k] # NoJob PROVE pending'[k].base \in DOMAIN main'
    BY <2>2 DEF Checkout, IInv, TypeOK, RunsConsistent
  <2> QED  BY <2>1, <2>2 DEF RunsConsistent
<1> QED
  BY <1>7, <1>8 DEF IInv

\* A request that names a commit of main is all a lane needs to start.
LEMMA RequestInv ==
  ASSUME IInv, Grows, UNCHANGED <<tags, refs, released, run>>, main' # <<>>,
         \A v \in Versions : tags[v] # 0 => main'[tags[v]] = main[tags[v]],
         budget' \in [{"merge", "dispatch", "promote"} -> Nat],
         NEW l \in Lanes, NEW job \in Job, job.base \in DOMAIN main',
         pending' = [pending EXCEPT ![l] = job]
  PROVE  IInv'
<1>1. DOMAIN main \subseteq DOMAIN main'
  BY DEF Grows, IInv, TypeOK
<1>2. TypeOK'
  BY DEF IInv, TypeOK, Grows
<1>3. TagIntegrity' /\ RefsPublished'
  BY <1>1 DEF IInv, TypeOK, TagIntegrity, RefsPublished, TagSet
<1>4. ASSUME NEW k \in Lanes PROVE Consistent(run[k])'
  <2>1. PICK r \in Run : r = run[k] /\ r = run'[k]
    BY DEF IInv, TypeOK
  <2>2. Consistent(r)'
    BY <2>1, ConsistentGrows DEF IInv, RunsConsistent
  <2> QED  BY <2>1, <2>2
<1>5. ASSUME NEW k \in Lanes, pending'[k] # NoJob PROVE pending'[k].base \in DOMAIN main'
  BY <1>1, <1>5 DEF IInv, TypeOK, RunsConsistent
<1> QED
  BY <1>2, <1>3, <1>4, <1>5 DEF IInv, RunsConsistent

LEMMA MergeInv == ASSUME IInv, Merge PROVE IInv'
<1> DEFINE c == [cat |-> Tip, merge |-> TRUE]
           n == Len(main) + 1
<1>1. Tip \in Catalog
  <2>1. main[Len(main)] \in Commit
    BY ElementOfSeq DEF IInv, TypeOK
  <2> QED  BY <2>1 DEF Tip, Commit
<1>2. c \in Commit
  BY <1>1 DEF Commit
<1>3. main' = Append(main, c) /\ main \in Seq(Commit)
  BY DEF Merge, IInv, TypeOK
<1> HIDE DEF c
<1>4. /\ n \in DOMAIN main' /\ n \in Nat
      /\ main' \in Seq(Commit) /\ Len(main') = n /\ main' # <<>>
      /\ \A i \in DOMAIN main : i \in DOMAIN main' /\ main'[i] = main[i]
  BY <1>2, <1>3
<1>5. Grows
  BY <1>4 DEF Grows, Merge, IInv, TypeOK
<1>6. PICK bump \in Bumps :
        pending' = [pending EXCEPT !["release"] =
                      [kind |-> "release", base |-> n, bump |-> bump, force |-> FALSE]]
  BY DEF Merge
<1> HIDE DEF n
<1>7. PICK job : job = [kind |-> "release", base |-> n, bump |-> bump, force |-> FALSE]
  OBVIOUS
<1>8. job \in Job /\ job.base \in DOMAIN main'
  BY <1>4, <1>7 DEF Job
<1>9. budget' \in [{"merge", "dispatch", "promote"} -> Nat]
  BY DEF Merge, IInv, TypeOK
<1>10. \A v \in Versions : tags[v] # 0 => main'[tags[v]] = main[tags[v]]
  BY <1>4 DEF IInv, TagIntegrity
<1> QED
  BY <1>4, <1>5, <1>6, <1>7, <1>8, <1>9, <1>10, RequestInv DEF Merge

LEMMA DispatchReleaseInv == ASSUME IInv, DispatchRelease PROVE IInv'
<1>1. PICK bump \in Bumps, aliases \in Forces :
        pending' = [pending EXCEPT !["release"] =
                      [kind |-> "release", base |-> Len(main), bump |-> bump, force |-> aliases]]
  BY DEF DispatchRelease
<1>2. PICK job : job = [kind |-> "release", base |-> Len(main), bump |-> bump, force |-> aliases]
  OBVIOUS
<1>3. main' = main /\ Len(main) \in DOMAIN main /\ Len(main) \in Nat
  BY DEF DispatchRelease, IInv, TypeOK
<1>4. job \in Job /\ job.base \in DOMAIN main'
  BY <1>2, <1>3, InputsAssumption DEF Job
<1>5. Grows
  BY DEF Grows, DispatchRelease, IInv, TypeOK
<1>6. budget' \in [{"merge", "dispatch", "promote"} -> Nat]
  BY DEF DispatchRelease, IInv, TypeOK
<1> QED
  BY <1>1, <1>2, <1>3, <1>4, <1>5, <1>6, RequestInv DEF DispatchRelease, IInv, TypeOK

LEMMA DispatchPromoteInv == ASSUME IInv, DispatchPromote PROVE IInv'
<1>1. PICK target \in {Tip.hist[i].v : i \in DOMAIN Tip.hist}, tier \in Tier, un \in Unpromotes :
        pending' = [pending EXCEPT !["promote"] =
                      [kind |-> "promote", base |-> Len(main), target |-> target,
                       tier |-> tier, un |-> un]]
  BY DEF DispatchPromote
<1>2. PICK job : job = [kind |-> "promote", base |-> Len(main), target |-> target,
                        tier |-> tier, un |-> un]
  OBVIOUS
<1>3. main' = main /\ Len(main) \in DOMAIN main /\ Len(main) \in Nat
  BY DEF DispatchPromote, IInv, TypeOK
<1>4. target \in Versions
  <2>1. main[Len(main)] \in Commit
    BY <1>3, ElementOfSeq DEF IInv, TypeOK
  <2>2. Tip.hist \in Seq([v : Versions, tiers : SUBSET Tier])
    BY <2>1 DEF Tip, Commit, Catalog
  <2>3. PICK i \in DOMAIN Tip.hist : target = Tip.hist[i].v
    OBVIOUS
  <2>4. Tip.hist[i] \in [v : Versions, tiers : SUBSET Tier]
    <3>1. PICK h : h = Tip.hist
      OBVIOUS
    <3>2. h \in Seq([v : Versions, tiers : SUBSET Tier]) /\ i \in 1..Len(h)
      BY <2>2, <2>3, <3>1
    <3>3. h[i] \in [v : Versions, tiers : SUBSET Tier]
      BY <3>2, ElementOfSeq
    <3> QED  BY <3>1, <3>3
  <2> QED  BY <2>3, <2>4
<1>5. job \in Job /\ job.base \in DOMAIN main'
  BY <1>2, <1>3, <1>4 DEF Job
<1>6. Grows
  BY DEF Grows, DispatchPromote, IInv, TypeOK
<1>7. budget' \in [{"merge", "dispatch", "promote"} -> Nat]
  BY DEF DispatchPromote, IInv, TypeOK
<1> QED
  BY <1>1, <1>2, <1>3, <1>5, <1>6, <1>7, RequestInv DEF DispatchPromote, IInv, TypeOK

-----------------------------------------------------------------------------
(***************************************************************************)
(* The theorems.                                                           *)
(***************************************************************************)
LEMMA InitInv == Init => IInv
<1> SUFFICES ASSUME Init PROVE IInv
  OBVIOUS
<1>1. TypeOK
  BY InitTypes
<1>2. TagIntegrity
  BY DEF Init, TagIntegrity, Catalog0
<1>3. RefsPublished
  BY V0Version DEF Init, RefsPublished, NoRefs, OnLine, TagSet
<1>4. RunsConsistent
  <2>1. ASSUME NEW l \in Lanes PROVE run[l] = IdleRun /\ pending[l] = NoJob
    BY DEF Init
  <2>2. Consistent(IdleRun)
    BY DEF Init, IdleRun, Consistent, Publishing
  <2> QED  BY <2>1, <2>2 DEF RunsConsistent
<1> QED
  BY <1>1, <1>2, <1>3, <1>4 DEF IInv

LEMMA WorkInv == ASSUME IInv, NEW l \in Lanes, Work(l) PROVE IInv'
<1>1. CASE Refused(l) \/ GiveUp(l) \/ TagRejected(l)
  BY <1>1, FinishInv DEF Refused, GiveUp, TagRejected
<1>2. CASE Prepare(l) \/ PushRejected(l) \/ Rebase(l) \/ TagExists(l)
  BY <1>2, PrepareInv, PushRejectedInv, RebaseInv, TagExistsInv
<1>3. CASE Push(l) \/ CreateTag(l) \/ PublishRelease(l)
  BY <1>3, PushInv, CreateTagInv, PublishReleaseInv
<1>4. CASE MoveMinor(l) \/ MoveMajor(l) \/ MoveStable(l) \/ MoveBeta(l) \/ MoveDev(l)
  BY <1>4, MoveMinorInv, MoveMajorInv, ChannelsInv
<1> QED
  BY <1>1, <1>2, <1>3, <1>4 DEF Work

LEMMA NextInv == IInv /\ [Next]_vars => IInv'
<1> SUFFICES ASSUME IInv, [Next]_vars PROVE IInv'
  OBVIOUS
<1>1. CASE Merge \/ DispatchRelease \/ DispatchPromote
  BY <1>1, MergeInv, DispatchReleaseInv, DispatchPromoteInv
<1>2. ASSUME NEW l \in Lanes, Checkout(l) \/ Work(l) \/ Fail(l) PROVE IInv'
  BY <1>2, CheckoutInv, WorkInv, FinishInv DEF Fail
<1>3. CASE UNCHANGED vars
  BY <1>3 DEF vars, IInv, TypeOK, TagIntegrity, RefsPublished, TagSet, RunsConsistent, Consistent
<1> QED
  BY <1>1, <1>2, <1>3 DEF Next

\* Types, truthful tags, refs that name published releases of their line, and
\* clones the publishing script may trust hold in every reachable state, for
\* any lanes, inputs, number of requests and bounds.
THEOREM Invariant == Spec => []IInv
<1>1. Init => IInv
  BY InitInv
<1>2. IInv /\ [Next]_vars => IInv'
  BY NextInv
<1> QED
  BY <1>1, <1>2, PTL DEF Spec

\* The type invariant of both workflows.
THEOREM TypeCorrect == Spec => []TypeOK
<1>1. IInv => TypeOK
  BY DEF IInv
<1> QED
  BY <1>1, Invariant, PTL

\* Whichever run wins a race, a version tag names a commit of main whose own
\* catalog says it is that version.
THEOREM TagsTruthful == Spec => []TagIntegrity
<1>1. IInv => TagIntegrity
  BY DEF IInv
<1> QED
  BY <1>1, Invariant, PTL

\* Every moving ref names a published release of its own line, and every
\* GitHub Release has its tag.
THEOREM RefsNamePublished == Spec => []RefsPublished
<1>1. IInv => RefsPublished
  BY DEF IInv
<1> QED
  BY <1>1, Invariant, PTL


-----------------------------------------------------------------------------
(***************************************************************************)
(* What a step may do to tags and refs.                                    *)
(***************************************************************************)
\* One step of a run, seen by a consumer: nothing, one new tag, or one moved
\* ref.  The cases where the script moves a ref come from MoveRef.
LEMMA MoveRefPromise ==
  ASSUME IInv, NEW l \in Lanes, NEW wanted, NEW ref \in RefName, NEW v, NEW next,
         run[l].pc \in Publishing \ {"tag"},
         wanted => v \in run[l].tags /\ OnLine(ref, v),
         MoveRef(l, wanted, ref, v, next)
  PROVE  [Promise!Next]_<<tags, refs>>
<1>1. run[l].tags \subseteq TagSet
  BY DEF IInv, RunsConsistent, Consistent
<1>2. CASE wanted
  <2>1. v \in Versions /\ Promise!Published(v) /\ OnLine(ref, v)
    BY <1>1, <1>2 DEF TagSet, Promise!Published
  <2>2. refs' = [refs EXCEPT ![ref] = v] /\ UNCHANGED tags
    BY <1>2, Zenon DEF MoveRef
  <2>3. Promise!Move(ref, v)
    BY <2>1, <2>2 DEF Promise!Move
  <2> QED  BY <2>1, <2>3 DEF Promise!Next
<1>3. CASE ~wanted
  BY <1>3, Zenon DEF MoveRef
<1> QED
  BY <1>2, <1>3

LEMMA WorkPromise ==
  ASSUME IInv, NEW l \in Lanes, Work(l)
  PROVE  [Promise!Next]_<<tags, refs>>
<1>1. CASE \/ Prepare(l) \/ Refused(l) \/ Push(l) \/ PushRejected(l) \/ Rebase(l) \/ GiveUp(l)
           \/ TagExists(l) \/ TagRejected(l) \/ PublishRelease(l)
  BY <1>1 DEF Prepare, Refused, Push, PushRejected, Rebase, GiveUp, TagExists, TagRejected,
              PublishRelease
<1>2. CASE CreateTag(l)
  <2>1. run[l] \in Run /\ Consistent(run[l])
    BY DEF IInv, TypeOK, RunsConsistent
  <2>2. PICK v \in Versions : v = V(l)
    BY <2>1 DEF V, Run, Catalog
  <2>3. run[l].base # 0
    BY <1>2, <2>1 DEF Consistent, IInv, TypeOK
  <2>4. tags' = [tags EXCEPT ![v] = run[l].base] /\ tags[v] = 0 /\ UNCHANGED refs
    BY <1>2, <2>2 DEF CreateTag
  <2>5. tags'[v] = run[l].base
    BY <2>4 DEF IInv, TypeOK
  <2>6. Promise!Publish(v)
    BY <2>3, <2>4, <2>5 DEF Promise!Publish, Promise!Published
  <2> QED  BY <2>6 DEF Promise!Next
<1>3. ASSUME run[l].pc \in Publishing \ {"tag"}
      PROVE  \A name \in {"stable", "beta", "dev"} : Channel(name) \in RefName
             /\ \A v : WantsChannel(l, name, v) => v \in run[l].tags /\ OnLine(Channel(name), v)
  BY RefNames DEF WantsChannel, OnLine
<1>4. CASE MoveMinor(l)
  <2>1. run[l].pc \in Publishing \ {"tag"}
    BY <1>4 DEF MoveMinor, Publishing
  <2>2. MinorRef(V(l)) \in RefName /\ V(l) \in run[l].tags /\ OnLine(MinorRef(V(l)), V(l))
    BY <2>1, PublishingRun, RefNames DEF OnLine
  <2>3. MoveRef(l, run[l].newTag \/ force(l), MinorRef(V(l)), V(l), "major")
    BY <1>4 DEF MoveMinor
  <2> QED  BY <2>1, <2>2, <2>3, MoveRefPromise
<1>5. CASE MoveMajor(l)
  <2>1. run[l].pc \in Publishing \ {"tag"}
    BY <1>5 DEF MoveMajor, Publishing
  <2>2. MajorRef(V(l)) \in RefName
    BY <2>1, PublishingRun, RefNames
  <2>3. WantsMajor(l) => run[l].cat.ptr["stable"] \in run[l].tags
                         /\ OnLine(MajorRef(V(l)), run[l].cat.ptr["stable"])
    BY DEF WantsMajor, OnLine, MajorRef
  <2>4. MoveRef(l, WantsMajor(l), MajorRef(V(l)), run[l].cat.ptr["stable"], "stable")
    BY <1>5 DEF MoveMajor
  <2> QED  BY <2>1, <2>2, <2>3, <2>4, MoveRefPromise
<1>6. CASE MoveStable(l)
  BY <1>3, <1>6, MoveRefPromise DEF MoveStable, Publishing
<1>7. CASE MoveBeta(l)
  BY <1>3, <1>7, MoveRefPromise DEF MoveBeta, Publishing
<1>8. CASE MoveDev(l)
  BY <1>3, <1>8, MoveRefPromise DEF MoveDev, Publishing
<1> QED
  BY <1>1, <1>2, <1>4, <1>5, <1>6, <1>7, <1>8 DEF Work

LEMMA NextPromise ==
  ASSUME IInv, [Next]_vars PROVE [Promise!Next]_<<tags, refs>>
<1>1. CASE Merge \/ DispatchRelease \/ DispatchPromote \/ UNCHANGED vars
  BY <1>1 DEF Merge, DispatchRelease, DispatchPromote, vars
<1>2. ASSUME NEW l \in Lanes, Checkout(l) \/ Fail(l) PROVE UNCHANGED <<tags, refs>>
  BY <1>2 DEF Checkout, Fail
<1> QED
  BY <1>1, <1>2, WorkPromise DEF Next

\* The two workflows implement ReleaseChannels: with any number of racing or
\* dying runs, version tags are written once and a moving ref only ever moves
\* to a published release of its line.
THEOREM PipelineImplementsPromise == Spec => ImplementsPromise
<1>1. Init => Promise!Init
  <2> SUFFICES ASSUME Init PROVE Promise!Init
    OBVIOUS
  <2>1. \A v \in Versions : tags[v] # 0 <=> v = V0
    BY DEF Init
  <2>2. \A r \in RefName : refs[r] \in {V0, NoVersion} /\ (refs[r] = V0 => OnLine(r, V0))
    BY V0Version, NoVersionAssumption DEF Init, NoRefs, OnLine
  <2> QED  BY <2>1, <2>2 DEF Promise!Init, Promise!Published
<1>2. IInv /\ [Next]_vars => [Promise!Next]_<<tags, refs>>
  BY NextPromise
<1> QED
  BY <1>1, <1>2, Invariant, PTL DEF Spec, ImplementsPromise, Promise!Spec, Promise!vars

\* No step of any run, successful or not, moves or deletes a published tag.
THEOREM TagsNeverMove == Spec => TagsImmutable
<1>1. TypeOK /\ [Promise!Next]_<<tags, refs>>
        => [\A v \in Versions : tags[v] # 0 => tags'[v] = tags[v]]_vars
  <2> SUFFICES ASSUME TypeOK, [Promise!Next]_<<tags, refs>>, NEW v \in Versions, tags[v] # 0
               PROVE  tags'[v] = tags[v]
    OBVIOUS
  <2>1. ASSUME NEW w \in Versions, Promise!Publish(w) PROVE tags'[v] = tags[v]
    <3>1. tags[w] = 0 /\ tags' = [tags EXCEPT ![w] = tags'[w]]
      BY <2>1 DEF Promise!Publish, Promise!Published
    <3>2. v # w
      BY <3>1
    <3>3. tags \in [Versions -> Nat]
      BY DEF TypeOK
    <3> QED  BY <3>1, <3>2, <3>3, Zenon
  <2>2. CASE \E r \in RefName, w \in Versions : Promise!Move(r, w)
    BY <2>2 DEF Promise!Move
  <2> QED  BY <2>1, <2>2 DEF Promise!Next
<1>2. IInv /\ [Next]_vars => [\A v \in Versions : tags[v] # 0 => tags'[v] = tags[v]]_vars
  BY <1>1, NextPromise DEF IInv
<1> QED
  BY <1>2, Invariant, PTL DEF Spec, TagsImmutable

-----------------------------------------------------------------------------
(***************************************************************************)
(* What the catalog promises, on top of the invariant: channel marks stay  *)
(* on newest entries, and the refs consumers pin only name versions the    *)
(* owner blessed.                                                          *)
(***************************************************************************)

(***************************************************************************)
(* A bump leaves the versions a clone knows.                               *)
(***************************************************************************)
LEMMA BumpedIsNew ==
  ASSUME NEW known \in SUBSET Versions, NEW top \in Highest(known), NEW bump
  PROVE  Bumped(top, bump) \notin known
<1> SUFFICES ASSUME Bumped(top, bump) \in known PROVE FALSE
  OBVIOUS
<1>1. top \in Versions /\ VersionGE(top, Bumped(top, bump))
  BY DEF Highest
<1>2. PICK a \in Nat, b \in Nat, c \in Nat : top = <<a, b, c>>
  BY <1>1, BoundsAssumption DEF Versions
<1>3. Bumped(top, bump) \in {<<a + 1, 0, 0>>, <<a, b + 1, 0>>, <<a, b, c + 1>>}
  BY <1>2 DEF Bumped
<1> QED
  BY <1>1, <1>2, <1>3 DEF VersionGE, VersionGT

-----------------------------------------------------------------------------
(***************************************************************************)
(* Marks.  MarkOnNewestEntry is not inductive: a new entry could repeat a  *)
(* version that carries a mark.  It cannot because a mark is only ever put *)
(* on a version the clone has a tag of, and a new version is above those.  *)
(***************************************************************************)
Marked(c, known) ==
  /\ \A i, j \in DOMAIN c.hist : c.hist[i].v = c.hist[j].v /\ i < j => c.hist[j].tiers = {}
  /\ \A i \in DOMAIN c.hist : c.hist[i].tiers # {} => c.hist[i].v \in known
  /\ \A t \in Tier : c.ptr[t] # NoVersion =>
       \E i \in DOMAIN c.hist : c.hist[i].v = c.ptr[t] /\ t \in c.hist[i].tiers

MarksInv ==
  /\ \A i \in DOMAIN main : Marked(main[i].cat, TagSet)
  /\ \A l \in Lanes : Marked(run[l].cat, run[l].tags)

LEMMA MarkedMore ==
  ASSUME NEW c, NEW known, NEW more, Marked(c, known), known \subseteq more
  PROVE  Marked(c, more)
BY DEF Marked

\* A new entry goes to the head of the history; the rest keeps its order.
LEMMA WithEntryShape ==
  ASSUME NEW c \in Catalog, NEW v, NEW d, d = WithEntry(c, v)
  PROVE  /\ d.version = v /\ d.ptr = c.ptr
         /\ DOMAIN d.hist = 1..(Len(c.hist) + 1)
         /\ Len(d.hist) = Len(c.hist) + 1 /\ Len(c.hist) \in Nat
         /\ d.hist[1].v = v /\ d.hist[1].tiers = {}
         /\ \A i \in DOMAIN c.hist : i \in 1..Len(c.hist) /\ d.hist[i + 1] = c.hist[i]
<1> DEFINE e == [v |-> v, tiers |-> {}]
           h == d.hist
           Row == [v : Versions, tiers : SUBSET Tier]
<1>1. PICK old \in Seq(Row) : old = c.hist
  BY DEF Catalog
<1>2. h = <<e>> \o old /\ d.version = v /\ d.ptr = c.ptr
  BY <1>1 DEF WithEntry, Catalog
<1>3. PICK T : T = Row \cup {e}
  OBVIOUS
<1>4. PICK s : s = <<e>>
  OBVIOUS
<1>5. s \in Seq(T) /\ Len(s) = 1 /\ s[1] = e
  <2> HIDE DEF e
  <2> QED  BY <1>3, <1>4
<1>6. old \in Seq(T)
  <2>1. Row \subseteq T
    BY <1>3
  <2> HIDE DEF Row, e
  <2> QED  BY <2>1, SeqMonotonic DEF Row
<1>7. h = s \o old
  BY <1>2, <1>4
<1>8. /\ DOMAIN h = 1..(Len(old) + 1) /\ Len(h) = Len(old) + 1 /\ Len(old) \in Nat
      /\ h[1] = e
      /\ \A i \in DOMAIN old : i \in 1..Len(old) /\ h[i + 1] = old[i]
  <2> HIDE DEF h, e, Row
  <2>1. /\ h \in Seq(T) /\ Len(h) = Len(s) + Len(old)
        /\ \A i \in 1 .. Len(s) + Len(old) : h[i] = IF i <= Len(s) THEN s[i] ELSE old[i - Len(s)]
    BY <1>5, <1>6, <1>7, ConcatProperties
  <2>2. Len(old) \in Nat /\ DOMAIN old = 1..Len(old)
    BY <1>6
  <2>3. /\ DOMAIN h = 1..(Len(old) + 1) /\ Len(h) = Len(old) + 1 /\ h[1] = e
    BY <1>5, <2>1, <2>2
  <2>4. ASSUME NEW i \in DOMAIN old PROVE i \in 1..Len(old) /\ h[i + 1] = old[i]
    <3>1. i + 1 \in 1 .. Len(s) + Len(old) /\ ~(i + 1 <= Len(s)) /\ (i + 1) - Len(s) = i
      BY <1>5, <2>2
    <3> QED  BY <2>1, <2>2, <3>1
  <2> QED  BY <2>2, <2>3, <2>4
<1>9. e.v = v /\ e.tiers = {}
  OBVIOUS
<1> HIDE DEF h, e, Row
<1>10. /\ DOMAIN d.hist = 1..(Len(c.hist) + 1)
       /\ Len(d.hist) = Len(c.hist) + 1 /\ Len(c.hist) \in Nat
       /\ d.hist[1].v = v /\ d.hist[1].tiers = {}
       /\ \A i \in DOMAIN c.hist : i \in 1..Len(c.hist) /\ d.hist[i + 1] = c.hist[i]
  BY <1>1, <1>8, <1>9, Zenon DEF h
<1> QED
  BY <1>2, <1>10

LEMMA WithEntryMarked ==
  ASSUME NEW c \in Catalog, NEW known, NEW v, v \notin known, Marked(c, known)
  PROVE  Marked(WithEntry(c, v), known)
<1> DEFINE h == WithEntry(c, v).hist
<1>1. PICK old \in Seq([v : Versions, tiers : SUBSET Tier]) : old = c.hist
  BY DEF Catalog
<1>2. Len(old) \in Nat /\ DOMAIN old = 1..Len(old)
  BY <1>1
<1>3. /\ DOMAIN h = 1..(Len(old) + 1)
      /\ h[1].v = v /\ h[1].tiers = {}
      /\ \A i \in DOMAIN old : h[i + 1] = old[i]
  <2>1. /\ DOMAIN h = 1..(Len(c.hist) + 1)
        /\ h[1].v = v /\ h[1].tiers = {}
        /\ \A i \in DOMAIN c.hist : h[i + 1] = c.hist[i]
    BY WithEntryShape
  <2> HIDE DEF h
  <2> QED  BY <1>1, <2>1
<1>4. \A i \in 2..(Len(old) + 1) : h[i] = old[i - 1] /\ i - 1 \in DOMAIN old
  <2> HIDE DEF h
  <2> SUFFICES ASSUME NEW i \in 2..(Len(old) + 1) PROVE h[i] = old[i - 1] /\ i - 1 \in DOMAIN old
    OBVIOUS
  <2>1. i - 1 \in DOMAIN old /\ (i - 1) + 1 = i
    BY <1>2
  <2> QED  BY <1>3, <2>1
<1>5. \A i \in DOMAIN h : h[i].tiers # {} => h[i].v \in known /\ i # 1
  BY <1>1, <1>3, <1>4 DEF Marked
<1>6. ASSUME NEW i \in DOMAIN h, NEW j \in DOMAIN h, h[i].v = h[j].v, i < j
      PROVE  h[j].tiers = {}
  <2>1. j \in 2..(Len(old) + 1) /\ i \in Nat
    BY <1>1, <1>3, <1>6
  <2>2. CASE i = 1
    BY <1>3, <1>5, <1>6, <2>2
  <2>3. CASE i # 1
    <3>1. i \in 2..(Len(old) + 1) /\ i - 1 < j - 1
      BY <1>1, <1>3, <1>6, <2>1, <2>3
    <3>2. /\ i - 1 \in DOMAIN old /\ j - 1 \in DOMAIN old
          /\ old[i - 1].v = old[j - 1].v /\ h[j].tiers = old[j - 1].tiers
      BY <1>3, <1>4, <1>6, <2>1, <3>1
    <3>3. \A a, b \in DOMAIN old : old[a].v = old[b].v /\ a < b => old[b].tiers = {}
      BY <1>1 DEF Marked
    <3> HIDE DEF h
    <3> QED  BY <3>1, <3>2, <3>3
  <2> QED  BY <2>2, <2>3
<1>7. ASSUME NEW t \in Tier, c.ptr[t] # NoVersion
      PROVE  \E i \in DOMAIN h : h[i].v = c.ptr[t] /\ t \in h[i].tiers
  <2>1. PICK i \in DOMAIN old : old[i].v = c.ptr[t] /\ t \in old[i].tiers
    BY <1>1, <1>7 DEF Marked
  <2>2. i + 1 \in DOMAIN h /\ h[i + 1] = old[i]
    <3>1. i + 1 \in 1..(Len(old) + 1)
      BY <1>2
    <3> HIDE DEF h
    <3> QED  BY <1>3, <3>1
  <2> HIDE DEF h
  <2> QED  BY <2>1, <2>2
<1>8. WithEntry(c, v).ptr = c.ptr
  BY WithEntryShape
<1> HIDE DEF h
<1>9. \A i \in DOMAIN h : h[i].tiers # {} => h[i].v \in known
  BY <1>5
<1> QED
  BY <1>6, <1>7, <1>8, <1>9 DEF Marked, h

\* The entry promote-release.py edits.
Entry(c, job) == First({j \in DOMAIN c.hist : c.hist[j].v = job.target})

\* promote-release.py changes the mark of one channel on one entry, the first
\* entry of the version it is asked for.
LEMMA PromotedShape ==
  ASSUME NEW c \in Catalog, NEW job \in Job, job.kind = "promote",
         NEW i \in Entry(c, job),
         NEW d \in Promoted(c, i, job)
  PROVE  /\ i \in DOMAIN c.hist /\ c.hist[i].v = job.target
         /\ \A j \in DOMAIN c.hist : c.hist[j].v = job.target => i <= j
         /\ DOMAIN d.hist = DOMAIN c.hist /\ Len(d.hist) = Len(c.hist)
         /\ \A j \in DOMAIN c.hist \ {i} : d.hist[j] = c.hist[j]
         /\ d.hist[i].v = job.target
         /\ \A t \in Tier \ {job.tier} :
              d.ptr[t] = c.ptr[t] /\ (t \in c.hist[i].tiers => t \in d.hist[i].tiers)
         /\ job.tier \in Tier
         /\ d.ptr[job.tier] # NoVersion =>
              \E j \in DOMAIN d.hist :
                d.hist[j].v = d.ptr[job.tier] /\ job.tier \in d.hist[j].tiers
<1> DEFINE Row == [v : Versions, tiers : SUBSET Tier]
<1>1. /\ i \in DOMAIN c.hist /\ c.hist[i].v = job.target
      /\ \A j \in DOMAIN c.hist : c.hist[j].v = job.target => i <= j
  BY DEF Entry, First
<1>2. PICK old \in Seq(Row) : old = c.hist
  BY DEF Catalog
<1>3. job.tier \in Tier
  BY DEF Job
<1>4. PICK p \in PointerChoice(Flagged(old, i, job), job) :
        d = [c EXCEPT !.hist = Flagged(old, i, job), !.ptr[job.tier] = p]
  BY <1>2 DEF Promoted
<1>5. /\ d.hist = Flagged(old, i, job)
      /\ d.ptr = [c.ptr EXCEPT ![job.tier] = p] /\ c.ptr \in [Tier -> MaybeVersion]
  <2> HIDE DEF Row
  <2> QED  BY <1>4 DEF Catalog
<1>6. PICK ts :
        /\ d.hist = [old EXCEPT ![i].tiers = ts]
        /\ \A t \in Tier \ {job.tier} : t \in old[i].tiers => t \in ts
        /\ ~job.un => job.tier \in ts
  <2>1. PICK m : m = old[i].tiers
    OBVIOUS
  <2>2. CASE job.un
    <3>1. PICK ts : ts = m \ {job.tier}
      OBVIOUS
    <3>2. d.hist = [old EXCEPT ![i].tiers = ts]
      BY <1>5, <2>1, <2>2, <3>1 DEF Flagged
    <3>3. \A t \in Tier \ {job.tier} : t \in old[i].tiers => t \in ts
      BY <2>1, <3>1
    <3> QED  BY <2>2, <3>2, <3>3
  <2>3. CASE ~job.un
    <3>1. PICK ts : ts = m \cup {job.tier}
      OBVIOUS
    <3>2. d.hist = [old EXCEPT ![i].tiers = ts]
      BY <1>5, <2>1, <2>3, <3>1 DEF Flagged
    <3>3. job.tier \in ts /\ \A t \in Tier \ {job.tier} : t \in old[i].tiers => t \in ts
      BY <2>1, <3>1
    <3> QED  BY <3>2, <3>3
  <2> QED  BY <2>2, <2>3
<1>7. old[i] \in Row /\ i \in 1..Len(old) /\ DOMAIN old = 1..Len(old)
  <2>1. i \in 1..Len(old)
    BY <1>1, <1>2
  <2> HIDE DEF Row
  <2> QED  BY <1>2, <2>1, ElementOfSeq
<1>8. /\ DOMAIN d.hist = DOMAIN old /\ Len(d.hist) = Len(old)
      /\ d.hist[i].v = job.target /\ d.hist[i].tiers = ts
      /\ \A j \in DOMAIN old \ {i} : d.hist[j] = old[j]
  BY <1>1, <1>2, <1>6, <1>7
<1>9. ASSUME d.ptr[job.tier] # NoVersion
      PROVE  \E j \in DOMAIN d.hist :
               d.hist[j].v = d.ptr[job.tier] /\ job.tier \in d.hist[j].tiers
  <2>1. d.ptr[job.tier] = p
    BY <1>3, <1>5
  <2>2. CASE ~job.un
    <3>1. p = job.target
      BY <1>4, <2>2 DEF PointerChoice
    <3> QED  BY <1>6, <1>7, <1>8, <2>1, <2>2, <3>1
  <2>3. CASE job.un
    <3> DEFINE others == {j \in DOMAIN d.hist : job.tier \in d.hist[j].tiers /\ d.hist[j].v # job.target}
    <3>1. p \in {d.hist[j].v : j \in First(others)}
      BY <1>4, <1>5, <1>9, <2>1, <2>3 DEF PointerChoice
    <3>2. PICK j \in First(others) : p = d.hist[j].v
      BY <3>1
    <3>3. j \in others
      BY DEF Entry, First
    <3> QED  BY <2>1, <3>2, <3>3
  <2> QED  BY <2>2, <2>3
<1>10. \A t \in Tier \ {job.tier} :
        d.ptr[t] = c.ptr[t] /\ (t \in old[i].tiers => t \in d.hist[i].tiers)
  BY <1>5, <1>6, <1>8
<1> QED
  BY <1>1, <1>2, <1>3, <1>8, <1>9, <1>10

LEMMA PromotedMarked ==
  ASSUME NEW c \in Catalog, NEW job \in Job, job.kind = "promote", NEW known,
         job.target \in known, Marked(c, known),
         NEW i \in Entry(c, job),
         NEW d \in Promoted(c, i, job)
  PROVE  Marked(d, known)
<1> DEFINE Row == [v : Versions, tiers : SUBSET Tier]
<1>1. PICK old \in Seq(Row) : old = c.hist
  BY DEF Catalog
<1>2. /\ i \in DOMAIN old /\ DOMAIN old = 1..Len(old) /\ Len(old) \in Nat
      /\ old[i].v = job.target
      /\ \A j \in DOMAIN old : old[j].v = job.target => i <= j
      /\ DOMAIN d.hist = DOMAIN old
      /\ d.hist[i].v = job.target
      /\ \A j \in DOMAIN old \ {i} : d.hist[j] = old[j]
  BY <1>1, PromotedShape
<1>3. \A j \in DOMAIN old : d.hist[j].v = old[j].v
  BY <1>2
<1>4. ASSUME NEW a \in DOMAIN old, NEW b \in DOMAIN old, d.hist[a].v = d.hist[b].v, a < b
      PROVE  d.hist[b].tiers = {}
  <2>1. old[a].v = old[b].v
    BY <1>3, <1>4
  <2>2. b # i
    <3>1. ASSUME b = i PROVE i <= a
      BY <1>2, <2>1, <3>1
    <3> QED  BY <1>2, <1>4, <3>1
  <2> QED  BY <1>1, <1>2, <1>4, <2>1, <2>2 DEF Marked
<1>5. \A j \in DOMAIN old : d.hist[j].tiers # {} => d.hist[j].v \in known
  BY <1>1, <1>2, <1>3 DEF Marked
<1>6. ASSUME NEW t \in Tier, d.ptr[t] # NoVersion
      PROVE  \E j \in DOMAIN d.hist : d.hist[j].v = d.ptr[t] /\ t \in d.hist[j].tiers
  <2>1. CASE t = job.tier
    BY <1>6, <2>1, PromotedShape
  <2>2. CASE t # job.tier
    <3>1. d.ptr[t] = c.ptr[t] /\ (t \in old[i].tiers => t \in d.hist[i].tiers)
      BY <1>1, <2>2, PromotedShape
    <3>2. PICK j \in DOMAIN old : old[j].v = c.ptr[t] /\ t \in old[j].tiers
      BY <1>1, <1>6, <3>1 DEF Marked
    <3> QED  BY <1>2, <1>3, <3>1, <3>2
  <2> QED  BY <2>1, <2>2
<1> QED
  BY <1>2, <1>4, <1>5, <1>6 DEF Marked

\* What a run commits: the catalog it validated, edited if it is a promotion,
\* with an entry for the next version.
LEMMA NewCatalogShape ==
  ASSUME NEW c \in Catalog, NEW job \in Job, NEW known, NEW d \in NewCatalogs(job, c, known)
  PROVE  \E e \in Catalog : \E top \in Highest(known) : \E bump :
           /\ d = WithEntry(e, Bumped(top, bump))
           /\ \/ e = c
              \/ /\ job.kind = "promote" /\ job.target \in known
                 /\ \E i \in Entry(c, job) :
                      e \in Promoted(c, i, job)
<1>1. CASE job.kind = "release"
  <2>1. PICK top \in Highest(known) : d = WithEntry(c, Bumped(top, job.bump))
    BY <1>1 DEF NewCatalogs, ReleaseCatalogs
  <2> QED  BY <2>1
<1>2. CASE job.kind = "promote"
  <2> DEFINE edits == UNION {Promoted(c, i, job) : i \in Entry(c, job)}
  <2>1. d \in PromoteCatalogs(job, c, known)
    BY <1>2 DEF NewCatalogs
  <2>2. job.target \in known
        /\ d \in {WithEntry(e, Bumped(top, "patch")) : e \in edits, top \in Highest(known)}
    BY <2>1 DEF PromoteCatalogs, Entry
  <2> HIDE DEF edits
  <2>3. PICK e \in edits, top \in Highest(known) : d = WithEntry(e, Bumped(top, "patch"))
    BY <2>2
  <2> USE DEF edits
  <2>4. PICK i \in Entry(c, job) : e \in Promoted(c, i, job)
    OBVIOUS
  <2>5. i \in DOMAIN c.hist
    BY DEF Entry, First
  <2>6. e \in Catalog
    BY <1>2, <2>4, <2>5, PromotedType
  <2> HIDE DEF edits
  <2> QED  BY <1>2, <2>2, <2>3, <2>4, <2>6
<1> QED
  BY <1>1, <1>2 DEF Job

LEMMA NewCatalogsMarked ==
  ASSUME NEW c \in Catalog, NEW job \in Job, NEW known \in SUBSET Versions,
         Marked(c, known), NEW d \in NewCatalogs(job, c, known)
  PROVE  Marked(d, known)
<1>1. PICK e \in Catalog : \E top \in Highest(known) : \E bump :
        /\ d = WithEntry(e, Bumped(top, bump))
        /\ \/ e = c
           \/ /\ job.kind = "promote" /\ job.target \in known
              /\ \E i \in Entry(c, job) :
                   e \in Promoted(c, i, job)
  BY NewCatalogShape
<1>2. Marked(e, known)
  BY <1>1, PromotedMarked
<1>3. PICK top \in Highest(known) : \E bump : d = WithEntry(e, Bumped(top, bump))
  BY <1>1
<1> QED
  BY <1>2, <1>3, BumpedIsNew, WithEntryMarked

LEMMA IdleMarked == Marked(IdleRun.cat, IdleRun.tags)
BY DEF Marked, IdleRun, Catalog0, NoPtr

\* A step of a run that keeps its catalog and forgets no tag, or ends it.
LEMMA RunMarked ==
  ASSUME IInv, MarksInv, NEW k \in Lanes,
         \/ run'[k].cat = run[k].cat /\ run[k].tags \subseteq run'[k].tags
         \/ run'[k] = IdleRun
  PROVE  Marked(run'[k].cat, run'[k].tags)
BY IdleMarked, MarkedMore DEF MarksInv

LEMMA TagSetGrows == ASSUME IInv, [Next]_vars PROVE TagSet \subseteq TagSet'
<1> SUFFICES ASSUME NEW v \in Versions, tags[v] # 0 PROVE tags'[v] # 0
  BY DEF TagSet
<1>1. ASSUME NEW w \in Versions, Promise!Publish(w) PROVE tags'[v] = tags[v]
  <2>1. tags[w] = 0 /\ tags' = [tags EXCEPT ![w] = tags'[w]]
    BY <1>1 DEF Promise!Publish, Promise!Published
  <2>2. v # w
    BY <2>1
  <2>3. tags \in [Versions -> Nat]
    BY DEF IInv, TypeOK
  <2> QED  BY <2>1, <2>2, <2>3, Zenon
<1>2. ASSUME NEW r \in RefName, NEW w \in Versions, Promise!Move(r, w) PROVE tags' = tags
  BY <1>2 DEF Promise!Move
<1> QED
  BY <1>1, <1>2, NextPromise DEF Promise!Next

\* What a step may do to the clone of run k.
LEMMA ClonesMarked ==
  ASSUME IInv, MarksInv, Next, NEW k \in Lanes
  PROVE  Marked(run'[k].cat, run'[k].tags)
<1>1. run \in [Lanes -> Run] /\ Marked(run[k].cat, run[k].tags)
  BY DEF IInv, TypeOK, MarksInv
<1>2. CASE Merge \/ DispatchRelease \/ DispatchPromote
  BY <1>1, <1>2 DEF Merge, DispatchRelease, DispatchPromote
<1>3. ASSUME NEW l \in Lanes, Checkout(l) PROVE Marked(run'[k].cat, run'[k].tags)
  <2>1. CASE k # l
    BY <1>1, <1>3, <2>1 DEF Checkout, Run
  <2>2. CASE k = l
    <3>1. pending[l].base \in DOMAIN main
      BY <1>3 DEF Checkout, IInv, RunsConsistent
    <3>2. run'[k].cat = main[pending[l].base].cat /\ run'[k].tags = TagSet
      BY <1>3, <2>2 DEF Checkout
    <3> QED  BY <3>1, <3>2 DEF MarksInv
  <2> QED  BY <2>1, <2>2
<1>4. ASSUME NEW l \in Lanes, Prepare(l) PROVE Marked(run'[k].cat, run'[k].tags)
  <2>1. PICK c \in NewCatalogs(run[l].job, run[l].cat, run[l].tags) :
          run' = [run EXCEPT ![l].pc = "push", ![l].cat = c]
    BY <1>4 DEF Prepare
  <2>2. CASE k # l
    BY <1>1, <2>1, <2>2
  <2>3. CASE k = l
    <3>1. /\ run[l].cat \in Catalog /\ run[l].job \in Job
          /\ run[l].tags \in SUBSET Versions
      BY <1>4 DEF Prepare, IInv, TypeOK, Run, RunsConsistent, Consistent
    <3>2. Marked(c, run[l].tags)
      BY <1>1, <2>1, <2>3, <3>1, NewCatalogsMarked
    <3>3. run'[k].cat = c /\ run'[k].tags = run[l].tags
      BY <1>1, <2>1, <2>3 DEF Run
    <3> QED  BY <3>2, <3>3
  <2> QED  BY <2>2, <2>3
<1>5. ASSUME NEW l \in Lanes,
             \/ Refused(l) \/ GiveUp(l) \/ TagRejected(l) \/ PublishRelease(l) \/ Fail(l)
      PROVE  Marked(run'[k].cat, run'[k].tags)
  <2>1. run' = [run EXCEPT ![l] = IdleRun]
    BY <1>5 DEF Refused, GiveUp, TagRejected, PublishRelease, Fail, Finish
  <2> QED  BY <1>1, <2>1, IdleMarked
<1>6. ASSUME NEW l \in Lanes,
             Push(l) \/ PushRejected(l) \/ Rebase(l) \/ TagExists(l) \/ CreateTag(l)
      PROVE  Marked(run'[k].cat, run'[k].tags)
  <2>1. run'[k].cat = run[k].cat /\ run[k].tags \subseteq run'[k].tags
    <3>1. CASE Push(l)
      <4>1. PICK n : run' = [run EXCEPT ![l].pc = "tag", ![l].base = n]
        BY <3>1 DEF Push
      <4> QED  BY <1>1, <4>1 DEF Run
    <3>2. CASE PushRejected(l)
      <4>1. PICK n : run' = [run EXCEPT ![l].pc = "rebase", ![l].tries = n]
        BY <3>2 DEF PushRejected
      <4> QED  BY <1>1, <4>1 DEF Run
    <3>3. CASE TagExists(l)
      BY <1>1, <3>3 DEF TagExists, Goto, Run
    <3>4. CASE CreateTag(l)
      BY <1>1, <3>4 DEF CreateTag, Run
    <3>5. CASE Rebase(l)
      BY <1>1, <3>5 DEF Rebase, Run
    <3> QED  BY <1>6, <3>1, <3>3, <3>4, <3>5, <3>2
  <2> QED  BY <1>1, <2>1, MarkedMore
<1>7. ASSUME NEW l \in Lanes,
             MoveMinor(l) \/ MoveMajor(l) \/ MoveStable(l) \/ MoveBeta(l) \/ MoveDev(l)
      PROVE  Marked(run'[k].cat, run'[k].tags)
  <2>1. PICK wanted, ref, v, next : MoveRef(l, wanted, ref, v, next)
    BY <1>7, Zenon DEF MoveMinor, MoveMajor, MoveStable, MoveBeta, MoveDev
  <2>2. run'[k].cat = run[k].cat /\ run'[k].tags = run[k].tags
    <3>1. CASE wanted
      <4>1. run' = [run EXCEPT ![l].pc = next, ![l].refs[ref] = v]
        BY <2>1, <3>1, Zenon DEF MoveRef
      <4> QED  BY <1>1, <4>1 DEF Run
    <3>2. CASE ~wanted
      <4>1. run' = [run EXCEPT ![l].pc = next]
        BY <2>1, <3>2, Zenon DEF MoveRef, Goto
      <4> QED  BY <1>1, <4>1 DEF Run
    <3> QED  BY <3>1, <3>2
  <2> QED  BY <1>1, <2>2
<1> QED
  BY <1>2, <1>3, <1>4, <1>5, <1>6, <1>7 DEF Next, Work

\* main only grows, by a merge that carries the tip's catalog or by the
\* commit of a run.
LEMMA MainGrows ==
  ASSUME IInv, [Next]_vars
  PROVE  \/ main' = main
         \/ \E c \in Commit :
              /\ main' = Append(main, c)
              /\ c.cat = Tip \/ \E l \in Lanes : Push(l) /\ c.cat = run[l].cat
<1>1. CASE Merge
  <2>1. [cat |-> Tip, merge |-> TRUE] \in Commit
    <3>1. main[Len(main)] \in Commit
      BY ElementOfSeq DEF IInv, TypeOK
    <3> QED  BY <3>1 DEF Tip, Commit
  <2> QED  BY <1>1, <2>1 DEF Merge
<1>2. ASSUME NEW l \in Lanes, Push(l)
      PROVE  \E c \in Commit :
               main' = Append(main, c) /\ Push(l) /\ c.cat = run[l].cat
  <2>1. [cat |-> run[l].cat, merge |-> FALSE] \in Commit
    BY DEF IInv, TypeOK, Run, Commit
  <2> QED  BY <1>2, <2>1 DEF Push
<1>3. ASSUME NEW l \in Lanes, Work(l), ~Push(l) PROVE main' = main
  <2>1. CASE \/ Prepare(l) \/ Refused(l) \/ PushRejected(l) \/ Rebase(l) \/ GiveUp(l)
             \/ TagExists(l) \/ CreateTag(l) \/ TagRejected(l) \/ PublishRelease(l)
    BY <2>1 DEF Prepare, Refused, PushRejected, Rebase, GiveUp, TagExists, CreateTag,
                TagRejected, PublishRelease
  <2>2. CASE MoveMinor(l) \/ MoveMajor(l) \/ MoveStable(l) \/ MoveBeta(l) \/ MoveDev(l)
    BY <2>2, Zenon DEF MoveMinor, MoveMajor, MoveStable, MoveBeta, MoveDev, MoveRef
  <2> QED  BY <1>3, <2>1, <2>2 DEF Work
<1>4. ASSUME NEW l \in Lanes, Checkout(l) \/ Fail(l) PROVE main' = main
  BY <1>4 DEF Checkout, Fail
<1>5. CASE DispatchRelease \/ DispatchPromote \/ UNCHANGED vars
  BY <1>5 DEF DispatchRelease, DispatchPromote, vars
<1> QED
  BY <1>1, <1>2, <1>3, <1>4, <1>5 DEF Next

LEMMA MarksNext == IInv /\ MarksInv /\ [Next]_vars => MarksInv'
<1> SUFFICES ASSUME IInv, MarksInv, [Next]_vars PROVE MarksInv'
  OBVIOUS
<1>1. TagSet \subseteq TagSet'
  BY TagSetGrows
<1>2. ASSUME NEW i \in DOMAIN main PROVE Marked(main[i].cat, TagSet')
  BY <1>1, MarkedMore DEF MarksInv
<1>3. ASSUME NEW i \in DOMAIN main' PROVE Marked(main'[i].cat, TagSet')
  <2>1. CASE main' = main
    BY <1>2, <2>1
  <2>2. ASSUME NEW c \in Commit, main' = Append(main, c),
               c.cat = Tip \/ \E l \in Lanes : Push(l) /\ c.cat = run[l].cat
        PROVE  Marked(main'[i].cat, TagSet')
    <3>1. main \in Seq(Commit) /\ Len(main) \in DOMAIN main
      BY DEF IInv, TypeOK
    <3>2. \/ i \in DOMAIN main /\ main'[i] = main[i]
          \/ main'[i] = c
      BY <2>2, <3>1
    <3>3. ASSUME NEW l \in Lanes PROVE Marked(run[l].cat, TagSet')
      <4>1. run[l].tags \subseteq TagSet'
        BY <1>1 DEF IInv, RunsConsistent, Consistent
      <4> QED  BY <4>1, MarkedMore DEF MarksInv
    <3>4. Marked(c.cat, TagSet')
      BY <1>2, <2>2, <3>1, <3>3 DEF Tip
    <3> QED  BY <1>2, <3>2, <3>4
  <2> QED  BY <2>1, <2>2, MainGrows
<1>4. ASSUME NEW k \in Lanes PROVE Marked(run'[k].cat, run'[k].tags)
  <2>1. CASE Next
    BY <2>1, ClonesMarked
  <2>2. CASE UNCHANGED vars
    BY <2>2 DEF vars, MarksInv
  <2> QED  BY <2>1, <2>2
<1> QED
  BY <1>3, <1>4 DEF MarksInv, Marked

\* Rolling a channel back off a version takes the mark off the only entry
\* that has it: however two runs race for a version, and whatever dies, a mark
\* is only ever on the newest entry of its version.
THEOREM MarksOnNewest == Spec => []MarkOnNewestEntry
<1>1. Init => MarksInv
  BY IdleMarked DEF Init, MarksInv, Marked, Catalog0, NoPtr, IdleRun
<1>2. IInv /\ MarksInv => MarkOnNewestEntry
  <2>1. IInv => Len(main) \in DOMAIN main
    BY DEF IInv, TypeOK
  <2> QED  BY <2>1 DEF MarksInv, Marked, MarkOnNewestEntry, Tip
<1> QED
  BY <1>1, <1>2, MarksNext, Invariant, PTL DEF Spec

\* However runs race, retry and die, a channel pointer of the catalog names a
\* published release whose own entry shows that channel.
THEOREM ChannelsShown == Spec => []PointersMarked
<1>1. Init => MarksInv
  BY IdleMarked DEF Init, MarksInv, Marked, Catalog0, NoPtr, IdleRun
<1>2. IInv /\ MarksInv => PointersMarked
  <2>1. IInv => Len(main) \in DOMAIN main
    BY DEF IInv, TypeOK
  <2> QED  BY <2>1 DEF MarksInv, Marked, PointersMarked, Tip, TagSet
<1> QED
  BY <1>1, <1>2, MarksNext, Invariant, PTL DEF Spec

-----------------------------------------------------------------------------
(***************************************************************************)
(* Pinned refs.                                                            *)
(***************************************************************************)
LEMMA BlessedGrows ==
  ASSUME IInv, [Next]_vars, NEW t \in Tier PROVE Blessed(t) \subseteq Blessed(t)'
<1>1. main \in Seq(Commit)
  BY DEF IInv, TypeOK
<1>2. \A i \in DOMAIN main : i \in DOMAIN main' /\ main'[i] = main[i]
  <2>1. CASE main' = main
    BY <2>1
  <2>2. ASSUME NEW c \in Commit, main' = Append(main, c)
        PROVE  \A i \in DOMAIN main : i \in DOMAIN main' /\ main'[i] = main[i]
    BY <1>1, <2>2
  <2> QED  BY <2>1, <2>2, MainGrows
<1> QED
  BY <1>2 DEF Blessed

\* A publishing run takes the pointers of the catalog it pushed.
LEMMA OwnPointersBlessed ==
  ASSUME IInv, NEW l \in Lanes, run[l].pc \in Publishing, NEW t \in Tier
  PROVE  run[l].cat.ptr[t] \in Blessed(t)
BY DEF IInv, RunsConsistent, Consistent, Blessed

\* The pinned refs of blessed releases, and what may go into them.
Allowed(ref, v) ==
  /\ \A t \in Tier : ref = Channel(t) => v \in Blessed(t)
  /\ \A w \in Versions : ref = MajorRef(w) => v \in Blessed("stable")

LEMMA MoveRefBlessed ==
  ASSUME IInv, [Next]_vars, RefsBlessed, NEW l \in Lanes, NEW wanted, NEW ref, NEW v, NEW next,
         Allowed(ref, v), MoveRef(l, wanted, ref, v, next)
  PROVE  RefsBlessed'
<1>1. \A t \in Tier : Blessed(t) \subseteq Blessed(t)'
  BY BlessedGrows
<1>2. refs \in [RefName -> MaybeVersion] /\ "stable" \in Tier
  BY DEF IInv, TypeOK, Tier
<1>3. refs' = [refs EXCEPT ![ref] = v] \/ refs' = refs
  BY Zenon DEF MoveRef
<1>4. \A t \in Tier : Channel(t) \in RefName
  BY RefNames DEF Tier
<1>5. \A r \in RefName : refs'[r] = refs[r] \/ (r = ref /\ refs'[r] = v)
  BY <1>2, <1>3
<1>6. ASSUME NEW t \in Tier PROVE refs'[Channel(t)] \in Blessed(t)' \cup {NoVersion}
  BY <1>1, <1>4, <1>5 DEF Allowed, RefsBlessed
<1>7. ASSUME NEW w \in Versions PROVE refs'[MajorRef(w)] \in Blessed("stable")' \cup {NoVersion}
  BY <1>1, <1>2, <1>5, RefNames DEF Allowed, RefsBlessed
<1> QED
  BY <1>6, <1>7 DEF RefsBlessed

LEMMA WorkBlessed ==
  ASSUME IInv, [Next]_vars, RefsBlessed, NEW l \in Lanes, Work(l) PROVE RefsBlessed'
<1>1. CASE UNCHANGED refs
  <2>1. \A t \in Tier : Blessed(t) \subseteq Blessed(t)'
    BY BlessedGrows
  <2> QED  BY <1>1, <2>1 DEF RefsBlessed, Tier
<1>2. CASE MoveMinor(l)
  <2>1. Allowed(MinorRef(V(l)), V(l))
    BY DEF Allowed, MinorRef, MajorRef, Channel, Tier
  <2> QED  BY <1>2, <2>1, MoveRefBlessed DEF MoveMinor
<1>3. CASE MoveMajor(l)
  <2>1. run[l].cat.ptr["stable"] \in Blessed("stable")
    BY <1>3, OwnPointersBlessed DEF MoveMajor, Publishing, Tier
  <2>2. Allowed(MajorRef(V(l)), run[l].cat.ptr["stable"])
    BY <2>1 DEF Allowed, MajorRef, Channel, Tier
  <2> QED  BY <1>3, <2>2, MoveRefBlessed DEF MoveMajor
<1>4. CASE MoveStable(l)
  <2>1. run[l].cat.ptr["stable"] \in Blessed("stable")
    BY <1>4, OwnPointersBlessed DEF MoveStable, Publishing, Tier
  <2>2. Allowed(Channel("stable"), run[l].cat.ptr["stable"])
    BY <2>1 DEF Allowed, MajorRef, Channel, Tier
  <2> QED  BY <1>4, <2>2, MoveRefBlessed DEF MoveStable
<1>5. CASE MoveBeta(l)
  <2>1. run[l].cat.ptr["beta"] \in Blessed("beta")
    BY <1>5, OwnPointersBlessed DEF MoveBeta, Publishing, Tier
  <2>2. Allowed(Channel("beta"), run[l].cat.ptr["beta"])
    BY <2>1 DEF Allowed, MajorRef, Channel, Tier
  <2> QED  BY <1>5, <2>2, MoveRefBlessed DEF MoveBeta
<1>6. CASE MoveDev(l)
  <2>1. Allowed(Channel("dev"), V(l))
    BY DEF Allowed, MajorRef, Channel, Tier
  <2> QED  BY <1>6, <2>1, MoveRefBlessed DEF MoveDev
<1> QED
  BY <1>1, <1>2, <1>3, <1>4, <1>5, <1>6 DEF Work, Prepare, Refused, Push, PushRejected, Rebase,
     GiveUp, TagExists, CreateTag, TagRejected, PublishRelease

\* stable, beta and v<major> only ever name versions the owner blessed in that
\* channel: no race, retry or failure puts an unblessed release behind them.
THEOREM PinnedRefsBlessed == Spec => []RefsBlessed
<1>1. Init => RefsBlessed
  BY V0Version, RefNames DEF Init, RefsBlessed, NoRefs, Channel, MinorRef, MajorRef, Tier
<1>2. IInv /\ RefsBlessed /\ [Next]_vars => RefsBlessed'
  <2> SUFFICES ASSUME IInv, RefsBlessed, [Next]_vars PROVE RefsBlessed'
    OBVIOUS
  <2>1. ASSUME NEW l \in Lanes, Work(l) PROVE RefsBlessed'
    BY <2>1, WorkBlessed
  <2>2. CASE UNCHANGED refs
    <3>1. \A t \in Tier : Blessed(t) \subseteq Blessed(t)'
      BY BlessedGrows
    <3> QED  BY <2>2, <3>1 DEF RefsBlessed, Tier
  <2> QED
    BY <2>1, <2>2 DEF Next, Merge, DispatchRelease, DispatchPromote, Checkout, Fail, vars
<1> QED
  BY <1>1, <1>2, Invariant, PTL DEF Spec

-----------------------------------------------------------------------------
(***************************************************************************)
(* The history of the catalog.  What a push adds is what the edit added to *)
(* the catalog of the clone's base, and a fast-forward push needs that base *)
(* to be the tip.                                                          *)
(***************************************************************************)
Extends(old, new) ==
  /\ Len(new) = Len(old) + 1
  /\ \A i \in DOMAIN old : new[i + 1].v = old[i].v
  /\ \A i, j \in DOMAIN old :
       new[i + 1].tiers # old[i].tiers /\ new[j + 1].tiers # old[j].tiers => i = j

Edited(r) ==
  /\ r.pc = "prepare" => r.cat = main[r.base].cat
  /\ r.pc \in {"push", "rebase"} => Extends(main[r.base].cat.hist, r.cat.hist)

EditInv == \A l \in Lanes : Edited(run[l])

LEMMA NewCatalogExtends ==
  ASSUME NEW c \in Catalog, NEW job \in Job, NEW known, NEW d \in NewCatalogs(job, c, known)
  PROVE  Extends(c.hist, d.hist)
<1>1. PICK e \in Catalog : \E top \in Highest(known) : \E bump :
        /\ d = WithEntry(e, Bumped(top, bump))
        /\ \/ e = c
           \/ /\ job.kind = "promote" /\ job.target \in known
              /\ \E i \in Entry(c, job) :
                   e \in Promoted(c, i, job)
  BY NewCatalogShape
<1>2. /\ Len(d.hist) = Len(e.hist) + 1
      /\ \A j \in DOMAIN e.hist : d.hist[j + 1] = e.hist[j]
  BY <1>1, WithEntryShape
<1>3. CASE e = c
  BY <1>2, <1>3 DEF Extends
<1>4. ASSUME job.kind = "promote",
             NEW i \in Entry(c, job),
             e \in Promoted(c, i, job)
      PROVE  Extends(c.hist, d.hist)
  <2>1. /\ DOMAIN e.hist = DOMAIN c.hist /\ Len(e.hist) = Len(c.hist)
        /\ c.hist[i].v = job.target /\ e.hist[i].v = job.target
        /\ \A j \in DOMAIN c.hist \ {i} : e.hist[j] = c.hist[j]
    BY <1>4, PromotedShape
  <2>2. Len(d.hist) = Len(c.hist) + 1
    BY <1>2, <2>1
  <2>3. \A j \in DOMAIN c.hist : d.hist[j + 1].v = c.hist[j].v
    BY <1>2, <2>1
  <2>4. \A j \in DOMAIN c.hist : d.hist[j + 1].tiers # c.hist[j].tiers => j = i
    BY <1>2, <2>1
  <2> QED  BY <2>2, <2>3, <2>4 DEF Extends
<1> QED
  BY <1>1, <1>3, <1>4

\* What one use of git push -f does to its run: the clone learns the ref.
LEMMA MoveRefRun ==
  ASSUME IInv, NEW l \in Lanes, NEW wanted, NEW ref \in RefName, NEW v, NEW next,
         MoveRef(l, wanted, ref, v, next)
  PROVE  /\ run'[l].pc = next
         /\ run'[l].base = run[l].base /\ run'[l].cat = run[l].cat
         /\ run'[l].tags = run[l].tags /\ run'[l].newTag = run[l].newTag
         /\ run'[l].alone = run[l].alone
         /\ \A x \in RefName \ {ref} : refs'[x] = refs[x]
         /\ wanted => refs'[ref] = v
         /\ ~wanted => refs'[ref] = refs[ref]
         /\ run[l].refs = refs => run'[l].refs = refs'
         /\ UNCHANGED <<main, tags>>
<1>1. run \in [Lanes -> Run] /\ refs \in [RefName -> MaybeVersion]
  BY DEF IInv, TypeOK
<1>2. UNCHANGED <<main, tags>>
  BY Zenon DEF MoveRef
<1>3. CASE wanted
  <2>1. refs' = [refs EXCEPT ![ref] = v] /\ run' = [run EXCEPT ![l].pc = next, ![l].refs[ref] = v]
    BY <1>3, Zenon DEF MoveRef
  <2>2. /\ run'[l].pc = next
        /\ run'[l].base = run[l].base /\ run'[l].cat = run[l].cat
        /\ run'[l].tags = run[l].tags /\ run'[l].newTag = run[l].newTag
        /\ run'[l].alone = run[l].alone
        /\ run'[l].refs = [run[l].refs EXCEPT ![ref] = v]
    BY <1>1, <2>1 DEF Run
  <2>3. refs'[ref] = v /\ \A x \in RefName \ {ref} : refs'[x] = refs[x]
    BY <1>1, <2>1
  <2> QED  BY <1>2, <1>3, <2>1, <2>2, <2>3
<1>4. CASE ~wanted
  <2>1. refs' = refs /\ run' = [run EXCEPT ![l].pc = next]
    BY <1>4, Zenon DEF MoveRef, Goto
  <2>2. /\ run'[l].pc = next
        /\ run'[l].base = run[l].base /\ run'[l].cat = run[l].cat
        /\ run'[l].tags = run[l].tags /\ run'[l].newTag = run[l].newTag
        /\ run'[l].alone = run[l].alone /\ run'[l].refs = run[l].refs
    BY <1>1, <2>1 DEF Run
  <2> QED  BY <1>2, <1>4, <2>1, <2>2
<1> QED
  BY <1>3, <1>4

\* v<major>.<minor>, v<major> and the channels, in turn.
LEMMA MinorMoved ==
  ASSUME IInv, NEW l \in Lanes, MoveMinor(l)
  PROVE  /\ run'[l].pc = "major" /\ run'[l].cat = run[l].cat /\ run'[l].alone = run[l].alone
         /\ \A x \in RefName \ {MinorRef(V(l))} : refs'[x] = refs[x]
         /\ (run[l].newTag \/ force(l)) => refs'[MinorRef(V(l))] = V(l)
         /\ ~(run[l].newTag \/ force(l)) => refs'[MinorRef(V(l))] = refs[MinorRef(V(l))]
<1>1. MinorRef(V(l)) \in RefName
  BY PublishingRun, RefNames DEF MoveMinor, Publishing
<1> DEFINE wanted == run[l].newTag \/ force(l)
<1>2. MoveRef(l, wanted, MinorRef(V(l)), V(l), "major")
  BY DEF MoveMinor
<1>3. /\ run'[l].pc = "major" /\ run'[l].cat = run[l].cat /\ run'[l].alone = run[l].alone
      /\ \A x \in RefName \ {MinorRef(V(l))} : refs'[x] = refs[x]
      /\ wanted => refs'[MinorRef(V(l))] = V(l)
      /\ ~wanted => refs'[MinorRef(V(l))] = refs[MinorRef(V(l))]
  <2> HIDE DEF wanted
  <2> QED  BY <1>1, <1>2, MoveRefRun
<1> QED
  BY <1>3

LEMMA MajorMoved ==
  ASSUME IInv, NEW l \in Lanes, MoveMajor(l)
  PROVE  /\ run'[l].pc = "stable" /\ run'[l].cat = run[l].cat /\ run'[l].alone = run[l].alone
         /\ \A x \in RefName \ {MajorRef(V(l))} : refs'[x] = refs[x]
         /\ WantsMajor(l) => refs'[MajorRef(V(l))] = run[l].cat.ptr["stable"]
         /\ ~WantsMajor(l) => refs'[MajorRef(V(l))] = refs[MajorRef(V(l))]
<1>1. MajorRef(V(l)) \in RefName
  BY PublishingRun, RefNames DEF MoveMajor, Publishing
<1>2. MoveRef(l, WantsMajor(l), MajorRef(V(l)), run[l].cat.ptr["stable"], "stable")
  BY DEF MoveMajor
<1> QED
  BY <1>1, <1>2, MoveRefRun

LEMMA ChannelMoved ==
  ASSUME IInv, NEW l \in Lanes, MoveStable(l) \/ MoveBeta(l) \/ MoveDev(l)
  PROVE  run'[l].pc \in {"beta", "dev", "release"} /\ run'[l].alone = run[l].alone
<1>1. Channel("stable") \in RefName /\ Channel("beta") \in RefName /\ Channel("dev") \in RefName
  BY RefNames
<1>2. ASSUME NEW wanted, NEW ref \in RefName, NEW v, NEW next, MoveRef(l, wanted, ref, v, next)
      PROVE  run'[l].pc = next /\ run'[l].alone = run[l].alone
  <2>1. run \in [Lanes -> Run]
    BY DEF IInv, TypeOK
  <2>2. CASE wanted
    <3>1. run' = [run EXCEPT ![l].pc = next, ![l].refs[ref] = v]
      BY <1>2, <2>2, Zenon DEF MoveRef
    <3> QED  BY <2>1, <3>1 DEF Run
  <2>3. CASE ~wanted
    <3>1. run' = [run EXCEPT ![l].pc = next]
      BY <1>2, <2>3, Zenon DEF MoveRef, Goto
    <3> QED  BY <2>1, <3>1 DEF Run
  <2> QED  BY <2>2, <2>3
<1>3. CASE MoveStable(l)
  <2>1. run'[l].pc = "beta" /\ run'[l].alone = run[l].alone
    BY <1>1, <1>2, <1>3 DEF MoveStable
  <2> QED  BY <2>1
<1>4. CASE MoveBeta(l)
  <2>1. run'[l].pc = "dev" /\ run'[l].alone = run[l].alone
    BY <1>1, <1>2, <1>4 DEF MoveBeta
  <2> QED  BY <2>1
<1>5. CASE MoveDev(l)
  <2>1. run'[l].pc = "release" /\ run'[l].alone = run[l].alone
    BY <1>1, <1>2, <1>5 DEF MoveDev
  <2> QED  BY <2>1
<1> QED
  BY <1>3, <1>4, <1>5

\* A step of a run leaves the other runs alone.
LEMMA OthersKept ==
  ASSUME IInv, NEW l \in Lanes, Work(l) \/ Fail(l), NEW k \in Lanes \ {l}
  PROVE  run'[k] = run[k] /\ run[l].pc # "idle"
<1>1. run \in [Lanes -> Run]
  BY DEF IInv, TypeOK
<1>2. CASE \/ Refused(l) \/ GiveUp(l) \/ TagRejected(l) \/ PublishRelease(l) \/ Fail(l)
  BY <1>1, <1>2 DEF Refused, GiveUp, TagRejected, PublishRelease, Fail, Finish
<1>3. CASE Prepare(l)
  BY <1>1, <1>3 DEF Prepare
<1>4. CASE Push(l) \/ PushRejected(l) \/ Rebase(l) \/ TagExists(l) \/ CreateTag(l)
  BY <1>1, <1>4 DEF Push, PushRejected, Rebase, TagExists, CreateTag, Goto
<1>5. CASE MoveMinor(l) \/ MoveMajor(l) \/ MoveStable(l) \/ MoveBeta(l) \/ MoveDev(l)
  <2>1. PICK wanted, ref, v, next : MoveRef(l, wanted, ref, v, next)
    BY <1>5, Zenon DEF MoveMinor, MoveMajor, MoveStable, MoveBeta, MoveDev
  <2>2. run[l].pc # "idle"
    BY <1>5 DEF MoveMinor, MoveMajor, MoveStable, MoveBeta, MoveDev
  <2>3. CASE wanted
    <3>1. run' = [run EXCEPT ![l].pc = next, ![l].refs[ref] = v]
      BY <2>1, <2>3, Zenon DEF MoveRef
    <3> QED  BY <1>1, <2>2, <3>1
  <2>4. CASE ~wanted
    <3>1. run' = [run EXCEPT ![l].pc = next]
      BY <2>1, <2>4, Zenon DEF MoveRef, Goto
    <3> QED  BY <1>1, <2>2, <3>1
  <2> QED  BY <2>3, <2>4
<1> QED
  BY <1>2, <1>3, <1>4, <1>5 DEF Work

\* Old commits stay where they are.
LEMMA CommitsStay ==
  ASSUME IInv, [Next]_vars, NEW i \in DOMAIN main
  PROVE  i \in DOMAIN main' /\ main'[i] = main[i]
<1>1. main \in Seq(Commit)
  BY DEF IInv, TypeOK
<1>2. CASE main' = main
  BY <1>2
<1>3. ASSUME NEW c \in Commit, main' = Append(main, c)
      PROVE  i \in DOMAIN main' /\ main'[i] = main[i]
  BY <1>1, <1>3
<1> QED
  BY <1>2, <1>3, MainGrows

\* A run that keeps its place, its base and its catalog stays edited.
LEMMA EditedKept ==
  ASSUME IInv, EditInv, [Next]_vars, NEW k \in Lanes,
         run'[k].pc = run[k].pc \/ (run[k].pc = "push" /\ run'[k].pc = "rebase"),
         run'[k].base = run[k].base, run'[k].cat = run[k].cat
  PROVE  Edited(run[k])'
<1>1. run[k].base \in DOMAIN main
  BY DEF IInv, RunsConsistent, Consistent
<1>2. main'[run[k].base] = main[run[k].base]
  BY <1>1, CommitsStay
<1> QED
  BY <1>2 DEF EditInv, Edited

LEMMA EditNext == IInv /\ EditInv /\ [Next]_vars => EditInv'
<1> SUFFICES ASSUME IInv, EditInv, [Next]_vars, NEW k \in Lanes PROVE Edited(run[k])'
  BY DEF EditInv
<1>1. run \in [Lanes -> Run] /\ run[k].base \in DOMAIN main
  BY DEF IInv, TypeOK, RunsConsistent, Consistent
<1>2. CASE UNCHANGED run
  BY <1>2, EditedKept
<1>3. ASSUME NEW l \in Lanes, Checkout(l) PROVE Edited(run[k])'
  <2>1. CASE k # l
    <3>1. run'[k] = [run[k] EXCEPT !.alone = FALSE]
      BY <1>3, <2>1 DEF Checkout
    <3> QED  BY <1>1, <3>1, EditedKept DEF Run
  <2>2. CASE k = l
    <3>1. /\ run'[k].pc = "prepare" /\ run'[k].base = pending[l].base
          /\ run'[k].cat = main[pending[l].base].cat /\ main' = main
      BY <1>3, <2>2 DEF Checkout
    <3> QED  BY <3>1 DEF Edited
  <2> QED  BY <2>1, <2>2
<1>4. ASSUME NEW l \in Lanes, Work(l) \/ Fail(l), k # l PROVE Edited(run[k])'
  BY <1>4, OthersKept, EditedKept
<1>5. CASE Prepare(k)
  <2>1. PICK c \in NewCatalogs(run[k].job, run[k].cat, run[k].tags) :
          run' = [run EXCEPT ![k].pc = "push", ![k].cat = c]
    BY <1>5 DEF Prepare
  <2>2. /\ run[k].cat \in Catalog /\ run[k].job \in Job
        /\ run[k].cat = main[run[k].base].cat /\ main' = main
    BY <1>5 DEF Prepare, IInv, TypeOK, Run, RunsConsistent, Consistent, EditInv, Edited
  <2>3. Extends(run[k].cat.hist, c.hist)
    BY <2>2, NewCatalogExtends
  <2>4. run'[k].pc = "push" /\ run'[k].base = run[k].base /\ run'[k].cat = c
    BY <1>1, <2>1 DEF Run
  <2> QED  BY <2>2, <2>3, <2>4 DEF Edited
<1>6. CASE PushRejected(k)
  <2>1. PICK n : run' = [run EXCEPT ![k].pc = "rebase", ![k].tries = n]
    BY <1>6 DEF PushRejected
  <2>2. /\ run[k].pc = "push" /\ run'[k].pc = "rebase"
        /\ run'[k].base = run[k].base /\ run'[k].cat = run[k].cat
    BY <1>1, <1>6, <2>1 DEF Run, PushRejected
  <2> QED  BY <2>2, EditedKept
<1>7. CASE Rebase(k)
  <2>1. PICK ts, rs : run' = [run EXCEPT ![k].pc = "push", ![k].base = Len(main),
                                ![k].tags = ts, ![k].refs = rs]
    BY <1>7 DEF Rebase
  <2>2. run'[k].pc = "push" /\ run'[k].base = Len(main) /\ run'[k].cat = run[k].cat
    BY <1>1, <2>1 DEF Run
  <2>3. main' = main /\ run[k].pc = "rebase" /\ main[Len(main)].cat = main[run[k].base].cat
    BY <1>7 DEF Rebase, Conflict, Tip
  <2> QED  BY <2>2, <2>3 DEF EditInv, Edited
<1>8. CASE \/ Refused(k) \/ GiveUp(k) \/ TagRejected(k) \/ PublishRelease(k) \/ Fail(k)
  <2>1. run'[k] = IdleRun
    BY <1>1, <1>8 DEF Refused, GiveUp, TagRejected, PublishRelease, Fail, Finish
  <2> QED  BY <2>1 DEF Edited, IdleRun
<1>9. CASE Push(k) \/ TagExists(k) \/ CreateTag(k)
  <2>1. run'[k].pc \in {"tag", "minor"}
    BY <1>1, <1>9 DEF Push, TagExists, CreateTag, Goto, Run
  <2> QED  BY <2>1 DEF Edited
<1>10. CASE MoveMinor(k) \/ MoveMajor(k) \/ MoveStable(k) \/ MoveBeta(k) \/ MoveDev(k)
  <2>1. run'[k].pc \in {"major", "stable", "beta", "dev", "release"}
    BY <1>10, MinorMoved, MajorMoved, ChannelMoved
  <2> QED  BY <2>1 DEF Edited
<1> QED
  BY <1>2, <1>3, <1>4, <1>5, <1>6, <1>7, <1>8, <1>9, <1>10
     DEF Next, Work, vars, Merge, DispatchRelease, DispatchPromote

\* A push of the catalog adds its own entry and keeps those of every other
\* run, however many attempts and rebases it took.
THEOREM NoEntryLost == Spec => HistoryAppendOnly
<1>1. Init => EditInv
  <2>1. Edited(IdleRun)
    BY DEF Edited, IdleRun
  <2> QED  BY <2>1 DEF Init, EditInv
<1>2. IInv /\ EditInv /\ [Next]_vars => [Tip' # Tip => NothingLost]_vars
  <2> SUFFICES ASSUME IInv, EditInv, [Next]_vars, Tip' # Tip PROVE NothingLost
    OBVIOUS
  <2>1. main \in Seq(Commit) /\ Len(main) \in DOMAIN main
    BY DEF IInv, TypeOK
  <2>2. PICK l \in Lanes : Push(l)
    <3>1. ASSUME NEW c \in Commit, main' = Append(main, c), c.cat = Tip PROVE FALSE
      <4>1. Tip' = c.cat
        BY <2>1, <3>1 DEF Tip
      <4> QED  BY <3>1, <4>1
    <3>2. main' # main
      BY DEF Tip
    <3> QED  BY <3>1, <3>2, MainGrows
  <2>3. /\ run[l].pc = "push" /\ run[l].base = Len(main)
        /\ main' = Append(main, [cat |-> run[l].cat, merge |-> FALSE])
    BY <2>2 DEF Push
  <2>4. Tip' = run[l].cat
    BY <2>1, <2>3 DEF Tip
  <2>5. Extends(Tip.hist, run[l].cat.hist)
    BY <2>3 DEF EditInv, Edited, Tip
  <2> QED  BY <2>4, <2>5 DEF Extends, NothingLost
<1> QED
  BY <1>1, <1>2, EditNext, Invariant, PTL DEF Spec, HistoryAppendOnly

-----------------------------------------------------------------------------
(***************************************************************************)
(* Runs that no other run overlaps.  Such a run knows all the remote has   *)
(* (its checkout fetched it, and only it has written since), so its version *)
(* is above every published one, its catalog is the tip once pushed, and   *)
(* each step of the publishing script leaves its ref where it belongs.     *)
(***************************************************************************)
Solo(l) == run[l].pc # "idle" /\ run[l].alone

SoloKnows(l) ==
  /\ \A k \in Lanes \ {l} : run[k].pc = "idle"
  /\ run[l].tags = TagSet /\ run[l].refs = refs

SoloVersion(r) ==
  /\ r.pc \in {"push", "rebase", "tag"} => \A w \in TagSet : VersionGT(r.cat.version, w)
  /\ r.pc \in Publishing \ {"tag"} =>
       r.newTag /\ \A w \in TagSet \ {r.cat.version} : VersionGT(r.cat.version, w)
  /\ r.pc \in Publishing => Tip = r.cat

MajorDone(c) ==
  LET s == c.ptr["stable"]
  IN s # NoVersion /\ s[1] = c.version[1] => VersionGE(refs[MajorRef(s)], s)
ChannelDone(c, t) == c.ptr[t] # NoVersion => refs[Channel(t)] = c.ptr[t]

SoloDone(r) ==
  /\ r.pc \in {"major", "stable", "beta", "dev", "release"}
       => refs[MinorRef(r.cat.version)] = r.cat.version
  /\ r.pc \in {"stable", "beta", "dev", "release"} => MajorDone(r.cat)
  /\ r.pc \in {"beta", "dev", "release"} => ChannelDone(r.cat, "stable")
  /\ r.pc \in {"dev", "release"} => ChannelDone(r.cat, "beta")
  /\ r.pc = "release" => refs[Channel("dev")] = r.cat.version

SoloFacts(l) == SoloKnows(l) /\ SoloVersion(run[l]) /\ SoloDone(run[l])
SoloInv == \A l \in Lanes : Solo(l) => SoloFacts(l)

LEMMA VersionsOrdered ==
  ASSUME NEW v \in Versions, NEW w \in Versions
  PROVE  /\ v = w \/ VersionGT(v, w) \/ VersionGT(w, v)
         /\ ~VersionGT(v, v)
<1>1. PICK a \in Nat, b \in Nat, c \in Nat : v = <<a, b, c>>
  BY BoundsAssumption DEF Versions
<1>2. PICK d \in Nat, e \in Nat, f \in Nat : w = <<d, e, f>>
  BY BoundsAssumption DEF Versions
<1> QED
  BY <1>1, <1>2 DEF VersionGT

\* The names of moving refs differ by their kind, and by their channel.
LEMMA RefsDiffer ==
  ASSUME NEW v, NEW w
  PROVE  /\ MinorRef(v) # MajorRef(w)
         /\ \A c \in {"stable", "beta", "dev"} : MinorRef(v) # Channel(c) /\ MajorRef(v) # Channel(c)
         /\ \A c, d \in {"stable", "beta", "dev"} : Channel(c) = Channel(d) => c = d
BY DEF MinorRef, MajorRef, Channel

\* The new version is above every version the clone knows.
LEMMA BumpedAbove ==
  ASSUME NEW known \in SUBSET Versions, NEW top \in Highest(known), NEW bump, NEW w \in known
  PROVE  VersionGT(Bumped(top, bump), w)
<1>1. top \in Versions /\ VersionGE(top, w) /\ w \in Versions
  BY DEF Highest
<1>2. PICK a \in Nat, b \in Nat, c \in Nat : top = <<a, b, c>>
  BY <1>1, BoundsAssumption DEF Versions
<1>3. PICK d \in Nat, e \in Nat, f \in Nat : w = <<d, e, f>>
  BY <1>1, BoundsAssumption DEF Versions
<1>4. Bumped(top, bump) \in {<<a + 1, 0, 0>>, <<a, b + 1, 0>>, <<a, b, c + 1>>}
  BY <1>2 DEF Bumped
<1> QED
  BY <1>1, <1>2, <1>3, <1>4 DEF VersionGE, VersionGT

LEMMA NewCatalogAbove ==
  ASSUME NEW c \in Catalog, NEW job \in Job, NEW known \in SUBSET Versions,
         NEW d \in NewCatalogs(job, c, known), NEW w \in known
  PROVE  VersionGT(d.version, w)
<1>1. PICK e \in Catalog : \E top \in Highest(known) : \E bump :
        d = WithEntry(e, Bumped(top, bump))
  BY NewCatalogShape
<1>2. PICK top \in Highest(known) : \E bump : d = WithEntry(e, Bumped(top, bump))
  BY <1>1
<1>3. PICK bump : d = WithEntry(e, Bumped(top, bump))
  BY <1>2
<1>4. d.version = Bumped(top, bump)
  BY <1>3, WithEntryShape
<1> QED
  BY <1>4, BumpedAbove

\* The pointers of a clone's catalog name releases whose tags the clone has.
LEMMA PointersKnown ==
  ASSUME IInv, MarksInv, NEW l \in Lanes, NEW t \in Tier, run[l].cat.ptr[t] # NoVersion
  PROVE  run[l].cat.ptr[t] \in run[l].tags
BY DEF MarksInv, Marked

\* The steps of a run up to its push and its version tag.
LEMMA SoloPrepare ==
  ASSUME IInv, SoloInv, NEW l \in Lanes, Solo(l), Prepare(l),
         \A k \in Lanes \ {l} : run'[k].pc = "idle"
  PROVE  SoloFacts(l)'
<1>1. run \in [Lanes -> Run] /\ SoloKnows(l) /\ UNCHANGED <<main, tags, refs>>
  BY DEF IInv, TypeOK, SoloInv, SoloFacts, Prepare
<1>2. PICK c \in NewCatalogs(run[l].job, run[l].cat, run[l].tags) :
        run' = [run EXCEPT ![l].pc = "push", ![l].cat = c]
  BY DEF Prepare
<1>3. /\ run[l].cat \in Catalog /\ run[l].job \in Job /\ run[l].tags \in SUBSET Versions
  BY DEF Prepare, IInv, TypeOK, Run, RunsConsistent, Consistent
<1>4. /\ run'[l].pc = "push" /\ run'[l].cat = c
      /\ run'[l].tags = run[l].tags /\ run'[l].refs = run[l].refs
  BY <1>1, <1>2 DEF Run
<1>5. TagSet' = TagSet /\ run[l].tags = TagSet
  BY <1>1 DEF TagSet, SoloKnows
<1>6. \A w \in TagSet : VersionGT(c.version, w)
  BY <1>3, <1>5, NewCatalogAbove
<1>7. SoloKnows(l)'
  BY <1>1, <1>4, <1>5 DEF SoloKnows
<1>8. SoloVersion(run[l])'
  BY <1>4, <1>5, <1>6 DEF SoloVersion, Publishing
<1> QED
  BY <1>4, <1>7, <1>8 DEF SoloFacts, SoloDone

LEMMA SoloPushing ==
  ASSUME IInv, SoloInv, NEW l \in Lanes, Solo(l), Push(l) \/ PushRejected(l) \/ Rebase(l),
         \A k \in Lanes \ {l} : run'[k].pc = "idle"
  PROVE  SoloFacts(l)'
<1>1. run \in [Lanes -> Run] /\ main \in Seq(Commit) /\ refs \in [RefName -> MaybeVersion]
      /\ SoloFacts(l) /\ UNCHANGED <<tags, refs>>
  BY DEF IInv, TypeOK, SoloInv, Push, PushRejected, Rebase
<1>2. TagSet' = TagSet /\ run[l].tags = TagSet /\ run[l].refs = refs
  BY <1>1 DEF TagSet, SoloFacts, SoloKnows
<1>3. /\ run'[l].pc \in {"push", "rebase", "tag"} /\ run[l].pc \in {"push", "rebase"}
      /\ run'[l].cat = run[l].cat /\ run'[l].tags = TagSet /\ run'[l].refs = refs
      /\ run'[l].pc = "tag" => Push(l)
  <2>1. CASE Push(l)
    <3>1. PICK n : run' = [run EXCEPT ![l].pc = "tag", ![l].base = n]
      BY <2>1 DEF Push
    <3> QED  BY <1>1, <1>2, <2>1, <3>1 DEF Run, Push
  <2>2. CASE PushRejected(l)
    <3>1. PICK n : run' = [run EXCEPT ![l].pc = "rebase", ![l].tries = n]
      BY <2>2 DEF PushRejected
    <3> QED  BY <1>1, <1>2, <2>2, <3>1 DEF Run, PushRejected
  <2>3. CASE Rebase(l)
    <3>1. PICK n, rs :
            /\ run' = [run EXCEPT ![l].pc = "push", ![l].base = n,
                         ![l].tags = @ \cup TagSet, ![l].refs = rs]
            /\ rs = [r \in RefName |-> IF run[l].refs[r] = NoVersion THEN refs[r] ELSE run[l].refs[r]]
      BY <1>1, <2>3 DEF Rebase
    <3>2. rs = refs
      BY <1>1, <1>2, <3>1
    <3>3. /\ run'[l].pc = "push" /\ run'[l].cat = run[l].cat
          /\ run'[l].tags = run[l].tags \cup TagSet /\ run'[l].refs = rs
      BY <1>1, <3>1 DEF Run
    <3> QED  BY <1>2, <2>3, <3>2, <3>3 DEF Rebase
  <2> QED  BY <2>1, <2>2, <2>3
<1>4. run'[l].pc = "tag" => Tip' = run[l].cat
  <2>1. SUFFICES ASSUME main' = Append(main, [cat |-> run[l].cat, merge |-> FALSE])
                 PROVE  Tip' = run[l].cat
    BY <1>3 DEF Push
  <2>2. [cat |-> run[l].cat, merge |-> FALSE] \in Commit
    BY <1>1 DEF Run, Commit
  <2> QED  BY <1>1, <2>1, <2>2 DEF Tip
<1>5. SoloKnows(l)'
  BY <1>1, <1>2, <1>3 DEF SoloKnows
<1>6. SoloVersion(run[l])'
  BY <1>1, <1>2, <1>3, <1>4 DEF SoloFacts, SoloVersion, Publishing
<1> QED
  BY <1>3, <1>5, <1>6 DEF SoloFacts, SoloDone

LEMMA SoloTag ==
  ASSUME IInv, SoloInv, NEW l \in Lanes, Solo(l), TagExists(l) \/ CreateTag(l),
         \A k \in Lanes \ {l} : run'[k].pc = "idle"
  PROVE  SoloFacts(l)'
<1>1. run \in [Lanes -> Run] /\ tags \in [Versions -> Nat] /\ V(l) \in Versions
      /\ run[l].base \in DOMAIN main /\ main \in Seq(Commit) /\ SoloFacts(l)
  BY DEF IInv, TypeOK, SoloInv, RunsConsistent, Consistent, Run, Catalog, V
<1>2. run[l].pc = "tag"
  BY DEF TagExists, CreateTag
<1>3. \A w \in TagSet : VersionGT(V(l), w)
  BY <1>1, <1>2 DEF SoloFacts, SoloVersion, V
<1>4. run[l].tags = TagSet /\ run[l].refs = refs
  BY <1>1 DEF SoloFacts, SoloKnows
<1>5. V(l) \notin TagSet
  BY <1>1, <1>3, VersionsOrdered
<1>6. CreateTag(l)
  BY <1>4, <1>5 DEF TagExists
<1>7. PICK ts : ts = run[l].tags \cup {V(l)}
  OBVIOUS
<1>8. run' = [run EXCEPT ![l].pc = "minor", ![l].newTag = TRUE, ![l].tags = ts]
      /\ tags' = [tags EXCEPT ![V(l)] = run[l].base] /\ UNCHANGED <<main, refs>>
  BY <1>1, <1>6, <1>7 DEF CreateTag, V
<1>9. /\ run'[l].pc = "minor" /\ run'[l].newTag = TRUE /\ run'[l].tags = ts
      /\ run'[l].cat = run[l].cat /\ run'[l].refs = run[l].refs
  BY <1>1, <1>8 DEF Run
<1>10. TagSet' = ts
  <2>1. run[l].base # 0
    BY <1>1
  <2>2. \A w \in Versions : tags'[w] = IF w = V(l) THEN run[l].base ELSE tags[w]
    BY <1>1, <1>8
  <2> QED  BY <1>1, <1>4, <1>7, <2>1, <2>2 DEF TagSet
<1>11. SoloKnows(l)'
  BY <1>4, <1>8, <1>9, <1>10 DEF SoloKnows
<1>12. Tip' = run[l].cat
  BY <1>1, <1>2, <1>8 DEF Tip, SoloFacts, SoloVersion, Publishing
<1>13. SoloVersion(run[l])'
  <2>1. \A w \in TagSet' \ {run[l].cat.version} : VersionGT(run[l].cat.version, w)
    BY <1>3, <1>4, <1>7, <1>10 DEF V
  <2> QED  BY <1>9, <1>12, <2>1 DEF SoloVersion, Publishing
<1> QED
  BY <1>9, <1>11, <1>13 DEF SoloFacts, SoloDone

\* The steps of the publishing script that move a ref.
LEMMA SoloMove ==
  ASSUME IInv, SoloInv, NEW l \in Lanes, Solo(l), NEW wanted, NEW ref \in RefName, NEW v,
         NEW next \in Publishing \ {"tag"}, run[l].pc \in Publishing \ {"tag"},
         MoveRef(l, wanted, ref, v, next),
         \A k \in Lanes \ {l} : run'[k].pc = "idle"
  PROVE  SoloKnows(l)' /\ SoloVersion(run[l])'
<1>1. SoloKnows(l) /\ SoloVersion(run[l])
  BY DEF SoloInv, SoloFacts
<1>2. /\ run'[l].pc = next /\ run'[l].cat = run[l].cat /\ run'[l].tags = run[l].tags
      /\ run'[l].newTag = run[l].newTag /\ UNCHANGED <<main, tags>>
      /\ run'[l].refs = refs'
  BY <1>1, MoveRefRun DEF SoloKnows
<1>3. TagSet' = TagSet /\ Tip' = Tip
  BY <1>2 DEF TagSet, Tip
<1>4. SoloKnows(l)'
  BY <1>1, <1>2, <1>3 DEF SoloKnows
<1>5. SoloVersion(run[l])'
  BY <1>1, <1>2, <1>3 DEF SoloVersion, Publishing
<1> QED
  BY <1>4, <1>5

LEMMA SoloMoveMinor ==
  ASSUME IInv, MarksInv, SoloInv, NEW l \in Lanes, Solo(l), MoveMinor(l),
         \A k \in Lanes \ {l} : run'[k].pc = "idle"
  PROVE  SoloFacts(l)'
<1>1. run[l].pc = "minor" /\ run[l].pc \in Publishing \ {"tag"}
      /\ "major" \in Publishing \ {"tag"}
  BY DEF MoveMinor, Publishing
<1>2. MinorRef(V(l)) \in RefName /\ run[l].newTag
  BY <1>1, PublishingRun, RefNames DEF SoloInv, SoloFacts, SoloVersion
<1>3. MoveRef(l, run[l].newTag \/ force(l), MinorRef(V(l)), V(l), "major")
  BY DEF MoveMinor
<1>4. /\ run'[l].pc = "major" /\ run'[l].cat = run[l].cat
      /\ (run[l].newTag \/ force(l)) => refs'[MinorRef(V(l))] = V(l)
  BY MinorMoved
<1>5. SoloKnows(l)' /\ SoloVersion(run[l])'
  BY <1>1, <1>2, <1>3, SoloMove
<1> QED
  BY <1>2, <1>4, <1>5 DEF SoloFacts, SoloDone, V

LEMMA SoloMoveMajor ==
  ASSUME IInv, MarksInv, SoloInv, NEW l \in Lanes, Solo(l), MoveMajor(l),
         \A k \in Lanes \ {l} : run'[k].pc = "idle"
  PROVE  SoloFacts(l)'
<1> DEFINE s == run[l].cat.ptr["stable"]
           ref == MajorRef(V(l))
<1>1. run[l].pc = "major" /\ run[l].pc \in Publishing \ {"tag"}
      /\ "stable" \in Publishing \ {"tag"} /\ "stable" \in Tier
  BY DEF MoveMajor, Publishing, Tier
<1>2. ref \in RefName /\ V(l) \in Versions /\ run[l].cat.ptr \in [Tier -> MaybeVersion]
  BY <1>1, PublishingRun, RefNames
<1>3. MoveRef(l, WantsMajor(l), ref, s, "stable")
  BY DEF MoveMajor
<1>4. /\ run'[l].pc = "stable" /\ run'[l].cat = run[l].cat
      /\ WantsMajor(l) => refs'[ref] = s
      /\ ~WantsMajor(l) => refs'[ref] = refs[ref]
      /\ \A x \in RefName \ {ref} : refs'[x] = refs[x]
  BY MajorMoved
<1>5. SoloKnows(l)' /\ SoloVersion(run[l])'
  BY <1>1, <1>2, <1>3, SoloMove
<1>6. refs'[MinorRef(V(l))] = V(l)
  <2>1. refs[MinorRef(V(l))] = V(l)
    BY <1>1 DEF SoloInv, SoloFacts, SoloDone, V
  <2>2. MinorRef(V(l)) \in RefName /\ MinorRef(V(l)) # ref
    BY <1>2, RefNames, RefsDiffer
  <2> QED  BY <1>4, <2>1, <2>2
<1>7. ASSUME s # NoVersion, s[1] = V(l)[1] PROVE VersionGE(refs'[MajorRef(s)], s)
  <2>1. s \in run[l].tags /\ s \in Versions /\ MajorRef(s) = ref
    BY <1>1, <1>2, <1>7, PointersKnown DEF MajorRef
  <2>2. CASE WantsMajor(l)
    BY <1>4, <2>1, <2>2 DEF VersionGE
  <2>3. CASE ~WantsMajor(l)
    <3>1. run[l].refs = refs
      BY DEF SoloInv, SoloFacts, SoloKnows
    <3>2. \/ refs[ref] = s
          \/ refs[ref] # NoVersion /\ ~VersionGT(s, refs[ref])
      BY <1>7, <2>1, <2>3, <3>1 DEF WantsMajor
    <3>3. refs[ref] \in Versions \cup {NoVersion}
      BY <1>2 DEF IInv, TypeOK
    <3> HIDE DEF s, ref
    <3>4. refs[ref] # s => VersionGT(refs[ref], s)
      BY <2>1, <3>2, <3>3, VersionsOrdered
    <3> QED  BY <1>4, <2>1, <2>3, <3>4 DEF VersionGE
  <2> QED  BY <2>2, <2>3
<1>8. MajorDone(run[l].cat)'
  BY <1>4, <1>7 DEF MajorDone, V
<1> QED
  BY <1>4, <1>5, <1>6, <1>8 DEF SoloFacts, SoloDone, V

\* A channel ref: what the earlier steps left is of other names.
LEMMA SoloMoveChannel ==
  ASSUME IInv, MarksInv, SoloInv, NEW l \in Lanes, Solo(l),
         run[l].pc \in {"stable", "beta", "dev"},
         NEW name \in {"stable", "beta", "dev"}, NEW v, NEW next \in Publishing \ {"tag"},
         v = NoVersion \/ v \in run[l].tags,
         MoveRef(l, WantsChannel(l, name, v), Channel(name), v, next),
         \A k \in Lanes \ {l} : run'[k].pc = "idle"
  PROVE  /\ SoloKnows(l)' /\ SoloVersion(run[l])'
         /\ run'[l].pc = next /\ run'[l].cat = run[l].cat
         /\ refs'[MinorRef(V(l))] = V(l)
         /\ MajorDone(run[l].cat)'
         /\ v # NoVersion => refs'[Channel(name)] = v
         /\ \A c \in {"stable", "beta", "dev"} \ {name} : refs'[Channel(c)] = refs[Channel(c)]
<1>1. Channel(name) \in RefName /\ run[l].pc \in Publishing \ {"tag"}
  BY RefNames DEF Publishing
<1>2. V(l) \in Versions /\ run[l].cat.ptr \in [Tier -> MaybeVersion] /\ "stable" \in Tier
  BY <1>1, PublishingRun DEF Tier
<1>3. SoloKnows(l)' /\ SoloVersion(run[l])'
  BY <1>1, SoloMove
<1>4. /\ run'[l].pc = next /\ run'[l].cat = run[l].cat
      /\ WantsChannel(l, name, v) => refs'[Channel(name)] = v
      /\ ~WantsChannel(l, name, v) => refs'[Channel(name)] = refs[Channel(name)]
      /\ \A x \in RefName \ {Channel(name)} : refs'[x] = refs[x]
  BY <1>1, MoveRefRun
<1>5. run[l].refs = refs /\ refs[MinorRef(V(l))] = V(l) /\ MajorDone(run[l].cat)
  BY DEF SoloInv, SoloFacts, SoloKnows, SoloDone, V
<1>6. refs'[MinorRef(V(l))] = V(l)
  BY <1>2, <1>4, <1>5, RefNames, RefsDiffer
<1>7. MajorDone(run[l].cat)'
  <2> DEFINE s == run[l].cat.ptr["stable"]
  <2>1. SUFFICES ASSUME s # NoVersion, s[1] = V(l)[1] PROVE VersionGE(refs'[MajorRef(s)], s)
    BY <1>4 DEF MajorDone, V
  <2>2. MajorRef(s) \in RefName /\ MajorRef(s) # Channel(name)
    BY <1>2, <2>1, RefNames, RefsDiffer
  <2>3. VersionGE(refs[MajorRef(s)], s)
    BY <1>5, <2>1 DEF MajorDone, V
  <2> QED  BY <1>4, <2>2, <2>3
<1>8. v # NoVersion => refs'[Channel(name)] = v
  BY <1>4, <1>5 DEF WantsChannel
<1>9. \A c \in {"stable", "beta", "dev"} \ {name} : refs'[Channel(c)] = refs[Channel(c)]
  <2> SUFFICES ASSUME NEW c \in {"stable", "beta", "dev"} \ {name}
               PROVE  refs'[Channel(c)] = refs[Channel(c)]
    OBVIOUS
  <2>1. Channel(c) \in RefName /\ Channel(c) # Channel(name)
    BY RefNames, RefsDiffer
  <2> QED  BY <1>4, <2>1
<1> QED
  BY <1>3, <1>4, <1>6, <1>7, <1>8, <1>9

LEMMA SoloChannels ==
  ASSUME IInv, MarksInv, SoloInv, NEW l \in Lanes, Solo(l),
         MoveStable(l) \/ MoveBeta(l) \/ MoveDev(l),
         \A k \in Lanes \ {l} : run'[k].pc = "idle"
  PROVE  SoloFacts(l)'
<1>1. SoloDone(run[l]) /\ {"beta", "dev", "release"} \subseteq Publishing \ {"tag"}
      /\ "stable" \in Tier /\ "beta" \in Tier
  BY DEF SoloInv, SoloFacts, Publishing, Tier
<1>2. CASE MoveStable(l)
  <2> DEFINE v == run[l].cat.ptr["stable"]
  <2>1. run[l].pc = "stable" /\ (v = NoVersion \/ v \in run[l].tags)
        /\ MoveRef(l, WantsChannel(l, "stable", v), Channel("stable"), v, "beta")
    BY <1>1, <1>2, PointersKnown DEF MoveStable
  <2>2. /\ SoloKnows(l)' /\ SoloVersion(run[l])' /\ MajorDone(run[l].cat)'
        /\ run'[l].pc = "beta" /\ run'[l].cat = run[l].cat
        /\ refs'[MinorRef(V(l))] = V(l) /\ (v # NoVersion => refs'[Channel("stable")] = v)
    BY <1>1, <2>1, SoloMoveChannel
  <2> QED  BY <2>2 DEF SoloFacts, SoloDone, ChannelDone, V
<1>3. CASE MoveBeta(l)
  <2> DEFINE v == run[l].cat.ptr["beta"]
  <2>1. run[l].pc = "beta" /\ (v = NoVersion \/ v \in run[l].tags)
        /\ MoveRef(l, WantsChannel(l, "beta", v), Channel("beta"), v, "dev")
    BY <1>1, <1>3, PointersKnown DEF MoveBeta
  <2>2. /\ SoloKnows(l)' /\ SoloVersion(run[l])' /\ MajorDone(run[l].cat)'
        /\ run'[l].pc = "dev" /\ run'[l].cat = run[l].cat
        /\ refs'[MinorRef(V(l))] = V(l) /\ (v # NoVersion => refs'[Channel("beta")] = v)
        /\ refs'[Channel("stable")] = refs[Channel("stable")]
    BY <1>1, <2>1, SoloMoveChannel
  <2> QED  BY <1>1, <2>1, <2>2 DEF SoloFacts, SoloDone, ChannelDone, V
<1>4. CASE MoveDev(l)
  <2>1. run[l].pc = "dev" /\ MoveRef(l, WantsChannel(l, "dev", V(l)), Channel("dev"), V(l), "release")
    BY <1>4 DEF MoveDev
  <2>2. V(l) \in run[l].tags /\ V(l) # NoVersion
    BY <2>1, PublishingRun, NoVersionAssumption DEF Publishing
  <2>3. /\ SoloKnows(l)' /\ SoloVersion(run[l])' /\ MajorDone(run[l].cat)'
        /\ run'[l].pc = "release" /\ run'[l].cat = run[l].cat
        /\ refs'[MinorRef(V(l))] = V(l) /\ refs'[Channel("dev")] = V(l)
        /\ refs'[Channel("stable")] = refs[Channel("stable")]
        /\ refs'[Channel("beta")] = refs[Channel("beta")]
    BY <1>1, <2>1, <2>2, SoloMoveChannel
  <2> QED  BY <1>1, <2>1, <2>3 DEF SoloFacts, SoloDone, ChannelDone, V
<1> QED
  BY <1>2, <1>3, <1>4

LEMMA AloneKept ==
  ASSUME IInv, NEW l \in Lanes, Work(l),
         ~(Refused(l) \/ GiveUp(l) \/ TagRejected(l) \/ PublishRelease(l))
  PROVE  run'[l].alone = run[l].alone
<1>1. run \in [Lanes -> Run]
  BY DEF IInv, TypeOK
<1>2. CASE Prepare(l)
  BY <1>1, <1>2 DEF Prepare, Run
<1>3. CASE Push(l)
  <2>1. PICK n : run' = [run EXCEPT ![l].pc = "tag", ![l].base = n]
    BY <1>3 DEF Push
  <2> QED  BY <1>1, <2>1 DEF Run
<1>4. CASE PushRejected(l)
  <2>1. PICK n : run' = [run EXCEPT ![l].pc = "rebase", ![l].tries = n]
    BY <1>4 DEF PushRejected
  <2> QED  BY <1>1, <2>1 DEF Run
<1>5. CASE Rebase(l)
  <2>1. PICK ts, rs : run' = [run EXCEPT ![l].pc = "push", ![l].base = Len(main),
                                ![l].tags = ts, ![l].refs = rs]
    BY <1>5 DEF Rebase
  <2> QED  BY <1>1, <2>1 DEF Run
<1>6. CASE TagExists(l) \/ CreateTag(l)
  BY <1>1, <1>6 DEF TagExists, CreateTag, Goto, Run
<1>7. CASE MoveMinor(l) \/ MoveMajor(l) \/ MoveStable(l) \/ MoveBeta(l) \/ MoveDev(l)
  BY <1>7, MinorMoved, MajorMoved, ChannelMoved
<1> QED
  BY <1>2, <1>3, <1>4, <1>5, <1>6, <1>7 DEF Work

LEMMA SoloNext == IInv /\ MarksInv /\ SoloInv /\ [Next]_vars => SoloInv'
<1> SUFFICES ASSUME IInv, MarksInv, SoloInv, [Next]_vars, NEW k \in Lanes, Solo(k)'
             PROVE  SoloFacts(k)'
  BY DEF SoloInv
<1>1. run \in [Lanes -> Run] /\ main \in Seq(Commit)
  BY DEF IInv, TypeOK
<1>2. CASE UNCHANGED <<run, tags, refs>> /\ Tip' = Tip
  <2>1. Solo(k) /\ SoloFacts(k)
    BY <1>2 DEF Solo, SoloInv
  <2>2. TagSet' = TagSet
    BY <1>2 DEF TagSet
  <2>3. SoloKnows(k)'
    BY <1>2, <2>1, <2>2 DEF SoloFacts, SoloKnows
  <2>4. SoloVersion(run[k])'
    BY <1>2, <2>1, <2>2 DEF SoloFacts, SoloVersion
  <2>5. SoloDone(run[k])'
    BY <1>2, <2>1 DEF SoloFacts, SoloDone, MajorDone, ChannelDone
  <2> QED  BY <2>3, <2>4, <2>5 DEF SoloFacts
<1>3. CASE Merge
  <2>1. main' = Append(main, [cat |-> Tip, merge |-> TRUE]) /\ UNCHANGED <<run, tags, refs>>
    BY <1>3 DEF Merge
  <2>2. Tip' = Tip
    <3>1. PICK c : c = [cat |-> Tip, merge |-> TRUE]
      OBVIOUS
    <3>2. main' = Append(main, c) /\ c.cat = Tip
      BY <2>1, <3>1
    <3>3. c \in Commit
      <4>1. main[Len(main)] \in Commit
        BY ElementOfSeq DEF IInv, TypeOK
      <4> QED  BY <3>1, <4>1 DEF Tip, Commit
    <3> QED  BY <1>1, <3>2, <3>3 DEF Tip
  <2> QED  BY <1>2, <2>1, <2>2
<1>4. CASE DispatchRelease \/ DispatchPromote \/ UNCHANGED vars
  BY <1>2, <1>4 DEF DispatchRelease, DispatchPromote, vars, Tip
<1>5. ASSUME NEW l \in Lanes, Checkout(l) PROVE SoloFacts(k)'
  <2>1. k = l
    BY <1>1, <1>5 DEF Checkout, Solo, Run
  <2>2. /\ run'[k].pc = "prepare" /\ run'[k].tags = TagSet /\ run'[k].refs = refs
        /\ UNCHANGED <<tags, refs>>
    BY <1>5, <2>1 DEF Checkout
  <2>3. ASSUME NEW k2 \in Lanes \ {k} PROVE run'[k2].pc = "idle"
    <3>1. run[k2].pc = "idle"
      BY <1>5, <2>1 DEF Checkout, Solo
    <3>2. run'[k2] = [run[k2] EXCEPT !.alone = FALSE]
      BY <1>5, <2>1 DEF Checkout
    <3> QED  BY <1>1, <3>1, <3>2 DEF Run
  <2> QED  BY <2>2, <2>3 DEF SoloFacts, SoloKnows, SoloVersion, SoloDone, Publishing, TagSet
<1>6. ASSUME NEW l \in Lanes, Work(l) \/ Fail(l), k # l PROVE SoloFacts(k)'
  <2>1. run'[k] = run[k] /\ run[l].pc # "idle"
    BY <1>6, OthersKept
  <2>2. Solo(k)
    BY <2>1 DEF Solo
  <2> QED  BY <1>6, <2>1, <2>2 DEF SoloInv, SoloFacts, SoloKnows
<1>7. CASE \/ Refused(k) \/ GiveUp(k) \/ TagRejected(k) \/ PublishRelease(k) \/ Fail(k)
  <2>1. run'[k] = IdleRun
    BY <1>1, <1>7 DEF Refused, GiveUp, TagRejected, PublishRelease, Fail, Finish
  <2> QED  BY <2>1 DEF Solo, IdleRun
<1>8. ASSUME Work(k),
             ~(Refused(k) \/ GiveUp(k) \/ TagRejected(k) \/ PublishRelease(k))
      PROVE  SoloFacts(k)'
  <2>1. run[k].pc # "idle"
    BY <1>8 DEF Work, Prepare, Push, PushRejected, Rebase, TagExists, CreateTag,
                MoveMinor, MoveMajor, MoveStable, MoveBeta, MoveDev
  <2>2. run'[k].alone = run[k].alone
    BY <1>8, AloneKept
  <2>3. Solo(k)
    BY <2>1, <2>2 DEF Solo
  <2>4. \A j \in Lanes \ {k} : run'[j].pc = "idle"
    <3>1. \A j \in Lanes \ {k} : run'[j] = run[j]
      BY <1>8, OthersKept
    <3>2. \A j \in Lanes \ {k} : run[j].pc = "idle"
      BY <2>3 DEF SoloInv, SoloFacts, SoloKnows
    <3> QED  BY <3>1, <3>2
  <2>5. CASE Prepare(k)
    BY <2>3, <2>4, <2>5, SoloPrepare
  <2>6. CASE Push(k) \/ PushRejected(k) \/ Rebase(k)
    BY <2>3, <2>4, <2>6, SoloPushing
  <2>7. CASE TagExists(k) \/ CreateTag(k)
    BY <2>3, <2>4, <2>7, SoloTag
  <2>8. CASE MoveMinor(k)
    BY <2>3, <2>4, <2>8, SoloMoveMinor
  <2>9. CASE MoveMajor(k)
    BY <2>3, <2>4, <2>9, SoloMoveMajor
  <2>10. CASE MoveStable(k) \/ MoveBeta(k) \/ MoveDev(k)
    BY <2>3, <2>4, <2>10, SoloChannels
  <2> QED  BY <1>8, <2>5, <2>6, <2>7, <2>8, <2>9, <2>10 DEF Work
<1> QED
  BY <1>3, <1>4, <1>5, <1>6, <1>7, <1>8 DEF Next

LEMMA InitMarksSolo == Init => MarksInv /\ SoloInv
<1>1. Init => MarksInv
  BY IdleMarked DEF Init, MarksInv, Marked, Catalog0, NoPtr, IdleRun
<1>2. Init => SoloInv
  BY DEF Init, SoloInv, Solo, IdleRun
<1> QED
  BY <1>1, <1>2

\* A run that succeeds without an overlapping run leaves every moving ref at
\* what the catalog says, whatever runs that died before it left undone.
THEOREM SoloRunsConverge == Spec => SoloRunConverges
<1>1. ASSUME IInv, SoloInv, NEW l \in Lanes, PublishRelease(l), run[l].alone
      PROVE  Converged'
  <2>1. run[l].pc = "release" /\ UNCHANGED <<main, refs>>
    BY <1>1 DEF PublishRelease
  <2>2. SoloVersion(run[l]) /\ SoloDone(run[l])
    BY <1>1, <2>1 DEF SoloInv, Solo, SoloFacts
  <2>3. /\ Tip' = run[l].cat /\ refs' = refs
        /\ refs[MinorRef(run[l].cat.version)] = run[l].cat.version
        /\ MajorDone(run[l].cat)
        /\ ChannelDone(run[l].cat, "stable") /\ ChannelDone(run[l].cat, "beta")
        /\ refs[Channel("dev")] = run[l].cat.version
    BY <2>1, <2>2 DEF SoloVersion, SoloDone, Publishing, Tip
  <2> QED  BY <2>3 DEF Converged, MajorDone, ChannelDone, Tier
<1>2. IInv /\ SoloInv /\ [Next]_vars
        => [\A l \in Lanes : PublishRelease(l) /\ run[l].alone => Converged']_vars
  BY <1>1
<1> QED
  BY <1>2, InitMarksSolo, MarksNext, SoloNext, Invariant, PTL DEF Spec, SoloRunConverges

\* A run without an overlapping run never sets v<major>.<minor> or v<major>
\* back: no failure before it can make it, unless it was asked to reset
\* v<major>.
THEOREM SoloRunsMoveForward == Spec => SoloAliasesForward
<1>1. ASSUME IInv, SoloInv, NEW l \in Lanes, NEW v \in Versions, run[l].alone, MoveMinor(l)
      PROVE  Forward(MinorRef(v))
  <2>1. run[l].pc \in Publishing \ {"tag"} /\ Solo(l)
    BY <1>1 DEF MoveMinor, Publishing, Solo
  <2>2. MinorRef(V(l)) \in RefName /\ MinorRef(v) \in RefName /\ V(l) \in Versions
    BY <1>1, <2>1, PublishingRun, RefNames
  <2>3. /\ \A x \in RefName \ {MinorRef(V(l))} : refs'[x] = refs[x]
        /\ refs'[MinorRef(V(l))] = V(l) \/ refs'[MinorRef(V(l))] = refs[MinorRef(V(l))]
    BY <1>1, MinorMoved
  <2>4. SUFFICES ASSUME MinorRef(v) = MinorRef(V(l)), refs'[MinorRef(v)] = V(l),
                        refs[MinorRef(v)] # V(l), refs[MinorRef(v)] # NoVersion
                 PROVE  VersionGT(V(l), refs[MinorRef(v)])
    BY <2>2, <2>3 DEF Forward
  <2>5. refs[MinorRef(v)] \in TagSet
    BY <1>1, <2>2, <2>4 DEF IInv, TypeOK, RefsPublished, TagSet
  <2> QED  BY <1>1, <2>1, <2>4, <2>5 DEF SoloInv, SoloFacts, SoloVersion, V
<1>2. ASSUME IInv, SoloInv, NEW l \in Lanes, NEW v \in Versions, run[l].alone,
             MoveMajor(l), ~force(l)
      PROVE  Forward(MajorRef(v))
  <2> DEFINE ref == MajorRef(V(l))
             s   == run[l].cat.ptr["stable"]
  <2>1. run[l].pc \in Publishing \ {"tag"} /\ Solo(l)
    BY <1>2 DEF MoveMajor, Publishing, Solo
  <2>2. ref \in RefName /\ MajorRef(v) \in RefName
    BY <1>2, <2>1, PublishingRun, RefNames
  <2>3. /\ \A x \in RefName \ {ref} : refs'[x] = refs[x]
        /\ WantsMajor(l) => refs'[ref] = s
        /\ ~WantsMajor(l) => refs'[ref] = refs[ref]
    BY <1>2, MajorMoved
  <2>4. run[l].refs = refs
    BY <1>2, <2>1 DEF SoloInv, SoloFacts, SoloKnows
  <2>5. WantsMajor(l) => refs[ref] = NoVersion \/ VersionGT(s, refs[ref])
    BY <1>2, <2>4 DEF WantsMajor
  <2> QED  BY <2>2, <2>3, <2>5 DEF Forward
<1>3. IInv /\ SoloInv /\ [Next]_vars
        => [\A l \in Lanes, v \in Versions : run[l].alone =>
              /\ MoveMinor(l) => Forward(MinorRef(v))
              /\ MoveMajor(l) /\ ~force(l) => Forward(MajorRef(v))]_vars
  BY <1>1, <1>2
<1> QED
  BY <1>3, InitMarksSolo, MarksNext, SoloNext, Invariant, PTL DEF Spec, SoloAliasesForward
=============================================================================
