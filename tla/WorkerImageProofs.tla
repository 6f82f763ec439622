-------------------------- MODULE WorkerImageProofs --------------------------
(***************************************************************************)
(* What WorkerImage promises for any jobs, requests, deadlines and         *)
(* failures: the order of the lane, what its pointers name, and by which   *)
(* build a job is judged.                                                  *)
(* The lane comes first (LaneInv, preserved whatever the jobs do), then    *)
(* the jobs, which depend on the lane only through Keeps and Heard.        *)
(***************************************************************************)
EXTENDS WorkerImage, SequenceTheorems, TLAPS

-----------------------------------------------------------------------------
(* The inductive invariant. *)

LaneType ==
  /\ runs \in Seq(Run)
  /\ tag \in [Tag -> Nat] /\ workers \subseteq Indices
  /\ base \in Nat /\ manifest \in Nat

\* Behind a run that is not over there are only runs that never started.
OneLane ==
  \A i, k \in Indices : i < k /\ runs[i].stage \notin Over =>
    /\ runs[i].stage # "pending"
    /\ runs[k].stage \in {"pending", "failure", "cancelled"}

\* A run that ran to its end is listed.
EndedListed ==
  \A i \in Indices : ~runs[i].listed => runs[i].stage \notin {"success", "failure"}

\* What is in the registry is not newer than a run that is not over.
Ordered ==
  \A i \in Indices \cup {Len(runs)} : i = Len(runs) \/ runs[i].stage \notin Over =>
    manifest <= i /\ base <= i /\ \A t \in Tag : tag[t] <= i

\* The immutable tag is pushed, or still to be pushed by a run under way.
Holds(i, t) == \E k \in DOMAIN runs[i].todo : runs[i].todo[k] = t
WorkerPushed ==
  \A i \in Indices :
    /\ runs[i].stage \in {"promote", "manifest"} => i \in workers
    /\ runs[i].stage \notin Over => i \in workers \/ Holds(i, "version")

\* :latest is at least the run, or is still on the run's list.
LatestPushed ==
  \A i \in Indices : runs[i].mode = "replace" => tag["latest"] >= i \/ Holds(i, "latest")

LaneInv == /\ LaneType /\ OneLane /\ EndedListed /\ Ordered /\ WorkerPushed /\ LatestPushed
           /\ PointersQualified

\* A dispatched or joined build exists, and the wait cannot be ended by an
\* older one that ran to its end, unless the guard passed without it.
Own(j) ==
  job[j].mine # None =>
    /\ job[j].mine \in Indices /\ runs[job[j].mine].kind = "build"
    /\ job[j].pc \notin {"absent", "queued", "start", "probe", "dispatch"}
    /\ job[j].pc = "wait" =>
         /\ job[j].listing = "repo"
         /\ ~job[j].late =>
              \A n \in Newest(j, "repo") :
                n >= job[j].mine \/ runs[n].stage \notin {"success", "failure"}

\* A verdict is the conclusion of a run that is over; what it says of an older
\* run and of the image pulled are NoStaleVerdict and FreshImage.
Judged(j) ==
  LET v == job[j].verdict
  IN v # None =>
       /\ v \in Indices /\ runs[v].stage \in Over
       /\ job[j].pc \in {"using"} \cup Ended
       /\ v < job[j].mine => runs[v].stage = "cancelled" \/ job[j].late
       /\ job[j].pc \in {"using", "done"} /\ runs[v].mode = "replace" /\ runs[v].todo = <<>>
            => job[j].image >= v

JobInv ==
  /\ asked \in 0..MaxRequests
  /\ job \in [Jobs -> Job]
  /\ \A j \in Jobs : Own(j) /\ Judged(j)

IInv == LaneInv /\ JobInv

-----------------------------------------------------------------------------
(* What a step may do to the lane. *)

\* Runs are never forgotten, and a run that is over stays as it is.
Keeps ==
  \A k \in Indices :
    /\ k \in DOMAIN runs'
    /\ runs'[k].kind = runs[k].kind /\ runs'[k].mode = runs[k].mode
    /\ runs[k].listed => runs'[k].listed
    /\ runs[k].stage \in Over => runs'[k].stage = runs[k].stage /\ runs'[k].todo = runs[k].todo

\* A run that ends by itself does so when everything is listed.
Heard ==
  \A k \in Indices : runs[k].stage \notin {"success", "failure"}
                     /\ runs'[k].stage \in {"success", "failure"} =>
    /\ \A m \in Indices : runs[m].listed
    /\ DOMAIN runs' = Indices

Later == manifest' >= manifest /\ base' >= base /\ \A t \in Tag : tag'[t] >= tag[t]

LaneStep == LaneInv' /\ Keeps /\ Heard /\ Later

\* A sequence of runs with one of them replaced.
LEMMA Changed ==
  ASSUME runs \in Seq(Run), NEW i \in Indices, NEW r \in Run, runs' = [runs EXCEPT ![i] = r]
  PROVE  /\ runs' \in Seq(Run) /\ DOMAIN runs' = Indices /\ Len(runs') = Len(runs)
         /\ runs'[i] = r /\ \A k \in Indices : k # i => runs'[k] = runs[k]
  BY DEF Indices

LEMMA Lanes ==
  ASSUME runs \in Seq(Run)
  PROVE  /\ Len(runs) \in Nat /\ Indices = 1..Len(runs)
         /\ \A i \in Indices : i \in Nat /\ runs[i] \in Run
  BY DEF Indices

\* A run that is listed, or goes on without pushing anything.
LEMMA Advance ==
  ASSUME LaneInv, NEW i \in Indices, NEW r \in Run,
         runs' = [runs EXCEPT ![i] = r], UNCHANGED artifacts,
         r.kind = runs[i].kind, r.mode = runs[i].mode, r.todo = runs[i].todo,
         runs[i].listed => r.listed,
         \/ r.stage = runs[i].stage
         \/ Active(i) /\ r.stage \in {"coordinate", "bake", "push"}
  PROVE  LaneStep
<1>1. /\ runs' \in Seq(Run) /\ DOMAIN runs' = Indices /\ Len(runs') = Len(runs)
      /\ runs'[i] = r /\ \A k \in Indices : k # i => runs'[k] = runs[k]
  BY Changed DEF LaneInv, LaneType
<1>2. /\ Len(runs) \in Nat /\ Indices = 1..Len(runs) /\ \A k \in Indices : k \in Nat
  BY Lanes DEF LaneInv, LaneType
<1>a. Indices' = Indices
  BY <1>1 DEF Indices
<1>3. /\ r.stage \in Over <=> runs[i].stage \in Over
      /\ r.stage \in {"success", "failure"} => runs[i].stage = r.stage
      /\ r.stage \in {"pending", "failure", "cancelled", "promote", "manifest"} => r.stage = runs[i].stage
      /\ runs[i].stage \in {"pending", "failure", "cancelled"} => r.stage = runs[i].stage
  BY DEF Active, Over
<1>4. LaneType'
  BY <1>1, <1>a DEF LaneInv, LaneType, artifacts
<1>5. OneLane'
  BY <1>1, <1>a, <1>3 DEF LaneInv, OneLane
<1>6. EndedListed'
  BY <1>1, <1>a, <1>3 DEF LaneInv, EndedListed
<1>7. Ordered'
  BY <1>1, <1>a, <1>3 DEF LaneInv, Ordered, artifacts
<1>8. WorkerPushed'
  BY <1>1, <1>a, <1>3 DEF LaneInv, WorkerPushed, Holds, artifacts
<1>9. LatestPushed'
  BY <1>1, <1>a DEF LaneInv, LatestPushed, Holds, artifacts
<1>10. PointersQualified'
  BY DEF LaneInv, PointersQualified, artifacts
<1>11. Keeps
  BY <1>1, <1>3, Zenon DEF Keeps, Active
<1>12. Heard
  BY <1>1, <1>3 DEF Heard
<1>13. Later
  BY DEF Later, LaneInv, LaneType, artifacts
<1> QED BY <1>4, <1>5, <1>6, <1>7, <1>8, <1>9, <1>10, <1>11, <1>12, <1>13 DEF LaneStep, LaneInv

\* Nobody pushes while another run could.
LEMMA Alone ==
  ASSUME LaneInv, NEW i \in Indices, Active(i), NEW k \in Indices, k # i, runs[k].stage \notin Over
  PROVE  i < k /\ runs[k].stage = "pending"
  BY Lanes DEF LaneInv, LaneType, OneLane, Active, Over

\* What is left of a list holds every element but its first.
LEMMA InTail ==
  ASSUME NEW S, NEW q \in Seq(S), q # <<>>, NEW k \in DOMAIN q, q[k] # Head(q)
  PROVE  \E m \in DOMAIN Tail(q) : Tail(q)[m] = q[k]
<1>1. /\ Tail(q) \in Seq(S) /\ Len(Tail(q)) = Len(q) - 1
      /\ \A m \in 1..Len(Tail(q)) : Tail(q)[m] = q[m + 1]
  BY HeadTailProperties
<1>2. DOMAIN q = 1..Len(q) /\ Len(q) \in Nat /\ DOMAIN Tail(q) = 1..Len(Tail(q)) /\ Head(q) = q[1]
  BY <1>1
<1>3. k \in 2..Len(q)
  BY <1>2
<1>4. k - 1 \in 1..Len(Tail(q)) /\ (k - 1) + 1 = k
  BY <1>1, <1>2, <1>3
<1>5. Tail(q)[k - 1] = q[k]
  BY <1>1, <1>4
<1> QED
  BY <1>2, <1>4, <1>5

\* The next tag of a run is pushed.
LEMMA Pushing ==
  ASSUME LaneInv, NEW i \in Indices, PushTag(i)
  PROVE  LaneStep
<1> DEFINE h == Head(runs[i].todo)
           last == Tail(runs[i].todo) = <<>>
           s == IF ~last THEN "push"
                ELSE IF runs[i].kind = "build" /\ IsSource THEN "promote" ELSE "manifest"
           r == [runs[i] EXCEPT !.todo = Tail(runs[i].todo), !.stage = s]
<1>1. /\ runs[i].stage = "push" /\ runs[i].todo # <<>>
      /\ tag' = [tag EXCEPT ![h] = i]
      /\ workers' = IF h = "version" THEN workers \cup {i} ELSE workers
      /\ UNCHANGED <<asked, job, base, manifest>>
  BY DEF PushTag
<1>2. /\ Len(runs) \in Nat /\ Indices = 1..Len(runs) /\ i \in Nat /\ runs[i] \in Run
      /\ \A k \in Indices : k \in Nat
  BY Lanes DEF LaneInv, LaneType
<1>3. /\ runs[i].todo \in Seq(Tag) /\ h \in Tag /\ Tail(runs[i].todo) \in Seq(Tag)
  BY <1>1, <1>2 DEF Run
<1>4. s \in {"push", "promote", "manifest"} /\ s \in Stage
  BY DEF Stage
<1>5. r \in Run
  BY <1>2, <1>3, <1>4 DEF Run
<1>6. runs' = [runs EXCEPT ![i] = r]
  BY <1>2 DEF PushTag, Run
<1>7. /\ runs' \in Seq(Run) /\ DOMAIN runs' = Indices /\ Len(runs') = Len(runs)
      /\ runs'[i] = r /\ \A k \in Indices : k # i => runs'[k] = runs[k]
  BY <1>5, <1>6, Changed DEF LaneInv, LaneType
<1>a. Indices' = Indices
  BY <1>7 DEF Indices
<1>8. /\ r.stage = s /\ r.todo = Tail(runs[i].todo) /\ r.kind = runs[i].kind /\ r.mode = runs[i].mode
      /\ r.listed = runs[i].listed
  BY <1>2 DEF Run
<1>9. \A t \in Tag : Holds(i, t) /\ t # h => \E k \in DOMAIN r.todo : r.todo[k] = t
  <2> SUFFICES ASSUME NEW t \in Tag, NEW k \in DOMAIN runs[i].todo, runs[i].todo[k] = t, t # h
               PROVE  \E m \in DOMAIN r.todo : r.todo[m] = t
    BY DEF Holds
  <2>1. \E m \in DOMAIN Tail(runs[i].todo) : Tail(runs[i].todo)[m] = runs[i].todo[k]
    BY <1>1, <1>3, InTail
  <2> QED BY <2>1, <1>8
<1>10. s \in {"promote", "manifest"} => r.todo = <<>>
  BY <1>8
<1>. HIDE DEF h, last, s, r
<1>11. Active(i) /\ \A k \in Indices : k # i /\ runs[k].stage \notin Over => i < k
  BY <1>1, Alone DEF Active, Over
<1>12. LaneType'
  BY <1>1, <1>2, <1>3, <1>7, <1>a DEF LaneInv, LaneType
<1>13. OneLane'
  BY <1>1, <1>4, <1>7, <1>8, <1>a DEF LaneInv, OneLane, Over
<1>14. EndedListed'
  BY <1>4, <1>7, <1>8, <1>a DEF LaneInv, EndedListed
<1>15. manifest <= i /\ base <= i /\ \A t \in Tag : tag[t] <= i
  BY <1>1 DEF LaneInv, Ordered, Over
<1>16. /\ \A t \in Tag : tag'[t] \in Nat /\ tag'[t] <= i /\ tag'[t] >= tag[t]
       /\ manifest' = manifest /\ base' = base
  BY <1>1, <1>2, <1>3, <1>15 DEF LaneInv, LaneType
<1>17. Ordered'
  <2> SUFFICES ASSUME NEW k \in Indices \cup {Len(runs)}, k = Len(runs) \/ runs'[k].stage \notin Over
               PROVE  manifest' <= k /\ base' <= k /\ \A t \in Tag : tag'[t] <= k
    BY <1>7, <1>a DEF Ordered
  <2>1. i <= k
    BY <1>2, <1>7, <1>11
  <2> QED BY <2>1, <1>2, <1>15, <1>16 DEF LaneInv, LaneType
<1>18. WorkerPushed'
  <2> SUFFICES ASSUME NEW k \in Indices
               PROVE  /\ runs'[k].stage \in {"promote", "manifest"} => k \in workers'
                      /\ runs'[k].stage \notin Over => k \in workers' \/ Holds(k, "version")'
    BY <1>a DEF WorkerPushed
  <2>1. CASE k # i
    BY <2>1, <1>1, <1>7 DEF LaneInv, WorkerPushed, Holds
  <2>2. CASE k = i
    <3>1. i \in workers' \/ \E m \in DOMAIN r.todo : r.todo[m] = "version"
      BY <1>1, <1>9 DEF LaneInv, WorkerPushed, Over, Tag
    <3> QED BY <2>2, <3>1, <1>7, <1>8, <1>10 DEF Holds
  <2> QED BY <2>1, <2>2
<1>19. LatestPushed'
  <2> SUFFICES ASSUME NEW k \in Indices, runs'[k].mode = "replace"
               PROVE  tag'["latest"] >= k \/ Holds(k, "latest")'
    BY <1>a DEF LatestPushed
  <2>1. "latest" \in Tag /\ tag["latest"] \in Nat
    BY DEF Tag, LaneInv, LaneType
  <2>2. CASE k # i
    BY <2>1, <2>2, <1>2, <1>7, <1>16 DEF LaneInv, LatestPushed, Holds
  <2>3. CASE k = i
    <3>1. CASE h = "latest"
      BY <2>1, <2>3, <3>1, <1>1, <1>2 DEF LaneInv, LaneType
    <3>2. CASE h # "latest"
      BY <2>1, <2>3, <3>2, <1>2, <1>7, <1>8, <1>9, <1>16 DEF LaneInv, LatestPushed, Holds
    <3> QED BY <3>1, <3>2
  <2> QED BY <2>2, <2>3
<1>20. PointersQualified'
  BY <1>1 DEF LaneInv, PointersQualified
<1>21. Keeps
  BY <1>1, <1>7, <1>8 DEF Keeps, Over
<1>22. Heard
  BY <1>4, <1>7, <1>8 DEF Heard
<1>23. Later
  BY <1>16 DEF Later, LaneInv, LaneType
<1> QED BY <1>12, <1>13, <1>14, <1>17, <1>18, <1>19, <1>20, <1>21, <1>22, <1>23 DEF LaneStep, LaneInv

\* The base alias follows the run whose worker has been pushed.
LEMMA Promoting ==
  ASSUME LaneInv, NEW i \in Indices, Promote(i)
  PROVE  LaneStep
<1> DEFINE r == [runs[i] EXCEPT !.stage = "manifest"]
<1>1. /\ runs[i].stage = "promote" /\ base' = i /\ UNCHANGED <<asked, job, tag, workers, manifest>>
  BY DEF Promote
<1>2. /\ Len(runs) \in Nat /\ Indices = 1..Len(runs) /\ i \in Nat /\ runs[i] \in Run
      /\ \A k \in Indices : k \in Nat
  BY Lanes DEF LaneInv, LaneType
<1>3. r \in Run
  BY <1>2 DEF Run, Stage
<1>4. runs' = [runs EXCEPT ![i] = r]
  BY <1>2 DEF Promote, Goto, Run
<1>5. /\ runs' \in Seq(Run) /\ DOMAIN runs' = Indices /\ Len(runs') = Len(runs)
      /\ runs'[i] = r /\ \A k \in Indices : k # i => runs'[k] = runs[k]
  BY <1>3, <1>4, Changed DEF LaneInv, LaneType
<1>a. Indices' = Indices
  BY <1>5 DEF Indices
<1>6. /\ r.stage = "manifest" /\ r.todo = runs[i].todo /\ r.kind = runs[i].kind
      /\ r.mode = runs[i].mode /\ r.listed = runs[i].listed
  BY <1>2 DEF Run
<1>. HIDE DEF r
<1>7. i \in workers
  BY <1>1 DEF LaneInv, WorkerPushed
<1>8. \A k \in Indices : k # i /\ runs[k].stage \notin Over => i < k
  BY <1>1, Alone DEF Active, Over
<1>9. manifest <= i /\ base <= i /\ \A t \in Tag : tag[t] <= i
  BY <1>1 DEF LaneInv, Ordered, Over
<1>10. LaneType'
  BY <1>1, <1>2, <1>5, <1>a DEF LaneInv, LaneType
<1>11. OneLane'
  BY <1>1, <1>5, <1>6, <1>a DEF LaneInv, OneLane, Over
<1>12. EndedListed'
  BY <1>5, <1>6, <1>a DEF LaneInv, EndedListed
<1>13. Ordered'
  <2> SUFFICES ASSUME NEW k \in Indices \cup {Len(runs)}, k = Len(runs) \/ runs'[k].stage \notin Over
               PROVE  manifest' <= k /\ base' <= k /\ \A t \in Tag : tag'[t] <= k
    BY <1>5, <1>a DEF Ordered
  <2>1. k = Len(runs) \/ (k \in Indices /\ k = i) \/ (k \in Indices /\ k # i /\ runs[k].stage \notin Over)
    BY <1>5
  <2>2. i <= k
    BY <2>1, <1>2, <1>8
  <2> QED BY <2>2, <1>1, <1>2, <1>9 DEF LaneInv, LaneType
<1>14. WorkerPushed'
  BY <1>1, <1>5, <1>6, <1>7, <1>a DEF LaneInv, WorkerPushed, Holds
<1>15. LatestPushed'
  BY <1>1, <1>5, <1>6, <1>a DEF LaneInv, LatestPushed, Holds
<1>16. PointersQualified'
  BY <1>1, <1>7 DEF LaneInv, PointersQualified
<1>17. Keeps
  BY <1>1, <1>5, <1>6 DEF Keeps, Over
<1>18. Heard
  BY <1>5, <1>6 DEF Heard
<1>19. Later
  BY <1>1, <1>2, <1>9 DEF Later, LaneInv, LaneType
<1> QED BY <1>10, <1>11, <1>12, <1>13, <1>14, <1>15, <1>16, <1>17, <1>18, <1>19 DEF LaneStep, LaneInv

\* What ends a run changes: its stage, and that of the run that was pending.
LEMMA ConcludedRuns ==
  ASSUME LaneInv, NEW i \in Indices, NEW c \in Over, Conclude(i, c)
  PROVE  /\ runs' \in Seq(Run) /\ DOMAIN runs' = Indices /\ Len(runs') = Len(runs)
         /\ Indices' = Indices /\ \A k \in Indices : runs[k].listed
         /\ \A k \in Indices :
              /\ runs'[k].kind = runs[k].kind /\ runs'[k].mode = runs[k].mode
              /\ runs'[k].todo = runs[k].todo /\ runs'[k].listed = runs[k].listed
         /\ runs'[i].stage = c
         /\ \A k \in Indices : k # i =>
              \/ runs'[k].stage = runs[k].stage
              \/ Active(i) /\ runs[k].stage = "pending" /\ runs'[k].stage \in {"gate", "push"}
<1>1. /\ Len(runs) \in Nat /\ Indices = 1..Len(runs) /\ i \in Nat
      /\ \A k \in Indices : k \in Nat /\ runs[k] \in Run
  BY Lanes DEF LaneInv, LaneType
<1> DEFINE F(k) == IF k = i THEN [runs[k] EXCEPT !.stage = c]
                   ELSE IF runs[k].stage = "pending" /\ Active(i)
                        THEN [runs[k] EXCEPT !.stage = Opening(runs[k].kind)]
                   ELSE runs[k]
<1>2. runs' = [k \in Indices |-> F(k)] /\ \A k \in Indices : runs[k].listed
  BY DEF Conclude
<1>3. \A k \in Indices :
        /\ F(k) \in Run
        /\ F(k).kind = runs[k].kind /\ F(k).mode = runs[k].mode
        /\ F(k).todo = runs[k].todo /\ F(k).listed = runs[k].listed
        /\ k = i => F(k).stage = c
        /\ k # i /\ runs[k].stage = "pending" /\ Active(i) => F(k).stage \in {"gate", "push"}
        /\ k # i /\ ~(runs[k].stage = "pending" /\ Active(i)) => F(k) = runs[k]
  <2> SUFFICES ASSUME NEW k \in Indices
               PROVE  /\ F(k) \in Run
                      /\ F(k).kind = runs[k].kind /\ F(k).mode = runs[k].mode
                      /\ F(k).todo = runs[k].todo /\ F(k).listed = runs[k].listed
                      /\ k = i => F(k).stage = c
                      /\ k # i /\ runs[k].stage = "pending" /\ Active(i) => F(k).stage \in {"gate", "push"}
                      /\ k # i /\ ~(runs[k].stage = "pending" /\ Active(i)) => F(k) = runs[k]
    OBVIOUS
  <2>1. runs[k] \in Run /\ c \in Stage /\ Opening(runs[k].kind) \in Stage
        /\ Opening(runs[k].kind) \in {"gate", "push"}
    BY <1>1 DEF Stage, Opening
  <2>2. CASE k = i
    <3>1. F(k) = [runs[k] EXCEPT !.stage = c]
      BY <2>2
    <3> QED BY <2>1, <2>2, <3>1 DEF Run
  <2>3. CASE k # i /\ runs[k].stage = "pending" /\ Active(i)
    <3>1. F(k) = [runs[k] EXCEPT !.stage = Opening(runs[k].kind)]
      BY <2>3
    <3> HIDE DEF F
    <3> QED BY <2>1, <2>3, <3>1 DEF Run
  <2>4. CASE k # i /\ ~(runs[k].stage = "pending" /\ Active(i))
    <3>1. F(k) = runs[k]
      BY <2>4
    <3> HIDE DEF F
    <3> QED BY <2>1, <2>4, <3>1
  <2> QED BY <2>2, <2>3, <2>4
<1>4. /\ runs' \in Seq(Run) /\ DOMAIN runs' = Indices /\ Len(runs') = Len(runs)
  BY <1>1, <1>2, <1>3
<1>a. Indices' = Indices
  BY <1>4 DEF Indices
<1>5. \A k \in Indices : runs'[k] = F(k)
  BY <1>2
<1>. HIDE DEF F
<1>6. \A k \in Indices :
        /\ runs'[k].kind = runs[k].kind /\ runs'[k].mode = runs[k].mode
        /\ runs'[k].todo = runs[k].todo /\ runs'[k].listed = runs[k].listed
  BY <1>3, <1>5
<1>7. /\ runs'[i].stage = c
      /\ \A k \in Indices : k # i =>
           \/ runs'[k].stage = runs[k].stage
           \/ Active(i) /\ runs[k].stage = "pending" /\ runs'[k].stage \in {"gate", "push"}
  BY <1>3, <1>5
<1> QED BY <1>2, <1>4, <1>a, <1>6, <1>7

\* A run is over; latest.json may be its last word.
LEMMA Concluding ==
  ASSUME LaneInv, NEW i \in Indices, NEW c \in Over, Conclude(i, c), runs[i].stage \notin Over,
         UNCHANGED <<tag, workers, base>>,
         Active(i) \/ c # "success",
         manifest' = manifest \/ (manifest' = i /\ Active(i) /\ i \in workers)
  PROVE  LaneStep
<1>1. /\ Len(runs) \in Nat /\ Indices = 1..Len(runs) /\ i \in Nat
      /\ \A k \in Indices : k \in Nat /\ runs[k] \in Run
  BY Lanes DEF LaneInv, LaneType
<1>2. /\ runs' \in Seq(Run) /\ DOMAIN runs' = Indices /\ Len(runs') = Len(runs)
      /\ \A k \in Indices : runs[k].listed
  BY ConcludedRuns
<1>3. /\ runs' \in Seq(Run) /\ DOMAIN runs' = Indices /\ Len(runs') = Len(runs)
  BY <1>2
<1>a. Indices' = Indices
  BY ConcludedRuns
<1>4. \A k \in Indices :
        /\ runs'[k].kind = runs[k].kind /\ runs'[k].mode = runs[k].mode
        /\ runs'[k].todo = runs[k].todo /\ runs'[k].listed = runs[k].listed
  BY ConcludedRuns
<1>5. /\ runs'[i].stage = c
      /\ \A k \in Indices : k # i =>
           \/ runs'[k].stage = runs[k].stage
           \/ Active(i) /\ runs[k].stage = "pending" /\ runs'[k].stage \in {"gate", "push"}
  BY ConcludedRuns
<1>6. \A k \in Indices : runs'[k].stage \notin Over => k # i /\ runs[k].stage \notin Over
  BY <1>5 DEF Over
<1>7. LaneType'
  BY <1>1, <1>3, <1>a DEF LaneInv, LaneType
<1>8. OneLane'
  <2> SUFFICES ASSUME NEW k \in Indices, NEW m \in Indices, k < m, runs'[k].stage \notin Over
               PROVE  /\ runs'[k].stage # "pending"
                      /\ runs'[m].stage \in {"pending", "failure", "cancelled"}
    BY <1>a DEF OneLane
  <2>1. k # i /\ runs[k].stage \notin Over
    BY <1>6
  <2>2. /\ runs[k].stage # "pending" /\ runs[m].stage \in {"pending", "failure", "cancelled"}
    BY <2>1 DEF LaneInv, OneLane
  <2>3. ~Active(i)
    BY <1>1, <2>1, <2>2, Alone
  <2>4. runs[i].stage = "pending" /\ c \in {"failure", "cancelled"}
    BY <2>3 DEF Active, Over
  <2> QED BY <1>5, <2>1, <2>2, <2>3, <2>4
<1>9. EndedListed'
  BY <1>2, <1>4, <1>a DEF EndedListed
<1>10. /\ manifest <= i /\ base <= i /\ \A t \in Tag : tag[t] <= i
       /\ manifest' = manifest \/ manifest' = i
  BY DEF LaneInv, Ordered
<1>11. Active(i) => \A k \in Indices : k # i /\ runs[k].stage \notin Over => i < k
  BY Alone
<1>12. Ordered'
  <2> SUFFICES ASSUME NEW k \in Indices \cup {Len(runs)}, k = Len(runs) \/ runs'[k].stage \notin Over
               PROVE  manifest' <= k /\ base' <= k /\ \A t \in Tag : tag'[t] <= k
    BY <1>3, <1>a DEF Ordered
  <2>1. k = Len(runs) \/ runs[k].stage \notin Over
    BY <1>6
  <2>2. manifest <= k /\ base <= k /\ \A t \in Tag : tag[t] <= k
    BY <2>1 DEF LaneInv, Ordered
  <2>3. manifest' = manifest \/ i <= k
    BY <1>1, <1>6, <1>11
  <2> QED BY <2>2, <2>3, <1>1, <1>10
<1>13. WorkerPushed'
  BY <1>4, <1>5, <1>6, <1>a DEF LaneInv, WorkerPushed, Holds, Over
<1>14. LatestPushed'
  BY <1>4, <1>a DEF LaneInv, LatestPushed, Holds
<1>15. PointersQualified'
  BY DEF LaneInv, PointersQualified
<1>16. Keeps
  BY <1>3, <1>4, <1>5 DEF Keeps, Over
<1>17. Heard
  BY <1>2, <1>3 DEF Heard
<1>18. Later
  BY <1>1, <1>10 DEF Later, LaneInv, LaneType
<1> QED BY <1>7, <1>8, <1>9, <1>12, <1>13, <1>14, <1>15, <1>16, <1>17, <1>18 DEF LaneStep, LaneInv

LEMMA TagLists ==
  ASSUME NEW kind \in {"build", "copy"}, NEW mode \in {"replace", "new"}
  PROVE  /\ TagsOf(kind, mode) \in Seq(Tag)
         /\ \E k \in DOMAIN TagsOf(kind, mode) : TagsOf(kind, mode)[k] = "version"
         /\ mode = "replace" => \E k \in DOMAIN TagsOf(kind, mode) : TagsOf(kind, mode)[k] = "latest"
<1> DEFINE all == <<"version", "year", "dated", "latest">>
           two == <<"version", "dated">>
           most == <<"year", "dated", "version", "latest">>
<1>1. all \in Seq(Tag) /\ two \in Seq(Tag) /\ most \in Seq(Tag)
  BY DEF Tag
<1>2. /\ 1 \in DOMAIN all /\ all[1] = "version" /\ 4 \in DOMAIN all /\ all[4] = "latest"
      /\ 1 \in DOMAIN two /\ two[1] = "version"
      /\ 3 \in DOMAIN most /\ most[3] = "version" /\ 4 \in DOMAIN most /\ most[4] = "latest"
  OBVIOUS
<1>3. \/ TagsOf(kind, mode) = all
      \/ TagsOf(kind, mode) = two /\ mode = "new"
      \/ TagsOf(kind, mode) = most
  BY DEF TagsOf
<1>. HIDE DEF all, two, most
<1> QED BY <1>1, <1>2, <1>3

\* What a new run changes: it is the last, and the one that was pending is dropped.
LEMMA EnteredRuns ==
  ASSUME LaneInv, NEW kind \in {"build", "copy"}, NEW policy \in {"drain", "cancel"},
         NEW mode \in {"replace", "new"}, NEW push \in BOOLEAN, NEW commit \in SUBSET Jobs,
         runs' = Entered(kind, policy, mode, push, commit)
  PROVE  LET n == Len(runs) + 1
             new == runs'[n]
         IN /\ runs' \in Seq(Run) /\ Len(runs') = n /\ DOMAIN runs' = 1..n
            /\ Indices' = 1..n /\ Indices \subseteq 1..n /\ n \in 1..n
            /\ \A k \in 1..n : k = n \/ (k \in Indices /\ k < n)
            /\ new \in Run /\ new.kind = kind /\ new.mode = mode /\ new.todo = TagsOf(kind, mode)
            /\ new.listed = FALSE /\ new.stage \in {"pending", "gate", "push"}
            /\ (\E i \in Indices : Active(i)) => new.stage = "pending"
            /\ \A k \in Indices :
                 /\ runs'[k].kind = runs[k].kind /\ runs'[k].mode = runs[k].mode
                 /\ runs'[k].todo = runs[k].todo /\ runs'[k].listed = runs[k].listed
                 /\ runs[k].stage = "pending" => runs'[k].stage = "cancelled"
                 /\ runs[k].stage # "pending" => runs'[k].stage = runs[k].stage
<1> DEFINE n == Len(runs) + 1
           busy == \E i \in Indices : Active(i)
           new == [kind |-> kind, policy |-> policy, mode |-> mode, push |-> push, commit |-> commit,
                   stage |-> IF busy THEN "pending" ELSE Opening(kind), listed |-> FALSE,
                   targets |-> {}, left |-> 0, todo |-> TagsOf(kind, mode)]
           F(k) == IF runs[k].stage = "pending" THEN [runs[k] EXCEPT !.stage = "cancelled"] ELSE runs[k]
           old == [k \in Indices |-> F(k)]
<1>1. /\ Len(runs) \in Nat /\ Indices = 1..Len(runs)
      /\ \A k \in Indices : k \in Nat /\ runs[k] \in Run
  BY Lanes DEF LaneInv, LaneType
<1>2. runs' = Append(old, new)
  BY Zenon DEF Entered
<1>3. /\ (IF busy THEN "pending" ELSE Opening(kind)) \in {"pending", "gate", "push"}
      /\ ~busy \/ (IF busy THEN "pending" ELSE Opening(kind)) = "pending"
  BY DEF Opening
<1>4. /\ new \in Run /\ new.kind = kind /\ new.mode = mode /\ new.todo = TagsOf(kind, mode)
      /\ new.listed = FALSE /\ new.stage \in {"pending", "gate", "push"}
      /\ busy => new.stage = "pending"
  <2>1. (IF busy THEN "pending" ELSE Opening(kind)) \in Stage
    BY <1>3 DEF Stage
  <2> HIDE DEF busy
  <2> QED BY <1>3, <2>1, TagLists DEF Run
<1>5. \A k \in Indices :
        /\ F(k) \in Run
        /\ F(k).kind = runs[k].kind /\ F(k).mode = runs[k].mode
        /\ F(k).todo = runs[k].todo /\ F(k).listed = runs[k].listed
        /\ runs[k].stage = "pending" => F(k).stage = "cancelled"
        /\ runs[k].stage # "pending" => F(k).stage = runs[k].stage
  <2> SUFFICES ASSUME NEW k \in Indices
               PROVE  /\ F(k) \in Run
                      /\ F(k).kind = runs[k].kind /\ F(k).mode = runs[k].mode
                      /\ F(k).todo = runs[k].todo /\ F(k).listed = runs[k].listed
                      /\ runs[k].stage = "pending" => F(k).stage = "cancelled"
                      /\ runs[k].stage # "pending" => F(k).stage = runs[k].stage
    OBVIOUS
  <2>1. runs[k] \in Run /\ "cancelled" \in Stage
    BY <1>1 DEF Stage, Over
  <2>2. CASE runs[k].stage = "pending"
    <3>1. F(k) = [runs[k] EXCEPT !.stage = "cancelled"]
      BY <2>2
    <3> HIDE DEF F
    <3> QED BY <2>1, <2>2, <3>1 DEF Run
  <2>3. CASE runs[k].stage # "pending"
    <3>1. F(k) = runs[k]
      BY <2>3
    <3> HIDE DEF F
    <3> QED BY <2>1, <2>3, <3>1
  <2> QED BY <2>2, <2>3
<1>6. old \in Seq(Run) /\ Len(old) = Len(runs) /\ DOMAIN old = Indices
  BY <1>1, <1>5
<1>7. \A k \in Indices : old[k] = F(k)
  OBVIOUS
<1>. HIDE DEF new, F, old
<1>8. /\ runs' \in Seq(Run) /\ Len(runs') = n /\ DOMAIN runs' = 1..n /\ runs'[n] = new
      /\ \A k \in Indices : runs'[k] = F(k)
  BY <1>1, <1>2, <1>4, <1>6, <1>7
<1>a. /\ Indices' = 1..n /\ Indices \subseteq 1..n /\ n \in 1..n
      /\ \A k \in 1..n : k = n \/ (k \in Indices /\ k < n)
  BY <1>1, <1>8 DEF Indices
<1>9. \A k \in Indices :
        /\ runs'[k].kind = runs[k].kind /\ runs'[k].mode = runs[k].mode
        /\ runs'[k].todo = runs[k].todo /\ runs'[k].listed = runs[k].listed
        /\ runs[k].stage = "pending" => runs'[k].stage = "cancelled"
        /\ runs[k].stage # "pending" => runs'[k].stage = runs[k].stage
  BY <1>5, <1>8
<1> QED BY <1>4, <1>8, <1>9, <1>a

\* A run enters the lane; the one that was pending is dropped.
LEMMA Entering ==
  ASSUME LaneInv, NEW kind \in {"build", "copy"}, NEW policy \in {"drain", "cancel"},
         NEW mode \in {"replace", "new"}, NEW push \in BOOLEAN, NEW commit \in SUBSET Jobs,
         runs' = Entered(kind, policy, mode, push, commit), UNCHANGED artifacts
  PROVE  /\ LaneStep
         /\ Len(runs') = Len(runs) + 1 /\ Len(runs') \in DOMAIN runs'
         /\ runs'[Len(runs')].kind = kind
<1> DEFINE n == Len(runs) + 1
           busy == \E i \in Indices : Active(i)
           new == runs'[n]
<1>1. /\ Len(runs) \in Nat /\ Indices = 1..Len(runs)
      /\ \A k \in Indices : k \in Nat /\ runs[k] \in Run
  BY Lanes DEF LaneInv, LaneType
<1>2. /\ new \in Run /\ new.kind = kind /\ new.mode = mode /\ new.todo = TagsOf(kind, mode)
      /\ new.listed = FALSE /\ new.stage \in {"pending", "gate", "push"}
      /\ busy => new.stage = "pending"
  BY EnteredRuns
<1>3. /\ runs' \in Seq(Run) /\ Len(runs') = n /\ DOMAIN runs' = 1..n /\ runs'[n] = new
  BY EnteredRuns
<1>a. /\ Indices' = 1..n /\ Indices \subseteq 1..n /\ n \in 1..n
      /\ \A k \in 1..n : k = n \/ (k \in Indices /\ k < n)
  BY EnteredRuns
<1>4. \A k \in Indices :
        /\ runs'[k].kind = runs[k].kind /\ runs'[k].mode = runs[k].mode
        /\ runs'[k].todo = runs[k].todo /\ runs'[k].listed = runs[k].listed
        /\ runs[k].stage = "pending" => runs'[k].stage = "cancelled"
        /\ runs[k].stage # "pending" => runs'[k].stage = runs[k].stage
  BY EnteredRuns
<1>. HIDE DEF new
<1>5. \A k \in Indices : runs'[k].stage \notin Over => runs[k].stage \notin Over /\ Active(k)
  BY <1>4 DEF Over, Active
<1>6. LaneType'
  BY <1>3, <1>a DEF LaneInv, LaneType, artifacts
<1>7. OneLane'
  <2> SUFFICES ASSUME NEW k \in 1..n, NEW m \in 1..n, k < m, runs'[k].stage \notin Over
               PROVE  /\ runs'[k].stage # "pending"
                      /\ runs'[m].stage \in {"pending", "failure", "cancelled"}
    BY <1>a DEF OneLane
  <2>1. k \in Indices
    BY <1>1, <1>a
  <2>2. runs[k].stage \notin Over /\ Active(k) /\ busy
    BY <2>1, <1>5
  <2>3. runs'[k].stage # "pending"
    BY <2>1, <2>2, <1>4 DEF Active
  <2>4. CASE m = n
    BY <2>2, <2>3, <2>4, <1>2, <1>3
  <2>5. CASE m \in Indices
    <3>1. runs[m].stage \in {"pending", "failure", "cancelled"}
      BY <2>1, <2>2, <2>5 DEF LaneInv, OneLane
    <3> QED BY <2>3, <2>5, <3>1, <1>4
  <2> QED BY <2>4, <2>5, <1>a
<1>8. EndedListed'
  BY <1>2, <1>3, <1>4, <1>a DEF LaneInv, EndedListed
<1>9. Ordered'
  <2> SUFFICES ASSUME NEW k \in 1..n, k = n \/ runs'[k].stage \notin Over
               PROVE  manifest <= k /\ base <= k /\ \A t \in Tag : tag[t] <= k
    BY <1>1, <1>3, <1>a DEF Ordered, artifacts
  <2>1. CASE k = n
    BY <2>1, <1>1 DEF LaneInv, LaneType, Ordered
  <2>2. CASE k \in Indices /\ k # n
    BY <2>2, <1>5 DEF LaneInv, Ordered
  <2> QED BY <2>1, <2>2, <1>a
<1>10. WorkerPushed'
  <2> SUFFICES ASSUME NEW k \in 1..n
               PROVE  /\ runs'[k].stage \in {"promote", "manifest"} => k \in workers
                      /\ runs'[k].stage \notin Over => k \in workers \/ Holds(k, "version")'
    BY <1>a DEF WorkerPushed, artifacts
  <2>1. CASE k = n
    BY <2>1, <1>2, <1>3, TagLists DEF Holds
  <2>2. CASE k \in Indices
    BY <2>2, <1>4, <1>5 DEF LaneInv, WorkerPushed, Holds, Over
  <2> QED BY <2>1, <2>2, <1>a
<1>11. LatestPushed'
  <2> SUFFICES ASSUME NEW k \in 1..n, runs'[k].mode = "replace"
               PROVE  tag["latest"] >= k \/ Holds(k, "latest")'
    BY <1>a DEF LatestPushed, artifacts
  <2>1. CASE k = n
    BY <2>1, <1>2, <1>3, TagLists DEF Holds
  <2>2. CASE k \in Indices
    BY <2>2, <1>4 DEF LaneInv, LatestPushed, Holds
  <2> QED BY <2>1, <2>2, <1>a
<1>12. PointersQualified'
  BY DEF LaneInv, PointersQualified, artifacts
<1>13. Keeps
  BY <1>3, <1>4, <1>a DEF Keeps, Over
<1>14. Heard
  BY <1>4 DEF Heard
<1>15. Later
  BY DEF Later, LaneInv, LaneType, artifacts
<1>16. Len(runs') = Len(runs) + 1 /\ Len(runs') \in DOMAIN runs' /\ runs'[Len(runs')].kind = kind
  BY <1>2, <1>3, <1>a
<1> QED BY <1>6, <1>7, <1>8, <1>9, <1>10, <1>11, <1>12, <1>13, <1>14, <1>15, <1>16
        DEF LaneStep, LaneInv

\* Five minutes pass.
LEMMA Ticking ==
  ASSUME LaneInv, Tick
  PROVE  LaneStep
<1>1. /\ Len(runs) \in Nat /\ Indices = 1..Len(runs)
      /\ \A k \in Indices : k \in Nat /\ runs[k] \in Run
  BY Lanes DEF LaneInv, LaneType
<1> DEFINE F(k) == [runs[k] EXCEPT !.left = Less(@)]
<1>2. runs' = [k \in Indices |-> F(k)] /\ UNCHANGED <<asked, artifacts>>
  BY DEF Tick
<1>3. \A k \in Indices :
        /\ F(k) \in Run /\ F(k).kind = runs[k].kind /\ F(k).mode = runs[k].mode
        /\ F(k).todo = runs[k].todo /\ F(k).listed = runs[k].listed /\ F(k).stage = runs[k].stage
  <2> SUFFICES ASSUME NEW k \in Indices
               PROVE  /\ F(k) \in Run /\ F(k).kind = runs[k].kind /\ F(k).mode = runs[k].mode
                      /\ F(k).todo = runs[k].todo /\ F(k).listed = runs[k].listed /\ F(k).stage = runs[k].stage
    OBVIOUS
  <2>1. runs[k] \in Run /\ runs[k].left \in Nat
    BY <1>1 DEF Run
  <2>2. Less(runs[k].left) \in Nat
    BY <2>1 DEF Less
  <2> QED BY <2>1, <2>2 DEF Run
<1>4. runs' \in Seq(Run) /\ DOMAIN runs' = Indices /\ Len(runs') = Len(runs)
  BY <1>1, <1>2, <1>3
<1>a. Indices' = Indices
  BY <1>4 DEF Indices
<1>5. \A k \in Indices :
        /\ runs'[k].kind = runs[k].kind /\ runs'[k].mode = runs[k].mode /\ runs'[k].stage = runs[k].stage
        /\ runs'[k].todo = runs[k].todo /\ runs'[k].listed = runs[k].listed
  BY <1>2, <1>3
<1>. HIDE DEF F
<1>6. LaneType'
  BY <1>2, <1>4, <1>a DEF LaneInv, LaneType, artifacts
<1>7. OneLane' /\ EndedListed' /\ LatestPushed' /\ PointersQualified'
  BY <1>2, <1>5, <1>a DEF LaneInv, OneLane, EndedListed, LatestPushed, PointersQualified, Holds, artifacts
<1>8. Ordered'
  BY <1>2, <1>4, <1>5, <1>a DEF LaneInv, Ordered, artifacts
<1>9. WorkerPushed'
  BY <1>2, <1>5, <1>a DEF LaneInv, WorkerPushed, Holds, artifacts
<1>10. Keeps /\ Heard
  BY <1>4, <1>5 DEF Keeps, Heard
<1>11. Later
  BY <1>2 DEF Later, LaneInv, LaneType, artifacts
<1> QED BY <1>6, <1>7, <1>8, <1>9, <1>10, <1>11 DEF LaneStep, LaneInv

\* The lane's own steps, and those of the jobs that ask something of it.
LEMMA LaneNext ==
  ASSUME LaneInv, [Next]_vars
  PROVE  LaneStep
<1>1. ASSUME UNCHANGED <<runs, artifacts>>
      PROVE  LaneStep
  <2>1. LaneInv'
    BY <1>1 DEF LaneInv, LaneType, OneLane, EndedListed, Ordered, WorkerPushed, LatestPushed,
                PointersQualified, Holds, Indices, artifacts
  <2>2. Keeps /\ Heard /\ Later
    BY <1>1, Lanes DEF LaneInv, LaneType, Keeps, Heard, Later, Indices, artifacts
  <2> QED BY <2>1, <2>2 DEF LaneStep
<1>2. ASSUME NEW r \in Requests, Request(r)
      PROVE  LaneStep
  <2>1. /\ r.kind \in {"build", "copy"} /\ r.policy \in {"drain", "cancel"}
        /\ r.mode \in {"replace", "new"}
    BY RequestsAssumption
  <2>2. runs' = Entered(r.kind, r.policy, r.mode, FALSE, {}) /\ UNCHANGED artifacts
    BY <1>2 DEF Request
  <2>3. FALSE \in BOOLEAN /\ {} \in SUBSET Jobs
    OBVIOUS
  <2> QED BY <2>1, <2>2, <2>3, Entering, Zenon
<1>3. ASSUME NEW S \in SUBSET Jobs, NEW change \in Changes, Pushed(S, change)
      PROVE  LaneStep
  <2>1. CASE change = "dependency"
    <3>1. runs' = Entered("build", Policy, "replace", TRUE, S) /\ UNCHANGED artifacts
      BY <1>3, <2>1 DEF Pushed
    <3> QED BY <3>1, ConfigAssumption, Entering
  <2>2. CASE change # "dependency"
    BY <1>1, <1>3, <2>2 DEF Pushed
  <2> QED BY <2>1, <2>2
<1>4. ASSUME NEW i \in Indices, RunStep(i) \/ Break(i)
      PROVE  LaneStep
  <2>1. /\ Len(runs) \in Nat /\ Indices = 1..Len(runs) /\ runs[i] \in Run
        /\ runs \in Seq(Run)
    BY Lanes DEF LaneInv, LaneType
  <2>a. ASSUME NEW s \in {"coordinate", "push"}, Active(i), Goto(i, s), UNCHANGED artifacts
        PROVE  LaneStep
    <3> DEFINE r == [runs[i] EXCEPT !.stage = s]
    <3>1. r \in Run
      BY <2>1 DEF Run, Stage
    <3>2. /\ r.kind = runs[i].kind /\ r.mode = runs[i].mode /\ r.todo = runs[i].todo
          /\ r.listed = runs[i].listed /\ r.stage = s
      BY <2>1 DEF Run
    <3>3. runs' = [runs EXCEPT ![i] = r]
      BY <2>1, <2>a DEF Goto, Run
    <3> HIDE DEF r
    <3> QED BY <2>a, <3>1, <3>2, <3>3, Advance
  <2>b. ASSUME Active(i), Bake(i, runs[i]), UNCHANGED artifacts
        PROVE  LaneStep
    <3>1. PICK d \in BakeTime :
            runs' = [runs EXCEPT ![i] = [runs[i] EXCEPT !.stage = "bake", !.left = d]]
      BY <2>b DEF Bake
    <3> DEFINE r == [runs[i] EXCEPT !.stage = "bake", !.left = d]
    <3>2. r \in Run
      BY <2>1, <3>1, TimeAssumption DEF Run, Stage
    <3>3. /\ r.kind = runs[i].kind /\ r.mode = runs[i].mode /\ r.todo = runs[i].todo
          /\ r.listed = runs[i].listed /\ r.stage = "bake"
      BY <2>1 DEF Run
    <3>4. runs' = [runs EXCEPT ![i] = r]
      BY <3>1
    <3> HIDE DEF r
    <3> QED BY <2>b, <3>2, <3>3, <3>4, Advance
  <2>2. CASE List(i)
    <3> DEFINE r == [runs[i] EXCEPT !.listed = TRUE]
    <3>1. r \in Run
      BY <2>1 DEF Run
    <3>2. /\ r.kind = runs[i].kind /\ r.mode = runs[i].mode /\ r.todo = runs[i].todo
          /\ r.listed = TRUE /\ r.stage = runs[i].stage
      BY <2>1 DEF Run
    <3>3. runs' = [runs EXCEPT ![i] = r] /\ UNCHANGED artifacts
      BY <2>1, <2>2 DEF List, Run
    <3> HIDE DEF r
    <3> QED BY <3>1, <3>2, <3>3, Advance
  <2>3. CASE Gate(i)
    <3>1. Active(i) /\ UNCHANGED artifacts
      BY <2>3 DEF Gate, Active, Over
    <3>2. Goto(i, "coordinate") \/ Conclude(i, "success")
      BY <2>3 DEF Gate
    <3>3. CASE Goto(i, "coordinate")
      BY <3>1, <3>3, <2>a
    <3>4. CASE Conclude(i, "success")
      <4>1. UNCHANGED <<tag, workers, base>> /\ manifest' = manifest
        BY <3>1 DEF artifacts
      <4>2. "success" \in Over /\ runs[i].stage \notin Over
        BY <3>1 DEF Over, Active
      <4> QED BY <3>1, <3>4, <4>1, <4>2, Concluding
    <3> QED BY <3>2, <3>3, <3>4
  <2>4. CASE Coordinate(i)
    <3>1. Active(i) /\ UNCHANGED artifacts /\ runs[i].stage = "coordinate"
      BY <2>4 DEF Coordinate, Active, Over
    <3>2. \/ Bake(i, runs[i])
          \/ \E S \in {InFlight(i), Alive} : runs' = [runs EXCEPT ![i].targets = S, ![i].left = DrainLimit]
      BY <2>4 DEF Coordinate
    <3>3. ASSUME NEW S \in {InFlight(i), Alive},
                 runs' = [runs EXCEPT ![i].targets = S, ![i].left = DrainLimit]
          PROVE  LaneStep
      <4> DEFINE r == [runs[i] EXCEPT !.targets = S, !.left = DrainLimit]
      <4>1. S \in SUBSET Jobs /\ DrainLimit \in Nat
        BY TimeAssumption DEF InFlight, Alive
      <4>2. r \in Run
        BY <2>1, <4>1 DEF Run
      <4>3. /\ r.kind = runs[i].kind /\ r.mode = runs[i].mode /\ r.todo = runs[i].todo
            /\ r.listed = runs[i].listed /\ r.stage = runs[i].stage
        BY <2>1 DEF Run
      <4>4. runs' = [runs EXCEPT ![i] = r]
        BY <2>1, <3>3 DEF Run
      <4> HIDE DEF r
      <4> QED BY <3>1, <4>2, <4>3, <4>4, Advance
    <3> QED BY <3>1, <3>2, <3>3, <2>b
  <2>5. CASE Coordinated(i)
    <3>1. Active(i) /\ UNCHANGED artifacts /\ Bake(i, runs[i])
      BY <2>5 DEF Coordinated, Active, Over
    <3> QED BY <3>1, <2>b
  <2>6. CASE Baked(i)
    <3>1. Active(i) /\ UNCHANGED artifacts /\ Goto(i, "push")
      BY <2>6 DEF Baked, Active, Over
    <3> QED BY <3>1, <2>a
  <2>7. CASE PushTag(i)
    BY <2>7, Pushing
  <2>8. CASE Promote(i)
    BY <2>8, Promoting
  <2>9. CASE PublishManifest(i)
    <3>1. /\ runs[i].stage = "manifest" /\ manifest' = i /\ Conclude(i, "success")
          /\ UNCHANGED <<tag, workers, base>>
      BY <2>9 DEF PublishManifest
    <3>2. Active(i) /\ i \in workers /\ "success" \in Over /\ runs[i].stage \notin Over
      BY <3>1 DEF Active, Over, LaneInv, WorkerPushed
    <3> QED BY <3>1, <3>2, Concluding
  <2>10. CASE \E j \in Jobs : CancelTarget(i, j)
    BY <2>10, <1>1 DEF CancelTarget
  <2>11. CASE Break(i)
    <3>1. PICK c \in {"failure", "cancelled"} : Conclude(i, c)
      BY <2>11 DEF Break
    <3>2. /\ runs[i].stage \notin Over /\ UNCHANGED <<tag, workers, base>> /\ manifest' = manifest
          /\ c \in Over /\ c # "success"
      BY <2>11 DEF Break, artifacts, Over
    <3> QED BY <3>1, <3>2, Concluding
  <2> QED BY <1>4, <2>2, <2>3, <2>4, <2>5, <2>6, <2>7, <2>8, <2>9, <2>10, <2>11 DEF RunStep
<1>5. ASSUME NEW j \in Jobs, JobStep(j)
      PROVE  LaneStep
  <2>1. CASE Dispatch(j)
    <3>1. runs' = Entered("build", Policy, "replace", FALSE, {}) /\ UNCHANGED artifacts
      BY <2>1 DEF Dispatch
    <3>2. /\ FALSE \in BOOLEAN /\ {} \in SUBSET Jobs /\ "build" \in {"build", "copy"}
          /\ Policy \in {"drain", "cancel"} /\ "replace" \in {"replace", "new"}
      BY ConfigAssumption
    <3> QED BY <3>1, <3>2, Entering, Zenon
  <2>2. CASE ~Dispatch(j)
    <3>1. UNCHANGED <<runs, artifacts>>
      BY <1>5, <2>2 DEF JobStep, RunnerFound, CheckBuild, Probe, Proceed, Join, DispatchFails, Guard,
                       Verdict, Timeout, Finish, Set
    <3> QED BY <3>1, <1>1, Zenon
  <2> QED BY <2>1, <2>2
<1>6. CASE Tick
  BY <1>6, Ticking
<1>7. CASE UNCHANGED vars
  BY <1>7, <1>1 DEF vars, artifacts
<1> QED BY <1>2, <1>3, <1>4, <1>5, <1>6, <1>7 DEF Next

\* What an untouched job keeps of its promises, whatever the lane does: a build
\* that ends while the job waits does so when the job's own build is listed.
LEMMA Carried ==
  ASSUME LaneInv, LaneStep, NEW j, Own(j), Judged(j),
         job[j].mine \in Nat, job[j].verdict \in Nat,
         job'[j].mine = job[j].mine, job'[j].verdict = job[j].verdict, job'[j].image = job[j].image,
         job'[j].pc = job[j].pc \/ (job'[j].pc \in Ended /\ job[j].verdict = None)
           \/ (job'[j].pc \in Ended /\ job[j].pc = "using"),
         job'[j].listing = job[j].listing, job'[j].late = job[j].late
  PROVE  Own(j)' /\ Judged(j)'
<1>1. /\ Len(runs) \in Nat /\ Indices = 1..Len(runs)
      /\ \A k \in Indices : k \in Nat /\ runs[k] \in Run
  BY Lanes DEF LaneInv, LaneType
<1>2. Keeps /\ Heard /\ runs' \in Seq(Run) /\ Indices' = DOMAIN runs' /\ Indices' = 1..Len(runs')
      /\ Len(runs') \in Nat
  BY DEF LaneStep, LaneInv, LaneType, Indices
<1>3. Judged(j)'
  BY <1>2 DEF Judged, Keeps, Ended, Over
<1>4. Own(j)'
  <2> SUFFICES ASSUME job[j].mine # None
               PROVE  Own(j)'
    BY DEF Own
  <2> DEFINE m == job[j].mine
  <2>1. /\ m \in Indices /\ runs[m].kind = "build"
        /\ job[j].pc \notin {"absent", "queued", "start", "probe", "dispatch"}
    BY DEF Own
  <2>2. /\ m \in Indices' /\ runs'[m].kind = "build"
        /\ job'[j].pc \notin {"absent", "queued", "start", "probe", "dispatch"}
        /\ job'[j].pc = "wait" => job[j].pc = "wait"
    BY <1>2, <2>1 DEF Keeps, Ended
  <2>3. ASSUME job'[j].pc = "wait", ~job[j].late, NEW n \in Newest(j, "repo")',
               ~(n >= m), runs'[n].stage \in {"success", "failure"}
        PROVE  FALSE
    <3>1. n \in Indices /\ n < m
      BY <1>1, <1>2, <2>1, <2>3 DEF Newest, Shown
    <3>2. /\ runs'[n].kind = "build" /\ \A k \in Indices : runs'[k].kind = "build" /\ runs'[k].listed => k <= n
      BY <1>2, <2>3 DEF Newest, Shown, Keeps
    <3>3. ~runs[m].listed
      BY <2>1, <2>2, <3>1, <3>2, <1>1, <1>2 DEF Keeps
    <3>4. runs[n].stage \in {"success", "failure"}
      BY <1>2, <2>1, <2>3, <3>1, <3>3 DEF Heard
    <3>5. runs[n].listed /\ runs[n].kind = "build"
      BY <3>1, <3>2, <3>4, <1>2 DEF LaneInv, EndedListed, Keeps
    <3>6. \A k \in Shown(j, "repo") : k <= n
      BY <3>2, <1>2 DEF Shown, Keeps
    <3>7. n \in Newest(j, "repo")
      BY <3>1, <3>5, <3>6 DEF Newest, Shown
    <3> QED BY <2>2, <2>3, <3>4, <3>7 DEF Own
  <2>4. job'[j].pc = "wait" => job'[j].listing = "repo"
    BY <2>2 DEF Own
  <2> QED BY <2>1, <2>2, <2>3, <2>4 DEF Own
<1> QED BY <1>3, <1>4

\* One job moves on to r: the others are carried.
LEMMA JobSet ==
  ASSUME IInv, LaneStep, asked' = asked, NEW j \in Jobs, NEW r \in Job, job' = [job EXCEPT ![j] = r],
         Own(j)' /\ Judged(j)'
  PROVE  JobInv'
<1>1. /\ job' \in [Jobs -> Job] /\ \A k \in Jobs : k # j => job'[k] = job[k]
  BY DEF IInv, JobInv
<1>2. ASSUME NEW k \in Jobs, k # j
      PROVE  Own(k)' /\ Judged(k)'
  <2>1. job'[k] = job[k] /\ job[k] \in Job
    BY <1>1, <1>2 DEF IInv, JobInv
  <2>2. job[k].mine \in Nat /\ job[k].verdict \in Nat
    BY <2>1 DEF Job
  <2> QED BY <2>1, <2>2, Carried DEF IInv, JobInv
<1> QED BY <1>1, <1>2 DEF IInv, JobInv

\* The same with the lane at rest.
LEMMA JobSetAlone ==
  ASSUME IInv, LaneStep, NEW j \in Jobs, NEW r \in Job, Set(j, r),
         \/ /\ r.mine = job[j].mine /\ r.verdict = job[j].verdict /\ r.image = job[j].image
            /\ r.listing = job[j].listing /\ r.late = job[j].late
            /\ r.pc \in Ended /\ (job[j].verdict = None \/ job[j].pc = "using")
         \/ r.mine = None /\ r.verdict = None
  PROVE  JobInv'
<1>1. /\ job' = [job EXCEPT ![j] = r] /\ job'[j] = r /\ asked' = asked
      /\ job[j].mine \in Nat /\ job[j].verdict \in Nat
  BY DEF Set, IInv, JobInv, Job
<1>2. Own(j)' /\ Judged(j)'
  <2>1. CASE r.mine = None /\ r.verdict = None
    BY <1>1, <2>1 DEF Own, Judged
  <2>2. CASE ~(r.mine = None /\ r.verdict = None)
    BY <1>1, <2>2, Carried DEF IInv, JobInv
  <2> QED BY <2>1, <2>2
<1> QED BY <1>1, <1>2, JobSet

\* What a job does keeps the promises made to it.
LEMMA JobMoves ==
  ASSUME IInv, LaneStep, NEW j \in Jobs, JobStep(j)
  PROVE  JobInv'
<1>1. /\ job[j] \in Job /\ job[j].mine \in Nat /\ job[j].verdict \in Nat
      /\ job \in [Jobs -> Job] /\ Own(j) /\ Judged(j)
      /\ tag["latest"] \in Nat /\ None \in Nat
  BY DEF IInv, JobInv, Job, LaneInv, LaneType, Tag, None
<1>2. job[j].pc \in {"queued", "start", "probe", "dispatch"} => job[j].mine = None
  BY <1>1 DEF Own
<1>3. job[j].pc \notin {"using"} \cup Ended => job[j].verdict = None
  BY <1>1 DEF Judged
<1>4. /\ Len(runs) \in Nat /\ Indices = 1..Len(runs) /\ \A k \in Indices : k \in Nat
      /\ Indices \subseteq Nat
  BY Lanes DEF IInv, LaneInv, LaneType
<1>5. CASE RunnerFound(j)
  <2> DEFINE r == [job[j] EXCEPT !.pc = "start"]
  <2>1. r \in Job /\ r.mine = job[j].mine /\ r.verdict = job[j].verdict
    BY <1>1 DEF Job, PC
  <2>2. Set(j, r) /\ job[j].pc = "queued"
    BY <1>5 DEF RunnerFound
  <2>3. r.mine = None /\ r.verdict = None
    BY <2>1, <2>2, <1>2, <1>3 DEF Ended
  <2> HIDE DEF r
  <2> QED BY <2>1, <2>2, <2>3, JobSetAlone
<1>6. CASE CheckBuild(j)
  <2>1. \E r \in {Waiting(j, "repo"), Waiting(j, "commit"), [job[j] EXCEPT !.pc = "probe"]} : Set(j, r)
    BY <1>6 DEF CheckBuild
  <2>2. PICK r \in {Waiting(j, "repo"), Waiting(j, "commit"), [job[j] EXCEPT !.pc = "probe"]} : Set(j, r)
    BY <2>1
  <2>3. r \in Job /\ r.mine = job[j].mine /\ r.verdict = job[j].verdict
    BY <1>1, TimeAssumption DEF Waiting, Job, PC
  <2>4. r.mine = None /\ r.verdict = None
    BY <2>3, <1>2, <1>3, <1>6 DEF Ended, CheckBuild
  <2> QED BY <2>2, <2>3, <2>4, JobSetAlone
<1>7. CASE Probe(j)
  <2> DEFINE p == [job[j] EXCEPT !.pc = "using", !.image = tag["latest"]]
             d == [job[j] EXCEPT !.pc = "dispatch"]
  <2>1. \E r \in {p, d} : Set(j, r)
    BY <1>7, Zenon DEF Probe, Proceed
  <2>2. \A r \in {p, d} : r \in Job /\ r.mine = job[j].mine /\ r.verdict = job[j].verdict
    BY <1>1 DEF Job, PC
  <2>3. job[j].mine = None /\ job[j].verdict = None
    BY <1>2, <1>3, <1>7 DEF Ended, Probe
  <2> HIDE DEF p, d
  <2>4. PICK r \in {p, d} : Set(j, r)
    BY <2>1
  <2>5. r \in Job /\ r.mine = None /\ r.verdict = None
    BY <2>2, <2>3
  <2> QED BY <2>4, <2>5, JobSetAlone
<1>8. CASE Join(j)
  <2>1. PICK n \in Newest(j, "repo") : Set(j, [job[j] EXCEPT !.pc = "guard", !.mine = n])
    BY <1>8 DEF Join
  <2> DEFINE r == [job[j] EXCEPT !.pc = "guard", !.mine = n]
  <2>2. n \in Indices /\ runs[n].kind = "build" /\ n \in Nat
    BY <1>4, <2>1 DEF Newest, Shown
  <2>3. r \in Job /\ r.pc = "guard" /\ r.mine = n /\ r.verdict = None
    BY <1>1, <1>3, <1>8, <2>2 DEF Join, Job, PC, Ended
  <2>4. job' = [job EXCEPT ![j] = r] /\ job'[j] = r /\ runs' = runs /\ asked' = asked
    BY <1>1, <2>1 DEF Set
  <2> HIDE DEF r
  <2>5. Own(j)' /\ Judged(j)'
    BY <2>2, <2>3, <2>4 DEF Own, Judged, Indices
  <2> QED BY <2>3, <2>4, <2>5, JobSet
<1>9. CASE Dispatch(j)
  <2> DEFINE n == Len(runs')
             r == [job[j] EXCEPT !.pc = "guard", !.mine = n]
  <2>1. runs' = Entered("build", Policy, "replace", FALSE, {}) /\ UNCHANGED <<asked, artifacts>>
    BY <1>9 DEF Dispatch
  <2>2. /\ FALSE \in BOOLEAN /\ {} \in SUBSET Jobs /\ "build" \in {"build", "copy"}
        /\ Policy \in {"drain", "cancel"} /\ "replace" \in {"replace", "new"}
    BY ConfigAssumption
  <2>3. n = Len(runs) + 1 /\ n \in DOMAIN runs' /\ runs'[n].kind = "build"
    BY <2>1, <2>2, Entering, Zenon DEF IInv
  <2>4. job' = [job EXCEPT ![j] = r]
    BY <1>1, <1>9 DEF Dispatch, Job
  <2>a. n \in Nat
    BY <1>4, <2>3
  <2>b. job[j].verdict = None
    BY <1>3, <1>9 DEF Dispatch, Ended
  <2> HIDE DEF n
  <2>5. r \in Job /\ r.pc = "guard" /\ r.mine = n /\ r.verdict = None
    BY <1>1, <2>a, <2>b DEF Job, PC
  <2>6. job'[j] = r
    BY <1>1, <2>4
  <2> HIDE DEF r
  <2>7. Own(j)' /\ Judged(j)'
    BY <2>3, <2>5, <2>6 DEF Own, Judged, Indices
  <2> QED BY <2>1, <2>4, <2>5, <2>7, JobSet
<1>10. CASE DispatchFails(j)
  <2> DEFINE r == [job[j] EXCEPT !.pc = "failed"]
  <2>1. r \in Job /\ r.mine = job[j].mine /\ r.verdict = job[j].verdict
    BY <1>1 DEF Job, PC, Ended
  <2>2. Set(j, r) /\ job[j].pc = "dispatch"
    BY <1>10 DEF DispatchFails
  <2>3. r.mine = None /\ r.verdict = None
    BY <2>1, <2>2, <1>2, <1>3 DEF Ended
  <2> HIDE DEF r
  <2> QED BY <2>1, <2>2, <2>3, JobSetAlone
<1>11. CASE Guard(j)
  <2> DEFINE late == ~Building(j) /\ ~runs[job[j].mine].listed
             r == [Waiting(j, "repo") EXCEPT !.late = late]
  <2>1. /\ r \in Job /\ r.pc = "wait" /\ r.listing = "repo" /\ r.mine = job[j].mine
        /\ r.verdict = None /\ r.late = late
    BY <1>1, <1>3, <1>11, TimeAssumption DEF Guard, Waiting, Job, PC, Ended
  <2>2. job' = [job EXCEPT ![j] = r] /\ job'[j] = r /\ runs' = runs /\ asked' = asked
    BY <1>1, <1>11 DEF Guard, Set
  <2> HIDE DEF r
  <2>3. ASSUME job[j].mine # None, ~late, NEW n \in Newest(j, "repo")
        PROVE  n >= job[j].mine \/ runs[n].stage \notin {"success", "failure"}
    <3>1. CASE Building(j)
      <4>1. PICK k \in Newest(j, "repo") : runs[k].stage \notin Over
        BY <3>1 DEF Building
      <4>2. k = n
        BY <1>4, <2>3, <4>1 DEF Newest, Shown
      <4> QED BY <4>1, <4>2 DEF Over
    <3>2. CASE runs[job[j].mine].listed
      <4>1. job[j].mine \in Shown(j, "repo")
        BY <1>1, <2>3, <3>2 DEF Own, Shown
      <4> QED BY <2>3, <4>1, <1>1, <1>4 DEF Newest, Shown
    <3> QED BY <2>3, <3>1, <3>2
  <2>4. \A n : (n \in Newest(j, "repo"))' <=> n \in Newest(j, "repo")
    BY <2>2 DEF Newest, Shown, Indices
  <2>5. Own(j)'
    BY <2>1, <2>2, <2>3, <2>4, <1>1 DEF Own, Indices
  <2>6. Judged(j)'
    BY <2>1, <2>2 DEF Judged
  <2> QED BY <2>1, <2>2, <2>5, <2>6, JobSet
<1>12. CASE Verdict(j)
  <2>1. PICK n \in Newest(j, job[j].listing) :
          /\ runs[n].stage \in Over
          /\ LET r == [job[j] EXCEPT !.verdict = n]
             IN IF runs[n].stage = "success" THEN Proceed(j, r) ELSE Set(j, [r EXCEPT !.pc = "failed"])
    BY <1>12 DEF Verdict
  <2> DEFINE u == [job[j] EXCEPT !.verdict = n, !.pc = "using", !.image = tag["latest"]]
             f == [job[j] EXCEPT !.verdict = n, !.pc = "failed"]
  <2>2. \E r \in {u, f} : Set(j, r)
    <3>1. [[job[j] EXCEPT !.verdict = n] EXCEPT !.pc = "using", !.image = tag["latest"]] = u
      BY <1>1 DEF Job
    <3>2. [[job[j] EXCEPT !.verdict = n] EXCEPT !.pc = "failed"] = f
      BY <1>1 DEF Job
    <3> QED BY <2>1, <3>1, <3>2, Zenon DEF Proceed
  <2>3. n \in Indices /\ n \in Nat /\ runs[n].kind = "build"
    BY <1>4, <2>1 DEF Newest, Shown
  <2>4. \A r \in {u, f} :
          /\ r \in Job /\ r.mine = job[j].mine /\ r.verdict = n /\ r.pc \in {"using", "failed"}
          /\ r.late = job[j].late
          /\ r.pc = "using" => r.image = tag["latest"]
    BY <1>1, <2>3 DEF Job, PC, Ended
  <2> HIDE DEF u, f
  <2>5. PICK r \in {u, f} : Set(j, r)
    BY <2>2
  <2>6. /\ r \in Job /\ r.mine = job[j].mine /\ r.verdict = n /\ r.pc \in {"using", "failed"}
        /\ r.late = job[j].late
        /\ r.pc = "using" => r.image = tag["latest"]
    BY <2>4
  <2>7. job' = [job EXCEPT ![j] = r] /\ job'[j] = r /\ runs' = runs /\ asked' = asked
    BY <1>1, <2>5 DEF Set
  <2>8. Own(j)'
    BY <1>1, <1>12, <2>6, <2>7 DEF Verdict, Own, Indices
  <2>9. n < job[j].mine => runs[n].stage = "cancelled" \/ r.late
    <3> SUFFICES ASSUME n < job[j].mine, ~job[j].late
                 PROVE  runs[n].stage = "cancelled"
      BY <2>6
    <3>1. job[j].mine # None
      BY <2>3, <1>1 DEF None
    <3>2. job[j].listing = "repo" /\ (n >= job[j].mine \/ runs[n].stage \notin {"success", "failure"})
      BY <3>1, <1>1, <1>12, <2>1 DEF Own, Verdict
    <3> QED BY <3>2, <2>1, <2>3, <1>1 DEF Over
  <2>10. runs[n].mode = "replace" /\ runs[n].todo = <<>> => tag["latest"] >= n
    BY <2>3 DEF IInv, LaneInv, LatestPushed, Holds
  <2>11. Judged(j)'
    BY <2>1, <2>3, <2>6, <2>7, <2>9, <2>10 DEF Judged, Indices, Ended
  <2> QED BY <2>6, <2>7, <2>8, <2>11, JobSet
<1>13. CASE Timeout(j)
  <2> DEFINE r == [job[j] EXCEPT !.pc = "timeout"]
  <2>1. /\ r \in Job /\ r.mine = job[j].mine /\ r.verdict = job[j].verdict /\ r.image = job[j].image
        /\ r.listing = job[j].listing /\ r.late = job[j].late /\ r.pc \in Ended
    BY <1>1 DEF Job, PC, Ended
  <2>2. Set(j, r) /\ job[j].verdict = None
    BY <1>3, <1>13 DEF Timeout, Ended
  <2> HIDE DEF r
  <2> QED BY <2>1, <2>2, JobSetAlone
<1>14. CASE Finish(j)
  <2> DEFINE r == [job[j] EXCEPT !.pc = "done"]
  <2>1. /\ r \in Job /\ r.mine = job[j].mine /\ r.verdict = job[j].verdict /\ r.image = job[j].image
        /\ r.listing = job[j].listing /\ r.late = job[j].late /\ r.pc \in Ended
    BY <1>1 DEF Job, PC, Ended
  <2>2. Set(j, r) /\ job[j].pc = "using"
    BY <1>14 DEF Finish
  <2> HIDE DEF r
  <2> QED BY <2>1, <2>2, JobSetAlone
<1> QED BY <1>5, <1>6, <1>7, <1>8, <1>9, <1>10, <1>11, <1>12, <1>13, <1>14 DEF JobStep

LEMMA JobNext ==
  ASSUME IInv, [Next]_vars, LaneStep
  PROVE  JobInv'
<1>1. /\ job \in [Jobs -> Job] /\ asked \in 0..MaxRequests /\ MaxRequests \in Nat
      /\ \A j \in Jobs : /\ job[j] \in Job /\ job[j].mine \in Nat /\ job[j].verdict \in Nat
                         /\ Own(j) /\ Judged(j)
  BY RequestsAssumption DEF IInv, JobInv, Job
<1>2. /\ Len(runs) \in Nat /\ Indices = 1..Len(runs)
  BY Lanes DEF IInv, LaneInv, LaneType
<1>3. ASSUME job' = job, asked' \in 0..MaxRequests
      PROVE  JobInv'
  <2>1. ASSUME NEW j \in Jobs
        PROVE  Own(j)' /\ Judged(j)'
    BY <1>1, <1>3, Carried DEF IInv
  <2> QED BY <1>1, <1>3, <2>1 DEF JobInv
<1>4. ASSUME NEW r \in Requests, Request(r)
      PROVE  JobInv'
  BY <1>1, <1>3, <1>4 DEF Request
<1>5. ASSUME NEW S \in SUBSET Jobs, NEW change \in Changes, Pushed(S, change)
      PROVE  JobInv'
  <2>1. PICK n \in Len(runs)..Len(runs') :
          job' = [j \in Jobs |-> IF j \in S
                    THEN [job[j] EXCEPT !.pc = "queued", !.change = change, !.born = n] ELSE job[j]]
    BY <1>5 DEF Pushed
  <2>a. Len(runs') \in Nat
    BY DEF LaneStep, LaneInv, LaneType
  <2>b. n \in Nat
    <3>1. \A a, b \in Nat : a..b \subseteq Nat
      OBVIOUS
    <3>2. Len(runs)..Len(runs') \subseteq Nat
      BY <1>2, <2>a, <3>1, Zenon
    <3> QED BY <3>2
  <2>2. n \in Nat /\ change \in {"none", "dependency", "tooling"}
    BY <2>b, ChangesAssumption
  <2>3. ASSUME NEW j \in Jobs
        PROVE  job'[j] \in Job /\ Own(j)' /\ Judged(j)'
    <3>1. CASE j \in S
      <4>1. job[j].mine = None /\ job[j].verdict = None
        BY <1>1, <1>5, <3>1 DEF Pushed, Own, Judged, Ended
      <4> DEFINE r == [job[j] EXCEPT !.pc = "queued", !.change = change, !.born = n]
      <4>2. r \in Job /\ r.mine = None /\ r.verdict = None
        BY <1>1, <2>2, <4>1 DEF Job, PC
      <4>3. job'[j] = r
        BY <2>1, <3>1
      <4> QED BY <4>2, <4>3 DEF Own, Judged
    <3>2. CASE j \notin S
      BY <1>1, <2>1, <3>2, Carried DEF IInv
    <3> QED BY <3>1, <3>2
  <2>4. job' \in [Jobs -> Job]
    BY <2>1, <2>3
  <2>5. asked' = asked
    BY <1>5 DEF Pushed
  <2> QED BY <1>1, <2>3, <2>4, <2>5 DEF JobInv
<1>6. ASSUME NEW i \in Indices, RunStep(i) \/ Break(i)
      PROVE  JobInv'
  <2>1. CASE \E j \in Jobs : CancelTarget(i, j)
    <3>1. PICK j \in Jobs : CancelTarget(i, j)
      BY <2>1
    <3> DEFINE r == [job[j] EXCEPT !.pc = "cancelled"]
    <3>2. /\ r \in Job /\ r.mine = job[j].mine /\ r.verdict = job[j].verdict /\ r.image = job[j].image
          /\ r.listing = job[j].listing /\ r.late = job[j].late /\ r.pc \in Ended
      BY <1>1 DEF Job, PC, Ended
    <3>3. job[j].verdict = None \/ job[j].pc = "using"
      BY <1>1, <3>1 DEF Judged, CancelTarget
    <3>4. job' = [job EXCEPT ![j] = r]
      BY <1>1, <3>1 DEF CancelTarget, Job
    <3>5. Set(j, r)
      BY <3>1, <3>4 DEF CancelTarget, Set
    <3> HIDE DEF r
    <3> QED BY <3>2, <3>3, <3>5, JobSetAlone
  <2>2. CASE ~(\E j \in Jobs : CancelTarget(i, j))
    <3>1. job' = job /\ asked' = asked
      BY <1>6, <2>2 DEF RunStep, Break, List, Gate, Coordinate, Coordinated, Baked, PushTag, Promote,
                       PublishManifest
    <3> QED BY <3>1, <1>1, <1>3
  <2> QED BY <2>1, <2>2
<1>7. ASSUME NEW j \in Jobs, JobStep(j)
      PROVE  JobInv'
  BY <1>7, JobMoves
<1>8. CASE Tick
  <2>1. job' = [j \in Jobs |-> [job[j] EXCEPT !.left = Less(@)]] /\ asked' = asked
    BY <1>8 DEF Tick
  <2>2. ASSUME NEW j \in Jobs
        PROVE  job'[j] \in Job /\ Own(j)' /\ Judged(j)'
    <3> DEFINE r == [job[j] EXCEPT !.left = Less(@)]
    <3>1. Less(job[j].left) \in Nat
      BY <1>1 DEF Less, Job
    <3>2. /\ r \in Job /\ r.mine = job[j].mine /\ r.verdict = job[j].verdict /\ r.image = job[j].image
          /\ r.listing = job[j].listing /\ r.late = job[j].late /\ r.pc = job[j].pc
      BY <1>1, <3>1 DEF Job
    <3>3. job'[j] = r
      BY <2>1
    <3> HIDE DEF r
    <3> QED BY <1>1, <3>2, <3>3, Carried DEF IInv
  <2>3. job' \in [Jobs -> Job]
    BY <2>1, <2>2
  <2> QED BY <1>1, <2>1, <2>2, <2>3 DEF JobInv
<1>9. CASE UNCHANGED vars
  BY <1>1, <1>3, <1>9 DEF vars
<1> QED BY <1>4, <1>5, <1>6, <1>7, <1>8, <1>9 DEF Next

-----------------------------------------------------------------------------
(* The theorems. *)

LEMMA Starts == Init => IInv
<1> SUFFICES ASSUME Init
             PROVE  IInv
  OBVIOUS
<1>1. Indices = {} /\ runs \in Seq(Run) /\ Len(runs) = 0
  BY DEF Init, Indices
<1>2. LaneInv
  BY <1>1 DEF Init, LaneInv, LaneType, OneLane, EndedListed, Ordered, WorkerPushed, LatestPushed,
              PointersQualified, Tag, None
<1>3. job \in [Jobs -> Job] /\ asked \in 0..MaxRequests
  BY RequestsAssumption DEF Init, Job, PC, None
<1>4. \A j \in Jobs : Own(j) /\ Judged(j)
  BY DEF Init, Own, Judged
<1> QED BY <1>2, <1>3, <1>4 DEF IInv, JobInv

LEMMA Step ==
  ASSUME IInv, [Next]_vars
  PROVE  IInv' /\ LaneStep
<1>1. LaneStep
  BY LaneNext DEF IInv
<1>2. JobInv'
  BY <1>1, JobNext
<1> QED BY <1>1, <1>2 DEF IInv, LaneStep

THEOREM Invariant == Spec => []IInv
<1> QED BY Starts, Step, PTL DEF Spec

\* Every variable keeps its type: no run or job leaves the states it was given.
THEOREM TypeCorrect == Spec => []TypeOK
<1>1. IInv => TypeOK
  BY DEF IInv, LaneInv, LaneType, JobInv, TypeOK
<1> QED BY <1>1, Invariant, PTL

\* latest.json and the base tags clients consume name a run whose immutable
\* worker tag is in the registry, whichever step of whichever run fails.
THEOREM PointersFollow == Spec => []PointersQualified
<1>1. IInv => PointersQualified
  BY DEF IInv, LaneInv
<1> QED BY <1>1, Invariant, PTL

\* No tag, base or manifest ever goes back to an older run.
THEOREM InLaneOrder == Spec => LaneOrder
<1>1. IInv /\ [Next]_vars =>
        [manifest' >= manifest /\ base' >= base /\ \A t \in Tag : tag'[t] >= tag[t]]_vars
  BY Step DEF LaneStep, Later
<1> QED BY <1>1, Invariant, PTL DEF Spec, LaneOrder

\* A job is judged by a build that ran to its end before the one it dispatched
\* or joined only if the two minutes of its guard (wait-for-worker-image.sh)
\* passed without the API listing that one.
THEOREM JudgedRight == Spec => []NoStaleVerdict
<1>1. IInv => NoStaleVerdict
  <2> SUFFICES ASSUME IInv, NEW j \in Jobs, job[j].verdict # None, job[j].verdict < job[j].mine
               PROVE  runs[job[j].verdict].stage = "cancelled" \/ job[j].late
    BY DEF NoStaleVerdict
  <2> QED BY DEF IInv, JobInv, Judged
<1> QED BY <1>1, Invariant, PTL

\* What a job pulls after a successful rebuild is that image or a newer one.
THEOREM PullsFresh == Spec => []FreshImage
<1>1. IInv => FreshImage
  <2> SUFFICES ASSUME IInv, NEW j \in Jobs, job[j].pc \in {"using", "done"}, job[j].verdict # None,
                      runs[job[j].verdict].mode = "replace", runs[job[j].verdict].todo = <<>>
               PROVE  job[j].image >= job[j].verdict
    BY DEF FreshImage
  <2> QED BY DEF IInv, JobInv, Judged
<1> QED BY <1>1, Invariant, PTL

\* A job that waited for the repository's builds starts when none that is
\* listed is under way: the build that let it go is the newest, and the lane
\* holds no older one behind a run that succeeded.
THEOREM StartsQuiet == Spec => QuietStart
<1> DEFINE Quiet == \A j \in Jobs :
             job[j].pc = "wait" /\ job[j].listing = "repo" /\ job'[j].pc = "using" =>
               \A i \in Indices : runs[i].kind = "build" /\ runs[i].listed => runs[i].stage \in Over
<1>1. ASSUME IInv, [Next]_vars
      PROVE  Quiet
  <2> SUFFICES ASSUME NEW j \in Jobs, job[j].pc = "wait", job[j].listing = "repo", job'[j].pc = "using",
                      NEW i \in Indices, runs[i].kind = "build", runs[i].listed
               PROVE  runs[i].stage \in Over
    OBVIOUS
  <2>1. job \in [Jobs -> Job] /\ \A k \in Jobs : job[k] \in Job
    BY <1>1 DEF IInv, JobInv
  <2>2. job' # job
    OBVIOUS
  <2>3. Verdict(j)
    <3>1. CASE \E S \in (SUBSET Jobs) \ {{}}, change \in Changes : Pushed(S, change)
      BY <3>1, <2>1 DEF Pushed
    <3>2. ASSUME NEW k \in Jobs, JobStep(k)
          PROVE  Verdict(j)
      <4>1. k = j
        BY <2>1, <3>2 DEF JobStep, RunnerFound, CheckBuild, Probe, Proceed, Join, Dispatch, DispatchFails,
                          Guard, Verdict, Timeout, Finish, Set
      <4>2. ~Guard(j) /\ ~Timeout(j)
        BY <2>1 DEF Guard, Timeout, Set, Waiting, Job
      <4> QED BY <3>2, <4>1, <4>2 DEF JobStep, RunnerFound, CheckBuild, Probe, Join, Dispatch,
                                      DispatchFails, Finish
    <3>3. ~Tick
      BY <2>1 DEF Tick, Job
    <3>4. \A k \in Indices : ~Break(k) /\ (RunStep(k) => \E m \in Jobs : CancelTarget(k, m))
      BY <2>2 DEF RunStep, Break, List, Gate, Coordinate, Coordinated, Baked, PushTag, Promote,
                  PublishManifest
    <3>5. \A k \in Indices : \A m \in Jobs : ~CancelTarget(k, m)
      BY <2>1 DEF CancelTarget, Job
    <3>6. ~(\E r \in Requests : Request(r)) /\ ~UNCHANGED vars
      BY <2>2 DEF Request, vars
    <3> QED BY <1>1, <3>1, <3>2, <3>3, <3>4, <3>5, <3>6 DEF Next
  <2>4. PICK n \in Newest(j, "repo") : runs[n].stage \in Over
                                      /\ (runs[n].stage # "success" => Set(j, [job[j] EXCEPT !.verdict = n, !.pc = "failed"]))
    BY <2>3 DEF Verdict, Job
  <2>5. runs[n].stage = "success"
    BY <2>1, <2>4 DEF Set, Job
  <2>6. /\ n \in Indices /\ i <= n /\ i \in Nat /\ n \in Nat
    BY <1>1, <2>4, Lanes DEF Newest, Shown, IInv, LaneInv, LaneType
  <2>7. CASE i = n
    BY <2>4, <2>7
  <2>8. CASE i < n
    BY <1>1, <2>5, <2>6, <2>8 DEF IInv, LaneInv, OneLane
  <2> QED BY <2>6, <2>7, <2>8
<1>2. IInv /\ [Next]_vars => [Quiet]_vars
  BY <1>1
<1>3. Spec => [][Quiet]_vars
  BY <1>2, Invariant, PTL DEF Spec
<1> QED BY <1>3 DEF QuietStart

-----------------------------------------------------------------------------
(***************************************************************************)
(* latest.json and :latest describe the same image, for any requests and   *)
(* failures.  A run touches both only between its first push and its last  *)
(* word, so the two agree whenever no run is caught in between: Agree is   *)
(* CurrentWorker with that said of every run, under way or not.            *)
(***************************************************************************)

Early == {"pending", "gate", "coordinate", "bake"}  \* stages before the push
Late  == {"promote", "manifest"}                    \* and after it

\* Run i has pushed none of its tags.
Whole(i) == runs[i].todo = TagsOf(runs[i].kind, runs[i].mode)

\* A run pushes its tags in order, all of them before it goes on.
TodoInv ==
  \A i \in Indices :
    /\ Len(runs[i].todo) <= Len(TagsOf(runs[i].kind, runs[i].mode))
    /\ runs[i].stage \in Early => Whole(i)
    /\ runs[i].stage \in Late => runs[i].todo = <<>>

\* Every run that began to push went through and moved the standard tags.
Clean == \A i \in Indices : Whole(i) \/ (runs[i].stage = "success" /\ runs[i].mode = "replace")

Agree == Clean => manifest = tag["latest"]

MInv == TodoInv /\ Agree

-----------------------------------------------------------------------------
(* The steps. *)

LEMMA TagsListed ==
  ASSUME NEW kind \in {"build", "copy"}, NEW mode \in {"replace", "new"}
  PROVE  TagsOf(kind, mode) \in Seq(Tag) /\ TagsOf(kind, mode) # <<>>
<1>1. PICK k \in DOMAIN TagsOf(kind, mode) : TagsOf(kind, mode)[k] = "version"
  BY TagLists
<1>2. TagsOf(kind, mode) # <<>>
  BY <1>1
<1> QED
  BY <1>2, TagLists

\* A step that pushes nothing: no run gets past its push, none is forgotten,
\* and what is new has everything to push.
LEMMA Quietly ==
  ASSUME MInv, UNCHANGED <<tag, manifest>>,
         \A k \in Indices :
           /\ k \in Indices'
           /\ runs'[k].kind = runs[k].kind /\ runs'[k].mode = runs[k].mode
           /\ runs'[k].todo = runs[k].todo
           /\ runs'[k].stage \in Early => runs[k].stage \in Early
           /\ runs'[k].stage \in Late => runs[k].stage \in Late
           /\ runs'[k].stage = "success" => runs[k].stage \in Early \cup {"success"},
         \A k \in Indices' \ Indices :
           /\ runs'[k].todo = TagsOf(runs'[k].kind, runs'[k].mode)
           /\ Len(runs'[k].todo) \in Nat /\ runs'[k].stage \notin Late
  PROVE  MInv'
<1>1. TodoInv'
  <2> SUFFICES ASSUME NEW k \in Indices'
               PROVE  /\ Len(runs'[k].todo) <= Len(TagsOf(runs'[k].kind, runs'[k].mode))
                      /\ runs'[k].stage \in Early => Whole(k)'
                      /\ runs'[k].stage \in Late => runs'[k].todo = <<>>
    BY DEF TodoInv
  <2>1. CASE k \in Indices
    BY <2>1 DEF MInv, TodoInv, Whole
  <2>2. CASE k \notin Indices
    BY <2>2 DEF Whole
  <2> QED BY <2>1, <2>2
<1>2. Clean' => Clean
  <2> SUFFICES ASSUME Clean', NEW k \in Indices
               PROVE  Whole(k) \/ (runs[k].stage = "success" /\ runs[k].mode = "replace")
    BY DEF Clean
  <2>1. Whole(k)' \/ (runs'[k].stage = "success" /\ runs'[k].mode = "replace")
    BY DEF Clean
  <2> QED BY <2>1 DEF MInv, TodoInv, Whole
<1>3. Agree'
  BY <1>2 DEF MInv, Agree
<1> QED BY <1>1, <1>3 DEF MInv

\* A run is replaced by itself, further on but not past its push.
LEMMA Onward ==
  ASSUME LaneInv, MInv, NEW i \in Indices, NEW r \in Run, runs' = [runs EXCEPT ![i] = r],
         UNCHANGED <<tag, manifest>>,
         r.kind = runs[i].kind, r.mode = runs[i].mode, r.todo = runs[i].todo,
         r.stage \in Early => runs[i].stage \in Early,
         r.stage \in Late => runs[i].stage \in Late,
         r.stage = "success" => runs[i].stage = "success"
  PROVE  MInv'
<1>1. /\ DOMAIN runs' = Indices /\ runs'[i] = r /\ \A k \in Indices : k # i => runs'[k] = runs[k]
  BY Changed DEF LaneInv, LaneType
<1>2. Indices' = Indices
  BY <1>1 DEF Indices
<1> QED BY <1>1, <1>2, Quietly

\* A run ends before its push, or without success.
LEMMA Ending ==
  ASSUME LaneInv, MInv, NEW i \in Indices, NEW c \in Over, Conclude(i, c),
         UNCHANGED <<tag, manifest>>, c = "success" => runs[i].stage \in Early
  PROVE  MInv'
<1>1. /\ Indices' = Indices
      /\ \A k \in Indices :
           runs'[k].kind = runs[k].kind /\ runs'[k].mode = runs[k].mode /\ runs'[k].todo = runs[k].todo
      /\ runs'[i].stage = c
      /\ \A k \in Indices : k # i =>
           \/ runs'[k].stage = runs[k].stage
           \/ Active(i) /\ runs[k].stage = "pending" /\ runs'[k].stage \in {"gate", "push"}
  BY ConcludedRuns
<1>2. c \notin Early /\ c \notin Late
  BY DEF Over, Early, Late
<1>3. ASSUME NEW k \in Indices
      PROVE  /\ runs'[k].stage \in Early => runs[k].stage \in Early
             /\ runs'[k].stage \in Late => runs[k].stage \in Late
             /\ runs'[k].stage = "success" => runs[k].stage \in Early \cup {"success"}
  BY <1>1, <1>2 DEF Early, Late
<1> QED BY <1>1, <1>3, Quietly

\* A run enters the lane.
LEMMA Arriving ==
  ASSUME LaneInv, MInv, NEW kind \in {"build", "copy"}, NEW policy \in {"drain", "cancel"},
         NEW mode \in {"replace", "new"}, NEW push \in BOOLEAN, NEW commit \in SUBSET Jobs,
         runs' = Entered(kind, policy, mode, push, commit), UNCHANGED artifacts
  PROVE  MInv'
<1> DEFINE n == Len(runs) + 1
<1>1. /\ runs' \in Seq(Run) /\ Indices' = 1..n /\ Indices \subseteq 1..n /\ n \in 1..n
      /\ \A k \in 1..n : k = n \/ (k \in Indices /\ k < n)
  BY EnteredRuns
<1>2. /\ runs'[n].kind = kind /\ runs'[n].mode = mode /\ runs'[n].todo = TagsOf(kind, mode)
      /\ runs'[n].stage \in {"pending", "gate", "push"}
  BY EnteredRuns
<1>3. \A k \in Indices :
        /\ runs'[k].kind = runs[k].kind /\ runs'[k].mode = runs[k].mode
        /\ runs'[k].todo = runs[k].todo
        /\ runs[k].stage = "pending" => runs'[k].stage = "cancelled"
        /\ runs[k].stage # "pending" => runs'[k].stage = runs[k].stage
  BY EnteredRuns
<1>4. Len(TagsOf(kind, mode)) \in Nat
  BY TagsListed
<1>. HIDE DEF n
<1>5. ASSUME NEW k \in Indices
      PROVE  /\ k \in Indices'
             /\ runs'[k].stage \in Early => runs[k].stage \in Early
             /\ runs'[k].stage \in Late => runs[k].stage \in Late
             /\ runs'[k].stage = "success" => runs[k].stage \in Early \cup {"success"}
  BY <1>1, <1>3 DEF Early, Late
<1>6. ASSUME NEW k \in Indices' \ Indices
      PROVE  /\ runs'[k].todo = TagsOf(runs'[k].kind, runs'[k].mode)
             /\ Len(runs'[k].todo) \in Nat /\ runs'[k].stage \notin Late
  BY <1>1, <1>2, <1>4 DEF Late
<1> QED BY <1>3, <1>5, <1>6, Quietly DEF artifacts

\* With its first push a run is between the two, until its last word.
LEMMA PushingOne ==
  ASSUME LaneInv, MInv, NEW i \in Indices, PushTag(i)
  PROVE  MInv'
<1> DEFINE todo == Tail(runs[i].todo)
           s == IF todo # <<>> THEN "push"
                ELSE IF runs[i].kind = "build" /\ IsSource THEN "promote" ELSE "manifest"
           r == [runs[i] EXCEPT !.todo = todo, !.stage = s]
<1>1. /\ Indices = 1..Len(runs) /\ runs[i] \in Run
  BY Lanes DEF LaneInv, LaneType
<1>2. runs[i].todo \in Seq(Tag) /\ runs[i].todo # <<>> /\ runs[i].kind \in {"build", "copy"}
      /\ runs[i].mode \in {"replace", "new"}
  BY <1>1 DEF PushTag, Run
<1>3. /\ todo \in Seq(Tag) /\ Len(todo) \in Nat /\ Len(todo) < Len(runs[i].todo)
  BY <1>2
<1>4. s \in Stage /\ s \notin Early /\ s # "success" /\ (s \in Late => todo = <<>>)
  BY DEF Stage, Early, Late
<1>5. r \in Run
  BY <1>1, <1>3, <1>4 DEF Run
<1>6. runs' = [runs EXCEPT ![i] = r]
  BY <1>1 DEF PushTag, Run
<1>7. /\ DOMAIN runs' = Indices /\ runs'[i] = r /\ \A k \in Indices : k # i => runs'[k] = runs[k]
  BY <1>5, <1>6, Changed DEF LaneInv, LaneType
<1>8. Indices' = Indices
  BY <1>7 DEF Indices
<1>9. r.todo = todo /\ r.stage = s /\ r.kind = runs[i].kind /\ r.mode = runs[i].mode
  BY <1>1 DEF Run
<1>. HIDE DEF todo, s, r
<1>10. /\ TagsOf(runs[i].kind, runs[i].mode) \in Seq(Tag)
       /\ Len(runs[i].todo) <= Len(TagsOf(runs[i].kind, runs[i].mode))
  BY <1>2, TagsListed DEF MInv, TodoInv
<1>11. /\ Len(todo) <= Len(TagsOf(runs[i].kind, runs[i].mode))
       /\ todo # TagsOf(runs[i].kind, runs[i].mode)
  BY <1>2, <1>3, <1>10
<1>12. TodoInv'
  <2> SUFFICES ASSUME NEW k \in Indices
               PROVE  /\ Len(runs'[k].todo) <= Len(TagsOf(runs'[k].kind, runs'[k].mode))
                      /\ runs'[k].stage \in Early => Whole(k)'
                      /\ runs'[k].stage \in Late => runs'[k].todo = <<>>
    BY <1>8 DEF TodoInv
  <2>1. CASE k = i
    BY <2>1, <1>4, <1>7, <1>9, <1>11
  <2>2. CASE k # i
    BY <2>2, <1>7 DEF MInv, TodoInv, Whole
  <2> QED BY <2>1, <2>2
<1>13. ~Clean'
  BY <1>4, <1>7, <1>8, <1>9, <1>11 DEF Clean, Whole
<1> QED BY <1>12, <1>13 DEF MInv, Agree

\* The manifest is published: if the run moved the standard tags, :latest is its own.
LEMMA Publishing ==
  ASSUME LaneInv, MInv, NEW i \in Indices, PublishManifest(i)
  PROVE  MInv'
<1>1. /\ runs[i].stage = "manifest" /\ manifest' = i /\ tag' = tag /\ Conclude(i, "success")
  BY DEF PublishManifest
<1>2. "success" \in Over
  BY DEF Over
<1>3. /\ Indices' = Indices
      /\ \A k \in Indices :
           runs'[k].kind = runs[k].kind /\ runs'[k].mode = runs[k].mode /\ runs'[k].todo = runs[k].todo
      /\ runs'[i].stage = "success"
      /\ \A k \in Indices : k # i =>
           \/ runs'[k].stage = runs[k].stage
           \/ Active(i) /\ runs[k].stage = "pending" /\ runs'[k].stage \in {"gate", "push"}
  BY <1>1, <1>2, ConcludedRuns
<1>4. runs[i].todo = <<>> /\ runs[i].stage \notin Over /\ "latest" \in Tag
  BY <1>1 DEF MInv, TodoInv, Late, Over, Tag
<1>5. TodoInv'
  <2> SUFFICES ASSUME NEW k \in Indices
               PROVE  /\ Len(runs'[k].todo) <= Len(TagsOf(runs'[k].kind, runs'[k].mode))
                      /\ runs'[k].stage \in Early => Whole(k)'
                      /\ runs'[k].stage \in Late => runs'[k].todo = <<>>
    BY <1>3 DEF TodoInv
  <2>1. /\ runs'[k].stage \in Early => runs[k].stage \in Early
        /\ runs'[k].stage \in Late => runs[k].stage \in Late
    BY <1>3 DEF Early, Late
  <2> QED BY <2>1, <1>3 DEF MInv, TodoInv, Whole
<1>6. Clean' => runs[i].mode = "replace"
  <2>1. runs[i] \in Run
    BY Lanes DEF LaneInv, LaneType
  <2>2. TagsOf(runs[i].kind, runs[i].mode) # <<>>
    BY <2>1, TagsListed DEF Run
  <2> QED BY <2>2, <1>3, <1>4 DEF Clean, Whole
<1>7. runs[i].mode = "replace" => tag["latest"] = i
  <2>1. i \in Nat /\ tag["latest"] \in Nat
    BY <1>4, Lanes DEF LaneInv, LaneType
  <2>2. tag["latest"] <= i
    BY <1>4 DEF LaneInv, Ordered
  <2>3. runs[i].mode = "replace" => tag["latest"] >= i
    BY <1>4 DEF LaneInv, LatestPushed, Holds
  <2> QED BY <2>1, <2>2, <2>3
<1>8. Agree'
  BY <1>1, <1>6, <1>7 DEF Agree
<1> QED BY <1>5, <1>8 DEF MInv

\* One step of run i, or its end by a failure.
LEMMA RunMoves ==
  ASSUME LaneInv, MInv, NEW i \in Indices, RunStep(i) \/ Break(i)
  PROVE  MInv'
<1>1. /\ Indices = 1..Len(runs) /\ runs[i] \in Run
  BY Lanes DEF LaneInv, LaneType
<1>2. ASSUME NEW s \in Stage, Goto(i, s), UNCHANGED <<tag, manifest>>,
             s \in Early => runs[i].stage \in Early, s \in Late => runs[i].stage \in Late,
             s # "success"
      PROVE  MInv'
  <2> DEFINE r == [runs[i] EXCEPT !.stage = s]
  <2>1. /\ r \in Run /\ r.kind = runs[i].kind /\ r.mode = runs[i].mode /\ r.todo = runs[i].todo
        /\ r.stage = s
    BY <1>1 DEF Run
  <2>2. runs' = [runs EXCEPT ![i] = r]
    BY <1>1, <1>2 DEF Goto, Run
  <2> HIDE DEF r
  <2> QED BY <1>2, <2>1, <2>2, Onward
<1>3. ASSUME NEW r \in Run, Bake(i, r), UNCHANGED <<tag, manifest>>,
             r.kind = runs[i].kind, r.mode = runs[i].mode, r.todo = runs[i].todo,
             runs[i].stage \in Early
      PROVE  MInv'
  <2>1. PICK d \in BakeTime : runs' = [runs EXCEPT ![i] = [r EXCEPT !.stage = "bake", !.left = d]]
    BY <1>3 DEF Bake
  <2> DEFINE b == [r EXCEPT !.stage = "bake", !.left = d]
  <2>2. d \in Nat
    BY TimeAssumption
  <2>3. /\ b \in Run /\ b.kind = r.kind /\ b.mode = r.mode /\ b.todo = r.todo /\ b.stage = "bake"
    BY <2>2 DEF Run, Stage
  <2>4. runs' = [runs EXCEPT ![i] = b]
    BY <2>1
  <2> HIDE DEF b
  <2> QED BY <1>3, <2>3, <2>4, Onward DEF Late
<1>4. CASE List(i)
  <2> DEFINE r == [runs[i] EXCEPT !.listed = TRUE]
  <2>1. /\ r \in Run /\ r.kind = runs[i].kind /\ r.mode = runs[i].mode /\ r.todo = runs[i].todo
        /\ r.stage = runs[i].stage
    BY <1>1 DEF Run
  <2>2. runs' = [runs EXCEPT ![i] = r] /\ UNCHANGED <<tag, manifest>>
    BY <1>1, <1>4 DEF List, Run, artifacts
  <2> HIDE DEF r
  <2> QED BY <2>1, <2>2, Onward
<1>5. CASE Gate(i)
  <2>1. runs[i].stage \in Early /\ UNCHANGED <<tag, manifest>>
        /\ (Goto(i, "coordinate") \/ Conclude(i, "success"))
    BY <1>5 DEF Gate, Early, artifacts
  <2>2. "coordinate" \in Stage /\ "coordinate" \notin Late /\ "success" \in Over
    BY DEF Stage, Late, Over
  <2> QED BY <2>1, <2>2, <1>2, Ending
<1>6. CASE Coordinate(i)
  <2>1. /\ runs[i].stage = "coordinate" /\ UNCHANGED <<tag, manifest>> /\ runs[i].stage \in Early
        /\ \/ Bake(i, runs[i])
           \/ \E S \in {InFlight(i), Alive} :
                runs' = [runs EXCEPT ![i].targets = S, ![i].left = DrainLimit]
    BY <1>6 DEF Coordinate, Early, artifacts
  <2>s. CASE Bake(i, runs[i])
    BY <1>1, <1>3, <2>1, <2>s
  <2>t. SUFFICES ASSUME NEW S \in {InFlight(i), Alive},
                        runs' = [runs EXCEPT ![i].targets = S, ![i].left = DrainLimit]
                 PROVE  MInv'
    BY <2>1, <2>s
  <2> DEFINE r == [runs[i] EXCEPT !.targets = S, !.left = DrainLimit]
  <2>2. /\ r \in Run /\ r.kind = runs[i].kind /\ r.mode = runs[i].mode /\ r.todo = runs[i].todo
        /\ r.stage = runs[i].stage
    BY <1>1, TimeAssumption DEF Run, InFlight, Alive
  <2>3. runs' = [runs EXCEPT ![i] = r]
    BY <1>1, <2>t DEF Run
  <2> HIDE DEF r
  <2> QED BY <1>1, <1>3, <2>1, <2>2, <2>3, Onward
<1>7. CASE Coordinated(i)
  <2>1. /\ runs[i].stage \in Early /\ UNCHANGED <<tag, manifest>> /\ Bake(i, runs[i])
    BY <1>7 DEF Coordinated, Early, artifacts
  <2> QED BY <1>1, <1>3, <2>1
<1>8. CASE Baked(i)
  <2>1. Goto(i, "push") /\ UNCHANGED <<tag, manifest>>
    BY <1>8 DEF Baked, artifacts
  <2>2. "push" \in Stage /\ "push" \notin Early /\ "push" \notin Late
    BY DEF Stage, Early, Late
  <2> QED BY <2>1, <2>2, <1>2
<1>9. CASE PushTag(i)
  BY <1>9, PushingOne
<1>10. CASE Promote(i)
  <2>1. Goto(i, "manifest") /\ UNCHANGED <<tag, manifest>> /\ runs[i].stage \in Late
    BY <1>10 DEF Promote, Late
  <2>2. "manifest" \in Stage /\ "manifest" \notin Early
    BY DEF Stage, Early
  <2> QED BY <2>1, <2>2, <1>2
<1>11. CASE PublishManifest(i)
  BY <1>11, Publishing
<1>12. CASE \E j \in Jobs : CancelTarget(i, j)
  <2>1. UNCHANGED <<runs, tag, manifest>>
    BY <1>12 DEF CancelTarget, artifacts
  <2> QED BY <2>1 DEF MInv, TodoInv, Agree, Clean, Whole, Indices
<1>13. CASE Break(i)
  <2>1. PICK c \in {"failure", "cancelled"} : Conclude(i, c)
    BY <1>13 DEF Break
  <2>2. c \in Over /\ c # "success" /\ UNCHANGED <<tag, manifest>>
    BY <1>13 DEF Over, Break, artifacts
  <2> QED BY <2>1, <2>2, Ending
<1> QED BY <1>4, <1>5, <1>6, <1>7, <1>8, <1>9, <1>10, <1>11, <1>12, <1>13 DEF RunStep

LEMMA ManifestNext ==
  ASSUME IInv, MInv, [Next]_vars
  PROVE  MInv'
<1>1. LaneInv
  BY DEF IInv
<1>2. ASSUME UNCHANGED <<runs, artifacts>>
      PROVE  MInv'
  BY <1>2 DEF MInv, TodoInv, Agree, Clean, Whole, Indices, artifacts
<1>3. ASSUME NEW r \in Requests, Request(r)
      PROVE  MInv'
  <2>1. /\ r.kind \in {"build", "copy"} /\ r.policy \in {"drain", "cancel"}
        /\ r.mode \in {"replace", "new"} /\ FALSE \in BOOLEAN /\ {} \in SUBSET Jobs
    BY RequestsAssumption
  <2>2. runs' = Entered(r.kind, r.policy, r.mode, FALSE, {}) /\ UNCHANGED artifacts
    BY <1>3 DEF Request
  <2> QED BY <1>1, <2>1, <2>2, Arriving, Zenon
<1>4. ASSUME NEW S \in SUBSET Jobs, NEW change \in Changes, Pushed(S, change)
      PROVE  MInv'
  <2>1. CASE change = "dependency"
    <3>1. runs' = Entered("build", Policy, "replace", TRUE, S) /\ UNCHANGED artifacts
      BY <1>4, <2>1 DEF Pushed
    <3>2. /\ "build" \in {"build", "copy"} /\ Policy \in {"drain", "cancel"}
          /\ "replace" \in {"replace", "new"} /\ S \in SUBSET Jobs /\ TRUE \in BOOLEAN
      BY ConfigAssumption
    <3> QED BY <1>1, <3>1, <3>2, Arriving, Zenon
  <2>2. CASE change # "dependency"
    BY <1>2, <1>4, <2>2 DEF Pushed
  <2> QED BY <2>1, <2>2
<1>5. ASSUME NEW i \in Indices, RunStep(i) \/ Break(i)
      PROVE  MInv'
  BY <1>1, <1>5, RunMoves
<1>6. ASSUME NEW j \in Jobs, JobStep(j)
      PROVE  MInv'
  <2>1. CASE Dispatch(j)
    <3>1. runs' = Entered("build", Policy, "replace", FALSE, {}) /\ UNCHANGED artifacts
      BY <2>1 DEF Dispatch
    <3>2. /\ "build" \in {"build", "copy"} /\ Policy \in {"drain", "cancel"}
          /\ "replace" \in {"replace", "new"} /\ {} \in SUBSET Jobs /\ FALSE \in BOOLEAN
      BY ConfigAssumption
    <3> QED BY <1>1, <3>1, <3>2, Arriving, Zenon
  <2>2. CASE ~Dispatch(j)
    <3>1. UNCHANGED <<runs, artifacts>>
      BY <1>6, <2>2 DEF JobStep, RunnerFound, CheckBuild, Probe, Proceed, Join, DispatchFails, Guard,
                        Verdict, Timeout, Finish, Set
    <3> QED BY <3>1, <1>2
  <2> QED BY <2>1, <2>2
<1>7. CASE Tick
  <2>1. Indices' = Indices /\ UNCHANGED <<tag, manifest>>
    BY <1>7 DEF Tick, Indices, artifacts
  <2>2. ASSUME NEW k \in Indices
        PROVE  /\ runs'[k].kind = runs[k].kind /\ runs'[k].mode = runs[k].mode
               /\ runs'[k].todo = runs[k].todo /\ runs'[k].stage = runs[k].stage
    <3>1. runs[k] \in Run
      BY <1>1, Lanes DEF LaneInv, LaneType
    <3>2. runs'[k] = [runs[k] EXCEPT !.left = Less(@)]
      BY <1>7 DEF Tick
    <3> QED BY <3>1, <3>2 DEF Run
  <2> QED BY <2>1, <2>2, Quietly
<1>8. CASE UNCHANGED vars
  BY <1>2, <1>8 DEF vars, artifacts
<1> QED BY <1>3, <1>4, <1>5, <1>6, <1>7, <1>8 DEF Next

-----------------------------------------------------------------------------
(* The theorem. *)

\* Between runs latest.json describes the image that :latest is, whoever asked
\* for what and whichever runs were cancelled, provided every run that began to
\* push went through and moved the standard tags.
THEOREM WorkerIsCurrent == Spec => []CurrentWorker
<1>1. Init => MInv
  BY DEF Init, MInv, TodoInv, Agree, Indices, Tag
<1>2. IInv /\ MInv /\ [Next]_vars => MInv'
  BY ManifestNext
<1>3. MInv => CurrentWorker
  BY DEF MInv, Agree, Clean, Whole, CurrentWorker
<1> QED BY <1>1, <1>2, <1>3, Invariant, PTL DEF Spec
=============================================================================
