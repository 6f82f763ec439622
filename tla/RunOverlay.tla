----------------------------- MODULE RunOverlay -----------------------------
(***************************************************************************)
(* The dashboard's "queued" overlay: the script of the page that           *)
(* dispatches runs of one activity, remembers them per browser             *)
(* (localStorage), finds out which run of GitHub each became, and paints   *)
(* the cells until a page of the generator says it itself.  A dispatch     *)
(* answers without the id of its run, the run is listed some time later,   *)
(* and the chain of dispatches and the lookups die with the page.  Time is *)
(* counted in clicks, which order an entry and a result, and in ticks of   *)
(* some minutes, which age an entry.                                       *)
(***************************************************************************)
EXTENDS Integers, Sequences, FiniteSets

CONSTANTS
  Setups,        \* records [mode, plats, cells, clicks]: the activity and the first page,
                 \* whose revisions are numbers, a larger one is older
  QTTL, QDONE,   \* ticks an unconfirmed, and a finished, entry is kept
  MaxRuns        \* bound; clicks bounds a setup

ASSUME OverlayAssumption ==
  /\ \A s \in Setups : DOMAIN s.cells \subseteq Nat /\ IsFiniteSet(s.plats)
  /\ {QTTL, QDONE, MaxRuns} \subseteq Nat

VARIABLES
  setup,
  runs,    \* the dispatched runs, in the order of their ids: [wf, cells, listed, st, born, at]
  server,  \* cell |-> what the deployed page has there: [kind, ts]
  dom,     \* cell |-> what this page has there: [kind, ts, html, painted]
  store,   \* cell |-> the remembered entry, or None
  jobs,    \* what the chain has still to dispatch: [shared, single, t0]
  tok,     \* the browser has a token
  clicks, since   \* since: the runs that existed at the last tick

page == <<dom, store>>
vars == <<setup, runs, server, page, jobs, tok, clicks, since>>

Cell == DOMAIN setup.cells

None   == [none |-> TRUE]
NoOrig == "none"
NoJobs == [shared |-> {}, single |-> {}, t0 |-> None]

\* A page that was just loaded.
Fresh(s) == [kind |-> s.kind, ts |-> s.ts, painted |-> FALSE,
             html |-> IF s.kind = "arrow" THEN "arrow" ELSE "base"]

Init ==
  /\ setup \in Setups
  /\ server = setup.cells /\ dom = [c \in Cell |-> Fresh(server[c])]
  /\ runs = <<>> /\ store = [c \in Cell |-> None] /\ jobs = NoJobs
  /\ tok = TRUE /\ clicks = 0 /\ since = 0

-----------------------------------------------------------------------------
(* Entries and cells. *)

\* Platforms whose runs are one shared dispatch in the chain.
Shared == CASE setup.mode = "gallery" -> {"all"}
            [] setup.mode = "batch"   -> setup.plats \cap {"windows"}
            [] OTHER                  -> {}
Single == IF setup.mode = "gallery" THEN {} ELSE setup.plats \ Shared
Wf(p)  == IF setup.mode = "gallery" THEN "gallery" ELSE p
SharedWf == IF setup.mode = "gallery" THEN "gallery" ELSE "batch"

Captured(e) == {e.runs[p] : p \in DOMAIN e.runs}
Over(e)     == e.failed \/ e.done >= 0

\* The cell has a result or a run of the server's (resultCell).
HasResult(d) == d.kind # "arrow"
Newer(d, e)  == HasResult(d) /\ d.ts >= e.t0.ts

\* markQueued: a new entry, of the earlier one only the runs; the badge; and
\* the result it covers, when the cell is found by it.
Marked(prev, d, plats, t0) ==
  [entry |-> [t0 |-> t0, plats |-> plats, batch |-> FALSE, failed |-> FALSE, done |-> -1,
              active |-> QTTL + 1,
              orig |-> IF d.html = "arrow" \/ d.painted THEN NoOrig ELSE d.html,
              runs |-> IF prev = None THEN <<>> ELSE prev.runs],
   dom   |-> [d EXCEPT !.html = "queued", !.painted = TRUE]]

\* qForget: the cell gets back what the badge covered, or a run arrow.
Restored(d, e) ==
  IF ~d.painted THEN d
  ELSE [d EXCEPT !.painted = FALSE,
                 !.html = IF e # None /\ e.orig # NoOrig THEN e.orig ELSE "arrow"]

\* Mutant of Alive: a token is enough.
AliveWithToken(e) == tok \/ e.t0.age <= QTTL \/ e.active <= QTTL

\* Mutant of Alive: only the optimistic window counts.
AliveInWindow(e) == e.t0.age <= QTTL

\* An entry stays while its run can still be asked about, or is recent.
Alive(e) == (Captured(e) # {} /\ tok) \/ e.t0.age <= QTTL \/ e.active <= QTTL

\* Mutant of Applied: any result ends a failed entry.
AppliedForgets(e, d) ==
  IF e = None \/ (e.failed /\ HasResult(d)) THEN [entry |-> None, dom |-> d]
  ELSE [entry |-> e,
        dom   |-> [d EXCEPT !.html = IF e.failed THEN "failed" ELSE "queued", !.painted = TRUE]]

\* applyQueued for one cell: paint it, or forget the entry.  A badge whose
\* entry is forgotten stays on this page.
Applied(e, d) ==
  LET drop       == [entry |-> None, dom |-> d]
      kept       == IF HasResult(d) /\ e.orig = NoOrig THEN [e EXCEPT !.orig = d.html] ELSE e
      paint(x, h) == [entry |-> x, dom |-> [d EXCEPT !.html = h, !.painted = TRUE]]
  IN CASE e = None -> drop
       [] e # None /\ e.failed -> IF Newer(d, e) THEN drop ELSE paint(kept, "failed")
       [] OTHER ->
            IF \/ e.done >= 0 /\ (HasResult(d) \/ e.done > QDONE)
               \/ ~Alive(e)
               \/ ~d.painted /\ d.html # "arrow" /\ Newer(d, e)
            THEN drop
            ELSE paint(IF d.painted \/ d.html = "arrow" THEN e ELSE kept, "queued")

ApplyQueued(s, d) ==
  LET new == [c \in Cell |-> Applied(s[c], d[c])]
  IN /\ store' = [c \in Cell |-> new[c].entry]
     /\ dom' = [c \in Cell |-> new[c].dom]

-----------------------------------------------------------------------------
(* The user and the chain of dispatches. *)

Now(ts) == [ts |-> ts, since |-> since, age |-> 0]

\* GitHub makes a run of each workflow in wfs.
Made(wfs, cells) ==
  LET new(w) == [wf |-> w, cells |-> cells, listed |-> FALSE, st |-> "active", born |-> clicks, at |-> 0]
  IN /\ Len(runs) + Cardinality(wfs) <= MaxRuns
     /\ \E order \in [1..Cardinality(wfs) -> wfs] :
          /\ {order[i] : i \in DOMAIN order} = wfs
          /\ runs' = runs \o [i \in DOMAIN order |-> new(order[i])]

\* dispatchCells: every cell is painted before the first dispatch, once for
\* the shared run and once for its own, and then stamped for the batch.
Dispatch(S) ==
  /\ tok /\ jobs = NoJobs /\ clicks < setup.clicks /\ clicks' = clicks + 1
  /\ LET t0       == Now(clicks')
         first(c) == IF Shared = {} THEN [entry |-> store[c], dom |-> dom[c]]
                     ELSE Marked(store[c], dom[c], Shared, t0)
         mark(c)  == IF Single = {} THEN first(c) ELSE Marked(first(c).entry, first(c).dom, Single, t0)
     IN /\ store' = [c \in Cell |-> IF c \in S THEN [mark(c).entry EXCEPT !.batch = Shared = {"windows"}]
                                    ELSE store[c]]
        /\ dom' = [c \in Cell |-> IF c \in S THEN mark(c).dom ELSE dom[c]]
        /\ jobs' = [shared |-> IF Shared = {} THEN {} ELSE S, single |-> IF Single = {} THEN {} ELSE S,
                    t0 |-> t0]
  /\ UNCHANGED <<setup, runs, server, tok, since>>

Forget(S) ==
  /\ store' = [c \in Cell |-> IF c \in S THEN None ELSE store[c]]
  /\ dom' = [c \in Cell |-> IF c \in S THEN Restored(dom[c], store[c]) ELSE dom[c]]

Left(j) == IF j.shared = {} /\ j.single = {} THEN NoJobs ELSE j

\* The shared dispatch comes first; refused, it takes its badges with it.
DispatchShared ==
  /\ jobs.shared # {} /\ jobs' = Left([jobs EXCEPT !.shared = {}])
  /\ \/ /\ tok /\ Made({SharedWf}, jobs.shared)
        /\ UNCHANGED <<page, tok>>
     \/ /\ Forget(jobs.shared) /\ tok' \in {tok, FALSE} /\ UNCHANGED runs
  /\ UNCHANGED <<setup, server, clicks, since>>

\* Then one revision after the other, the oldest first.
DispatchNext ==
  /\ jobs.shared = {} /\ jobs.single # {}
  /\ LET c == CHOOSE x \in jobs.single : \A y \in jobs.single : y <= x
     IN /\ jobs' = Left([jobs EXCEPT !.single = @ \ {c}])
        /\ \/ \E ok \in (SUBSET Single) \ {{}} :
                LET m == Marked(store[c], dom[c], ok, jobs.t0)
                IN /\ tok /\ Made({Wf(p) : p \in ok}, {c})
                   /\ store' = [store EXCEPT ![c] = m.entry] /\ dom' = [dom EXCEPT ![c] = m.dom]
                   /\ tok' \in {tok, tok /\ ok = Single}
           \/ Forget({c}) /\ tok' \in {tok, FALSE} /\ UNCHANGED runs
  /\ UNCHANGED <<setup, server, clicks, since>>

\* runNow, from the arrow or from the dialog of a failed run, whose badge is
\* forgotten first.  A 401 leaves the cell alone.
RunNow(c) ==
  /\ tok /\ clicks < setup.clicks /\ clicks' = clicks + 1
  /\ LET again == store[c] # None /\ store[c].failed
         prev  == IF again THEN None ELSE store[c]
         cell  == IF again THEN Restored(dom[c], store[c]) ELSE dom[c]
     IN /\ again \/ cell.html = "arrow"
        /\ \E ok \in (SUBSET setup.plats) \ {{}} :
             LET m == Marked(prev, cell, ok, Now(clicks'))
             IN /\ Made({Wf(p) : p \in ok}, {c})
                /\ store' = [store EXCEPT ![c] = m.entry] /\ dom' = [dom EXCEPT ![c] = m.dom]
  /\ UNCHANGED <<setup, server, jobs, tok, since>>

\* Cancelling runs that are known, all of them accepted, or dismissing a failure.
Drop(c) ==
  /\ store[c] # None
  /\ store[c].failed \/ (tok /\ Captured(store[c]) # {})
  /\ Forget({c})
  /\ UNCHANGED <<setup, runs, server, jobs, tok, clicks, since>>

\* A token that is forgotten, or rejected in a dialog.
LoseToken ==
  /\ tok /\ tok' = FALSE
  /\ UNCHANGED <<setup, runs, server, page, jobs, clicks, since>>

-----------------------------------------------------------------------------
(* Finding the runs, and judging by them. *)

Claimed == UNION {Captured(store[c]) : c \in {x \in Cell : store[x] # None}}

Listed(wf, n) == {i \in DOMAIN runs : runs[i].wf = wf /\ runs[i].listed /\ i > n}
Latest(S)     == CHOOSE i \in S : \A j \in S : j <= i

\* Mutant of Free: runs of other cells are up for grabs.
FreeOfAll(e, p) == Listed(Wf(p), e.t0.since)

\* The runs a lookup may take for platform p: of its workflow, made after the
\* click (or twelve seconds before it), of no other cell.
Free(e, p) == Listed(Wf(p), e.t0.since) \ Claimed

\* captureRuns, which a dispatch, a dialog and qSync start and which tries
\* again: the newest free run for platforms without one.
Capture(c) ==
  /\ tok /\ store[c] # None
  /\ LET e    == store[c]
         need == {p \in e.plats \ {"all"} : p \notin DOMAIN e.runs /\ Free(e, p) # {}}
     IN /\ need # {} /\ ~(e.batch /\ e.runs = <<>>)
        /\ store' = [store EXCEPT ![c].runs =
                       [p \in DOMAIN e.runs \cup need |-> IF p \in need THEN Latest(Free(e, p)) ELSE e.runs[p]]]
  /\ UNCHANGED <<setup, runs, server, dom, jobs, tok, clicks, since>>

\* captureSnapshotRun, captureBatchRun: the newest run since the click of one
\* of them goes to every entry of the group that has none.
CaptureShared ==
  LET group == {c \in Cell : /\ store[c] # None /\ store[c].runs = <<>>
                             /\ setup.mode = "gallery" \/ store[c].batch}
  IN /\ tok
     /\ \E c \in group :
          /\ Listed(SharedWf, store[c].t0.since) # {}
          /\ store' = [d \in Cell |->
               IF d \notin group THEN store[d]
               ELSE [store[d] EXCEPT !.runs = [p \in {CHOOSE q \in store[d].plats : TRUE} |->
                                                 Latest(Listed(SharedWf, store[c].t0.since))]]]
     /\ UNCHANGED <<setup, runs, server, dom, jobs, tok, clicks, since>>

\* The verdict on an entry from the runs GitHub answered about.
Judged(e, known) ==
  LET ids      == Captured(e)
      st       == {runs[i].st : i \in ids \cap known}
      answered == ids # {} /\ ids \subseteq known
  IN CASE "active" \in st                                     -> [e EXCEPT !.active = 0]
       [] answered /\ "failed" \in st /\ "active" \notin st   -> [e EXCEPT !.failed = TRUE]
       [] answered /\ st \cap {"failed", "active"} = {}       -> [e EXCEPT !.done = 0]
       [] OTHER                                               -> e

\* qSync, which also starts the lookups of the entries that have no run.
Sync(known) ==
  LET live == {c \in Cell : store[c] # None /\ ~Over(store[c])}
      new  == [c \in Cell |-> IF c \in live THEN Judged(store[c], known) ELSE store[c]]
  IN /\ tok /\ \E c \in live : Captured(store[c]) \cap known # {}
     /\ ApplyQueued(new, dom)
     /\ UNCHANGED <<setup, runs, server, jobs, tok, clicks, since>>

\* The tab is shown again.
Recheck ==
  /\ ApplyQueued(store, dom)
  /\ UNCHANGED <<setup, runs, server, jobs, tok, clicks, since>>

\* A reload, by the user, the refresh of the page, or qArmReload.
Reload ==
  /\ ApplyQueued(store, [c \in Cell |-> Fresh(server[c])])
  /\ jobs' = NoJobs
  /\ UNCHANGED <<setup, runs, server, tok, clicks, since>>

-----------------------------------------------------------------------------
(* GitHub, the generator, the clock. *)

List(i) ==
  /\ ~runs[i].listed /\ runs' = [runs EXCEPT ![i].listed = TRUE]
  /\ UNCHANGED <<setup, server, page, jobs, tok, clicks, since>>

Finish(i) ==
  /\ runs[i].st = "active"
  /\ \E st \in {"ok", "failed"} : runs' = [runs EXCEPT ![i].st = st, ![i].at = clicks]
  /\ UNCHANGED <<setup, server, page, jobs, tok, clicks, since>>

\* What a page may have for a cell: an active run, or the latest run's
\* result or, when it reported none, its death.
Served(c) ==
  LET mine == {i \in DOMAIN runs : c \in runs[i].cells}
      last == runs[Latest(mine)]
  IN IF mine = {} THEN {server[c]}
     ELSE IF \E i \in mine : runs[i].st = "active" THEN {[kind |-> "active", ts |-> 0]}
     ELSE IF last.st = "ok" THEN {[kind |-> "result", ts |-> last.at]}
     ELSE {[kind |-> "result", ts |-> last.at], [kind |-> "failed", ts |-> last.born]}

\* A page is built and deployed.
Rebuild ==
  /\ server' \in [Cell -> UNION {Served(c) : c \in Cell}]
  /\ \A c \in Cell : server'[c] \in Served(c)
  /\ UNCHANGED <<setup, runs, page, jobs, tok, clicks, since>>

Older(n, max) == IF n < 0 \/ n > max THEN n ELSE n + 1

Tick ==
  /\ store' = [c \in Cell |-> IF store[c] = None THEN None
                 ELSE [store[c] EXCEPT !.t0.age = Older(@, QTTL), !.active = Older(@, QTTL),
                                       !.done = Older(@, QDONE)]]
  /\ jobs' = IF jobs = NoJobs THEN jobs ELSE [jobs EXCEPT !.t0.age = Older(@, QTTL)]
  /\ since' = Len(runs)
  /\ UNCHANGED <<setup, runs, server, dom, tok, clicks>>

User   == (\E S \in (SUBSET Cell) \ {{}} : Dispatch(S)) \/ (\E c \in Cell : RunNow(c) \/ Drop(c)) \/ LoseToken
Chain  == DispatchShared \/ DispatchNext
Lookup == (\E c \in Cell : Capture(c)) \/ CaptureShared
GitHub == (\E i \in DOMAIN runs : List(i) \/ Finish(i)) \/ Rebuild

Next == User \/ Chain \/ Lookup \/ GitHub \/ Tick \/ Recheck \/ Reload
        \/ \E known \in SUBSET DOMAIN runs : Sync(known)

\* Time passes, the page refreshes itself, it is answered about every run it
\* asks for again and again, and GitHub ends every run.
Spec == Init /\ [][Next]_vars
        /\ WF_vars(Tick) /\ WF_vars(Reload) /\ WF_vars(Sync(DOMAIN runs))
        /\ WF_vars(\E i \in DOMAIN runs : Finish(i))

-----------------------------------------------------------------------------
(* Properties. *)

\* A lookup never takes the run of another cell (claimedRunIds): outside the
\* runs a group shares, no run is captured by two cells.
NoDoubleClaim ==
  \A c, d \in Cell : c # d /\ store[c] # None /\ store[d] # None =>
    \A i \in Captured(store[c]) \cap Captured(store[d]) : runs[i].wf = SharedWf

Background == Reload \/ Recheck \/ \E known \in SUBSET DOMAIN runs : Sync(known)

\* A cell never silently reverts: a page with a token does not by itself
\* forget an entry one of whose runs is active, unless the page brings a
\* newer result (the comment of qSync; applyQueued).
NoSilentRevert ==
  [][\A c \in Cell :
       /\ store[c] # None /\ store'[c] = None /\ tok /\ ~Over(store[c])
       /\ \E i \in Captured(store[c]) : runs[i].st = "active"
       /\ Background
       => Newer(dom'[c], store[c])]_vars

\* A failure stays until the user acts on it or a result newer than the
\* dispatch is there (qPaintFailed: it never reverts on its own).
FailureSticks ==
  [][\A c \in Cell :
       store[c] # None /\ store'[c] = None /\ store[c].failed /\ Background
       => Newer(dom'[c], store[c])]_vars

\* No fake spinner is wedged: in the end no cell shows "Queued" from this
\* browser (the comment of QTTL).
SpinnersEnd == <>[](\A c \in Cell : dom[c].html # "queued")

\* A cell whose badge is gone shows its result again (markQueued: "remember
\* its original badge so a failed/cancelled dispatch can restore it").
ResultRestored ==
  \A c \in Cell : ~dom[c].painted /\ HasResult(dom[c]) => dom[c].html = "base"

\* A run that a cell captures is a run of that cell.
NoForeignClaim ==
  \A c \in Cell : store[c] # None => \A i \in Captured(store[c]) : c \in runs[i].cells

=============================================================================
