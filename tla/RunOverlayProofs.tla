-------------------------- MODULE RunOverlayProofs --------------------------
(***************************************************************************)
(* What RunOverlay promises for any activity, page and number of clicks:   *)
(* no run is claimed by two cells, and neither a cell that runs nor a      *)
(* failure is forgotten without a newer result.                            *)
(* Only Capture and CaptureShared give an entry a run; every other step    *)
(* keeps the runs of an entry, or drops them (Carried).                    *)
(***************************************************************************)
EXTENDS RunOverlay, FiniteSetTheorems, SequenceTheorems, WellFoundedInduction, TLAPS

-----------------------------------------------------------------------------
(* The inductive invariant. *)

RunFields   == {"wf", "cells", "listed", "st", "born", "at"}
EntryFields == {"t0", "plats", "batch", "failed", "done", "active", "orig", "runs"}

IsEntry(e) == DOMAIN e = EntryFields

RunsShape ==
  /\ runs \in Seq({runs[i] : i \in DOMAIN runs})
  /\ \A i \in DOMAIN runs : DOMAIN runs[i] = RunFields

StoreShape ==
  /\ store = [c \in Cell |-> store[c]]
  /\ \A c \in Cell : store[c] = None \/ IsEntry(store[c])

\* What a cell has captured is a run.
Real == \A c \in Cell : store[c] # None => Captured(store[c]) \subseteq DOMAIN runs

Inv == setup \in Setups /\ RunsShape /\ StoreShape /\ Real /\ NoDoubleClaim

LEMMA NotNone ==
  ASSUME NEW e, IsEntry(e)
  PROVE  e # None
<1>1. "none" \in DOMAIN None /\ "none" \notin EntryFields
  BY DEF None, EntryFields
<1> QED BY <1>1 DEF IsEntry

\* The runs of the new entry are those of the old one, or none.
Inherits(new, old) ==
  new = None \/ (IsEntry(new) /\ (new.runs = <<>> \/ (old # None /\ new.runs = old.runs)))

\* No run is forgotten, and none changes its workflow.
Grown ==
  /\ RunsShape'
  /\ \A i \in DOMAIN runs : i \in DOMAIN runs' /\ runs'[i].wf = runs[i].wf

LEMMA Same ==
  ASSUME RunsShape, runs' = runs
  PROVE  Grown
  BY DEF RunsShape, Grown

\* A step that gives no entry a run.
LEMMA Carried ==
  ASSUME Inv, setup' = setup, Grown, store' = [c \in Cell |-> store'[c]],
         \A c \in Cell : Inherits(store'[c], store[c])
  PROVE  Inv'
<1>1. Cell' = Cell /\ SharedWf' = SharedWf
  BY DEF Cell, SharedWf
<1>2. StoreShape'
  BY <1>1 DEF StoreShape, Inherits
<1>3. ASSUME NEW c \in Cell, store'[c] # None
      PROVE  Captured(store'[c]) = {} \/ (store[c] # None /\ Captured(store'[c]) = Captured(store[c]))
  BY <1>3 DEF Inherits, Captured
<1>4. Real'
  BY <1>1, <1>3 DEF Inv, Real, Grown
<1>5. NoDoubleClaim'
  <2> SUFFICES ASSUME NEW c \in Cell, NEW d \in Cell, c # d, store'[c] # None, store'[d] # None,
                      NEW i \in Captured(store'[c]) \cap Captured(store'[d])
               PROVE  runs'[i].wf = SharedWf
    BY <1>1 DEF NoDoubleClaim
  <2>1. /\ store[c] # None /\ i \in Captured(store[c])
        /\ store[d] # None /\ i \in Captured(store[d])
    BY <1>3
  <2>2. runs[i].wf = SharedWf /\ i \in DOMAIN runs
    BY <2>1 DEF Inv, NoDoubleClaim, Real
  <2> QED BY <2>2 DEF Grown
<1> QED BY <1>2, <1>4, <1>5 DEF Inv, Grown

-----------------------------------------------------------------------------
(* Runs. *)

LEMMA Listing ==
  ASSUME NEW T, NEW n \in Nat, NEW f \in [1..n -> T]
  PROVE  f \in Seq(T)
  OBVIOUS

\* One field of a run changes, not its workflow.
LEMMA Updated ==
  ASSUME RunsShape, NEW i \in DOMAIN runs, NEW r, DOMAIN r = RunFields, r.wf = runs[i].wf,
         runs' = [runs EXCEPT ![i] = r]
  PROVE  Grown
<1>1. Len(runs) \in Nat /\ DOMAIN runs = 1..Len(runs) /\ runs = [k \in 1..Len(runs) |-> runs[k]]
  BY LenProperties DEF RunsShape
<1>2. runs' = [k \in 1..Len(runs) |-> runs'[k]] /\ DOMAIN runs' = DOMAIN runs
  BY <1>1
<1>3. runs' \in Seq({runs'[k] : k \in DOMAIN runs'})
  <2> DEFINE T == {runs'[k] : k \in DOMAIN runs'}
  <2>1. runs' \in [1..Len(runs) -> T]
    BY <1>1, <1>2
  <2> HIDE DEF T
  <2>2. runs' \in Seq(T)
    BY <1>1, <2>1, Listing, Zenon
  <2> QED BY <2>2 DEF T
<1>4. \A k \in DOMAIN runs : runs'[k] = IF k = i THEN r ELSE runs[k]
  OBVIOUS
<1> QED BY <1>2, <1>3, <1>4 DEF RunsShape, Grown

\* New runs come after the others.
LEMMA Making ==
  ASSUME RunsShape, NEW wfs, IsFiniteSet(wfs), NEW cells, Made(wfs, cells)
  PROVE  Grown
<1> DEFINE n == Cardinality(wfs)
           new(w) == [wf |-> w, cells |-> cells, listed |-> FALSE, st |-> "active", born |-> clicks, at |-> 0]
<1>1. n \in Nat
  BY FS_CardinalityType
<1>2. PICK order \in [1..n -> wfs] : runs' = runs \o [i \in DOMAIN order |-> new(order[i])]
  BY Zenon DEF Made
<1> DEFINE more == [i \in DOMAIN order |-> new(order[i])]
           Old  == {runs[i] : i \in DOMAIN runs}
           All  == Old \cup {new(w) : w \in wfs}
<1>3. DOMAIN order = 1..n
  OBVIOUS
<1>4. more \in [1..n -> All]
  BY <1>3
<1>5. \A x \in {new(w) : w \in wfs} : DOMAIN x = RunFields
  BY DEF RunFields
<1>. HIDE DEF new
<1>6. more \in Seq(All) /\ Len(more) = n
  <2> HIDE DEF more, All, n
  <2> QED BY <1>1, <1>4
<1>7. runs \in Seq(Old) /\ Old \subseteq All
  BY DEF RunsShape
<1>8. runs \in Seq(All)
  <2> HIDE DEF Old, All
  <2> QED BY <1>7
<1>9. runs' = runs \o more
  BY <1>2
<1>10. \A x \in All : DOMAIN x = RunFields
  BY <1>5 DEF RunsShape
<1>. HIDE DEF more, Old, All, n
<1>11. /\ runs' \in Seq(All) /\ Len(runs') = Len(runs) + Len(more)
       /\ Len(runs) \in Nat /\ DOMAIN runs = 1..Len(runs) /\ DOMAIN runs' = 1..Len(runs')
       /\ \A i \in 1..Len(runs) : runs'[i] = runs[i]
  <2>1. /\ Len(runs) \in Nat /\ DOMAIN runs = 1..Len(runs)
    BY <1>8, LenProperties
  <2>2. /\ runs' \in Seq(All) /\ Len(runs') = Len(runs) + Len(more)
        /\ \A i \in 1..Len(runs) + Len(more) :
             runs'[i] = IF i <= Len(runs) THEN runs[i] ELSE more[i - Len(runs)]
    BY <1>6, <1>8, <1>9, ConcatProperties
  <2>3. DOMAIN runs' = 1..Len(runs')
    BY <2>2, LenProperties
  <2>4. \A i \in 1..Len(runs) : i \in 1..Len(runs) + Len(more) /\ i <= Len(runs)
    BY <1>1, <1>6, <2>1
  <2> QED BY <2>1, <2>2, <2>3, <2>4
<1>12. \A i \in DOMAIN runs' : runs'[i] \in All
  BY <1>11
<1>13. runs' \in Seq({runs'[i] : i \in DOMAIN runs'})
  <2> DEFINE T == {runs'[i] : i \in DOMAIN runs'}
  <2>1. Len(runs') \in Nat /\ runs' = [i \in 1..Len(runs') |-> runs'[i]]
    BY <1>11
  <2>2. runs' \in [1..Len(runs') -> T]
    BY <1>11, <2>1
  <2> HIDE DEF T
  <2>3. runs' \in Seq(T)
    BY <2>1, <2>2
  <2> QED BY <2>3 DEF T
<1>14. \A i \in DOMAIN runs : i \in DOMAIN runs' /\ runs'[i] = runs[i]
  BY <1>1, <1>6, <1>11
<1> QED BY <1>10, <1>12, <1>13, <1>14 DEF RunsShape, Grown

\* The newest of some runs is one of them.
LEMMA LatestIn ==
  ASSUME RunsShape, NEW S \in SUBSET DOMAIN runs, S # {}
  PROVE  Latest(S) \in S
<1>1. Len(runs) \in Nat /\ DOMAIN runs = 1..Len(runs)
  BY LenProperties DEF RunsShape
<1> DEFINE T == {Len(runs) - i : i \in S}
<1>2. T \subseteq Nat /\ T # {}
  BY <1>1
<1>3. \E x \in T : \A y \in T : <<y, x>> \notin OpToRel(<, Nat)
  <2> HIDE DEF T
  <2> QED BY <1>2, NatLessThanWellFounded, WFMin, Zenon
<1>4. PICK x \in T : \A y \in T : <<y, x>> \notin OpToRel(<, Nat)
  BY <1>3
<1>5. \A y \in T : ~(y < x)
  <2> SUFFICES ASSUME NEW y \in T, y < x
               PROVE  FALSE
    OBVIOUS
  <2>1. y \in Nat /\ x \in Nat
    BY <1>2
  <2>2. <<y, x>> \in OpToRel(<, Nat)
    BY <2>1, Zenon DEF OpToRel
  <2> QED BY <2>2, <1>4
<1>6. PICK i \in S : x = Len(runs) - i
  OBVIOUS
<1>7. \A j \in S : j <= i
  <2> SUFFICES ASSUME NEW j \in S
               PROVE  j <= i
    OBVIOUS
  <2>1. ~(Len(runs) - j < Len(runs) - i)
    BY <1>5, <1>6
  <2> QED BY <2>1, <1>1
<1>. HIDE DEF T
<1> QED BY <1>7 DEF Latest

\* The workflows of some platforms.
LEMMA FewWorkflows ==
  ASSUME setup \in Setups, NEW ok \in SUBSET setup.plats
  PROVE  IsFiniteSet({Wf(p) : p \in ok})
<1>1. IsFiniteSet(ok)
  BY OverlayAssumption, FS_Subset
<1> DEFINE f == [p \in ok |-> Wf(p)]
           T == {Wf(p) : p \in ok}
<1>2. f \in Surjection(ok, T)
  BY DEF Surjection
<1>. HIDE DEF f, T
<1>3. IsFiniteSet(T)
  BY <1>1, <1>2, FS_Surjection
<1> QED BY <1>3 DEF T

-----------------------------------------------------------------------------
(* Entries. *)

LEMMA Kept ==
  ASSUME NEW e, e = None \/ IsEntry(e)
  PROVE  Inherits(e, e)
  BY NotNone DEF Inherits

LEMMA Trans ==
  ASSUME NEW a, NEW b, NEW c, Inherits(a, b), Inherits(b, c)
  PROVE  Inherits(a, c)
  BY DEF Inherits

\* markQueued keeps the runs of the entry before.
LEMMA MarkedEntry ==
  ASSUME NEW prev, prev = None \/ IsEntry(prev), NEW d, NEW plats, NEW t0
  PROVE  IsEntry(Marked(prev, d, plats, t0).entry) /\ Inherits(Marked(prev, d, plats, t0).entry, prev)
<1> DEFINE e == Marked(prev, d, plats, t0).entry
<1>1. DOMAIN e = EntryFields /\ e.runs = IF prev = None THEN <<>> ELSE prev.runs
  BY DEF Marked, EntryFields
<1>. HIDE DEF e
<1>2. IsEntry(e) /\ Inherits(e, prev)
  BY <1>1 DEF IsEntry, Inherits
<1> QED BY <1>2 DEF e

\* applyQueued keeps or forgets an entry; a failure, or a run that can still
\* be asked about, only for a newer result.
LEMMA AppliedEntry ==
  ASSUME NEW e, e = None \/ IsEntry(e), NEW d
  PROVE  /\ Inherits(Applied(e, d).entry, e)
         /\ e # None /\ Applied(e, d).entry = None /\ (e.failed \/ (~Over(e) /\ Alive(e)))
              => Applied(e, d).dom = d /\ Newer(d, e)
<1> DEFINE drop == [entry |-> None, dom |-> d]
           kept == IF HasResult(d) /\ e.orig = NoOrig THEN [e EXCEPT !.orig = d.html] ELSE e
           paint(x, h) == [entry |-> x, dom |-> [d EXCEPT !.html = h, !.painted = TRUE]]
           a == Applied(e, d)
<1>1. e # None => IsEntry(kept) /\ kept.runs = e.runs
  <2> DEFINE o == [e EXCEPT !.orig = d.html]
  <2>1. IsEntry(e) => DOMAIN o = EntryFields /\ o.runs = e.runs
    BY DEF IsEntry, EntryFields
  <2>2. kept = o \/ kept = e
    OBVIOUS
  <2> HIDE DEF o, kept
  <2> QED BY <2>1, <2>2 DEF IsEntry
<1>2. \/ a = drop /\ (e # None => \/ e.failed /\ Newer(d, e)
                                  \/ ~e.failed /\ (e.done >= 0 \/ ~Alive(e) \/ Newer(d, e)))
      \/ e # None /\ \E h \in {"failed", "queued"} : a = paint(kept, h) \/ a = paint(e, h)
  <2>1. CASE e = None
    BY <2>1 DEF Applied
  <2>2. CASE e # None /\ e.failed
    BY <2>2 DEF Applied
  <2>3. CASE e # None /\ ~e.failed
    <3>1. a = IF \/ e.done >= 0 /\ (HasResult(d) \/ e.done > QDONE)
                 \/ ~Alive(e)
                 \/ ~d.painted /\ d.html # "arrow" /\ Newer(d, e)
              THEN drop
              ELSE paint(IF d.painted \/ d.html = "arrow" THEN e ELSE kept, "queued")
      BY <2>3 DEF Applied
    <3> HIDE DEF a, kept
    <3> QED BY <2>3, <3>1
  <2> QED BY <2>1, <2>2, <2>3
<1>. HIDE DEF a, kept
<1>3. (a.entry = None /\ a.dom = d) \/ (e # None /\ (a.entry = kept \/ a.entry = e))
  BY <1>2
<1>4. Inherits(a.entry, e)
  BY <1>1, <1>3 DEF Inherits
<1>5. e # None /\ a.entry = None => a = drop
  BY <1>1, <1>2, NotNone
<1>6. e # None /\ a.entry = None /\ (e.failed \/ (~Over(e) /\ Alive(e))) => a.dom = d /\ Newer(d, e)
  BY <1>1, <1>2, <1>5, NotNone DEF Over
<1> QED BY <1>4, <1>6 DEF a

\* The verdict of qSync changes neither the runs nor the click of an entry,
\* and an active run is none.
LEMMA JudgedEntry ==
  ASSUME NEW e, IsEntry(e), NEW known
  PROVE  LET j == Judged(e, known)
         IN /\ IsEntry(j) /\ j.runs = e.runs /\ j.t0 = e.t0
            /\ (\E i \in Captured(e) : runs[i].st = "active") => j.failed = e.failed /\ j.done = e.done
<1> DEFINE j == Judged(e, known)
           ids == Captured(e)
           st == {runs[i].st : i \in ids \cap known}
           a == [e EXCEPT !.active = 0]
           f == [e EXCEPT !.failed = TRUE]
           o == [e EXCEPT !.done = 0]
<1>1. /\ DOMAIN a = EntryFields /\ a.runs = e.runs /\ a.t0 = e.t0 /\ a.failed = e.failed /\ a.done = e.done
      /\ DOMAIN f = EntryFields /\ f.runs = e.runs /\ f.t0 = e.t0
      /\ DOMAIN o = EntryFields /\ o.runs = e.runs /\ o.t0 = e.t0
  BY DEF IsEntry, EntryFields
<1>2. j \in {e, a} \/ (j \in {f, o} /\ "active" \notin st /\ ids \subseteq known)
  <2>1. j = CASE "active" \in st -> a
              [] ids # {} /\ ids \subseteq known /\ "failed" \in st /\ "active" \notin st -> f
              [] ids # {} /\ ids \subseteq known /\ st \cap {"failed", "active"} = {}     -> o
              [] OTHER -> e
    BY Zenon DEF Judged
  <2> HIDE DEF j, ids, st, a, f, o
  <2> QED BY <2>1
<1>3. "active" \notin st /\ ids \subseteq known => \A i \in ids : runs[i].st # "active"
  OBVIOUS
<1>. HIDE DEF j, ids, st, a, f, o
<1>4. /\ IsEntry(j) /\ j.runs = e.runs /\ j.t0 = e.t0
      /\ (\E i \in ids : runs[i].st = "active") => j.failed = e.failed /\ j.done = e.done
  BY <1>1, <1>2, <1>3 DEF IsEntry
<1> QED BY <1>4 DEF j, ids

-----------------------------------------------------------------------------
(* The steps. *)

LEMMA StoreOf ==
  ASSUME StoreShape, NEW c \in Cell
  PROVE  store[c] = None \/ IsEntry(store[c])
  BY DEF StoreShape

\* applyQueued, of the store or of what qSync has made of it.
LEMMA Applying ==
  ASSUME Inv, UNCHANGED <<setup, runs>>, NEW s, NEW d, ApplyQueued(s, d),
         \A c \in Cell : s[c] = None \/ IsEntry(s[c]),
         \A c \in Cell : Inherits(s[c], store[c])
  PROVE  Inv'
<1>1. store' = [c \in Cell |-> Applied(s[c], d[c]).entry]
  BY DEF ApplyQueued
<1>2. \A c \in Cell : Inherits(store'[c], store[c])
  <2> SUFFICES ASSUME NEW c \in Cell
               PROVE  Inherits(store'[c], store[c])
    OBVIOUS
  <2>1. Inherits(Applied(s[c], d[c]).entry, s[c])
    BY AppliedEntry
  <2>2. Inherits(Applied(s[c], d[c]).entry, store[c])
    BY <2>1, Trans
  <2> QED BY <2>2, <1>1
<1>3. Grown
  BY Same DEF Inv
<1> QED BY <1>1, <1>2, <1>3, Carried

\* One cell is given an entry that inherits, or that of the cell is forgotten.
LEMMA Putting ==
  ASSUME Inv, setup' = setup, Grown, NEW c, NEW e, store' = [store EXCEPT ![c] = e],
         c \in Cell => Inherits(e, store[c])
  PROVE  Inv'
<1>1. store = [x \in Cell |-> store[x]] /\ \A x \in Cell : Inherits(store[x], store[x])
  BY StoreOf, Kept DEF Inv, StoreShape
<1>2. store' = [x \in Cell |-> store'[x]] /\ \A x \in Cell : store'[x] = IF x = c THEN e ELSE store[x]
  BY <1>1
<1> QED BY <1>1, <1>2, Carried

LEMMA Forgetting ==
  ASSUME Inv, UNCHANGED <<setup, runs>>, NEW S, Forget(S)
  PROVE  Inv'
<1>1. store' = [c \in Cell |-> IF c \in S THEN None ELSE store[c]]
  BY DEF Forget
<1>2. store' = [c \in Cell |-> store'[c]] /\ \A c \in Cell : Inherits(store'[c], store[c])
  BY <1>1, StoreOf, Kept DEF Inv, Inherits
<1>3. Grown
  BY Same DEF Inv
<1> QED BY <1>2, <1>3, Carried

LEMMA Dispatching ==
  ASSUME Inv, NEW S \in SUBSET Cell, Dispatch(S)
  PROVE  Inv'
<1> DEFINE t0 == Now(clicks')
           first(c) == IF Shared = {} THEN [entry |-> store[c], dom |-> dom[c]]
                       ELSE Marked(store[c], dom[c], Shared, t0)
           mark(c) == IF Single = {} THEN first(c) ELSE Marked(first(c).entry, first(c).dom, Single, t0)
           put(c) == IF c \in S THEN [mark(c).entry EXCEPT !.batch = Shared = {"windows"}] ELSE store[c]
<1>1. store' = [c \in Cell |-> put(c)] /\ UNCHANGED <<setup, runs>>
  BY DEF Dispatch
<1>2. ASSUME NEW c \in Cell
      PROVE  Inherits(put(c), store[c])
  <2>0. store[c] = None \/ IsEntry(store[c])
    BY StoreOf DEF Inv
  <2>1. /\ first(c).entry = None \/ IsEntry(first(c).entry)
        /\ Inherits(first(c).entry, store[c])
    BY <2>0, Kept, MarkedEntry
  <2> HIDE DEF first
  <2>2. /\ mark(c).entry = None \/ IsEntry(mark(c).entry)
        /\ Inherits(mark(c).entry, store[c])
    <3>1. CASE Single = {}
      BY <2>1, <3>1
    <3>2. CASE Single # {}
      <4>1. mark(c) = Marked(first(c).entry, first(c).dom, Single, t0)
        BY <3>2
      <4> QED BY <2>1, <4>1, MarkedEntry, Trans
    <3> QED BY <3>1, <3>2
  <2> DEFINE m == mark(c).entry
             b == [m EXCEPT !.batch = Shared = {"windows"}]
  <2>3. m = None => b = None
    <3>1. DOMAIN None = {"none"}
      BY DEF None
    <3> HIDE DEF m, mark
    <3> QED BY <3>1 DEF None
  <2>4. IsEntry(m) => DOMAIN b = EntryFields /\ b.runs = m.runs
    <3> HIDE DEF m, mark
    <3> QED BY DEF IsEntry, EntryFields
  <2>5. Inherits(m, store[c]) /\ (m = None \/ IsEntry(m))
    BY <2>2
  <2> HIDE DEF m, mark
  <2>6. Inherits(b, store[c])
    <3> HIDE DEF b
    <3> QED BY <2>3, <2>4, <2>5 DEF Inherits, IsEntry
  <2> QED BY <2>0, <2>6, Kept DEF m
<1>. HIDE DEF put
<1>3. Grown
  BY <1>1, Same DEF Inv
<1>4. store' = [c \in Cell |-> store'[c]] /\ \A c \in Cell : store'[c] = put(c)
  BY <1>1
<1> QED BY <1>1, <1>2, <1>3, <1>4, Carried

\* One dispatch of the chain, or of an arrow.
LEMMA Sent ==
  ASSUME Inv, setup' = setup, NEW ok \in SUBSET setup.plats, NEW c, Made({Wf(p) : p \in ok}, {c}),
         NEW prev, NEW d, NEW t0,
         store' = [store EXCEPT ![c] = Marked(prev, d, ok, t0).entry],
         c \in Cell => prev = None \/ prev = store[c]
  PROVE  Inv'
<1>1. Grown
  BY FewWorkflows, Making DEF Inv
<1>2. c \in Cell => Inherits(Marked(prev, d, ok, t0).entry, store[c])
  <2> SUFFICES ASSUME c \in Cell
               PROVE  Inherits(Marked(prev, d, ok, t0).entry, store[c])
    OBVIOUS
  <2>1. (store[c] = None \/ IsEntry(store[c])) /\ Inherits(prev, store[c])
    BY StoreOf, Kept DEF Inv, Inherits
  <2>2. Inherits(Marked(prev, d, ok, t0).entry, prev)
    BY <2>1, MarkedEntry
  <2> QED BY <2>1, <2>2, Trans
<1> QED BY <1>1, <1>2, Putting

LEMMA Chaining ==
  ASSUME Inv, Chain
  PROVE  Inv'
<1>1. CASE DispatchShared
  <2>1. setup' = setup
    BY <1>1 DEF DispatchShared
  <2>2. CASE Made({SharedWf}, jobs.shared) /\ UNCHANGED store
    <3>1. IsFiniteSet({SharedWf})
      BY FS_Singleton
    <3>2. Grown
      BY <2>2, <3>1, Making DEF Inv
    <3>3. store' = [c \in Cell |-> store'[c]] /\ \A c \in Cell : Inherits(store'[c], store[c])
      BY <2>2, StoreOf, Kept DEF Inv, StoreShape
    <3> QED BY <2>1, <3>2, <3>3, Carried
  <2>3. CASE Forget(jobs.shared) /\ UNCHANGED runs
    BY <2>1, <2>3, Forgetting
  <2> QED BY <1>1, <2>2, <2>3 DEF DispatchShared, page
<1>2. CASE DispatchNext
  <2> DEFINE c == CHOOSE x \in jobs.single : \A y \in jobs.single : y <= x
  <2>1. /\ setup' = setup
        /\ \/ \E ok \in (SUBSET Single) \ {{}} :
                LET m == Marked(store[c], dom[c], ok, jobs.t0)
                IN Made({Wf(p) : p \in ok}, {c}) /\ store' = [store EXCEPT ![c] = m.entry]
           \/ Forget({c}) /\ UNCHANGED runs
    BY <1>2, Zenon DEF DispatchNext
  <2> HIDE DEF c
  <2>2. CASE Forget({c}) /\ UNCHANGED runs
    BY <2>1, <2>2, Forgetting
  <2>3. ASSUME NEW ok \in SUBSET Single, Made({Wf(p) : p \in ok}, {c}),
               store' = [store EXCEPT ![c] = Marked(store[c], dom[c], ok, jobs.t0).entry]
        PROVE  Inv'
    <3>1. ok \in SUBSET setup.plats
      BY DEF Single
    <3> QED BY <2>1, <2>3, <3>1, Sent
  <2> QED BY <2>1, <2>2, <2>3
<1> QED BY <1>1, <1>2 DEF Chain

LEMMA Arrow ==
  ASSUME Inv, NEW c \in Cell, RunNow(c)
  PROVE  Inv'
<1> DEFINE again == store[c] # None /\ store[c].failed
           prev  == IF again THEN None ELSE store[c]
           cell  == IF again THEN Restored(dom[c], store[c]) ELSE dom[c]
<1>1. /\ setup' = setup
      /\ \E ok \in (SUBSET setup.plats) \ {{}} :
           LET m == Marked(prev, cell, ok, Now(clicks'))
           IN Made({Wf(p) : p \in ok}, {c}) /\ store' = [store EXCEPT ![c] = m.entry]
  BY DEF RunNow
<1>2. prev = None \/ prev = store[c]
  OBVIOUS
<1>. HIDE DEF prev, cell, again
<1>3. PICK ok \in (SUBSET setup.plats) \ {{}} :
        Made({Wf(p) : p \in ok}, {c}) /\ store' = [store EXCEPT ![c] = Marked(prev, cell, ok, Now(clicks')).entry]
  BY <1>1
<1>4. ok \in SUBSET setup.plats
  OBVIOUS
<1> QED BY <1>1, <1>2, <1>3, <1>4, Sent

\* A lookup takes runs that no cell has.
LEMMA Capturing ==
  ASSUME Inv, NEW c \in Cell, Capture(c)
  PROVE  Inv'
<1> DEFINE e == store[c]
           need == {p \in e.plats \ {"all"} : p \notin DOMAIN e.runs /\ Free(e, p) # {}}
           R == [p \in DOMAIN e.runs \cup need |-> IF p \in need THEN Latest(Free(e, p)) ELSE e.runs[p]]
           new == [e EXCEPT !.runs = R]
<1>1. /\ e # None /\ UNCHANGED <<setup, runs>>
      /\ store' = [store EXCEPT ![c].runs = R]
  BY DEF Capture
<1>2. IsEntry(e) /\ store = [x \in Cell |-> store[x]]
  BY <1>1, StoreOf DEF Inv, StoreShape
<1>3. \A p \in need : Latest(Free(e, p)) \in DOMAIN runs \ Claimed
  <2> SUFFICES ASSUME NEW p \in need
               PROVE  Latest(Free(e, p)) \in DOMAIN runs \ Claimed
    OBVIOUS
  <2>1. Free(e, p) # {} /\ Free(e, p) \subseteq DOMAIN runs /\ Free(e, p) \cap Claimed = {}
    BY DEF Free, Listed
  <2>2. Latest(Free(e, p)) \in Free(e, p)
    BY <2>1, LatestIn DEF Inv
  <2> QED BY <2>1, <2>2
<1>4. IsEntry(new) /\ new.runs = R
  <2> HIDE DEF R, e
  <2> QED BY <1>2 DEF IsEntry, EntryFields
<1>5. \A i \in Captured(new) : i \in Captured(e) \/ i \in DOMAIN runs \ Claimed
  <2> SUFFICES ASSUME NEW p \in DOMAIN R
               PROVE  R[p] \in Captured(e) \/ R[p] \in DOMAIN runs \ Claimed
    BY <1>4 DEF Captured
  <2>1. CASE p \in need
    BY <1>3, <2>1
  <2>2. CASE p \notin need
    BY <2>2 DEF Captured
  <2> QED BY <2>1, <2>2
<1>6. /\ store' = [x \in Cell |-> store'[x]]
      /\ store'[c] = new /\ \A x \in Cell : x # c => store'[x] = store[x]
  <2> HIDE DEF R
  <2> QED BY <1>1, <1>2
<1>. HIDE DEF new, need, R
<1>7. Cell' = Cell /\ SharedWf' = SharedWf
  BY <1>1 DEF Cell, SharedWf
<1>8. StoreShape'
  BY <1>4, <1>6, <1>7, StoreOf DEF Inv, StoreShape
<1>9. \A x \in Cell : store'[x] # None => store[x] # None
  BY <1>1, <1>6
<1>10. Real'
  BY <1>1, <1>5, <1>6, <1>7, <1>9 DEF Inv, Real
<1>11. \A x \in Cell \ {c} : store[x] # None => Captured(store[x]) \subseteq Claimed
  BY DEF Claimed
<1>12. NoDoubleClaim'
  <2> SUFFICES ASSUME NEW x \in Cell, NEW y \in Cell, x # y, store'[x] # None, store'[y] # None,
                      NEW i \in Captured(store'[x]) \cap Captured(store'[y])
               PROVE  runs[i].wf = SharedWf
    BY <1>1, <1>7 DEF NoDoubleClaim
  <2>1. i \in Captured(store[x]) /\ i \in Captured(store[y])
    BY <1>5, <1>6, <1>9, <1>11
  <2> QED BY <2>1, <1>9 DEF Inv, NoDoubleClaim
<1>13. RunsShape'
  BY <1>1, Same DEF Inv, Grown
<1> QED BY <1>1, <1>8, <1>10, <1>12, <1>13 DEF Inv

\* What a group shares is a run of the shared workflow.
LEMMA CapturingShared ==
  ASSUME Inv, CaptureShared
  PROVE  Inv'
<1> DEFINE group == {c \in Cell : /\ store[c] # None /\ store[c].runs = <<>>
                                  /\ setup.mode = "gallery" \/ store[c].batch}
<1>1. PICK c \in group :
        /\ Listed(SharedWf, store[c].t0.since) # {}
        /\ store' = [d \in Cell |->
             IF d \notin group THEN store[d]
             ELSE [store[d] EXCEPT !.runs = [p \in {CHOOSE q \in store[d].plats : TRUE} |->
                                               Latest(Listed(SharedWf, store[c].t0.since))]]]
  BY DEF CaptureShared
<1>2. UNCHANGED <<setup, runs>> /\ \A d \in group : store[d] # None
  BY DEF CaptureShared
<1> DEFINE L == Latest(Listed(SharedWf, store[c].t0.since))
           R(d) == [p \in {CHOOSE q \in store[d].plats : TRUE} |-> L]
           new(d) == [store[d] EXCEPT !.runs = R(d)]
<1>3. L \in DOMAIN runs /\ runs[L].wf = SharedWf
  <2>1. L \in Listed(SharedWf, store[c].t0.since)
    BY <1>1, LatestIn DEF Inv, Listed
  <2> QED BY <2>1 DEF Listed
<1>4. \A d \in Cell : store'[d] = IF d \in group THEN new(d) ELSE store[d]
  BY <1>1
<1>5. store' = [d \in Cell |-> store'[d]]
  BY <1>1
<1>. HIDE DEF group, L
<1>6. \A d \in Cell : d \in group => IsEntry(new(d)) /\ Captured(new(d)) = {L}
  <2> SUFFICES ASSUME NEW d \in Cell, d \in group
               PROVE  IsEntry(new(d)) /\ Captured(new(d)) = {L}
    OBVIOUS
  <2>1. IsEntry(store[d])
    BY <1>2, StoreOf DEF Inv
  <2>2. IsEntry(new(d)) /\ new(d).runs = R(d)
    <3> HIDE DEF R
    <3> QED BY <2>1 DEF IsEntry, EntryFields
  <2> HIDE DEF new
  <2> QED BY <2>2 DEF Captured
<1>. HIDE DEF new, R
<1>7. Cell' = Cell /\ SharedWf' = SharedWf
  BY <1>2 DEF Cell, SharedWf
<1>8. StoreShape'
  BY <1>4, <1>5, <1>6, <1>7, StoreOf DEF Inv, StoreShape
<1>9. Real'
  BY <1>2, <1>3, <1>4, <1>6, <1>7 DEF Inv, Real
<1>10. NoDoubleClaim'
  <2> SUFFICES ASSUME NEW x \in Cell, NEW y \in Cell, x # y, store'[x] # None, store'[y] # None,
                      NEW i \in Captured(store'[x]) \cap Captured(store'[y])
               PROVE  runs[i].wf = SharedWf
    BY <1>2, <1>7 DEF NoDoubleClaim
  <2>1. CASE x \in group \/ y \in group
    BY <2>1, <1>3, <1>4, <1>6
  <2>2. CASE x \notin group /\ y \notin group
    BY <2>2, <1>4 DEF Inv, NoDoubleClaim
  <2> QED BY <2>1, <2>2
<1>11. RunsShape'
  BY <1>2, Same DEF Inv, Grown
<1> QED BY <1>2, <1>8, <1>9, <1>10, <1>11 DEF Inv

\* What qSync makes of the store before it paints.
LEMMA Syncing ==
  ASSUME Inv, NEW known, Sync(known)
  PROVE  \E s : /\ ApplyQueued(s, dom) /\ UNCHANGED <<setup, runs>>
                /\ \A c \in Cell :
                     /\ s[c] = None \/ IsEntry(s[c])
                     /\ Inherits(s[c], store[c])
                     /\ store[c] # None /\ Over(store[c]) => s[c] = store[c]
                     /\ store[c] # None => s[c] \in {store[c], Judged(store[c], known)}
<1> DEFINE live == {c \in Cell : store[c] # None /\ ~Over(store[c])}
           s == [c \in Cell |-> IF c \in live THEN Judged(store[c], known) ELSE store[c]]
<1>1. ApplyQueued(s, dom) /\ UNCHANGED <<setup, runs>>
  BY DEF Sync
<1>2. ASSUME NEW c \in Cell
      PROVE  /\ s[c] = None \/ IsEntry(s[c])
             /\ Inherits(s[c], store[c])
             /\ store[c] # None /\ Over(store[c]) => s[c] = store[c]
             /\ store[c] # None => s[c] \in {store[c], Judged(store[c], known)}
  <2>0. store[c] = None \/ IsEntry(store[c])
    BY StoreOf DEF Inv
  <2>1. CASE c \in live
    <3>1. s[c] = Judged(store[c], known) /\ store[c] # None /\ ~Over(store[c])
      BY <2>1
    <3>2. IsEntry(s[c]) /\ s[c].runs = store[c].runs
      BY <2>0, <3>1, JudgedEntry
    <3> HIDE DEF s, live
    <3> QED BY <3>1, <3>2 DEF Inherits
  <2>2. CASE c \notin live
    BY <2>0, <2>2, Kept
  <2> QED BY <2>1, <2>2
<1>. HIDE DEF s
<1> QED BY <1>1, <1>2

LEMMA Painting ==
  ASSUME Inv, Background
  PROVE  Inv'
<1>0. \A c \in Cell : (store[c] = None \/ IsEntry(store[c])) /\ Inherits(store[c], store[c])
  BY StoreOf, Kept DEF Inv
<1>1. CASE Reload
  <2> DEFINE d == [c \in Cell |-> Fresh(server[c])]
  <2>1. ApplyQueued(store, d) /\ UNCHANGED <<setup, runs>>
    BY <1>1 DEF Reload
  <2> HIDE DEF d
  <2> QED BY <1>0, <2>1, Applying
<1>2. CASE Recheck
  BY <1>0, <1>2, Applying DEF Recheck
<1>3. ASSUME NEW known \in SUBSET DOMAIN runs, Sync(known)
      PROVE  Inv'
  <2>1. PICK s : /\ ApplyQueued(s, dom) /\ UNCHANGED <<setup, runs>>
                 /\ \A c \in Cell : (s[c] = None \/ IsEntry(s[c])) /\ Inherits(s[c], store[c])
    BY <1>3, Syncing
  <2> QED BY <2>1, Applying
<1> QED BY <1>1, <1>2, <1>3 DEF Background

\* A step that leaves the store alone.
LEMMA Aside ==
  ASSUME Inv, setup' = setup, store' = store, Grown
  PROVE  Inv'
  BY StoreOf, Kept, Carried DEF Inv, StoreShape

LEMMA Outside ==
  ASSUME Inv, GitHub \/ Tick
  PROVE  Inv'
<1>0. \A i \in DOMAIN runs : DOMAIN runs[i] = RunFields
  BY DEF Inv, RunsShape
<1>1. ASSUME NEW i \in DOMAIN runs, List(i)
      PROVE  Inv'
  <2> DEFINE r == [runs[i] EXCEPT !.listed = TRUE]
  <2>1. DOMAIN r = RunFields /\ r.wf = runs[i].wf
    BY <1>0 DEF RunFields
  <2>2. runs' = [runs EXCEPT ![i] = r] /\ setup' = setup /\ store' = store
    BY <1>1 DEF List, page
  <2> HIDE DEF r
  <2>3. Grown
    BY <2>1, <2>2, Updated DEF Inv
  <2> QED BY <2>2, <2>3, Aside
<1>2. ASSUME NEW i \in DOMAIN runs, Finish(i)
      PROVE  Inv'
  <2>1. PICK st \in {"ok", "failed"} : runs' = [runs EXCEPT ![i].st = st, ![i].at = clicks]
    BY <1>2 DEF Finish
  <2> DEFINE r == [runs[i] EXCEPT !.st = st, !.at = clicks]
  <2>2. DOMAIN r = RunFields /\ r.wf = runs[i].wf
    BY <1>0 DEF RunFields
  <2>3. runs' = [runs EXCEPT ![i] = r] /\ setup' = setup /\ store' = store
    BY <1>2, <2>1 DEF Finish, page
  <2> HIDE DEF r
  <2>4. Grown
    BY <2>2, <2>3, Updated DEF Inv
  <2> QED BY <2>3, <2>4, Aside
<1>3. CASE Rebuild
  <2>1. setup' = setup /\ store' = store /\ runs' = runs
    BY <1>3 DEF Rebuild, page
  <2> QED BY <2>1, Same, Aside DEF Inv
<1>4. CASE Tick
  <2>1. /\ UNCHANGED <<setup, runs>>
        /\ store' = [c \in Cell |-> IF store[c] = None THEN None
             ELSE [store[c] EXCEPT !.t0.age = Older(@, QTTL), !.active = Older(@, QTTL),
                                   !.done = Older(@, QDONE)]]
    BY <1>4 DEF Tick
  <2>2. ASSUME NEW c \in Cell
        PROVE  Inherits(store'[c], store[c])
    <3>1. CASE store[c] = None
      BY <2>1, <3>1 DEF Inherits
    <3>2. CASE store[c] # None
      <4>1. IsEntry(store[c])
        BY <3>2, StoreOf DEF Inv
      <4>2. DOMAIN store'[c] = EntryFields /\ store'[c].runs = store[c].runs
        BY <2>1, <3>2, <4>1 DEF IsEntry, EntryFields
      <4> QED BY <3>2, <4>2 DEF Inherits, IsEntry
    <3> QED BY <3>1, <3>2
  <2>3. store' = [c \in Cell |-> store'[c]]
    BY <2>1
  <2> QED BY <2>1, <2>2, <2>3, Same, Carried DEF Inv
<1> QED BY <1>1, <1>2, <1>3, <1>4 DEF GitHub

LEMMA InvNext ==
  ASSUME Inv, [Next]_vars
  PROVE  Inv'
<1>1. ASSUME UNCHANGED <<setup, runs, store>>
      PROVE  Inv'
  BY <1>1, Same, Aside DEF Inv
<1>2. ASSUME NEW S \in (SUBSET Cell) \ {{}}, Dispatch(S)
      PROVE  Inv'
  BY <1>2, Dispatching
<1>3. ASSUME NEW c \in Cell, RunNow(c)
      PROVE  Inv'
  BY <1>3, Arrow
<1>4. ASSUME NEW c \in Cell, Drop(c)
      PROVE  Inv'
  <2>1. Forget({c}) /\ UNCHANGED <<setup, runs>>
    BY <1>4 DEF Drop
  <2> QED BY <2>1, Forgetting
<1>5. CASE LoseToken
  BY <1>1, <1>5 DEF LoseToken, page
<1>6. CASE Lookup
  BY <1>6, Capturing, CapturingShared DEF Lookup
<1>7. CASE UNCHANGED vars
  BY <1>1, <1>7 DEF vars, page
<1>8. CASE User
  BY <1>2, <1>3, <1>4, <1>5, <1>8 DEF User
<1>9. CASE Background
  BY <1>9, Painting
<1> QED BY <1>6, <1>7, <1>8, <1>9, Chaining, Outside DEF Next, Background

-----------------------------------------------------------------------------
(* The theorems. *)

LEMMA Begins == Init => Inv
<1> SUFFICES ASSUME Init
             PROVE  Inv
  OBVIOUS
<1>1. runs = <<>> /\ setup \in Setups /\ store = [c \in Cell |-> None]
  BY DEF Init
<1>2. RunsShape
  BY <1>1 DEF RunsShape
<1>3. store = [c \in Cell |-> store[c]] /\ \A c \in Cell : store[c] = None
  BY <1>1
<1> QED BY <1>1, <1>2, <1>3 DEF Inv, StoreShape, Real, NoDoubleClaim

THEOREM Invariant == Spec => []Inv
<1> QED BY Begins, InvNext, PTL DEF Spec

\* Outside the runs a group shares, no run is captured by two cells, however
\* the lookups of the cells, their retries and the chain interleave.
THEOREM ClaimedOnce == Spec => []NoDoubleClaim
<1>1. Inv => NoDoubleClaim
  BY DEF Inv
<1> QED BY <1>1, Invariant, PTL

\* What a page does by itself is to paint what it remembers.
LEMMA PaintsOnly ==
  ASSUME Inv, Background, NEW c \in Cell, store[c] # None, store'[c] = None
  PROVE  \E e, d :
           /\ IsEntry(e) /\ e.t0 = store[c].t0 /\ e.runs = store[c].runs
           /\ e = store[c] \/ (~Over(store[c]) /\ \E known : e = Judged(store[c], known))
           /\ Applied(e, d).entry = None /\ dom'[c] = Applied(e, d).dom
<1>0. IsEntry(store[c])
  BY StoreOf DEF Inv
<1>1. ASSUME NEW s, NEW d, ApplyQueued(s, d)
      PROVE  store'[c] = Applied(s[c], d[c]).entry /\ dom'[c] = Applied(s[c], d[c]).dom
  BY <1>1 DEF ApplyQueued
<1>2. ASSUME NEW d, ApplyQueued(store, d)
      PROVE  Applied(store[c], d[c]).entry = None /\ dom'[c] = Applied(store[c], d[c]).dom
  BY <1>1, <1>2
<1>3. CASE Reload
  <2> DEFINE d == [x \in Cell |-> Fresh(server[x])]
  <2>1. ApplyQueued(store, d)
    BY <1>3 DEF Reload
  <2> HIDE DEF d
  <2> QED BY <1>0, <1>2, <2>1
<1>4. CASE Recheck
  <2>1. ApplyQueued(store, dom)
    BY <1>4 DEF Recheck
  <2> QED BY <1>0, <1>2, <2>1
<1>5. ASSUME NEW known \in SUBSET DOMAIN runs, Sync(known)
      PROVE  \E e, d :
               /\ IsEntry(e) /\ e.t0 = store[c].t0 /\ e.runs = store[c].runs
               /\ e = store[c] \/ (~Over(store[c]) /\ \E k : e = Judged(store[c], k))
               /\ Applied(e, d).entry = None /\ dom'[c] = Applied(e, d).dom
  <2>1. PICK s : /\ ApplyQueued(s, dom)
                 /\ Over(store[c]) => s[c] = store[c]
                 /\ s[c] \in {store[c], Judged(store[c], known)}
    BY <1>5, Syncing
  <2>2. Applied(s[c], dom[c]).entry = None /\ dom'[c] = Applied(s[c], dom[c]).dom
    BY <1>1, <2>1
  <2>3. LET j == Judged(store[c], known) IN IsEntry(j) /\ j.runs = store[c].runs /\ j.t0 = store[c].t0
    BY <1>0, JudgedEntry
  <2> QED BY <1>0, <2>1, <2>2, <2>3
<1> QED BY <1>3, <1>4, <1>5 DEF Background

\* A failure stays until the user acts on it or a newer result is there.
THEOREM FailureStays == Spec => FailureSticks
<1>1. ASSUME Inv
      PROVE  \A c \in Cell :
               store[c] # None /\ store'[c] = None /\ store[c].failed /\ Background
               => Newer(dom'[c], store[c])
  <2> SUFFICES ASSUME NEW c \in Cell, store[c] # None, store'[c] = None, store[c].failed, Background
               PROVE  Newer(dom'[c], store[c])
    OBVIOUS
  <2>1. PICK e, d :
          /\ IsEntry(e) /\ e.t0 = store[c].t0
          /\ e = store[c] \/ ~Over(store[c])
          /\ Applied(e, d).entry = None /\ dom'[c] = Applied(e, d).dom
    BY <1>1, PaintsOnly
  <2>2. e = store[c]
    BY <2>1 DEF Over
  <2> QED BY <2>1, <2>2, AppliedEntry
<1>2. Inv /\ [Next]_vars =>
        [\A c \in Cell :
           store[c] # None /\ store'[c] = None /\ store[c].failed /\ Background
           => Newer(dom'[c], store[c])]_vars
  BY <1>1
<1> QED BY <1>2, Invariant, PTL DEF Spec, FailureSticks

\* A page with a token does not by itself forget an entry one of whose runs is
\* active, whatever part of its questions GitHub answers.
THEOREM NeverReverts == Spec => NoSilentRevert
<1>1. ASSUME Inv
      PROVE  \A c \in Cell :
               /\ store[c] # None /\ store'[c] = None /\ tok /\ ~Over(store[c])
               /\ \E i \in Captured(store[c]) : runs[i].st = "active"
               /\ Background
               => Newer(dom'[c], store[c])
  <2> SUFFICES ASSUME NEW c \in Cell, store[c] # None, store'[c] = None, tok, ~Over(store[c]),
                      NEW i \in Captured(store[c]), runs[i].st = "active", Background
               PROVE  Newer(dom'[c], store[c])
    OBVIOUS
  <2>1. PICK e, d :
          /\ IsEntry(e) /\ e.t0 = store[c].t0 /\ e.runs = store[c].runs
          /\ e = store[c] \/ \E known : e = Judged(store[c], known)
          /\ Applied(e, d).entry = None /\ dom'[c] = Applied(e, d).dom
    BY <1>1, PaintsOnly
  <2>2. IsEntry(store[c])
    BY <1>1, StoreOf DEF Inv
  <2>3. e.failed = store[c].failed /\ e.done = store[c].done
    BY <2>1, <2>2, JudgedEntry
  <2>4. ~Over(e)
    BY <2>3 DEF Over
  <2>5. Alive(e)
    BY <2>1 DEF Alive, Captured
  <2>6. Newer(dom'[c], e)
    BY <2>1, <2>4, <2>5, NotNone, AppliedEntry
  <2> QED BY <2>1, <2>6 DEF Newer
<1>2. Inv /\ [Next]_vars =>
        [\A c \in Cell :
           /\ store[c] # None /\ store'[c] = None /\ tok /\ ~Over(store[c])
           /\ \E i \in Captured(store[c]) : runs[i].st = "active"
           /\ Background
           => Newer(dom'[c], store[c])]_vars
  BY <1>1
<1> QED BY <1>2, Invariant, PTL DEF Spec, NoSilentRevert
=============================================================================
