--------------------------- MODULE ToolingClosure ---------------------------
(***************************************************************************)
(* build-tooling-vipc.py: the packages a worker's LabVIEW is given.  The   *)
(* tooling's default packages are merged under the repository's own, every *)
(* merged package is a root, and the roots are resolved with all they      *)
(* require against the public package index, depth first.  The recursion   *)
(* of resolve_closure is a stack here; one action is one request of it.    *)
(*                                                                         *)
(* A version is a number, 0 where none is given.  A request is             *)
(* [name, version, minimum]; an index record is [name, version, requires,  *)
(* assets], a requirement of it [name, op, version].  Two spellings of one *)
(* version are not told apart, nor are the two indexes; downloads and the  *)
(* layout of the archive are left out.                                     *)
(***************************************************************************)
EXTENDS Naturals, FiniteSets, SequencesExt

CONSTANTS
  Manifests,  \* records [defaults, own]: sequences of [name, version, include]
  Indexes,    \* sets of index records
  Fold,       \* name -> lower-case name, for the names that change
  Alias       \* legacy name -> published name

Package     == [name : STRING, version : Nat, include : BOOLEAN]
Requirement == [name : STRING, op : STRING, version : Nat]

ASSUME ClosureAssumption ==
  /\ \A lists \in Manifests : lists.defaults \in Seq(Package) /\ lists.own \in Seq(Package)
  /\ \A index \in Indexes :
       /\ IsFiniteSet(index)
       /\ \A r \in index : r.version \in Nat /\ r.requires \in Seq(Requirement)
       /\ \A r, s \in index : r.name = s.name /\ r.version = s.version => r = s

VARIABLES
  index,     \* the records published
  manifest,  \* the two package lists
  roots,     \* the requests of the manifests
  asked,     \* how many roots have been taken up
  stack,     \* the records being resolved: [record, todo]
  visiting,  \* the requests ever taken up
  resolved,  \* name -> record
  outcome    \* "idle", "resolving", "written" or "failed"

closureVars == <<index, manifest, roots, asked, stack, visiting, resolved, outcome>>

-----------------------------------------------------------------------------
(* The roots. *)

FoldName(n) == IF n \in DOMAIN Fold THEN Fold[n] ELSE n
Published(n) == IF n \in DOMAIN Alias THEN Alias[n] ELSE n

Selected(packages) == {i \in DOMAIN packages : packages[i].include}

\* The last package of each folded name, in the order the names first appear.
MergePackages(defaults, own) ==
  LET all      == defaults \o own
      alike(i) == {j \in Selected(all) : FoldName(all[j].name) = FoldName(all[i].name)}
      firsts   == {i \in Selected(all) : \A j \in alike(i) : i <= j}
      order    == CHOOSE f \in [1..Cardinality(firsts) -> firsts] :
                    \A m, n \in DOMAIN f : m < n => f[m] < f[n]
      last(i)  == CHOOSE k \in alike(i) : \A j \in alike(i) : j <= k
  IN [n \in DOMAIN order |-> all[last(order[n])]]

Exactly(package) == [name |-> Published(package.name), version |-> package.version, minimum |-> FALSE]

Roots(lists) ==
  LET merged == MergePackages(lists.defaults, lists.own)
  IN [i \in DOMAIN merged |-> Exactly(merged[i])]

-----------------------------------------------------------------------------
(* One request. *)

\* The root that pins a name: the last one that does.
Pins(name) == {i \in DOMAIN roots : roots[i].name = name /\ roots[i].version # 0}

\* Mutant of Effective: a requirement is taken as it is written.
EffectiveAsWritten(request) == request

\* A minimum gives way to an exact root.
Effective(request) ==
  IF request.minimum /\ Pins(request.name) # {}
  THEN roots[CHOOSE i \in Pins(request.name) : \A j \in Pins(request.name) : j <= i]
  ELSE request

Candidates(request) ==
  {r \in index : /\ r.name = request.name
                 /\ \/ request.version = 0
                    \/ request.minimum /\ r.version >= request.version
                    \/ ~request.minimum /\ r.version = request.version}

\* The requests of a record's requirements: without an operator, or with
\* ">=", the version is the least that will do.
ParseRequires(record) ==
  [i \in DOMAIN record.requires |->
     [name    |-> record.requires[i].name,
      version |-> record.requires[i].version,
      minimum |-> record.requires[i].op \in {"", ">="}]]

\* The highest version among the candidates.
SelectRecord(request) ==
  CHOOSE r \in Candidates(request) : \A s \in Candidates(request) : s.version <= r.version

Guarded(request) == request \in visiting

\* What a request does to the stack that "rest" leaves: nothing when it was
\* taken up before or its package is resolved already; a package the index
\* lacks is skipped when something requires it and fatal when it is a root.
Take(written, required, rest) ==
  LET request == Effective(written)
  IN IF Guarded(request) THEN stack' = rest /\ UNCHANGED <<visiting, outcome>>
     ELSE /\ visiting' = visiting \cup {request}
          /\ IF Candidates(request) = {}
             THEN stack' = rest /\ outcome' = IF required THEN outcome ELSE "failed"
             ELSE LET record == SelectRecord(request)
                  IN /\ stack' = IF record.name \in DOMAIN resolved THEN rest
                                 ELSE Append(rest, [record |-> record, todo |-> ParseRequires(record)])
                     /\ UNCHANGED outcome

AskRoot ==
  /\ outcome = "resolving" /\ stack = <<>> /\ asked < Len(roots)
  /\ asked' = asked + 1
  /\ Take(roots[asked + 1], FALSE, <<>>)
  /\ UNCHANGED <<index, manifest, roots, resolved>>

Require ==
  /\ outcome = "resolving" /\ stack # <<>> /\ Last(stack).todo # <<>>
  /\ LET top == Last(stack)
     IN Take(Head(top.todo), TRUE, Append(Front(stack), [top EXCEPT !.todo = Tail(@)]))
  /\ UNCHANGED <<index, manifest, roots, asked, resolved>>

Resolve ==
  /\ outcome = "resolving" /\ stack # <<>> /\ Last(stack).todo = <<>>
  /\ LET record == Last(stack).record
     IN resolved' = [n \in DOMAIN resolved \cup {record.name} |->
                       IF n = record.name THEN record ELSE resolved[n]]
  /\ stack' = Front(stack)
  /\ UNCHANGED <<index, manifest, roots, asked, visiting, outcome>>

\* The archive needs the specification and the icon of every record.
WriteVipc ==
  /\ outcome = "resolving" /\ stack = <<>> /\ asked = Len(roots)
  /\ outcome' = IF \A n \in DOMAIN resolved : resolved[n].assets THEN "written" ELSE "failed"
  /\ UNCHANGED <<index, manifest, roots, asked, stack, visiting, resolved>>

Fresh == asked = 0 /\ stack = <<>> /\ visiting = {} /\ resolved = <<>>

ClosureIdle == /\ index = {} /\ manifest = [defaults |-> <<>>, own |-> <<>>] /\ roots = <<>>
               /\ Fresh /\ outcome = "idle"

\* Without a package there is nothing to do.
ClosureInit == /\ index \in Indexes
               /\ manifest \in Manifests /\ roots = Roots(manifest)
               /\ Fresh
               /\ outcome = IF roots = <<>> THEN "failed" ELSE "resolving"

ClosureNext == AskRoot \/ Require \/ Resolve \/ WriteVipc

-----------------------------------------------------------------------------
(* Properties. *)

Requirements == UNION {ToSet(ParseRequires(resolved[n])) : n \in DOMAIN resolved}

\* Requests that ask one version, or the highest there is.
Open(q) == q.minimum \/ q.version = 0
Agree(q, r) == (Open(q) /\ Open(r)) \/ (~Open(q) /\ ~Open(r) /\ q.version = r.version)

\* What was asked of a name agrees; a minimum gives way to a pin.
Undisputed(name) ==
  LET binding == {q \in visiting : q.name = name /\ (q.minimum => Pins(name) = {})}
  IN \A q, r \in binding : Agree(q, r)

\* What the repository pins itself, the later entry of a name over an earlier.
OwnPins ==
  LET own == manifest.own
  IN {own[i] : i \in {j \in Selected(own) :
        /\ own[j].version # 0
        /\ \A k \in Selected(own) : k > j => FoldName(own[k].name) # FoldName(own[j].name)}}

\* The archive holds what was asked for: every package the repository pins in
\* the version it pins, over the tooling's default and over any minimum; every
\* other root and every requirement of a package in it, if something published
\* meets the request; and where nothing is disputed, no package that is not reached from a
\* root, and no root missing but one a package requires too.
ArchiveSound ==
  outcome = "written" =>
    /\ \A p \in OwnPins :
         LET n == Published(p.name)
         IN Undisputed(n) /\ Candidates(Exactly(p)) # {} =>
              n \in DOMAIN resolved /\ resolved[n].version = p.version
    /\ \A i \in DOMAIN roots : Candidates(roots[i]) # {} => roots[i].name \in DOMAIN resolved
    /\ \A q \in Requirements : Candidates(Effective(q)) # {} =>
         /\ q.name \in DOMAIN resolved
         /\ Undisputed(q.name) /\ (q.minimum => Pins(q.name) = {}) =>
              resolved[q.name] \in Candidates(q)
    /\ (\A q \in visiting : Undisputed(q.name)) =>
         /\ \A n \in DOMAIN resolved :
              \/ \E i \in DOMAIN roots : roots[i].name = n
              \/ \E q \in Requirements : q.name = n
         /\ \A i \in DOMAIN roots : Candidates(roots[i]) = {} =>
              \E q \in Requirements : Effective(q) = roots[i]

\* Packages that require each other do not send the resolution round: every
\* record begun and not finished answers a request of its own, and requests
\* are as many as the index and the manifests have.
RecursionEnds == Len(stack) <= Cardinality(visiting)

\* The resolution ends, and with what was asked for.
ClosureSound == RecursionEnds /\ ArchiveSound

\* "A missing ROOT is fatal", as resolve_closure has it.  A root that was skipped
\* as a requirement before its turn is not taken up again, nor missed.
MissingRootFatal == outcome = "written" => \A i \in DOMAIN roots : Candidates(roots[i]) # {}
=============================================================================
