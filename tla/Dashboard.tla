------------------------------- MODULE Dashboard -------------------------------
(***************************************************************************)
(* The dashboard server (cmd/sccov) beside the processes that write what   *)
(* it reads: it loads coverage.json, then reads the deltas of the bundles, *)
(* and serves the page it has built from both for five seconds and more.   *)
(*                                                                         *)
(* A request within those seconds changes nothing.  The novel elements and *)
(* the frames, which are only counted, are left out.                       *)
(***************************************************************************)
EXTENDS Coverage, SequencesExt

CONSTANTS
  Kinds,        \* kindMeta
  Kind,         \* the kind of an element
  Scenario,     \* of a session, from the name of its bundle
  Start,        \* the label of the journey's first point
  Unavailable   \* the answer when there is no document to show

ASSUME DashboardAssumption ==
  /\ Kind \in [Elements -> Kinds]
  /\ Start \notin {Scenario[s] : s \in Sessions}
  /\ IsFiniteSet(Elements) /\ IsFiniteSet(Kinds) /\ IsFiniteSet(Sessions)
  /\ \A s \in Sessions : IsFiniteSet(Seen[s])

VARIABLES
  doc,   \* the document that render has loaded, or None
  page   \* what has been served last: a page, Unavailable, or None

dashboardVars == <<coverageVars, doc, page>>

-----------------------------------------------------------------------------
(* build                                                                   *)

Count(d, k, ranks) == Cardinality({e \in Elements : Kind[e] = k /\ d[e].state \in ranks})

Total(d, ranks) == MapThenSumSet(LAMBDA k : Count(d, k, ranks), Kinds)

Totals(d) ==
  [known |-> Total(d, Ranks), decoded |-> Total(d, {2}), undecoded |-> Total(d, {1}),
   never |-> Total(d, Ranks) - Total(d, {2}) - Total(d, {1})]

\* The elements that the journey credits a session with.
Credited(d, s) == {e \in Elements : d[e].state # 0 /\ d[e].first = s}

Point(label, value) == [label |-> label, value |-> value]

\* Mutant: of the steps of one scenario the first keeps its value.
CollapsedEarly(points) ==
  LET merged[n \in 1 .. Len(points)] ==
        IF n = 1 THEN <<points[1]>>
        ELSE IF Last(merged[n - 1]).label = points[n].label THEN merged[n - 1]
        ELSE Append(merged[n - 1], points[n])
  IN  merged[Len(points)]

\* Consecutive steps of one scenario become one, with the last one's value.
Merge(merged, p) ==
  Append(IF Last(merged).label = p.label THEN Front(merged) ELSE merged, p)

Collapsed(points) ==
  LET merged[n \in 1 .. Len(points)] ==
        IF n = 1 THEN <<points[1]>> ELSE Merge(merged[n - 1], points[n])
  IN  merged[Len(points)]

\* Down from every known element, by what each session was the first to see.
Journey(d, order) ==
  LET sawBy(n) == UNION {Credited(d, order[i]) : i \in 1 .. n}
  IN  Collapsed([n \in 1 .. Len(order) + 1 |->
        Point(IF n = 1 THEN Start ELSE Scenario[order[n - 1]],
              Totals(d).known - Cardinality(sawBy(n - 1)))])

\* The journey is ordered by time, which nothing else here depends on.
Orders(d) == SetToSeqs({s \in Sessions : Credited(d, s) # {}})

\* readBundles: a delta that is missing or not whole counts for nothing.
Rows == [s \in Sessions |-> IF delta[s] = "written" THEN Cardinality(Seen[s]) ELSE 0]

-----------------------------------------------------------------------------
(* Serving                                                                 *)

\* A request to "/" when the cached page is too old: loadStore ...
LoadsStore ==
  /\ doc = None
  /\ \/ store \in {Absent, Partial} /\ page' = Unavailable /\ UNCHANGED doc
     \/ store \notin {Absent, Partial} /\ doc' = store /\ UNCHANGED page
  /\ UNCHANGED coverageVars

\* ... and build, which reads the bundles after the store.
Builds ==
  /\ doc # None
  /\ \E order \in Orders(doc) :
       page' = [totals |-> Totals(doc), journey |-> Journey(doc, order), rows |-> Rows,
                credited |-> [s \in Sessions |-> Cardinality(Credited(doc, s))]]
  /\ doc' = None
  /\ UNCHANGED coverageVars

DashboardInit == CoverageInit /\ doc = None /\ page = None

DashboardNext ==
  \/ CoverageNext /\ UNCHANGED <<doc, page>>
  \/ LoadsStore
  \/ Builds

DashboardSpec == DashboardInit /\ [][DashboardNext]_dashboardVars

-----------------------------------------------------------------------------
(* Properties                                                              *)

\* The page is about one document, whoever was writing, crashing or losing
\* updates meanwhile: "the countdown reads one step per scenario" (build) from
\* every known element down to those that the totals call never observed, and
\* no session is credited with more than its row of the bundle table has seen,
\* unless that bundle has no delta because writing it failed.
PageAddsUp ==
  page \notin {None, Unavailable} =>
    LET j == page.journey IN
    /\ j[1] = Point(Start, page.totals.known)
    /\ Last(j).value = page.totals.never
    /\ \A n \in 2 .. Len(j) : j[n].value < j[n - 1].value /\ j[n].label # j[n - 1].label
    /\ \A s \in Sessions : page.credited[s] <= page.rows[s] \/ delta[s] = "failed"
=============================================================================
