---------------------------- MODULE SessionsProofs ----------------------------
(***************************************************************************)
(* What Sessions promises of bundles and of the live pointer, for any      *)
(* number of captures, marks and names.                                    *)
(***************************************************************************)
EXTENDS Sessions, SequenceTheorems, WellFoundedInduction, TLAPS

BundleType == [meta : BOOLEAN, segment : BOOLEAN]

Stages == {"idle", "named", "described", "journaling", "sourced", "published",
           "live", "stopped", "failed", "exited", "killed"}

\* A capture past its first meta.Write.
Described(c) ==
  capture[c] \in {"described", "journaling", "sourced", "published", "live", "stopped"}

\* A directory belongs to the capture that made it, and a segment is opened
\* only after the sidecar has been written.
BundleInv ==
  /\ bundle \in [Dirs -> BundleType \cup {None}]
  /\ capture \in [Captures -> Stages]
  /\ dir \in [Procs -> Dirs \cup {None}]
  /\ \A c \in Captures : capture[c] = "idle" => dir[c] = None
  /\ \A c \in Captures : dir[c] # None => dir[c] \in Dirs /\ bundle[dir[c]] # None
  /\ \A c \in Captures : capture[c] = "named" => dir[c] # None
  /\ \A c \in Captures : Described(c) => dir[c] # None /\ bundle[dir[c]].meta
  /\ \A c, d \in Captures : c # d /\ dir[c] # None => dir[c] # dir[d]
  /\ \A d \in Dirs : bundle[d] # None /\ bundle[d].segment => bundle[d].meta

\* What a step may do to the bundles that exist: nothing is taken away.
BundlesStay ==
  \A d \in Dirs : bundle[d] # None => bundle'[d] # None /\ (bundle[d].meta => bundle'[d].meta)

\* Captures that are published together have met, and the pointer names the
\* one that has met nobody, if it could be written.
LiveInv ==
  /\ \A c, d \in Published : c # d => c \in met /\ d \in met
  /\ \A c \in Published \ (met \cup hidden) : live = c

\* Only a session that has published itself is pointed at.
PointerInv ==
  live # None => live \in Captures /\ capture[live] \in
    {"published", "live", "stopped", "failed", "exited", "killed"}

SessionsInv == BundleInv /\ LiveInv /\ PointerInv

\* Before the first capture the invariant holds.
LEMMA SessionsInitial == SessionsInit => SessionsInv
<1> SUFFICES ASSUME SessionsInit PROVE SessionsInv
  OBVIOUS
<1>1. Published = {}
  BY DEF SessionsInit, Published
<1>2. BundleInv
  BY DEF SessionsInit, BundleInv, BundleType, NewBundle, Stages, Described, Procs
<1> QED
  BY <1>1, <1>2 DEF SessionsInit, SessionsInv, LiveInv, PointerInv

\* A step in which capture c goes on to another stage and touches no bundle.
LEMMA OnlyGoes ==
  ASSUME SessionsInv, NEW c \in Captures, NEW stage \in Stages, Goes(c, stage),
         UNCHANGED <<bundle, dir>>, stage # "idle", stage # "named",
         stage \in {"failed", "exited", "killed"} \/ Described(c)
  PROVE  BundleInv' /\ BundlesStay
  BY DEF SessionsInv, BundleInv, Goes, Described, BundlesStay

\* A step in which no capture is published and the pointer is left alone.
LEMMA PointerKept ==
  ASSUME SessionsInv, UNCHANGED pointerVars, Published' \subseteq Published,
         live # None => capture'[live] \in
           {"published", "live", "stopped", "failed", "exited", "killed"}
  PROVE  LiveInv' /\ PointerInv'
  BY DEF SessionsInv, LiveInv, PointerInv, pointerVars

\* A step in which the captures and their bundles stay as they are.
LEMMA CapturesStay ==
  ASSUME SessionsInv, UNCHANGED <<bundle, capture, pointerVars>>,
         dir' \in [Procs -> Dirs \cup {None}],
         \A c \in Captures : dir'[c] = dir[c]
  PROVE  SessionsInv' /\ BundlesStay
<1>1. BundleInv'
  BY DEF SessionsInv, BundleInv, Described
<1>2. LiveInv' /\ PointerInv'
  BY DEF SessionsInv, LiveInv, PointerInv, Published, pointerVars
<1> QED
  BY <1>1, <1>2 DEF SessionsInv, BundlesStay

\* A capture sets one more field of its own bundle and goes on, or fails.
LEMMA SetsField ==
  ASSUME SessionsInv, NEW c \in Captures,
         NEW stage \in {"described", "journaling", "failed"},
         dir[c] # None, NEW b \in BundleType, b.meta,
         bundle' = [bundle EXCEPT ![dir[c]] = b], Goes(c, stage), UNCHANGED dir
  PROVE  BundleInv' /\ BundlesStay
<1>1. dir[c] \in Dirs
  BY DEF SessionsInv, BundleInv
<1>2. b # None
  BY SessionsAssumption DEF SessionsAssumption, BundleType
<1>3. bundle \in [Dirs -> BundleType \cup {None}]
  BY DEF SessionsInv, BundleInv
<1>4. /\ bundle'[dir[c]] = b
      /\ \A d \in Dirs : d # dir[c] => bundle'[d] = bundle[d]
      /\ bundle' \in [Dirs -> BundleType \cup {None}]
  BY <1>1, <1>3
<1>5. /\ capture'[c] = stage /\ \A d \in Captures : d # c => capture'[d] = capture[d]
      /\ capture' \in [Captures -> Stages]
  BY DEF Goes, SessionsInv, BundleInv, Stages
<1>6. \A d \in Captures : dir[d] # None => dir[d] \in Dirs /\ bundle'[dir[d]] # None
  BY <1>2, <1>4 DEF SessionsInv, BundleInv
<1>7. \A d \in Captures : Described(d)' => dir[d] # None /\ bundle'[dir[d]].meta
  BY <1>4, <1>5 DEF SessionsInv, BundleInv, Described
<1>8. \A d \in Dirs : bundle'[d] # None /\ bundle'[d].segment => bundle'[d].meta
  BY <1>4 DEF SessionsInv, BundleInv
<1>9. /\ \A d \in Captures : capture'[d] = "idle" => dir[d] = None
      /\ \A d \in Captures : capture'[d] = "named" => dir[d] # None
  BY <1>5 DEF SessionsInv, BundleInv
<1>10. BundleInv'
  BY <1>4, <1>5, <1>6, <1>7, <1>8, <1>9 DEF SessionsInv, BundleInv, Described
<1>11. BundlesStay
  BY <1>2, <1>4 DEF BundlesStay
<1> QED
  BY <1>10, <1>11

\* Every step of a capture or a console keeps the invariant.
LEMMA SessionsStep ==
  SessionsInv /\ [SessionsNext]_sessionsVars => SessionsInv' /\ BundlesStay
<1> SUFFICES ASSUME SessionsInv, [SessionsNext]_sessionsVars PROVE SessionsInv' /\ BundlesStay
  OBVIOUS
<1>1. ASSUME NEW c \in Captures, Names(c) PROVE SessionsInv' /\ BundlesStay
  <2>1. LiveInv' /\ PointerInv'
    BY <1>1, PointerKept DEF Names, Mkdir, Goes, Published, SessionsInv, BundleInv, PointerInv
  <2>2. CASE bundle[seqNo[c]] # None
    BY <1>1, <2>1, <2>2 DEF Names, Mkdir, SessionsInv, BundleInv, Described, BundlesStay
  <2>3. CASE bundle[seqNo[c]] = None
    <3>1. /\ bundle' = [bundle EXCEPT ![seqNo[c]] = NewBundle]
          /\ dir' = [dir EXCEPT ![c] = seqNo[c]]
          /\ Goes(c, "named") /\ capture[c] = "idle" /\ seqNo[c] \in Dirs
      BY <1>1, <2>3 DEF Names, Mkdir
    <3>2. bundle \in [Dirs -> BundleType \cup {None}] /\ dir \in [Procs -> Dirs \cup {None}]
      BY DEF SessionsInv, BundleInv
    <3>3. NewBundle \in BundleType /\ ~NewBundle.segment
      BY DEF NewBundle, BundleType
    <3>4. NewBundle # None
      BY <3>3, SessionsAssumption DEF SessionsAssumption, BundleType
    <3>5. \A d \in Captures : dir[d] # seqNo[c]
      <4>1. seqNo[c] # None
        BY <3>1, SessionsAssumption DEF SessionsAssumption, Dirs
      <4> QED
        BY <2>3, <4>1 DEF SessionsInv, BundleInv
    <3>6. /\ bundle'[seqNo[c]] = NewBundle
          /\ \A d \in Dirs : d # seqNo[c] => bundle'[d] = bundle[d]
          /\ bundle' \in [Dirs -> BundleType \cup {None}]
      BY <3>1, <3>2, <3>3
    <3>7. /\ dir'[c] = seqNo[c] /\ capture'[c] = "named"
          /\ \A d \in Captures : d # c => dir'[d] = dir[d] /\ capture'[d] = capture[d]
          /\ dir' \in [Procs -> Dirs \cup {None}]
          /\ capture' \in [Captures -> Stages]
      BY <3>1, <3>2 DEF Goes, Procs, SessionsInv, BundleInv, Stages
    <3>8. BundleInv'
      <4>1. \A d \in Captures : dir'[d] # None => dir'[d] \in Dirs /\ bundle'[dir'[d]] # None
        BY <3>1, <3>4, <3>5, <3>6, <3>7 DEF SessionsInv, BundleInv
      <4>2. \A d \in Captures : Described(d)' => dir'[d] # None /\ bundle'[dir'[d]].meta
        BY <3>5, <3>6, <3>7 DEF SessionsInv, BundleInv, Described
      <4>3. \A d, e \in Captures : d # e /\ dir'[d] # None => dir'[d] # dir'[e]
        BY <3>5, <3>7 DEF SessionsInv, BundleInv
      <4>4. \A d \in Dirs : bundle'[d] # None /\ bundle'[d].segment => bundle'[d].meta
        BY <3>3, <3>6 DEF SessionsInv, BundleInv
      <4>5. /\ \A d \in Captures : capture'[d] = "idle" => dir'[d] = None
            /\ \A d \in Captures : capture'[d] = "named" => dir'[d] # None
        <5>1. seqNo[c] # None
          BY <3>1, SessionsAssumption DEF SessionsAssumption, Dirs
        <5> QED
          BY <3>7, <5>1 DEF SessionsInv, BundleInv
      <4>6. /\ bundle' \in [Dirs -> BundleType \cup {None}]
            /\ capture' \in [Captures -> Stages]
            /\ dir' \in [Procs -> Dirs \cup {None}]
        BY <3>6, <3>7
      <4> QED
        BY <4>1, <4>2, <4>3, <4>4, <4>5, <4>6 DEF BundleInv, Described
    <3>9. BundlesStay
      BY <2>3, <3>6 DEF BundlesStay
    <3> QED
      BY <2>1, <3>8, <3>9 DEF SessionsInv
  <2> QED
    BY <2>2, <2>3
<1>2. ASSUME NEW c \in Captures, NotNamed(c) PROVE SessionsInv' /\ BundlesStay
  <2>1. LiveInv' /\ PointerInv'
    BY <1>2, PointerKept DEF NotNamed, Goes, Published, SessionsInv, BundleInv, PointerInv
  <2> QED
    BY <1>2, <2>1, OnlyGoes DEF NotNamed, SessionsInv, Stages
<1>3. ASSUME NEW c \in Captures, Describes(c) PROVE SessionsInv' /\ BundlesStay
  <2>1. LiveInv' /\ PointerInv'
    BY <1>3, PointerKept DEF Describes, Goes, Published, SessionsInv, BundleInv, PointerInv
  <2> DEFINE b == [bundle[dir[c]] EXCEPT !.meta = TRUE]
  <2>2. dir[c] # None /\ dir[c] \in Dirs /\ bundle[dir[c]] \in BundleType
    BY <1>3 DEF Describes, SessionsInv, BundleInv
  <2>3. b \in BundleType /\ b.meta
    BY <2>2 DEF BundleType
  <2>4. bundle' = [bundle EXCEPT ![dir[c]] = b]
    BY <1>3 DEF Describes
  <2> QED
    BY <1>3, <2>1, <2>2, <2>3, <2>4, SetsField DEF Describes, SessionsInv
<1>4. ASSUME NEW c \in Captures, OpensJournal(c) PROVE SessionsInv' /\ BundlesStay
  <2>1. LiveInv' /\ PointerInv'
    BY <1>4, PointerKept DEF OpensJournal, Goes, Published, SessionsInv, BundleInv, PointerInv
  <2> DEFINE b == [bundle[dir[c]] EXCEPT !.segment = TRUE]
  <2>2. dir[c] # None /\ dir[c] \in Dirs /\ bundle[dir[c]] \in BundleType
    BY <1>4 DEF OpensJournal, SessionsInv, BundleInv, Described
  <2>3. bundle[dir[c]].meta
    BY <1>4 DEF OpensJournal, SessionsInv, BundleInv, Described
  <2>4. b \in BundleType /\ b.meta
    BY <2>2, <2>3 DEF BundleType
  <2>5. bundle' = [bundle EXCEPT ![dir[c]] = b]
    BY <1>4 DEF OpensJournal
  <2> QED
    BY <1>4, <2>1, <2>2, <2>4, <2>5, SetsField DEF OpensJournal, SessionsInv
<1>5. ASSUME NEW c \in Captures, OpensSources(c) PROVE SessionsInv' /\ BundlesStay
  <2>1. LiveInv' /\ PointerInv'
    BY <1>5, PointerKept DEF OpensSources, Goes, Published, SessionsInv, BundleInv, PointerInv
  <2> QED
    BY <1>5, <2>1, OnlyGoes DEF OpensSources, SessionsInv, Stages, Described
<1>6. ASSUME NEW c \in Captures, FailsToStart(c) PROVE SessionsInv' /\ BundlesStay
  <2>1. LiveInv' /\ PointerInv'
    BY <1>6, PointerKept DEF FailsToStart, Goes, Published, SessionsInv, BundleInv, PointerInv
  <2>2. CASE UNCHANGED bundle
    BY <1>6, <2>1, <2>2, OnlyGoes DEF FailsToStart, SessionsInv, Stages
  <2>3. CASE /\ capture[c] = "described"
             /\ bundle' = [bundle EXCEPT ![dir[c]].segment = TRUE]
    <3> DEFINE b == [bundle[dir[c]] EXCEPT !.segment = TRUE]
    <3>1. dir[c] # None /\ dir[c] \in Dirs /\ bundle[dir[c]] \in BundleType
      BY <2>3 DEF SessionsInv, BundleInv, Described
    <3>2. bundle[dir[c]].meta
      BY <2>3 DEF SessionsInv, BundleInv, Described
    <3>3. b \in BundleType /\ b.meta
      BY <3>1, <3>2 DEF BundleType
    <3>4. bundle' = [bundle EXCEPT ![dir[c]] = b]
      BY <2>3
    <3> HIDE DEF b
    <3> QED
      BY <1>6, <2>1, <2>3, <3>1, <3>3, <3>4, SetsField DEF FailsToStart, SessionsInv
  <2> QED
    BY <1>6, <2>2, <2>3 DEF FailsToStart
<1>7. ASSUME NEW c \in Captures, Publishes(c) PROVE SessionsInv' /\ BundlesStay
  <2>1. /\ capture[c] = "sourced" /\ capture'[c] = "published"
        /\ \A d \in Captures : d # c => capture'[d] = capture[d]
    BY <1>7 DEF Publishes, Goes, SessionsInv, BundleInv
  <2>2. Published' = Published \cup {c} /\ c \notin Published
    BY <2>1 DEF Published
  <2>3. LiveInv'
    <3>1. CASE Published = {}
      BY <1>7, <2>2, <3>1 DEF Publishes, Points, LiveInv
    <3>2. CASE Published # {}
      <4>1. met' = met \cup Published'
        BY <1>7, <2>2, <3>2 DEF Publishes
      <4> QED
        BY <4>1 DEF LiveInv
    <3> QED
      BY <3>1, <3>2
  <2>4. PointerInv'
    BY <1>7, <2>1 DEF Publishes, Points, PointerInv, SessionsInv
  <2> QED
    BY <1>7, <2>3, <2>4, OnlyGoes DEF Publishes, SessionsInv, Stages, Described
<1>8. ASSUME NEW c \in Captures, Starts(c) PROVE SessionsInv' /\ BundlesStay
  <2>1. LiveInv' /\ PointerInv'
    BY <1>8, PointerKept DEF Starts, Goes, Published, SessionsInv, BundleInv, PointerInv
  <2> QED
    BY <1>8, <2>1, OnlyGoes DEF Starts, SessionsInv, Stages, Described
<1>9. ASSUME NEW c \in Captures, CaptureStamps(c) PROVE SessionsInv' /\ BundlesStay
  BY <1>9, CapturesStay DEF CaptureStamps, SessionsInv, BundleInv
<1>10. ASSUME NEW c \in Captures, Stops(c) PROVE SessionsInv' /\ BundlesStay
  <2>1. LiveInv' /\ PointerInv'
    BY <1>10, PointerKept DEF Stops, Goes, Published, SessionsInv, BundleInv, PointerInv
  <2> QED
    BY <1>10, <2>1, OnlyGoes DEF Stops, SessionsInv, Stages, Described
<1>11. ASSUME NEW c \in Captures, Clears(c) PROVE SessionsInv' /\ BundlesStay
  <2>1. c \in Published /\ Published' = Published \ {c}
    BY <1>11 DEF Clears, Goes, Published, SessionsInv, BundleInv
  <2>2. LiveInv'
    BY <1>11, <2>1 DEF Clears, SessionsInv, LiveInv
  <2>3. PointerInv'
    BY <1>11 DEF Clears, PointerInv
  <2> QED
    BY <1>11, <2>2, <2>3, OnlyGoes DEF Clears, SessionsInv, Stages
<1>12. ASSUME NEW c \in Captures, Kills(c) PROVE SessionsInv' /\ BundlesStay
  <2>1. LiveInv' /\ PointerInv'
    BY <1>12, PointerKept DEF Kills, Goes, Published, SessionsInv, BundleInv, PointerInv
  <2> QED
    BY <1>12, <2>1, OnlyGoes DEF Kills, SessionsInv, Stages
<1>13. ASSUME NEW m \in Marks, MarkFinds(m) PROVE SessionsInv' /\ BundlesStay
  <2>1. Found \in Captures
    BY <1>13 DEF MarkFinds, Found, SessionsInv, PointerInv
  <2>2. m \in Procs /\ Found \in Procs /\ m \notin Captures
    BY <2>1, SessionsAssumption DEF SessionsAssumption, Procs
  <2> QED
    BY <1>13, <2>2, CapturesStay DEF MarkFinds, SessionsInv, BundleInv
<1>14. ASSUME NEW m \in Marks, MarkFindsNone(m) PROVE SessionsInv' /\ BundlesStay
  BY <1>14, CapturesStay DEF MarkFindsNone, SessionsInv, BundleInv
<1>15. ASSUME NEW m \in Marks, MarkNames(m) PROVE SessionsInv' /\ BundlesStay
  <2>1. m \in Procs /\ m \notin Captures
    BY SessionsAssumption DEF SessionsAssumption, Procs
  <2> QED
    BY <1>15, <2>1, CapturesStay DEF MarkNames, SessionsInv, BundleInv
<1>16. ASSUME NEW m \in Marks, MarkOpens(m) PROVE SessionsInv' /\ BundlesStay
  BY <1>16, CapturesStay DEF MarkOpens, SessionsInv, BundleInv
<1>17. ASSUME NEW m \in Marks, MarkStamps(m) PROVE SessionsInv' /\ BundlesStay
  BY <1>17, CapturesStay DEF MarkStamps, SessionsInv, BundleInv
<1>18. ASSUME NEW m \in Marks, MarkExits(m) PROVE SessionsInv' /\ BundlesStay
  BY <1>18, CapturesStay DEF MarkExits, SessionsInv, BundleInv
<1>19. ASSUME UNCHANGED sessionsVars PROVE SessionsInv' /\ BundlesStay
  BY <1>19, CapturesStay DEF sessionsVars, pointerVars, SessionsInv, BundleInv
<1> QED
  BY <1>1, <1>2, <1>3, <1>4, <1>5, <1>6, <1>7, <1>8, <1>9, <1>10, <1>11, <1>12, <1>13,
     <1>14, <1>15, <1>16, <1>17, <1>18, <1>19 DEF SessionsNext

-----------------------------------------------------------------------------
\* The invariant holds in every state.
LEMMA SessionsHold == SessionsSpec => []SessionsInv
  BY SessionsInitial, SessionsStep, PTL DEF SessionsSpec

\* No two captures share a directory, whoever starts, fails or dies in what
\* order, and what is in a bundle stays there (CreateBundle).
THEOREM CapturesKeepApart == SessionsSpec => BundlesApart
<1>1. SessionsInv => \A c, d \in Captures : c # d /\ dir[c] # None => dir[c] # dir[d]
  BY DEF SessionsInv, BundleInv
<1>2. SessionsInv /\ [SessionsNext]_sessionsVars =>
        [\A d \in Dirs : bundle[d] # None =>
           /\ bundle'[d] # None
           /\ bundle[d].meta => bundle'[d].meta]_sessionsVars
  BY SessionsStep DEF BundlesStay
<1> QED
  BY <1>1, <1>2, SessionsHold, PTL DEF SessionsSpec, BundlesApart

\* A bundle with evidence describes itself, at whatever step its session fails
\* or is killed (captureSession), and so does every session that is found.
THEOREM EvidenceIsDescribed == SessionsSpec => []SelfDescribing
<1>1. SessionsInv => SelfDescribing
  <2> SUFFICES ASSUME SessionsInv PROVE SelfDescribing
    OBVIOUS
  <2>1. ASSUME Found # None PROVE bundle[dir[Found]].meta
    BY <2>1 DEF Found, Alive, Over, SessionsInv, PointerInv, BundleInv, Described
  <2> QED
    BY <2>1 DEF SelfDescribing, StatusFails, SessionsInv, BundleInv
<1> QED
  BY <1>1, SessionsHold, PTL

\* For any number of captures: one that runs and has met no other is the one
\* that status and mark find (PublishLive, ClearLive, ReadLive).
THEOREM RunningIsFound == SessionsSpec => []LiveIsFound
<1>1. SessionsInv => LiveIsFound
  BY SessionsAssumption
  DEF SessionsAssumption, SessionsInv, LiveInv, LiveIsFound, Found, Alive, Over, Published
<1> QED
  BY <1>1, SessionsHold, PTL

-----------------------------------------------------------------------------
(* The marker log                                                          *)

Less == {p \in Nat \X Nat : p[1] < p[2]}

\* A set of natural numbers that is not empty has a least element.
LEMMA Least ==
  ASSUME NEW T \in SUBSET Nat, T # {}
  PROVE  \E m \in T : \A k \in T : m <= k
<1>1. IsWellFoundedOn(Less, Nat)
  <2>1. Less = OpToRel(<, Nat)
    BY Zenon DEF Less, OpToRel
  <2> QED
    BY <2>1, NatLessThanWellFounded, Zenon
<1>2. PICK m \in T : \A k \in T : ~ (<<k, m>> \in Less)
  BY <1>1, WFMin
<1>3. ASSUME NEW k \in T PROVE m <= k
  <2>1. m \in Nat /\ k \in Nat /\ <<k, m>> \notin Less
    BY <1>2
  <2>2. k < m => <<k, m>> \in Less
    BY <2>1 DEF Less
  <2> QED
    BY <2>1, <2>2
<1> QED
  BY <1>3

\* A bounded set of natural numbers has a largest one: the least upper bound.
LEMMA Largest ==
  ASSUME NEW T \in SUBSET Nat, T # {}, NEW b \in Nat, \A k \in T : k <= b
  PROVE  Max(T) \in T /\ \A k \in T : k <= Max(T)
<1> DEFINE B == {n \in Nat : \A k \in T : k <= n}
<1>1. B \in SUBSET Nat /\ B # {}
  OBVIOUS
<1>2. PICK m \in B : \A n \in B : m <= n
  BY <1>1, Least
<1>3. m \in T
  <2> SUFFICES ASSUME m \notin T PROVE FALSE
    OBVIOUS
  <2>1. \A k \in T : k <= m - 1 /\ m - 1 \in Nat
    <3> TAKE k \in T
    <3>1. k \in Nat /\ m \in Nat /\ k <= m /\ k # m
      OBVIOUS
    <3> QED
      BY <3>1
  <2>2. m - 1 \in B
    BY <2>1
  <2> QED
    BY <1>2, <2>2
<1>4. \A k \in T : m >= k
  OBVIOUS
<1>5. Max(T) \in T /\ \A k \in T : Max(T) >= k
  BY <1>3, <1>4 DEF Max
<1>6. Max(T) \in Nat
  BY <1>5
<1> QED
  BY <1>5, <1>6

Line == [seq : Nat, by : Procs]

\* A process that has yet to open a log, and one that has one open.
Unopened(p) ==
  IF p \in Captures THEN capture[p] \in {"idle", "named", "described", "journaling"}
  ELSE mark[p] \in {"idle", "found"}

MayStamp(p) ==
  IF p \in Captures THEN capture[p] \in {"sourced", "published", "live"}
  ELSE mark[p] = "open"

\* What is said of one log: its numbers are bounded, its writers have opened
\* it, and none of them numbers a line like one it found there.
LogInv(lines) ==
  /\ lines \in Seq(Line)
  /\ \E b \in Nat : \A k \in DOMAIN lines : lines[k].seq <= b
  /\ \A k \in DOMAIN lines : ~Unopened(lines[k].by)
  /\ \A i, j \in DOMAIN lines :
       i <= openedAt[lines[j].by] /\ openedAt[lines[j].by] < j => lines[i].seq < lines[j].seq

\* A process counts on from the largest number it has found.
CountsOn(p) ==
  /\ openedAt[p] <= Len(log[dir[p]])
  /\ \A k \in 1 .. openedAt[p] : log[dir[p]][k].seq <= seq[p]

CountInv ==
  /\ seq \in [Procs -> Nat] /\ openedAt \in [Procs -> Nat]
  /\ mark \in [Marks -> {"idle", "found", "open", "exited"}]
  /\ log \in [Dirs -> Seq(Line)]
  /\ \A m \in Marks : mark[m] \in {"found", "open"} => dir[m] \in Dirs
  /\ \A d \in Dirs : LogInv(log[d])
  /\ \A p \in Procs : MayStamp(p) => CountsOn(p)

\* Every line has its number and its writer.
LEMMA LineFields ==
  ASSUME NEW lines \in Seq(Line), NEW k \in DOMAIN lines
  PROVE  lines[k].seq \in Nat /\ lines[k].by \in Procs
<1>1. lines[k] \in Line
  BY LenProperties
<1> QED
  BY <1>1 DEF Line

\* No log has a line when the first process starts.
LEMMA CountInitial == SessionsInit => CountInv
<1> SUFFICES ASSUME SessionsInit PROVE CountInv
  OBVIOUS
<1>1. \A d \in Dirs : log[d] = <<>>
  BY DEF SessionsInit
<1>2. LogInv(<<>>)
  BY DEF LogInv
<1>3. \A p \in Procs : ~MayStamp(p)
  BY DEF SessionsInit, MayStamp, Procs
<1>4. \A m \in Marks : mark[m] = "idle"
  BY DEF SessionsInit
<1> QED
  BY <1>1, <1>2, <1>3, <1>4 DEF SessionsInit, CountInv

\* The number a beacon goes on from is at least every one in the log.
LEMMA LastSeqIsLargest ==
  ASSUME NEW lines, LogInv(lines)
  PROVE  LastSeq(lines) \in Nat /\ \A k \in DOMAIN lines : lines[k].seq <= LastSeq(lines)
<1> DEFINE T == {0} \cup {lines[k].seq : k \in DOMAIN lines}
<1>1. \A k \in DOMAIN lines : lines[k].seq \in Nat
  BY LineFields DEF LogInv
<1>2. PICK b \in Nat : \A k \in DOMAIN lines : lines[k].seq <= b
  BY DEF LogInv
<1>3. T \in SUBSET Nat /\ T # {} /\ \A n \in T : n <= b
  BY <1>1, <1>2
<1> HIDE DEF T
<1>4. Max(T) \in T /\ \A n \in T : n <= Max(T)
  BY <1>3, Largest
<1> QED
  BY <1>3, <1>4 DEF T, LastSeq

\* A step that neither opens a log nor writes to one.
LEMMA LogsStay ==
  ASSUME CountInv, UNCHANGED beaconVars,
         mark' \in [Marks -> {"idle", "found", "open", "exited"}],
         \A m \in Marks : mark'[m] \in {"found", "open"} => dir'[m] \in Dirs,
         \A p \in Procs : Unopened(p)' => Unopened(p),
         \A p \in Procs : MayStamp(p)' => MayStamp(p) /\ dir'[p] = dir[p]
  PROVE  CountInv'
<1>1. \A d \in Dirs : LogInv(log[d])'
  <2> TAKE d \in Dirs
  <2>1. LogInv(log[d]) /\ log'[d] = log[d] /\ openedAt' = openedAt
    BY DEF CountInv, beaconVars
  <2>2. \A k \in DOMAIN log[d] : log[d][k].by \in Procs
    BY <2>1, LineFields DEF LogInv
  <2>3. \A k \in DOMAIN log[d] : ~Unopened(log[d][k].by)'
    BY <2>1, <2>2 DEF LogInv
  <2> QED
    BY <2>1, <2>3 DEF LogInv, Unopened
<1>2. \A p \in Procs : MayStamp(p)' => CountsOn(p)'
  BY DEF CountInv, CountsOn, beaconVars
<1> QED
  BY <1>1, <1>2 DEF CountInv, beaconVars

\* Opening a log takes the count to its largest number.
LEMMA OpeningCounts ==
  ASSUME CountInv, NEW p \in Procs, dir[p] \in Dirs, OpenBeacon(p, dir[p]), Unopened(p),
         UNCHANGED dir, mark' \in [Marks -> {"idle", "found", "open", "exited"}],
         \A m \in Marks : mark'[m] \in {"found", "open"} => dir[m] \in Dirs,
         \A q \in Procs : Unopened(q)' => Unopened(q),
         \A q \in Procs : q # p /\ MayStamp(q)' => MayStamp(q)
  PROVE  CountInv'
<1>1. /\ seq' = [seq EXCEPT ![p] = LastSeq(log[dir[p]])]
      /\ openedAt' = [openedAt EXCEPT ![p] = Len(log[dir[p]])] /\ log' = log
  BY DEF OpenBeacon
<1>2. /\ LastSeq(log[dir[p]]) \in Nat
      /\ \A k \in DOMAIN log[dir[p]] : log[dir[p]][k].seq <= LastSeq(log[dir[p]])
  BY LastSeqIsLargest DEF CountInv
<1>3. Len(log[dir[p]]) \in Nat /\ DOMAIN log[dir[p]] = 1 .. Len(log[dir[p]])
  BY LenProperties DEF CountInv
<1>4. seq' \in [Procs -> Nat] /\ openedAt' \in [Procs -> Nat]
  BY <1>1, <1>2, <1>3 DEF CountInv
<1>5. \A d \in Dirs : LogInv(log[d])'
  <2> TAKE d \in Dirs
  <2>1. LogInv(log[d]) /\ log'[d] = log[d]
    BY <1>1 DEF CountInv
  <2>2. \A k \in DOMAIN log[d] : log[d][k].by \in Procs
    BY <2>1, LineFields DEF LogInv
  <2>3. \A k \in DOMAIN log[d] : ~Unopened(log[d][k].by)' /\ log[d][k].by # p
    BY <2>1, <2>2 DEF LogInv
  <2>4. \A k \in DOMAIN log[d] : openedAt'[log[d][k].by] = openedAt[log[d][k].by]
    BY <1>1, <2>2, <2>3 DEF CountInv
  <2>5. \A i, j \in DOMAIN log[d] :
          i <= openedAt'[log[d][j].by] /\ openedAt'[log[d][j].by] < j
            => log[d][i].seq < log[d][j].seq
    BY <2>1, <2>4 DEF LogInv
  <2> QED
    BY <2>1, <2>3, <2>5 DEF LogInv, Unopened
<1>6. ASSUME NEW q \in Procs, MayStamp(q)' PROVE CountsOn(q)'
  <2>1. CASE q = p
    BY <1>1, <1>2, <1>3, <2>1 DEF CountsOn, CountInv
  <2>2. CASE q # p
    BY <1>1, <1>6, <2>2 DEF CountsOn, CountInv
  <2> QED
    BY <2>1, <2>2
<1> QED
  BY <1>1, <1>4, <1>5, <1>6 DEF CountInv

\* A line a process adds is numbered above every one that it has found.
LEMMA LineCounts ==
  ASSUME NEW lines, LogInv(lines), NEW p \in Procs, ~Unopened(p),
         seq \in [Procs -> Nat], openedAt \in [Procs -> Nat],
         openedAt[p] <= Len(lines), \A k \in 1 .. openedAt[p] : lines[k].seq <= seq[p]
  PROVE  LogInv(Append(lines, [seq |-> seq[p] + 1, by |-> p]))
<1> DEFINE e == [seq |-> seq[p] + 1, by |-> p]
           more == Append(lines, e)
<1>1. lines \in Seq(Line) /\ DOMAIN lines = 1 .. Len(lines) /\ Len(lines) \in Nat
  BY LenProperties DEF LogInv
<1>2. e \in Line /\ e.seq = seq[p] + 1 /\ e.by = p /\ seq[p] \in Nat /\ openedAt[p] \in Nat
  BY DEF Line
<1> HIDE DEF e
<1>3. /\ more \in Seq(Line) /\ Len(more) = Len(lines) + 1
      /\ \A k \in 1 .. Len(lines) : more[k] = lines[k]
      /\ more[Len(lines) + 1] = e
  BY <1>1, <1>2, AppendProperties
<1> HIDE DEF more
<1>4. DOMAIN more = 1 .. Len(lines) + 1
  BY <1>3, LenProperties
<1>5. \A k \in DOMAIN more : k \in DOMAIN lines \/ k = Len(lines) + 1
  BY <1>1, <1>4
<1>6. \A k \in DOMAIN lines : more[k] = lines[k] /\ lines[k].seq \in Nat /\ lines[k].by \in Procs
  BY <1>1, <1>3, LineFields
<1>7. \E b \in Nat : \A k \in DOMAIN more : more[k].seq <= b
  <2>1. PICK b \in Nat : \A k \in DOMAIN lines : lines[k].seq <= b
    BY DEF LogInv
  <2>2. b + seq[p] + 1 \in Nat
    BY <1>2
  <2>3. ASSUME NEW k \in DOMAIN more PROVE more[k].seq <= b + seq[p] + 1
    BY <1>2, <1>3, <1>5, <1>6, <2>1
  <2> QED
    BY <2>2, <2>3
<1>8. \A k \in DOMAIN more : ~Unopened(more[k].by)
  BY <1>2, <1>3, <1>5, <1>6 DEF LogInv
<1>9. ASSUME NEW i \in DOMAIN more, NEW j \in DOMAIN more,
             i <= openedAt[more[j].by], openedAt[more[j].by] < j
      PROVE  more[i].seq < more[j].seq
  <2>1. more[j].by \in Procs /\ openedAt[more[j].by] \in Nat
    BY <1>2, <1>3, <1>5, <1>6
  <2>2. i < j /\ i \in DOMAIN lines
    BY <1>1, <1>4, <1>9, <2>1
  <2>3. CASE j \in DOMAIN lines
    BY <1>6, <1>9, <2>2, <2>3 DEF LogInv
  <2>4. CASE j = Len(lines) + 1
    <3>1. more[j] = e /\ i \in 1 .. openedAt[p]
      BY <1>1, <1>2, <1>3, <1>9, <2>2, <2>4
    <3>2. more[i].seq <= seq[p] /\ more[i].seq \in Nat
      BY <1>6, <2>2, <3>1
    <3> QED
      BY <1>2, <3>1, <3>2
  <2> QED
    BY <1>5, <2>3, <2>4
<1>10. LogInv(more)
  BY <1>3, <1>7, <1>8, <1>9 DEF LogInv
<1> QED
  BY <1>10 DEF more, e

\* A step in which p adds a line to its log, or uses up a number.
LEMMA StampCounts ==
  ASSUME SessionsInv, CountInv, NEW p \in Procs, MayStamp(p), dir[p] \in Dirs, Stamp(p),
         UNCHANGED <<dir, mark>>,
         \A q \in Procs : Unopened(q)' => Unopened(q),
         \A q \in Procs : MayStamp(q)' => MayStamp(q)
  PROVE  CountInv'
<1> DEFINE e == [seq |-> seq[p] + 1, by |-> p]
<1>1. /\ seq' = [seq EXCEPT ![p] = @ + 1] /\ openedAt' = openedAt
      /\ log' = [log EXCEPT ![dir[p]] = Append(@, e)] \/ log' = log
  BY DEF Stamp
<1>2. /\ seq \in [Procs -> Nat] /\ openedAt \in [Procs -> Nat]
      /\ log \in [Dirs -> Seq(Line)] /\ CountsOn(p) /\ \A d \in Dirs : LogInv(log[d])
  BY DEF CountInv
<1>3. ~Unopened(p)
  BY DEF MayStamp, Unopened
<1>4. LogInv(Append(log[dir[p]], e))
  BY <1>2, <1>3, LineCounts DEF CountsOn
<1>5. seq' \in [Procs -> Nat] /\ \A q \in Procs : seq[q] <= seq'[q]
  BY <1>1, <1>2
<1>6. Append(log[dir[p]], e) \in Seq(Line)
  BY <1>4 DEF LogInv
<1> HIDE DEF e
<1>7. log' \in [Dirs -> Seq(Line)]
  BY <1>1, <1>2, <1>6
<1>8. \A d \in Dirs : LogInv(log'[d])
  BY <1>1, <1>2, <1>4
<1>9. \A d \in Dirs : LogInv(log[d])'
  <2> TAKE d \in Dirs
  <2>1. LogInv(log'[d])
    BY <1>8
  <2>2. \A k \in DOMAIN log'[d] : log'[d][k].by \in Procs
    BY <2>1, LineFields DEF LogInv
  <2>3. \A k \in DOMAIN log'[d] : ~Unopened(log[d][k].by)'
    <3> TAKE k \in DOMAIN log'[d]
    <3> DEFINE q == log'[d][k].by
    <3>1. q \in Procs /\ ~Unopened(q)
      BY <2>1, <2>2 DEF LogInv
    <3>2. \A r \in Procs : ~Unopened(r) => ~Unopened(r)'
      OBVIOUS
    <3> QED
      BY <3>1, <3>2 DEF Unopened
  <2>4. \A i, j \in DOMAIN log'[d] :
          i <= openedAt'[log'[d][j].by] /\ openedAt'[log'[d][j].by] < j
            => log'[d][i].seq < log'[d][j].seq
    BY <1>1, <2>1 DEF LogInv
  <2> QED
    BY <2>1, <2>3, <2>4 DEF LogInv
<1>10. ASSUME NEW d \in Dirs
       PROVE  /\ Len(log[d]) <= Len(log'[d])
              /\ \A k \in 1 .. Len(log[d]) : log'[d][k] = log[d][k]
  <2>1. log[d] \in Seq(Line) /\ Len(log[d]) \in Nat
    BY <1>2, LenProperties
  <2>2. CASE log'[d] = log[d]
    BY <2>1, <2>2
  <2>3. CASE log'[d] = Append(log[d], e)
    <3>1. e \in Line
      BY <1>2 DEF e, Line
    <3>2. /\ Len(Append(log[d], e)) = Len(log[d]) + 1
          /\ \A k \in 1 .. Len(log[d]) : Append(log[d], e)[k] = log[d][k]
      BY <2>1, <3>1, AppendProperties
    <3> QED
      BY <2>1, <2>3, <3>2
  <2> QED
    BY <1>1, <1>2, <2>2, <2>3
<1>11. ASSUME NEW q \in Procs, MayStamp(q)' PROVE CountsOn(q)'
  <2>1. CountsOn(q) /\ MayStamp(q)
    BY <1>11 DEF CountInv
  <2>2. dir[q] \in Dirs
    BY <2>1 DEF MayStamp, CountInv, SessionsInv, BundleInv, Described, Procs
  <2>3. openedAt[q] \in Nat /\ openedAt[q] <= Len(log[dir[q]]) /\ Len(log[dir[q]]) \in Nat
        /\ Len(log'[dir[q]]) \in Nat
    BY <1>2, <1>7, <2>1, <2>2, LenProperties DEF CountsOn
  <2>4. openedAt[q] <= Len(log'[dir[q]])
    BY <1>10, <2>2, <2>3
  <2>5. ASSUME NEW k \in 1 .. openedAt[q] PROVE log'[dir[q]][k].seq <= seq'[q]
    <3>1. k \in 1 .. Len(log[dir[q]])
      BY <2>3
    <3>2. log'[dir[q]][k] = log[dir[q]][k] /\ log[dir[q]][k].seq \in Nat
      BY <1>2, <1>10, <2>2, <3>1, LineFields, LenProperties
    <3>3. log[dir[q]][k].seq <= seq[q] /\ seq[q] <= seq'[q] /\ seq[q] \in Nat /\ seq'[q] \in Nat
      BY <1>2, <1>5, <2>1 DEF CountsOn
    <3> QED
      BY <3>2, <3>3
  <2> QED
    BY <1>1, <2>4, <2>5 DEF CountsOn
<1> QED
  BY <1>1, <1>2, <1>5, <1>7, <1>9, <1>11 DEF CountInv

\* Every process opens its log before it writes to it, and stays with it.
LEMMA CountStep ==
  SessionsInv /\ CountInv /\ [SessionsNext]_sessionsVars => CountInv'
<1> SUFFICES ASSUME SessionsInv, CountInv, [SessionsNext]_sessionsVars PROVE CountInv'
  OBVIOUS
<1>1. /\ capture \in [Captures -> Stages] /\ dir \in [Procs -> Dirs \cup {None}]
      /\ mark \in [Marks -> {"idle", "found", "open", "exited"}]
      /\ \A m \in Marks : mark[m] \in {"found", "open"} => dir[m] \in Dirs
      /\ \A c \in Captures : Described(c) => dir[c] \in Dirs
  BY DEF SessionsInv, BundleInv, CountInv
<1>2. /\ \A c \in Captures : c \in Procs /\ c \notin Marks
      /\ \A m \in Marks : m \in Procs /\ m \notin Captures
  BY SessionsAssumption DEF SessionsAssumption, Procs
<1>3. ASSUME NEW c \in Captures, NEW stage \in Stages,
             capture' = capture \/ Goes(c, stage), UNCHANGED <<mark, beaconVars>>,
             \A p \in Procs : p # c => dir'[p] = dir[p],
             capture' # capture /\ Unopened(c)' => Unopened(c),
             capture' # capture /\ MayStamp(c)' => MayStamp(c),
             MayStamp(c) => dir'[c] = dir[c]
      PROVE  CountInv'
  <2>1. \A d \in Captures : d # c => capture'[d] = capture[d]
    BY <1>1, <1>3 DEF Goes
  <2>2. \A p \in Procs : Unopened(p)' => Unopened(p)
    BY <1>3, <2>1 DEF Unopened
  <2>3. \A p \in Procs : MayStamp(p)' => MayStamp(p) /\ dir'[p] = dir[p]
    BY <1>3, <2>1 DEF MayStamp
  <2>4. \A m \in Marks : mark'[m] \in {"found", "open"} => dir'[m] \in Dirs
    BY <1>1, <1>2, <1>3
  <2> QED
    BY <1>1, <1>3, <2>2, <2>3, <2>4, LogsStay
<1>4. ASSUME NEW c \in Captures, Names(c) PROVE CountInv'
  BY <1>1, <1>2, <1>3, <1>4 DEF Names, Mkdir, Goes, Unopened, MayStamp, Stages
<1>5. ASSUME NEW c \in Captures,
             NotNamed(c) \/ Describes(c) \/ OpensJournal(c) \/ FailsToStart(c) \/ Clears(c)
             \/ Kills(c) \/ Publishes(c)
      PROVE  CountInv'
  <2>1. UNCHANGED <<mark, dir, beaconVars>>
    BY <1>5 DEF NotNamed, Describes, OpensJournal, FailsToStart, Clears, Kills, Publishes
  <2>2. PICK stage \in Stages : Goes(c, stage)
    BY <1>5 DEF NotNamed, Describes, OpensJournal, FailsToStart, Clears, Kills, Publishes,
      Stages
  <2>3. Unopened(c)' => Unopened(c)
    BY <1>1, <1>5 DEF NotNamed, Describes, OpensJournal, FailsToStart, Clears, Kills,
      Publishes, Goes, Unopened
  <2>4. MayStamp(c)' => MayStamp(c)
    BY <1>1, <1>5 DEF NotNamed, Describes, OpensJournal, FailsToStart, Clears, Kills,
      Publishes, Goes, MayStamp
  <2> QED
    BY <1>3, <2>1, <2>2, <2>3, <2>4
<1>6. ASSUME NEW c \in Captures, OpensSources(c) PROVE CountInv'
  <2>1. /\ OpenBeacon(c, dir[c]) /\ UNCHANGED <<dir, mark>>
        /\ capture[c] = "journaling" /\ capture' = [capture EXCEPT ![c] = "sourced"]
    BY <1>6 DEF OpensSources, Goes
  <2>2. dir[c] \in Dirs /\ Unopened(c)
    BY <1>1, <2>1 DEF Described, Unopened
  <2>3. \A q \in Procs : Unopened(q)' => Unopened(q)
    BY <1>1, <2>1 DEF Unopened
  <2>4. \A q \in Procs : q # c /\ MayStamp(q)' => MayStamp(q)
    BY <1>1, <2>1 DEF MayStamp
  <2> QED
    BY <1>1, <1>2, <2>1, <2>2, <2>3, <2>4, OpeningCounts
<1>7. ASSUME NEW c \in Captures, Starts(c) \/ CaptureStamps(c) \/ Stops(c) PROVE CountInv'
  <2>1. Stamp(c) /\ UNCHANGED <<dir, mark>> /\ capture[c] \in {"published", "live"}
        /\ \/ capture' = capture
           \/ capture' = [capture EXCEPT ![c] = "live"]
           \/ capture' = [capture EXCEPT ![c] = "stopped"]
    BY <1>7 DEF Starts, CaptureStamps, Stops, Goes
  <2>2. dir[c] \in Dirs /\ MayStamp(c)
    BY <1>1, <2>1 DEF Described, MayStamp
  <2>3. \A q \in Procs : Unopened(q)' => Unopened(q)
    BY <1>1, <2>1 DEF Unopened
  <2>4. \A q \in Procs : MayStamp(q)' => MayStamp(q)
    BY <1>1, <2>1 DEF MayStamp
  <2> QED
    BY <1>2, <2>1, <2>2, <2>3, <2>4, StampCounts
<1>8. ASSUME NEW m \in Marks, MarkFinds(m) PROVE CountInv'
  <2>1. /\ dir' = [dir EXCEPT ![m] = dir[Found]] /\ mark' = [mark EXCEPT ![m] = "found"]
        /\ UNCHANGED <<capture, beaconVars>> /\ mark[m] = "idle" /\ Found # None
    BY <1>8 DEF MarkFinds
  <2>2. dir[Found] \in Dirs
    <3>1. Found \in Captures /\ Described(Found)
      BY <2>1 DEF Found, Alive, Over, SessionsInv, PointerInv, Described
    <3> QED
      BY <1>1, <3>1
  <2>3. /\ mark' \in [Marks -> {"idle", "found", "open", "exited"}]
        /\ \A n \in Marks : mark'[n] \in {"found", "open"} => dir'[n] \in Dirs
    BY <1>1, <1>2, <2>1, <2>2
  <2>4. \A p \in Procs : Unopened(p)' => Unopened(p)
    BY <1>1, <1>2, <2>1 DEF Unopened, Procs
  <2>5. \A p \in Procs : MayStamp(p)' => MayStamp(p) /\ dir'[p] = dir[p]
    BY <1>1, <1>2, <2>1 DEF MayStamp, Procs
  <2> QED
    BY <2>1, <2>3, <2>4, <2>5, LogsStay
<1>9. ASSUME NEW m \in Marks, MarkNames(m) PROVE CountInv'
  <2>1. PICK d \in Dirs : dir' = [dir EXCEPT ![m] = d]
    BY <1>9 DEF MarkNames
  <2>2. /\ mark' = [mark EXCEPT ![m] = "found"]
        /\ UNCHANGED <<capture, beaconVars>> /\ mark[m] = "idle"
    BY <1>9 DEF MarkNames
  <2>3. /\ mark' \in [Marks -> {"idle", "found", "open", "exited"}]
        /\ \A n \in Marks : mark'[n] \in {"found", "open"} => dir'[n] \in Dirs
    BY <1>1, <1>2, <2>1, <2>2
  <2>4. \A p \in Procs : Unopened(p)' => Unopened(p)
    BY <1>1, <1>2, <2>2 DEF Unopened, Procs
  <2>5. \A p \in Procs : MayStamp(p)' => MayStamp(p) /\ dir'[p] = dir[p]
    BY <1>1, <1>2, <2>1, <2>2 DEF MayStamp, Procs
  <2> QED
    BY <2>2, <2>3, <2>4, <2>5, LogsStay
<1>10. ASSUME NEW m \in Marks, MarkFindsNone(m) \/ MarkExits(m) PROVE CountInv'
  <2>1. mark' = [mark EXCEPT ![m] = "exited"] /\ UNCHANGED <<capture, dir, beaconVars>>
    BY <1>10 DEF MarkFindsNone, MarkExits
  <2>2. \A p \in Procs : Unopened(p)' => Unopened(p)
    BY <1>1, <1>2, <2>1 DEF Unopened, Procs
  <2>3. \A p \in Procs : MayStamp(p)' => MayStamp(p) /\ dir'[p] = dir[p]
    BY <1>1, <1>2, <2>1 DEF MayStamp, Procs
  <2> QED
    BY <1>1, <2>1, <2>2, <2>3, LogsStay
<1>11. ASSUME NEW m \in Marks, MarkOpens(m) PROVE CountInv'
  <2>1. /\ OpenBeacon(m, dir[m]) /\ UNCHANGED <<dir, capture>>
        /\ mark[m] = "found" /\ mark' = [mark EXCEPT ![m] = "open"]
    BY <1>11 DEF MarkOpens
  <2>2. dir[m] \in Dirs /\ Unopened(m)
    BY <1>1, <1>2, <2>1 DEF Unopened
  <2>3. \A q \in Procs : Unopened(q)' => Unopened(q)
    BY <1>1, <1>2, <2>1 DEF Unopened, Procs
  <2>4. \A q \in Procs : q # m /\ MayStamp(q)' => MayStamp(q)
    BY <1>1, <1>2, <2>1 DEF MayStamp, Procs
  <2>5. /\ mark' \in [Marks -> {"idle", "found", "open", "exited"}]
        /\ \A n \in Marks : mark'[n] \in {"found", "open"} => dir[n] \in Dirs
    BY <1>1, <2>1, <2>2
  <2> QED
    BY <1>2, <2>1, <2>2, <2>3, <2>4, <2>5, OpeningCounts
<1>12. ASSUME NEW m \in Marks, MarkStamps(m) PROVE CountInv'
  <2>1. Stamp(m) /\ UNCHANGED <<dir, mark, capture>> /\ mark[m] = "open"
    BY <1>12 DEF MarkStamps
  <2>2. dir[m] \in Dirs /\ MayStamp(m)
    BY <1>1, <1>2, <2>1 DEF MayStamp
  <2>3. \A q \in Procs : (Unopened(q)' => Unopened(q)) /\ (MayStamp(q)' => MayStamp(q))
    BY <2>1 DEF Unopened, MayStamp
  <2> QED
    BY <1>2, <2>1, <2>2, <2>3, StampCounts
<1>13. ASSUME UNCHANGED sessionsVars PROVE CountInv'
  <2>1. UNCHANGED <<dir, mark, capture, beaconVars>>
    BY <1>13 DEF sessionsVars, beaconVars
  <2>2. \A q \in Procs : (Unopened(q)' => Unopened(q)) /\ (MayStamp(q)' => MayStamp(q))
    BY <2>1 DEF Unopened, MayStamp
  <2> QED
    BY <1>1, <2>1, <2>2, LogsStay
<1> QED
  BY <1>4, <1>5, <1>6, <1>7, <1>8, <1>9, <1>10, <1>11, <1>12, <1>13 DEF SessionsNext

\* A process that opens a log goes on from the largest number there (OpenBeacon,
\* lastSeq) and never gives out one that it found, for any number of captures
\* and marks with the log open at once, whatever order their lines are in.
THEOREM NumbersGoOn == SessionsSpec => []ReopenContinues
<1>1. CountInv => ReopenContinues
  BY DEF CountInv, LogInv, ReopenContinues
<1>2. SessionsSpec => []CountInv
  BY CountInitial, CountStep, SessionsHold, PTL DEF SessionsSpec
<1> QED
  BY <1>1, <1>2, PTL
=============================================================================
