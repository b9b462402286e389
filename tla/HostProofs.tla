------------------------------ MODULE HostProofs ------------------------------
(***************************************************************************)
(* What Host promises of sccap doctor and sccap capture, for any number of *)
(* interfaces, commands and link changes.                                  *)
(***************************************************************************)
EXTENDS Host, FiniteSetTheorems, SequenceTheorems, TLAPS

\* While the wire keeps its link, a listing has it, and its carrier is read as
\* up or is still to be read.
WireInv ==
  /\ wire \in Ifaces \ Loopback
  /\ carrier \subseteq Ifaces
  /\ steady => wire \in up /\ wire \in plugged
  /\ pc \in {"links", "decide"} /\ steady => wire \in flags /\ wire \in carrier \cup unread
  /\ pc = "decide" => unread = {}
  /\ pc # "idle" => exit # "Started"
  /\ UnnamedIsTheWire

\* A choice made from a complete listing that has the wire is the wire.
LEMMA OneLiveIsTheWire ==
  ASSUME WireInv, steady, pc = "decide", Cardinality(Live) = 1
  PROVE  Live = {wire}
<1>1. wire \in Live
  BY DEF WireInv, Live
<1>2. IsFiniteSet(Live)
  <2>1. Live \subseteq Ifaces
    BY DEF WireInv, Live
  <2> QED
    BY <2>1, HostAssumption, FS_Subset DEF HostAssumption
<1>3. PICK x : Live = {x}
  BY <1>2, FS_Singleton
<1> QED
  BY <1>1, <1>3

\* The wire is known before any command.
LEMMA WireInit == HostInit => WireInv
  BY DEF HostInit, WireInv, UnnamedIsTheWire

\* No step loses sight of the wire.
LEMMA WireStep == WireInv /\ [HostNext]_hostVars => WireInv'
<1> SUFFICES ASSUME WireInv, [HostNext]_hostVars PROVE WireInv'
  OBVIOUS
<1> USE DEF WireInv, UnnamedIsTheWire
<1>1. ASSUME NEW i \in Ifaces, LinkChanges(i) PROVE WireInv'
  BY <1>1 DEF LinkChanges, commandVars, listVars, watchVars
<1>2. ASSUME NEW i \in Ifaces, ReadsCarrier(i) PROVE WireInv'
  BY <1>2 DEF ReadsCarrier, HasCarrier, linkVars, commandVars, watchVars
<1>3. ASSUME NEW i \in Ifaces, Opens(i) PROVE WireInv'
  BY <1>3 DEF Opens, linkVars, commandVars, listVars
<1>4. ASSUME NEW i \in Ifaces, Stops(i) PROVE WireInv'
  BY <1>4 DEF Stops, linkVars, commandVars, listVars
<1>5. ASSUME NEW i \in Ifaces, NEW game \in BOOLEAN, Hears(i, game) PROVE WireInv'
  BY <1>5 DEF Hears, linkVars, commandVars, listVars
<1>6. ASSUME NEW name, NEW names, Gives(name, names) PROVE WireInv'
  BY <1>6 DEF Gives, HasCarrier, listVars, watchVars
<1>7. ASSUME Lists PROVE WireInv'
  BY <1>7 DEF Lists, linkVars, commandVars, watchVars
<1>8. ASSUME ListFails PROVE WireInv'
  BY <1>8 DEF ListFails, Exits, linkVars, commandVars, watchVars
<1>9. ASSUME Judges PROVE WireInv'
  BY <1>9 DEF Judges, Exits, linkVars, listVars, watchVars
<1>10. ASSUME Resolves PROVE WireInv'
  <2>1. /\ UNCHANGED <<linkVars, commandVars, listVars>>
        /\ pc = "decide" /\ pc' = "idle"
    BY <1>10 DEF Resolves, Exits
  <2>2. ASSUME exit' = "Started", cmd.names = <<>>, steady PROVE chosen' = {wire}
    <3>1. chosen' \in Chooses(cmd.names)
      BY <1>10, <2>2 DEF Resolves, Exits
    <3>2. Cardinality(Live) = 1 /\ chosen' = Live
      BY <3>1, <2>2 DEF Chooses
    <3> QED
      BY <3>2, <2>1, <2>2, OneLiveIsTheWire
  <2> QED
    BY <2>1, <2>2 DEF linkVars, commandVars, listVars
<1>11. ASSUME Watches PROVE WireInv'
  BY <1>11 DEF Watches, Exits, linkVars, commandVars, listVars, watchVars
<1>12. ASSUME Recommends PROVE WireInv'
  BY <1>12 DEF Recommends, Exits, linkVars, commandVars, listVars
<1>13. ASSUME UNCHANGED hostVars PROVE WireInv'
  BY <1>13 DEF hostVars
<1> QED
  BY <1>1, <1>2, <1>3, <1>4, <1>5, <1>6, <1>7, <1>8, <1>9, <1>10, <1>11, <1>12, <1>13
  DEF HostNext

\* On a host with any number of interfaces, a capture that was given none
\* records the wire or refuses, whatever links come and go between the two
\* listings of runCapture (resolveInterfaces).
THEOREM UnnamedCapturesTheWire == HostSpec => []UnnamedIsTheWire
<1>1. WireInv => UnnamedIsTheWire
  BY DEF WireInv
<1> QED
  BY <1>1, WireInit, WireStep, PTL DEF HostSpec

-----------------------------------------------------------------------------
\* The doctor has passed this host for the names that capture was given.
Passed ==
  /\ cmd.names = <<>> => \E i \in Ifaces \ Loopback : HasCarrier(i)
  /\ cmd.names # <<>> => Len(cmd.names) = 1 /\ cmd.names[1] \in up

\* While no link changes, a listing is the host, and capture resolves its
\* names on the host that the doctor has passed.
VerdictInv ==
  /\ changes \in Nat /\ asOf \in Nat /\ asOf <= changes
  /\ cmd.names \in Seq(Ifaces \cup {NoSuch})
  /\ up \subseteq Ifaces /\ unread \subseteq Ifaces /\ carrier \subseteq Ifaces
  /\ Ifaces # {}
  /\ pc \in {"links", "decide"} /\ changes = asOf
       => flags = up /\ \A i \in Ifaces : i \in carrier <=> i \notin unread /\ HasCarrier(i)
  /\ pc = "decide" => unread = {}
  /\ pc # "idle" => exit # "Usage"
  /\ pc # "idle" /\ asks = "resolve" /\ changes = asOf => Passed
  /\ DoctorAgrees

\* What the doctor's verdict on a listing says of the host that was listed.
LEMMA PassesAreSound ==
  ASSUME VerdictInv, pc = "decide", changes = asOf, ~DoctorFails(Joined(cmd.names))
  PROVE  Passed
<1>1. flags = up /\ unread = {} /\ \A i \in Ifaces : i \in carrier <=> HasCarrier(i)
  BY DEF VerdictInv
<1>2. CASE cmd.names = <<>>
  <2>1. Joined(cmd.names) = None
    BY <1>2 DEF Joined
  <2>2. PICK i \in Live : TRUE
    BY <2>1 DEF DoctorFails
  <2>3. i \in Ifaces \ Loopback /\ HasCarrier(i)
    BY <1>1, <2>2 DEF Live, VerdictInv
  <2> QED
    BY <1>2, <2>3 DEF Passed
<1>3. CASE cmd.names # <<>>
  <2>1. cmd.names \in Seq(Ifaces \cup {NoSuch})
    BY DEF VerdictInv
  <2>2. Len(cmd.names) = 1 => cmd.names[1] \in Ifaces \cup {NoSuch}
    BY <2>1
  <2>3. Joined(cmd.names) # None
    BY <1>3, <2>2, HostAssumption DEF Joined, HostAssumption
  <2>4. Joined(cmd.names) \in up
    BY <2>3, <1>1 DEF DoctorFails
  <2>5. Joined(cmd.names) # NoSuch
    BY <2>4, HostAssumption DEF HostAssumption, VerdictInv
  <2>6. Len(cmd.names) = 1 /\ Joined(cmd.names) = cmd.names[1]
    BY <1>3, <2>5 DEF Joined
  <2> QED
    BY <1>3, <2>4, <2>6 DEF Passed
<1> QED
  BY <1>2, <1>3

\* Before any command no verdict is pending.
LEMMA VerdictInit == HostInit => VerdictInv
  BY DEF HostInit, VerdictInv, DoctorAgrees, Passed

\* Resolving the names of the doctor keeps what its verdict says.
LEMMA ResolvesKeepsVerdict == VerdictInv /\ Resolves => VerdictInv'
<1> SUFFICES ASSUME VerdictInv, Resolves PROVE VerdictInv'
  OBVIOUS
<1>1. /\ UNCHANGED <<linkVars, commandVars, listVars>>
      /\ pc = "decide" /\ pc' = "idle" /\ asks = "resolve"
  BY DEF Resolves, Exits
<1>2. ASSUME exit' = "Usage", changes = asOf
      PROVE  cmd.names = <<>> /\ Cardinality(Live) > 1
  <2>1. Chooses(cmd.names) = {}
    BY <1>2 DEF Resolves, Exits
  <2>2. Passed
    BY <1>1, <1>2 DEF VerdictInv
  <2>3. flags = up /\ unread = {} /\ \A i \in Ifaces : i \in carrier <=> HasCarrier(i)
    BY <1>1, <1>2 DEF VerdictInv
  <2>4. cmd.names = <<>>
    <3> SUFFICES ASSUME cmd.names # <<>> PROVE FALSE
      OBVIOUS
    <3>1. Len(cmd.names) = 1 /\ cmd.names[1] \in flags
      BY <2>2, <2>3 DEF Passed
    <3>2. ToSet(cmd.names) \subseteq flags
      BY <3>1 DEF ToSet, VerdictInv
    <3> QED
      BY <2>1, <3>2 DEF Chooses
  <2>5. Cardinality(Live) # 1
    BY <2>1, <2>4 DEF Chooses
  <2>6. Live # {}
    BY <2>2, <2>3, <2>4 DEF Passed, Live, HasCarrier
  <2>7. IsFiniteSet(Live)
    <3>1. Live \subseteq Ifaces
      BY DEF VerdictInv, Live
    <3> QED
      BY <3>1, HostAssumption, FS_Subset DEF HostAssumption
  <2>8. Cardinality(Live) \in Nat /\ Cardinality(Live) # 0
    BY <2>6, <2>7, FS_CardinalityType, FS_EmptySet
  <2> QED
    BY <2>4, <2>5, <2>8
<1>3. DoctorAgrees'
  BY <1>1, <1>2 DEF DoctorAgrees, linkVars, commandVars, listVars, Live
<1> QED
  BY <1>1, <1>3 DEF VerdictInv, linkVars, commandVars, listVars, HasCarrier

\* No step parts the verdict of the doctor from the links it was given for.
LEMMA VerdictStep == VerdictInv /\ [HostNext]_hostVars => VerdictInv'
<1> SUFFICES ASSUME VerdictInv, [HostNext]_hostVars PROVE VerdictInv'
  OBVIOUS
<1> USE DEF VerdictInv, DoctorAgrees, Passed, HasCarrier, Live
<1>1. ASSUME NEW i \in Ifaces, LinkChanges(i) PROVE VerdictInv'
  <2>1. changes' = changes + 1 /\ changes' # asOf'
    BY <1>1 DEF LinkChanges
  <2>2. up' \subseteq Ifaces
    BY <1>1 DEF LinkChanges, SymDiff
  <2> QED
    BY <1>1, <2>1, <2>2 DEF LinkChanges, commandVars, listVars, watchVars
<1>2. ASSUME NEW i \in Ifaces, ReadsCarrier(i) PROVE VerdictInv'
  BY <1>2 DEF ReadsCarrier, linkVars, commandVars, watchVars
<1>3. ASSUME NEW i \in Ifaces, Opens(i) PROVE VerdictInv'
  BY <1>3 DEF Opens, linkVars, commandVars, listVars
<1>4. ASSUME NEW i \in Ifaces, Stops(i) PROVE VerdictInv'
  BY <1>4 DEF Stops, linkVars, commandVars, listVars
<1>5. ASSUME NEW i \in Ifaces, NEW game \in BOOLEAN, Hears(i, game) PROVE VerdictInv'
  BY <1>5 DEF Hears, linkVars, commandVars, listVars
<1>6. ASSUME NEW name, NEW names \in Requests, Gives(name, names) PROVE VerdictInv'
  <2>1. cmd'.names \in Seq(Ifaces \cup {NoSuch})
    BY <1>6, HostAssumption DEF Gives, HostAssumption
  <2> QED
    BY <1>6, <2>1 DEF Gives, listVars, watchVars
<1>7. ASSUME Lists PROVE VerdictInv'
  BY <1>7 DEF Lists, linkVars, commandVars, watchVars
<1>8. ASSUME ListFails PROVE VerdictInv'
  BY <1>8 DEF ListFails, Exits, linkVars, commandVars, watchVars
<1>9. ASSUME Judges PROVE VerdictInv'
  <2>1. /\ UNCHANGED <<linkVars, cmd, listVars>>
        /\ pc = "decide" /\ pc' \in {"idle", "list"} /\ exit' # "Usage"
    BY <1>9 DEF Judges, Exits
  <2>2. pc' # "idle" /\ changes = asOf => Passed
    BY <1>9, PassesAreSound DEF Judges, Exits
  <2> QED
    BY <2>1, <2>2 DEF linkVars, listVars
<1>10. ASSUME Resolves PROVE VerdictInv'
  BY <1>10, ResolvesKeepsVerdict
<1>11. ASSUME Watches PROVE VerdictInv'
  BY <1>11 DEF Watches, Exits, linkVars, commandVars, listVars, watchVars
<1>12. ASSUME Recommends PROVE VerdictInv'
  BY <1>12 DEF Recommends, Exits, linkVars, commandVars, listVars
<1>13. ASSUME UNCHANGED hostVars PROVE VerdictInv'
  BY <1>13 DEF hostVars
<1> QED
  BY <1>1, <1>2, <1>3, <1>4, <1>5, <1>6, <1>7, <1>8, <1>9, <1>10, <1>11, <1>12, <1>13
  DEF HostNext

\* On any unchanged host the doctor's verdict and capture's choice agree: what
\* the doctor has passed is refused only for the ambiguity it warns about
\* (checkInterfaces, resolveInterfaces).
THEOREM DoctorAgreesWithCapture == HostSpec => []DoctorAgrees
<1>1. VerdictInv => DoctorAgrees
  BY DEF VerdictInv
<1> QED
  BY <1>1, VerdictInit, VerdictStep, PTL DEF HostSpec

-----------------------------------------------------------------------------
(* The advice of doctor --watch                                            *)

PacketCount == [all : Nat, game : Nat]

\* Packets of the game are heard on the wire only, with the capability and
\* through a link; so what --watch recommends is the wire, and stays a good
\* advice until a link changes.
AdviceInv ==
  /\ advised \in Nat /\ advised <= asOf
  /\ best \in Ifaces \cup {None}
  /\ packets \in [Ifaces -> PacketCount]
  /\ sampler \in [Ifaces -> {"none", "starting", "open", "done"}]
  /\ asks = "watch" => cmd.name = "watch"
  /\ pc = "sample" => asks = "watch"
  /\ \A i \in Ifaces : packets[i].game > 0 => i = wire
  /\ pc = "sample" => \A i \in Ifaces : sampler[i] = "open" => raw
  /\ pc = "sample" /\ packets[wire].game > 0 /\ changes = advised => raw /\ HasCarrier(wire)
  /\ best # None /\ changes = advised => best = wire /\ raw /\ HasCarrier(wire)
  /\ AdviceWorks

\* The capture that --watch has recommended is running, and no link has changed.
Advised == cmd = [name |-> "capture", names |-> <<best>>] /\ changes = advised

\* A listing made for such a capture has the wire, up and with a carrier.
LEMMA AdvisedListing ==
  ASSUME WireInv, VerdictInv, AdviceInv, Advised, pc = "decide"
  PROVE  /\ best = wire /\ raw /\ wire \in Ifaces \ Loopback
         /\ wire \in flags /\ wire \in carrier /\ changes = asOf
<1>1. changes = asOf
  BY DEF VerdictInv, AdviceInv, Advised
<1>2. best \in Ifaces
  <2>1. cmd.names = <<best>>
    BY DEF Advised
  <2>2. <<best>> \in Seq(Ifaces \cup {NoSuch})
    BY <2>1 DEF VerdictInv
  <2>3. best \in Ifaces \cup {NoSuch}
    BY <2>2, ElementOfSeq
  <2> QED
    BY <2>3, HostAssumption DEF HostAssumption, AdviceInv
<1>3. best = wire /\ raw /\ HasCarrier(wire)
  BY <1>2, HostAssumption DEF AdviceInv, Advised, HostAssumption
<1>4. flags = up /\ unread = {} /\ \A i \in Ifaces : i \in carrier <=> HasCarrier(i)
  BY <1>1 DEF VerdictInv
<1> QED
  BY <1>1, <1>3, <1>4 DEF HasCarrier, WireInv

\* Before any command there is no advice.
LEMMA AdviceInit == HostInit => AdviceInv
<1> SUFFICES ASSUME HostInit PROVE AdviceInv
  OBVIOUS
<1>1. packets = [i \in Ifaces |-> [all |-> 0, game |-> 0]] /\ wire \in Ifaces
  BY DEF HostInit
<1>2. packets \in [Ifaces -> PacketCount] /\ \A i \in Ifaces : packets[i].game = 0
  BY <1>1 DEF PacketCount
<1>3. sampler \in [Ifaces -> {"none", "starting", "open", "done"}]
  BY DEF HostInit
<1>4. cmd.name = "none"
  BY DEF HostInit
<1>5. AdviceWorks
  BY <1>4 DEF AdviceWorks
<1> QED
  BY <1>1, <1>2, <1>3, <1>5 DEF HostInit, AdviceInv

\* A step of a command other than the recommended capture that neither samples
\* nor changes a link.
LEMMA AdviceStays ==
  ASSUME AdviceInv, UNCHANGED <<linkVars, sampler, packets, best>>,
         asks' = "watch" => asks = "watch", cmd' = cmd,
         pc' = "sample" => pc = "sample" /\ asks' = asks,
         AdviceWorks'
  PROVE  AdviceInv'
  BY DEF AdviceInv, linkVars, HasCarrier

\* Every frame of the game is heard where it is.
LEMMA HearsTheWire ==
  ASSUME WireInv, AdviceInv, NEW i \in Ifaces, NEW game \in BOOLEAN, Hears(i, game)
  PROVE  AdviceInv'
<1>1. /\ pc = "sample" /\ sampler[i] = "open" /\ HasCarrier(i) /\ (game => i = wire)
      /\ packets' = [packets EXCEPT ![i] = [all |-> @.all + 1,
                                            game |-> @.game + IF game THEN 1 ELSE 0]]
      /\ UNCHANGED <<linkVars, commandVars, pc, listVars, exit, chosen, sampler, best>>
  BY DEF Hears
<1>2. packets[i].all \in Nat /\ packets[i].game \in Nat
  BY DEF AdviceInv, PacketCount
<1> DEFINE counted == [all |-> packets[i].all + 1,
                       game |-> packets[i].game + IF game THEN 1 ELSE 0]
<1>3. counted \in PacketCount /\ (counted.game > 0 => packets[i].game > 0 \/ game)
  BY <1>2 DEF PacketCount
<1>4. packets' = [packets EXCEPT ![i] = counted]
  BY <1>1
<1> HIDE DEF counted
<1>5. /\ packets' \in [Ifaces -> PacketCount] /\ packets'[i] = counted
      /\ \A j \in Ifaces : j # i => packets'[j] = packets[j]
  BY <1>3, <1>4 DEF AdviceInv
<1>6. \A j \in Ifaces : packets'[j].game > 0 => j = wire
  BY <1>1, <1>3, <1>5 DEF AdviceInv
<1>7. raw
  BY <1>1 DEF AdviceInv
<1>8. packets'[wire].game > 0 /\ changes = advised => HasCarrier(wire)
  <2>1. CASE wire = i
    BY <1>1, <2>1
  <2>2. CASE wire # i
    BY <1>1, <1>5, <2>2 DEF AdviceInv, WireInv
  <2> QED
    BY <2>1, <2>2
<1>9. /\ UNCHANGED <<asks, cmd, best, sampler, changes, advised, asOf, raw, wire, up, plugged>>
      /\ pc' = "sample"
  BY <1>1 DEF linkVars, commandVars
<1>10. AdviceWorks'
  BY <1>9 DEF AdviceWorks
<1>11. /\ advised' \in Nat /\ advised' <= asOf' /\ best' \in Ifaces \cup {None}
       /\ sampler' \in [Ifaces -> {"none", "starting", "open", "done"}]
       /\ asks' = "watch" => cmd'.name = "watch"
       /\ asks' = "watch"
  BY <1>1, <1>9 DEF AdviceInv
<1>12. \A j \in Ifaces : packets'[j].game > 0 => j = wire'
  BY <1>6, <1>9
<1>13. raw'
  BY <1>7, <1>9
<1>14. packets'[wire'].game > 0 /\ changes' = advised' => HasCarrier(wire)'
  BY <1>8, <1>9 DEF HasCarrier
<1>15. best' # None /\ changes' = advised' => best' = wire' /\ HasCarrier(wire)'
  BY <1>9 DEF HasCarrier, AdviceInv
<1> QED
  BY <1>5, <1>10, <1>11, <1>12, <1>13, <1>14, <1>15 DEF AdviceInv

\* Of the results the first one with packets of the game is the wire's.
LEMMA RecommendsTheWire ==
  ASSUME WireInv, AdviceInv, Recommends
  PROVE  AdviceInv'
<1>1. /\ pc = "sample" /\ pc' = "idle"
      /\ best' \in IF Recommended = {} THEN {None} ELSE Recommended
      /\ sampler' = [i \in Ifaces |-> "none"]
      /\ UNCHANGED <<linkVars, commandVars, packets>>
  BY DEF Recommends, Exits
<1>2. best' = None \/ (best' \in Ifaces /\ packets[best'].game > 0)
  BY <1>1 DEF Recommended, Sampled
<1>3. best' # None /\ changes = advised => best' = wire /\ raw /\ HasCarrier(wire)
  BY <1>1, <1>2 DEF AdviceInv
<1>4. cmd.name = "watch"
  BY <1>1 DEF AdviceInv
<1>5. AdviceWorks'
  BY <1>1, <1>4 DEF AdviceWorks, commandVars
<1>6. sampler' \in [Ifaces -> {"none", "starting", "open", "done"}]
  BY <1>1
<1> QED
  BY <1>1, <1>2, <1>3, <1>5, <1>6 DEF AdviceInv, linkVars, commandVars, HasCarrier

\* Neither the doctor nor resolveInterfaces refuses the recommended capture.
LEMMA AdviceStep ==
  WireInv /\ VerdictInv /\ AdviceInv /\ [HostNext]_hostVars => AdviceInv'
<1> SUFFICES ASSUME WireInv, VerdictInv, AdviceInv, [HostNext]_hostVars PROVE AdviceInv'
  OBVIOUS
<1>1. ASSUME NEW i \in Ifaces, LinkChanges(i) PROVE AdviceInv'
  <2>1. /\ changes' = changes + 1
        /\ UNCHANGED <<raw, wire, asOf, advised, cmd, asks, pc, sampler, packets, best>>
    BY <1>1 DEF LinkChanges, commandVars, watchVars
  <2>2. changes' # advised'
    BY <2>1 DEF AdviceInv, VerdictInv
  <2> QED
    BY <2>1, <2>2 DEF AdviceInv, AdviceWorks
<1>2. ASSUME NEW i \in Ifaces, ReadsCarrier(i) PROVE AdviceInv'
  <2>1. pc' \in {"links", "decide"} /\ UNCHANGED <<linkVars, commandVars, watchVars>>
    BY <1>2 DEF ReadsCarrier
  <2> QED
    BY <2>1, AdviceStays DEF AdviceWorks, commandVars, watchVars
<1>3. ASSUME NEW i \in Ifaces, Opens(i) \/ Stops(i) PROVE AdviceInv'
  <2>1. /\ pc = "sample" /\ UNCHANGED <<linkVars, commandVars, pc, packets, best>>
        /\ \/ sampler' = [sampler EXCEPT ![i] = IF raw THEN "open" ELSE "done"]
           \/ sampler' = [sampler EXCEPT ![i] = "done"]
    BY <1>3 DEF Opens, Stops
  <2>2. /\ sampler' \in [Ifaces -> {"none", "starting", "open", "done"}]
        /\ \A j \in Ifaces : sampler'[j] = "open" => raw
    BY <2>1 DEF AdviceInv
  <2> QED
    BY <2>1, <2>2 DEF AdviceInv, AdviceWorks, linkVars, commandVars, HasCarrier
<1>4. ASSUME NEW i \in Ifaces, NEW game \in BOOLEAN, Hears(i, game) PROVE AdviceInv'
  BY <1>4, HearsTheWire
<1>5. ASSUME NEW name \in {"capture", "doctor", "watch"}, NEW names, Gives(name, names)
      PROVE  AdviceInv'
  <2>1. /\ pc' = "list" /\ cmd' = [name |-> name, names |-> names]
        /\ asks' = IF name = "watch" THEN "watch" ELSE "doctor"
        /\ asOf' = changes /\ advised' = IF name = "watch" THEN changes ELSE advised
        /\ best' = IF name = "watch" THEN None ELSE best
        /\ UNCHANGED <<changes, raw, wire, up, plugged, sampler, packets>>
    BY <1>5 DEF Gives
  <2>2. advised' \in Nat /\ advised' <= asOf'
    BY <2>1 DEF AdviceInv, VerdictInv
  <2>3. cmd'.name = name
    BY <2>1
  <2> QED
    BY <2>1, <2>2, <2>3 DEF AdviceInv, AdviceWorks, HasCarrier
<1>6. ASSUME Lists PROVE AdviceInv'
  <2>1. pc' = "links" /\ UNCHANGED <<linkVars, commandVars, watchVars>>
    BY <1>6 DEF Lists
  <2> QED
    BY <2>1, AdviceStays DEF AdviceWorks, commandVars, watchVars
<1>7. ASSUME ListFails PROVE AdviceInv'
  <2>1. pc' = "idle" /\ unread' = Ifaces /\ UNCHANGED <<linkVars, commandVars, watchVars>>
    BY <1>7 DEF ListFails, Exits
  <2>2. unread' # {}
    BY <2>1 DEF WireInv
  <2> QED
    BY <2>1, <2>2, AdviceStays DEF AdviceWorks, commandVars, watchVars
<1>8. ASSUME Judges PROVE AdviceInv'
  <2>1. /\ pc = "decide" /\ pc' \in {"idle", "list"} /\ asks = "doctor"
        /\ asks' \in {"doctor", "resolve"}
        /\ UNCHANGED <<linkVars, cmd, watchVars>>
    BY <1>8 DEF Judges, Exits
  <2>2. ASSUME Advised PROVE pc' = "list"
    <3>1. best = wire /\ raw /\ wire \in Ifaces \ Loopback /\ wire \in flags /\ wire \in carrier
      BY <2>1, <2>2, AdvisedListing
    <3>2. cmd.name = "capture" /\ cmd.names = <<wire>>
      BY <2>2, <3>1 DEF Advised
    <3>3. Joined(cmd.names) = wire
      BY <3>2 DEF Joined
    <3>4. wire # None
      BY <3>1, HostAssumption DEF HostAssumption
    <3>5. ~DoctorFails(Joined(cmd.names))
      BY <3>1, <3>3, <3>4 DEF DoctorFails
    <3> QED
      BY <1>8, <3>2, <3>5 DEF Judges
  <2>3. AdviceWorks'
    BY <2>1, <2>2 DEF AdviceWorks, Advised, linkVars, watchVars
  <2> QED
    BY <2>1, <2>3, AdviceStays DEF watchVars
<1>9. ASSUME Resolves PROVE AdviceInv'
  <2>1. /\ pc = "decide" /\ pc' = "idle"
        /\ UNCHANGED <<linkVars, commandVars, listVars, watchVars>>
    BY <1>9 DEF Resolves, Exits
  <2>2. ASSUME Advised PROVE exit' = "Started" /\ chosen' = {wire}
    <3>1. best = wire /\ wire \in flags
      BY <2>1, <2>2, AdvisedListing
    <3>2. cmd.names = <<wire>>
      BY <2>2, <3>1 DEF Advised
    <3>3. ToSet(cmd.names) = {wire} /\ cmd.names # <<>>
      BY <3>2 DEF ToSet
    <3>4. Chooses(cmd.names) = {{wire}}
      BY <3>1, <3>3 DEF Chooses
    <3> QED
      BY <1>9, <3>4 DEF Resolves, Exits
  <2>3. AdviceWorks'
    BY <2>1, <2>2 DEF AdviceWorks, Advised, linkVars, commandVars, watchVars
  <2> QED
    BY <2>1, <2>3, AdviceStays DEF commandVars, watchVars
<1>10. ASSUME Watches PROVE AdviceInv'
  <2>1. asks = "watch" /\ cmd.name = "watch" /\ UNCHANGED <<linkVars, commandVars, best>>
    BY <1>10 DEF Watches, watchVars, AdviceInv
  <2>2. AdviceWorks'
    BY <2>1 DEF AdviceWorks, commandVars
  <2>3. CASE pc' = "idle" /\ UNCHANGED watchVars
    BY <2>1, <2>2, <2>3, AdviceStays DEF commandVars, watchVars
  <2>4. CASE /\ sampler' = [i \in Ifaces |-> IF i \in Candidates THEN "starting" ELSE "none"]
             /\ packets' = [i \in Ifaces |-> [all |-> 0, game |-> 0]]
    <3>1. /\ sampler' \in [Ifaces -> {"none", "starting", "open", "done"}]
          /\ \A i \in Ifaces : sampler'[i] # "open"
      BY <2>4
    <3>2. packets' \in [Ifaces -> PacketCount] /\ \A i \in Ifaces : ~(packets'[i].game > 0)
      BY <2>4 DEF PacketCount
    <3> QED
      BY <2>1, <2>2, <3>1, <3>2 DEF AdviceInv, WireInv, linkVars, commandVars, HasCarrier
  <2> QED
    BY <1>10, <2>3, <2>4 DEF Watches, Exits
<1>11. ASSUME Recommends PROVE AdviceInv'
  BY <1>11, RecommendsTheWire
<1>12. ASSUME UNCHANGED hostVars PROVE AdviceInv'
  BY <1>12 DEF hostVars, AdviceInv, AdviceWorks, HasCarrier
<1> QED
  BY <1>1, <1>2, <1>3, <1>4, <1>5, <1>6, <1>7, <1>8, <1>9, <1>10, <1>11, <1>12
  DEF HostNext

\* "Capture on <best>" (doctorWatch): on any host, while no link has changed
\* since the sample began, the capture that --watch recommends passes both
\* listings and records the wire, whichever samplers failed or were busy.
THEOREM AdviceIsGood == HostSpec => []AdviceWorks
<1>1. AdviceInv => AdviceWorks
  BY DEF AdviceInv
<1> QED
  BY <1>1, WireInit, WireStep, VerdictInit, VerdictStep, AdviceInit, AdviceStep, PTL
  DEF HostSpec
=============================================================================
