--------------------------------- MODULE Host ---------------------------------
(***************************************************************************)
(* Before a session: sccap doctor, sccap doctor --watch and the checks of  *)
(* sccap capture (internal/doctor, cmd/sccap/doctor.go, runCapture and     *)
(* resolveInterfaces).  Each of them lists the interfaces for itself: the  *)
(* flags of all of them at once, then the carrier of one after the other,  *)
(* while cables and links come and go.  Capture lists them twice, for the  *)
(* doctor's verdict and for its own choice.                                *)
(*                                                                         *)
(* The game's traffic is on one interface, the wire, which nobody is told. *)
(* What only warns (offloads, clock, coverage directory, client build,     *)
(* CAP_NET_ADMIN) is left out: it changes no verdict.                      *)
(***************************************************************************)
EXTENDS Integers, Sequences, FiniteSets, SequencesExt

CONSTANTS
  Ifaces,
  Loopback,     \* those with the loopback flag
  NoSuch,       \* a name that no interface has
  Requests,     \* what --interface may be given: sequences of names
  None,
  MaxChanges,   \* bound: how often a link changes
  MaxCommands,  \* bound: how many commands are run, one after the other
  MaxPackets    \* bound: per sampled interface

ASSUME HostAssumption ==
  /\ IsFiniteSet(Ifaces) /\ Loopback \subseteq Ifaces
  /\ NoSuch \notin Ifaces /\ None \notin Ifaces \cup {NoSuch}
  /\ Requests \subseteq Seq(Ifaces \cup {NoSuch})
  /\ MaxChanges \in Nat /\ MaxCommands \in Nat \ {0} /\ MaxPackets \in Nat

VARIABLES
  up, plugged,  \* the host: interfaces that are up, and that have a cable
  raw,          \* the program has CAP_NET_RAW
  readable,     \* /proc/self/status can be read
  wire,         \* the interface with the game's traffic
  changes,
  asOf,         \* the changes there had been when the command was given
  advised,      \* likewise for the last --watch
  steady,       \* the wire has been up with a carrier since then
  cmd,          \* the last command, and the names it was given
  commands,
  asks,         \* who reads the interfaces: "doctor", "resolve" or "watch"
  pc,
  flags,        \* interfaces that the last listing saw up
  unread,       \* its interfaces whose carrier has not been read yet
  carrier,      \* those that had one when it was
  exit,         \* how the last command ended
  chosen,       \* the interfaces that a session records
  sampler,      \* per interface: --watch's goroutine
  packets,      \* per interface: what it has counted, [all, game]
  best          \* what the last --watch recommends

hostVars == <<up, plugged, raw, readable, wire, changes, asOf, advised, steady, cmd, commands,
              asks, pc, flags, unread, carrier, exit, chosen, sampler, packets, best>>
linkVars == <<up, plugged, raw, readable, wire, changes, asOf, advised, steady>>
commandVars == <<cmd, commands, asks>>
listVars == <<flags, unread, carrier>>
watchVars == <<sampler, packets, best>>

\* /sys/class/net/<name>/carrier cannot be read while the interface is down.
HasCarrier(i) == i \in up \cap plugged

Live == (flags \cap carrier) \ Loopback

\* strings.Join(ifaces, "") in runCapture: several names run into one.
Joined(names) ==
  CASE names = <<>> -> None
    [] Len(names) = 1 -> names[1]
    [] OTHER -> NoSuch

\* Mutant: the loopback interface counts as a live one.
DoctorFailsOffline(want) ==
  \/ readable /\ ~raw
  \/ want = None /\ flags \cap carrier = {}
  \/ want # None /\ want \notin flags \cap (carrier \cup Loopback)

\* checkCapabilities and checkInterfaces; several live interfaces only warn.
DoctorFails(want) ==
  \/ readable /\ ~raw
  \/ want = None /\ Live = {}
  \/ want # None /\ want \notin flags \cap (carrier \cup Loopback)

\* Mutant: of several live interfaces one is taken.
ChoosesAny(names) ==
  IF names # <<>>
  THEN IF ToSet(names) \subseteq flags THEN {ToSet(names)} ELSE {}
  ELSE {{i} : i \in Live}

\* resolveInterfaces: the sets it may settle on; empty when it refuses.
Chooses(names) ==
  IF names # <<>>
  THEN IF ToSet(names) \subseteq flags THEN {ToSet(names)} ELSE {}
  ELSE IF Cardinality(Live) = 1 THEN {Live} ELSE {}

-----------------------------------------------------------------------------
(* The host                                                                *)

LinkChanges(i) ==
  /\ changes < MaxChanges
  /\ changes' = changes + 1
  /\ \/ up' = SymDiff(up, {i}) /\ UNCHANGED plugged
     \/ i \notin Loopback /\ plugged' = SymDiff(plugged, {i}) /\ UNCHANGED up
  /\ steady' = (steady /\ wire \in up' \cap plugged')
  /\ UNCHANGED <<raw, readable, wire, asOf, advised, commandVars, pc, listVars, exit, chosen, watchVars>>

Gives(name, names) ==
  /\ pc = "idle" /\ commands < MaxCommands
  /\ commands' = commands + 1
  /\ cmd' = [name |-> name, names |-> names]
  /\ asks' = IF name = "watch" THEN "watch" ELSE "doctor"
  /\ pc' = "list"
  /\ exit' = "none" /\ chosen' = {}
  /\ asOf' = changes
  /\ advised' = IF name = "watch" THEN changes ELSE advised
  /\ steady' = HasCarrier(wire)
  /\ best' = IF name = "watch" THEN None ELSE best
  /\ UNCHANGED <<up, plugged, raw, readable, wire, changes, listVars, sampler, packets>>

Exits(code) == pc' = "idle" /\ exit' = code

-----------------------------------------------------------------------------
(* Listing the interfaces                                                  *)

\* Interfaces: net.Interfaces, ...
Lists ==
  /\ pc = "list"
  /\ flags' = up /\ unread' = Ifaces /\ carrier' = {}
  /\ pc' = "links"
  /\ UNCHANGED <<linkVars, commandVars, exit, chosen, watchVars>>

\* ... which may fail: for the doctor and --watch no capture is possible.
ListFails ==
  /\ pc = "list"
  /\ flags' = {} /\ unread' = Ifaces /\ carrier' = {}
  /\ Exits(IF asks = "resolve" THEN "Usage" ELSE "NoCapability")
  /\ UNCHANGED <<linkVars, commandVars, chosen, watchVars>>

ReadsCarrier(i) ==
  /\ pc = "links" /\ i \in unread
  /\ unread' = unread \ {i}
  /\ carrier' = IF HasCarrier(i) THEN carrier \cup {i} ELSE carrier
  /\ pc' = IF unread' = {} THEN "decide" ELSE "links"
  /\ UNCHANGED <<linkVars, commandVars, flags, exit, chosen, watchVars>>

-----------------------------------------------------------------------------
(* The verdict and the choice                                              *)

\* doctor.Run as runDoctor and runCapture use it.
Judges ==
  /\ pc = "decide" /\ asks = "doctor"
  /\ \/ DoctorFails(Joined(cmd.names)) /\ Exits("NoCapability") /\ UNCHANGED asks
     \/ ~DoctorFails(Joined(cmd.names)) /\ cmd.name = "doctor" /\ Exits("OK") /\ UNCHANGED asks
     \/ /\ ~DoctorFails(Joined(cmd.names)) /\ cmd.name = "capture"
        /\ asks' = "resolve" /\ pc' = "list"
        /\ UNCHANGED exit
  /\ UNCHANGED <<linkVars, cmd, commands, listVars, chosen, watchVars>>

Resolves ==
  /\ pc = "decide" /\ asks = "resolve"
  /\ \/ chosen' \in Chooses(cmd.names) /\ Exits("Started")
     \/ Chooses(cmd.names) = {} /\ Exits("Usage") /\ UNCHANGED chosen
  /\ UNCHANGED <<linkVars, commandVars, listVars, watchVars>>

-----------------------------------------------------------------------------
(* doctor --watch                                                          *)

\* Loopback is a candidate only when it is named; the carrier is not asked for.
Candidates ==
  IF cmd.names = <<>> THEN flags \ Loopback ELSE flags \cap ToSet(cmd.names)

Watches ==
  /\ pc = "decide" /\ asks = "watch"
  /\ \/ /\ Candidates = {} /\ Exits("NoCapability")
        /\ UNCHANGED watchVars
     \/ /\ Candidates # {} /\ pc' = "sample"
        /\ sampler' = [i \in Ifaces |-> IF i \in Candidates THEN "starting" ELSE "none"]
        /\ packets' = [i \in Ifaces |-> [all |-> 0, game |-> 0]]
        /\ UNCHANGED <<exit, best>>
  /\ UNCHANGED <<linkVars, commandVars, listVars, chosen>>

\* sample's socket and bind, which fail without the capability.
Opens(i) ==
  /\ pc = "sample" /\ sampler[i] = "starting"
  /\ sampler' = [sampler EXCEPT ![i] = IF raw THEN "open" ELSE "done"]
  /\ UNCHANGED <<linkVars, commandVars, pc, listVars, exit, chosen, packets, best>>

\* One frame; classify looks for the game's ports in it.
Hears(i, game) ==
  /\ pc = "sample" /\ sampler[i] = "open" /\ HasCarrier(i)
  /\ packets[i].all < MaxPackets
  /\ game => i = wire
  /\ packets' = [packets EXCEPT ![i] = [all |-> @.all + 1,
                                        game |-> @.game + IF game THEN 1 ELSE 0]]
  /\ UNCHANGED <<linkVars, commandVars, pc, listVars, exit, chosen, sampler, best>>

\* The deadline, or a failed read; what has been counted is kept.
Stops(i) ==
  /\ pc = "sample" /\ sampler[i] = "open"
  /\ sampler' = [sampler EXCEPT ![i] = "done"]
  /\ UNCHANGED <<linkVars, commandVars, pc, listVars, exit, chosen, packets, best>>

\* The order of the results; equals are in no order.
Leads(i, j) ==
  \/ packets[i].game > packets[j].game
  \/ packets[i].game = packets[j].game /\ packets[i].all >= packets[j].all

Sampled == {i \in Ifaces : sampler[i] # "none"}

\* Mutant: the first result is recommended whatever it carried.
FirstResult == {i \in Sampled : \A j \in Sampled : Leads(i, j)}

\* doctorWatch: the first result with game packets.
Recommended ==
  {i \in Sampled : packets[i].game > 0
                   /\ \A j \in Sampled : packets[j].game > 0 => Leads(i, j)}

Recommends ==
  /\ pc = "sample" /\ \A i \in Sampled : sampler[i] = "done"
  /\ best' \in IF Recommended = {} THEN {None} ELSE Recommended
  /\ sampler' = [i \in Ifaces |-> "none"]
  /\ Exits("OK")
  /\ UNCHANGED <<linkVars, commandVars, listVars, chosen, packets>>

-----------------------------------------------------------------------------
HostInit ==
  /\ up \in SUBSET Ifaces /\ plugged \in {Loopback \cup s : s \in SUBSET Ifaces}
  /\ raw \in BOOLEAN /\ readable \in BOOLEAN
  /\ wire \in Ifaces \ Loopback
  /\ changes = 0 /\ asOf = 0 /\ advised = 0 /\ steady = FALSE
  /\ cmd = [name |-> "none", names |-> <<>>] /\ commands = 0
  /\ asks = "doctor" /\ pc = "idle"
  /\ flags = {} /\ unread = {} /\ carrier = {}
  /\ exit = "none" /\ chosen = {}
  /\ sampler = [i \in Ifaces |-> "none"]
  /\ packets = [i \in Ifaces |-> [all |-> 0, game |-> 0]]
  /\ best = None

\* doctor takes at most one name; only capture takes several.
HostNext ==
  \/ \E i \in Ifaces :
       \/ LinkChanges(i) \/ ReadsCarrier(i) \/ Opens(i) \/ Stops(i)
       \/ \E game \in BOOLEAN : Hears(i, game)
  \/ \E names \in Requests :
       \/ Gives("capture", names)
       \/ Len(names) <= 1 /\ (Gives("doctor", names) \/ Gives("watch", names))
  \/ Lists \/ ListFails \/ Judges \/ Resolves \/ Watches \/ Recommends

HostSpec == HostInit /\ [][HostNext]_hostVars

-----------------------------------------------------------------------------
(* Properties                                                              *)

\* "Guessing wrong produces a session that passes every other check and
\* contains none of the game's traffic" (resolveInterfaces): a session that
\* was given no interface records the wire and nothing else, if the wire has
\* kept its link since the command, whatever the other links did meanwhile.
UnnamedIsTheWire ==
  exit = "Started" /\ cmd.names = <<>> /\ steady => chosen = {wire}

\* "Capture on <best>: sccap capture --interface <best>" (doctorWatch): while
\* no link has changed since the sample began and the listings work, the
\* capture that --watch recommends is not refused and records the wire,
\* however busy the other interfaces were and whichever sampler failed.
AdviceWorks ==
  /\ cmd = [name |-> "capture", names |-> <<best>>]
  /\ changes = advised /\ unread = {} /\ pc = "idle"
  => exit = "Started" /\ chosen = {wire}

\* checkInterfaces and resolveInterfaces look at the same host twice and do
\* not contradict each other: while no link changes and the listing works,
\* capture is refused after the doctor has passed only for the ambiguity that
\* the doctor has warned about.
DoctorAgrees ==
  exit = "Usage" /\ changes = asOf /\ unread = {}
    => cmd.names = <<>> /\ Cardinality(Live) > 1

\* "--interface <if>  Capture interface; repeatable" (contracts/cli.md): on a
\* host that can capture, a command that names only interfaces with a link is
\* not refused.
NamedAreRecorded ==
  /\ cmd.name = "capture" /\ changes = asOf /\ unread = {} /\ raw
  /\ cmd.names # <<>> /\ \A i \in ToSet(cmd.names) : i \in Ifaces /\ HasCarrier(i)
  => exit # "NoCapability"
=============================================================================
