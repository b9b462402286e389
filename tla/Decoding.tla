------------------------------- MODULE Decoding -------------------------------
(***************************************************************************)
(* From journaled frames to index records (internal/decode): a pipeline    *)
(* owns a connection table and a stream for each direction of each TCP     *)
(* connection.  The session's own pipeline misses the frames for which its *)
(* channel was full; `sccap index --rebuild` replays the whole journal     *)
(* through a new one.                                                      *)
(*                                                                         *)
(* A frame is [link, from, to]: who sends to whom and by which transport,  *)
(* and which units of the link's wire it carries, none if to < from.  Its  *)
(* reference is its place in the journal.  Frames carry any run of units,  *)
(* and come in any order, again, or never.  The capture may begin in the   *)
(* middle of a stream.                                                     *)
(***************************************************************************)
EXTENDS Flow, Reassembly, SequencesExt

CONSTANTS
  Endpoints,  \* [ip, port]
  Links,      \* [src, dst, udp]
  Wire,       \* what each TCP link sends, see Reassembly; and w.says: for each
              \* message its [type, status, announces]
  Frames,     \* what may be journaled
  MaxFrames,  \* bound: frames journaled
  MaxDrops    \* bound: frames that the decode channel has no room for

TCPLinks == {link \in Links : ~link.udp}

ASSUME DecodingAssumption ==
  /\ Endpoints \subseteq [ip : Nat, port : Nat]
  /\ Links \subseteq [src : Endpoints, dst : Endpoints, udp : BOOLEAN]
  /\ DOMAIN Wire = TCPLinks
  /\ \A link \in TCPLinks :
       /\ IsWire(Wire[link])
       /\ \A m \in DOMAIN Wire[link].sizes :
            LET say == Wire[link].says[m]
            IN  /\ say.status \in {"decoded", "undecoded", "failed", "opcode", "unknown"}
                /\ say.announces \subseteq
                     IF say.status = "decoded" /\ ~IsSentinel(Wire[link], m) THEN Endpoints ELSE {}
                /\ Cardinality(say.announces) <= 1
  /\ Frames \subseteq [link : Links, from : Nat, to : Nat]
  /\ \A f \in Frames : ~f.link.udp => f.from .. f.to \subseteq Units(Wire[f.link])
  /\ MaxFrames \in Nat /\ MaxDrops \in Nat

VARIABLES
  journal,  \* the frames journaled
  dropped,  \* references of those that were not decoded
  live,     \* the session's pipeline
  seen,     \* what Observe returned: [link, conn, dir]
  gapAt     \* per stream: its records at its first gap, -1 before one

decodingVars == <<journal, dropped, live, seen, gapAt>>

-----------------------------------------------------------------------------
(* Pipeline                                                                *)

\* A pipeline's records are those it handed to the index; began says with
\* which unit each stream started.
NewPipeline ==
  [table |-> NewTable,
   streams |-> [link \in TCPLinks |-> NewStream],
   began |-> [link \in TCPLinks |-> 0],
   records |-> <<>>,
   observed |-> {},  \* known elements seen, as [type, decoded]
   novel |-> {}]     \* elements seen that are not in the tables

\* emitRecord
Record(link, units, frames, status) ==
  [link |-> link, units |-> units, frames |-> frames, status |-> status]

MessageOf(w, raw) == CHOOSE m \in DOMAIN w.sizes : StartOf(w, m) = raw[1]

\* Pipeline.interpret.  A handoff or a shard assignment is decoded, or failed if
\* it does not parse or its parser panics; what the tables do not have is
\* unknown, a known container's "opcode" too; every other message is undecoded.
\* A decoded handoff with an address is announced.
Interpret(p, link, message) ==
  LET w == Wire[link]
      say == w.says[MessageOf(w, message.units)]
      Emitted(status) ==
        Append(p.records, Record(link, message.units, message.frames, status))
  IN  IF Special(w, message.units)
      THEN [p EXCEPT !.records = Emitted("decoded")]
      ELSE [p EXCEPT
             !.table = AnnounceDedicated(@, say.announces),
             !.records = Emitted(say.status),
             !.observed = IF say.status = "unknown" THEN @
                          ELSE @ \cup {[type |-> say.type, decoded |-> d] :
                                          d \in {FALSE, say.status = "decoded"}},
             !.novel = IF say.status \in {"opcode", "unknown"} THEN @ \cup {say.type} ELSE @]

\* Of one payload the messages are interpreted one after the other.
Interpreted(p, link, messages) ==
  LET after[k \in 0 .. Len(messages)] ==
        IF k = 0 THEN p ELSE Interpret(after[k - 1], link, messages[k])
  IN  after[Len(messages)]

\* feedTCP: the stream of the frame's connection and direction.
FedTCP(p, ref, f) ==
  LET o == FeedTCP(Wire[f.link], p.streams[f.link], f.from, f.to, ref)
      q == [p EXCEPT !.streams[f.link] = o.stream,
                     !.began[f.link] = IF @ = 0 THEN f.from ELSE @]
      read == Interpreted(q, f.link, o.out)
  IN  IF o.lost
      THEN [read EXCEPT !.table = MarkDesync(@, ConnOf(@, f.link), ref)]
      ELSE read

\* feedUDP: a datagram is a record of its own, and not decoded.
FedUDP(p, ref, f) ==
  [p EXCEPT !.records = Append(@, Record(f.link, Run(f.from, f.to), <<ref>>, "undecoded"))]

\* Pipeline.Feed
Feed(p, ref, f) ==
  LET q == [p EXCEPT !.table = Observe(@, f.link)]
  IN  IF f.to < f.from THEN q
      ELSE IF f.link.udp THEN FedUDP(q, ref, f)
      ELSE FedTCP(q, ref, f)

\* Mutant: a replay ends with the frame before the last.
ReplayShort(frames) ==
  LET after[n \in 0 .. Len(frames)] ==
        IF n = 0 THEN NewPipeline
        ELSE IF n = Len(frames) THEN after[n - 1]
        ELSE Feed(after[n - 1], n, frames[n])
  IN  after[Len(frames)]

\* decode.Replay over a whole journal.
Replay(frames) ==
  LET after[n \in 0 .. Len(frames)] ==
        IF n = 0 THEN NewPipeline ELSE Feed(after[n - 1], n, frames[n])
  IN  after[Len(frames)]

-----------------------------------------------------------------------------
\* The places of a link's records among all of a pipeline's.
RecordsOf(p, link) == {n \in DOMAIN p.records : p.records[n].link = link}

\* The frame's sequence number is beyond what the stream expects.
IsGap(s, f) ==
  LET seq == WireSeq(Wire[f.link], f.from)
  IN  /\ s.started /\ ~s.desync
      /\ seq # s.nextSeq /\ ~SeqLess(seq, s.nextSeq)

\* The writer goroutine journals the frame and forwards it; the decode
\* goroutine feeds it.
Decodes(f) ==
  LET ref == Len(journal) + 1
      table == Observe(live.table, f.link)
      conn == ConnOf(table, f.link)
  IN  /\ live' = Feed(live, ref, f)
      /\ seen' = seen \cup {[link |-> f.link, conn |-> conn,
                             dir |-> DirOf(table.conns[conn], f.link.dst)]}
      /\ gapAt' = IF ~f.link.udp /\ f.from <= f.to
                  THEN [gapAt EXCEPT ![f.link] =
                         IF @ = -1 /\ IsGap(live.streams[f.link], f)
                         THEN Cardinality(RecordsOf(live, f.link)) ELSE @]
                  ELSE gapAt
      /\ UNCHANGED dropped

\* The channel is full.
Drops ==
  /\ Cardinality(dropped) < MaxDrops
  /\ dropped' = dropped \cup {Len(journal) + 1}
  /\ UNCHANGED <<live, seen, gapAt>>

Journals(f) ==
  /\ Len(journal) < MaxFrames
  /\ journal' = Append(journal, f)

DecodingInit ==
  /\ journal = <<>> /\ dropped = {}
  /\ live = NewPipeline
  /\ seen = {}
  /\ gapAt = [link \in TCPLinks |-> -1]

DecodingNext == \E f \in Frames : Journals(f) /\ (Decodes(f) \/ Drops)

DecodingSpec == DecodingInit /\ [][DecodingNext]_decodingVars

-----------------------------------------------------------------------------
(* Properties                                                              *)

\* The link's records are the messages from m0 on, each once and in order.
AreMessagesFrom(p, link, m0) ==
  \A n \in RecordsOf(p, link) :
    LET m == m0 + Cardinality({k \in RecordsOf(p, link) : k < n})
    IN  /\ m \in DOMAIN Wire[link].sizes
        /\ p.records[n].units = Run(StartOf(Wire[link], m), EndOf(Wire[link], m))

\* The messages that become records are consecutive messages of the stream,
\* each once and in order, whatever was reordered, dropped or sent again, and
\* wherever the sequence numbers wrap, if the first payload that was decoded
\* began with a message (feedTCP, Scanner.Next).
RecordsArePrefix ==
  \A link \in TCPLinks :
    \A m0 \in DOMAIN Wire[link].sizes :
      live.began[link] = StartOf(Wire[link], m0) => AreMessagesFrom(live, link, m0)

Carried(ref, r, from, to) ==
  /\ journal[ref].link = r.link
  /\ \E u \in from .. to : journal[ref].from <= u /\ u <= journal[ref].to

\* "A record can cite exactly the frames its bytes came from even when a
\* message spans several" (stream.ledger): every unit is in a cited frame of
\* its own link, every cited frame carries some of the message, and none is one
\* that was dropped; also of what is misread in the middle of a stream.
RecordsCiteTheirFrames ==
  \A n \in DOMAIN live.records :
    LET r == live.records[n]
        cited == ToSet(r.frames)
    IN  /\ cited \subseteq DOMAIN journal \ dropped
        /\ \A ref \in cited : \E u \in ToSet(r.units) : Carried(ref, r, u, u)
        /\ \A u \in ToSet(r.units) : \E ref \in cited : Carried(ref, r, u, u)

DesyncAt(p, link) == p.table.conns[ConnOf(p.table, link)].desyncAt

\* "Degradation is observable, not silent" (quickstart.md): a connection names
\* a frame of its own where decoding was lost exactly if one of its streams
\* stopped or met a gap, a dropped frame's included, and never another one.
DesyncIsRecorded ==
  /\ [](\A n \in DOMAIN live.table.conns :
          live.table.conns[n].desyncAt # 0 <=>
            \E link \in TCPLinks :
              /\ n \in Lookup(live.table, link)
              /\ live.streams[link].desync \/ gapAt[link] # -1)
  /\ [][\A n \in DOMAIN live.table.conns :
          live.table.conns[n].desyncAt # 0 =>
            live'.table.conns[n].desyncAt = live.table.conns[n].desyncAt]_decodingVars

\* The two directions of a connection never share a stream, and none is split
\* over two, also when the connection is reclassified between two frames: the
\* pipeline's stream key is one to one with the direction on the wire.
StreamIsDirection ==
  \A o, p \in seen : (o.conn = p.conn /\ o.dir = p.dir) <=> o.link = p.link

\* A classification by handoff is what the protocol has told (FR-011):
\* whichever came first, the announcement or the connection, it stands exactly
\* when the server is an endpoint that a decoded handoff announced.
HandoffStands ==
  \A n \in DOMAIN live.table.conns :
    LET conn == live.table.conns[n]
    IN  conn.evidence = "handoff" <=>
          \E k \in DOMAIN live.records :
            LET r == live.records[k]
                w == IF r.link.udp THEN [sizes |-> <<>>] ELSE Wire[r.link]
            IN  \E m \in DOMAIN w.sizes :
                  r.units = Run(StartOf(w, m), EndOf(w, m)) /\ conn.server \in w.says[m].announces

\* A rebuild has not seen the link, or it has its beginning and no gap.
Whole(again, link) ==
  Lookup(again.table, link) = {} \/ (again.began[link] \in {0, 1} /\ DesyncAt(again, link) = 0)

Carriers(link) == {k \in DOMAIN journal : journal[k].link = link /\ journal[k].from <= journal[k].to}

HasWholeMessages(again, link) ==
  LET last == Max({0} \cup {journal[k].to : k \in Carriers(link)})
  IN  /\ Cardinality(RecordsOf(again, link)) =
           Cardinality({m \in DOMAIN Wire[link].sizes : EndOf(Wire[link], m) <= last})
      /\ AreMessagesFrom(again, link, 1)

Recovers(again) ==
  /\ \A link \in Links \ TCPLinks :
       {again.records[n].frames : n \in RecordsOf(again, link)} = {<<ref>> : ref \in Carriers(link)}
  /\ \A link \in TCPLinks : Whole(again, link) => HasWholeMessages(again, link)
  /\ (\A link \in TCPLinks : Whole(again, link)) =>
       live.observed \subseteq again.observed /\ live.novel \subseteq again.novel

\* "sccap index --rebuild will recover them" (the anomaly that a session with
\* drops records, capture.go): a replay of the journal has a record of every
\* datagram, and of exactly the whole messages that were journaled, in order, on
\* each TCP link of which it has the beginning and finds no gap.  If that is so on
\* every link, it has also seen every element that the session saw.
RebuildRecovers == dropped # {} => Recovers(Replay(journal))

-----------------------------------------------------------------------------
\* markStreamDesynced "forces the scanner into the stopped state after a
\* transport-level gap, so it cannot resynchronise on a coincidence"
\* (pipeline.go): after a gap the stream yields no record.
GapIsFinal ==
  \A link \in TCPLinks :
    gapAt[link] # -1 => Cardinality(RecordsOf(live, link)) = gapAt[link]
=============================================================================
