--------------------------------- MODULE Flow ---------------------------------
(***************************************************************************)
(* The connection table of a session (internal/flow) as operators on its   *)
(* contents: which connection a frame belongs to, which end of it is the   *)
(* server, and which service it is.  Its addresses are ordered as their    *)
(* texts are; the services of the well-known ports are not told apart.     *)
(***************************************************************************)
EXTENDS Integers, Sequences

CONSTANT ServicePorts  \* the well-known ports

\* conns in first-seen order, a ConnID being a place in it; and the endpoints
\* that handoffs announced, whose session ids are not looked at.
NewTable == [conns |-> <<>>, dedicated |-> {}]

\* NewKey: both directions of a flow have one key.
NewKey(src, dst, udp) ==
  IF src.ip < dst.ip \/ (src.ip = dst.ip /\ src.port <= dst.port)
  THEN [a |-> src, b |-> dst, udp |-> udp]
  ELSE [a |-> dst, b |-> src, udp |-> udp]

Lookup(table, link) ==
  {n \in DOMAIN table.conns : table.conns[n].key = NewKey(link.src, link.dst, link.udp)}

ConnOf(table, link) == CHOOSE n \in Lookup(table, link) : TRUE

Classified(client, server, service, evidence) ==
  [client |-> client, server |-> server, service |-> service, evidence |-> evidence]

\* classifyLocked: a handoff, else a well-known port, else the lower port.
Classify(table, src, dst) ==
  CASE dst \in table.dedicated -> Classified(src, dst, "dedicated", "handoff")
    [] dst \notin table.dedicated /\ src \in table.dedicated ->
         Classified(dst, src, "dedicated", "handoff")
    [] {src, dst} \cap table.dedicated = {} ->
         IF dst.port \in ServicePorts THEN Classified(src, dst, "well-known", "port")
         ELSE IF src.port \in ServicePorts THEN Classified(dst, src, "well-known", "port")
         ELSE IF dst.port < src.port THEN Classified(src, dst, "unknown", "heuristic")
         ELSE Classified(dst, src, "unknown", "heuristic")

\* Table.Observe: the table after it, and the direction it reports.
Observe(table, link) ==
  IF Lookup(table, link) # {} THEN table
  ELSE LET new == Classify(table, link.src, link.dst)
       IN  [table EXCEPT !.conns = Append(@,
             [key |-> NewKey(link.src, link.dst, link.udp),
              client |-> new.client, server |-> new.server,
              service |-> new.service, evidence |-> new.evidence, desyncAt |-> 0])]

DirOf(conn, dst) == IF dst = conn.server THEN "c2s" ELSE "s2c"

\* What a message announces is a set of at most one endpoint.
\* Mutants: the announced end becomes the server of connections that exist;
\* they are left as they are.
AnnounceMovingServer(table, announced) ==
  [conns |-> [n \in DOMAIN table.conns |->
               IF announced \cap {table.conns[n].client, table.conns[n].server} # {}
               THEN [table.conns[n] EXCEPT !.server = CHOOSE e \in announced : TRUE,
                                           !.service = "dedicated", !.evidence = "handoff"]
               ELSE table.conns[n]],
   dedicated |-> table.dedicated \cup announced]

AnnounceForLater(table, announced) == [table EXCEPT !.dedicated = @ \cup announced]

\* Table.AnnounceDedicated
AnnounceDedicated(table, announced) ==
  [conns |-> [n \in DOMAIN table.conns |->
               IF table.conns[n].server \in announced
               THEN [table.conns[n] EXCEPT !.service = "dedicated", !.evidence = "handoff"]
               ELSE table.conns[n]],
   dedicated |-> table.dedicated \cup announced]

\* Mutant: a later desync overwrites the first.
MarkLastDesync(table, n, ref) ==
  [table EXCEPT !.conns = [k \in DOMAIN @ |->
    IF k = n THEN [@[k] EXCEPT !.desyncAt = ref] ELSE @[k]]]

\* Table.MarkDesync keeps the first frame it is told about, 0 being none.
MarkDesync(table, n, ref) ==
  [table EXCEPT !.conns = [k \in DOMAIN @ |->
    IF k = n /\ @[k].desyncAt = 0 THEN [@[k] EXCEPT !.desyncAt = ref] ELSE @[k]]]
=============================================================================
