------------------------------ MODULE MCDecoding ------------------------------
(* One connection to a master server, which announces a match server, and two  *)
(* flows to that one: of one the server end is guessed right, of the other not. *)
EXTENDS Decoding

Client == [ip |-> 1, port |-> 9]
OddClient == [ip |-> 1, port |-> 4]
Master == [ip |-> 2, port |-> 5]
Match == [ip |-> 3, port |-> 7]

MCEndpoints == {Client, OddClient, Master, Match}

Down == [src |-> Master, dst |-> Client, udp |-> FALSE]
Up == [src |-> Client, dst |-> Master, udp |-> FALSE]
Play == [src |-> Client, dst |-> Match, udp |-> TRUE]
OddPlay == [src |-> OddClient, dst |-> Match, udp |-> TRUE]

MCLinks == {Down, Up, Play, OddPlay}

\* A keepalive and a handoff that can wait for more than the poison brings;
\* inside the handoff, units that read as a sentinel, as a short and as a long
\* message.
DownWire ==
  [sizes |-> <<2, 4>>, base |-> 11, asks |-> <<0, 3, 4, 0, 2, 7>>,
   says |-> <<[type |-> "plain", status |-> "undecoded", announces |-> {}],
              [type |-> "handoff", status |-> "decoded", announces |-> {Match}]>>]

\* Two bare headers: a known container with a new opcode, and a new type.
UpWire ==
  [sizes |-> <<2, 2>>, base |-> 5, asks |-> <<2, 0, 2, 0>>,
   says |-> <<[type |-> "async", status |-> "opcode", announces |-> {}],
              [type |-> "new", status |-> "unknown", announces |-> {}]>>]

MCWire == [link \in {Down, Up} |-> IF link = Down THEN DownWire ELSE UpWire]

Frame(link, from, to) == [link |-> link, from |-> from, to |-> to]

\* All segments of one and two units, and longer ones that end in the middle of
\* the handoff or with it.
MCFrames ==
  {Frame(Down, k, k) : k \in 1 .. 6} \cup {Frame(Down, k, k + 1) : k \in 1 .. 5}
  \cup {Frame(Down, 2, 4)} \cup {Frame(Down, k, 6) : k \in 1 .. 3}
  \cup {Frame(Up, 1, 0), Frame(Up, 1, 2), Frame(Up, 3, 4),
        Frame(Play, 1, 1), Frame(OddPlay, 1, 1)}
=============================================================================
