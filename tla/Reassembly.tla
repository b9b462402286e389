----------------------------- MODULE Reassembly -----------------------------
(***************************************************************************)
(* One direction of one TCP connection, as operators on its state: the     *)
(* sequence numbers of Pipeline.feedTCP, its ledger of contributing        *)
(* frames, and the message scanner of pkg/scproto.                         *)
(*                                                                         *)
(* A wire w is what the sender sends: a row of units cut into messages of  *)
(* w.sizes units.  A header takes two units, of which the first holds the  *)
(* length; w.asks says how many units each unit asks for when it is read   *)
(* as the first of a header, 0 for a sentinel: a message that begins with  *)
(* one is a keepalive or a disconnect, a header without a body.  A         *)
(* checksum holds exactly for an undamaged message.                        *)
(*                                                                         *)
(* One direction of a connection carries less than half of the sequence    *)
(* space (2 GiB).  The code needs it: after a gap nextSeq stays where it   *)
(* was, and what comes half the space later compares as a retransmission.  *)
(***************************************************************************)
EXTENDS Integers, Sequences

CONSTANT Modulus  \* of TCP sequence numbers (2^32)

ASSUME ModulusAssumption == Modulus \in Nat \ {0}

HeaderSize == 2

\* Sums(s)[k] is the sum of the first k.
Sums(s) ==
  LET sum[k \in 0 .. Len(s)] == IF k = 0 THEN 0 ELSE sum[k - 1] + s[k]
  IN  sum

EndOf(w, m) == Sums(w.sizes)[m]

StartOf(w, m) == EndOf(w, m - 1) + 1

Units(w) == 1 .. EndOf(w, Len(w.sizes))

\* A keepalive or a disconnect.
IsSentinel(w, m) == w.asks[StartOf(w, m)] = 0

\* Its messages begin with their own size, or are sentinels.
IsWire(w) ==
  /\ w.sizes \in Seq({n \in Nat : n >= HeaderSize})
  /\ w.base \in 0 .. Modulus - 1
  /\ 2 * EndOf(w, Len(w.sizes)) < Modulus
  /\ w.asks \in [Units(w) -> {0} \cup {n \in Nat : n >= HeaderSize}]
  /\ \A m \in DOMAIN w.sizes :
       \/ w.asks[StartOf(w, m)] = w.sizes[m]
       \/ IsSentinel(w, m) /\ w.sizes[m] = HeaderSize

Run(from, to) == [k \in 1 .. to - from + 1 |-> from + k - 1]

WireSeq(w, u) == (w.base + u) % Modulus

\* int32(a - b) < 0
SeqLess(a, b) == (a - b) % Modulus >= Modulus \div 2

\* The twelve bytes that a gap feeds the scanner: the first unit reads as a
\* sentinel, the second as a length of zero.
PoisonHead == 0
PoisonTail == -1

NewStream ==
  [started |-> FALSE, nextSeq |-> 0,
   buf |-> <<>>,      \* the scanner's unparsed units
   desync |-> FALSE,  \* the scanner has stopped
   ledger |-> <<>>]   \* who brought the buffered units: [ref, n]

-----------------------------------------------------------------------------
(* Scanner.Next on what is buffered.                                       *)

Asks(w, u) ==
  IF u = PoisonHead THEN 0
  ELSE IF u = PoisonTail THEN HeaderSize
  ELSE w.asks[u]

Special(w, raw) == Asks(w, raw[1]) = 0

\* Mutant: the parser reads a body for a sentinel, and with it the start of the
\* next message.
CompleteNaive(w, b) ==
  IF Len(b) < HeaderSize THEN 0
  ELSE LET total == IF Special(w, b) THEN HeaderSize + 1 ELSE Asks(w, b[1])
       IN  IF Len(b) < total THEN 0 ELSE total

\* How many units the message at the front takes, or 0: more are needed.
Complete(w, b) ==
  IF Len(b) < HeaderSize THEN 0
  ELSE LET total == IF Special(w, b) THEN HeaderSize ELSE Asks(w, b[1])
       IN  IF Len(b) < total THEN 0 ELSE total

\* Message.ChecksumValid; a sentinel frame has no checksum.
Intact(w, raw) ==
  Special(w, raw) \/ \E m \in DOMAIN w.sizes : raw = Run(StartOf(w, m), EndOf(w, m))

-----------------------------------------------------------------------------
(* stream.take: the frames that carried the next n units.                  *)

Covered(ledger, k) == Sums([j \in DOMAIN ledger |-> ledger[j].n])[k]

Used(ledger, n) ==
  IF Covered(ledger, Len(ledger)) < n THEN Len(ledger)
  ELSE CHOOSE k \in DOMAIN ledger : Covered(ledger, k - 1) < n /\ n <= Covered(ledger, k)

\* Mutant: a record cites the frame that completed it.
CitedLast(ledger, n) == <<ledger[Len(ledger)].ref>>

\* With an empty ledger the record cites no frame, which the code calls a bug.
Cited(ledger, n) == [k \in 1 .. Used(ledger, n) |-> ledger[k].ref]

LedgerAfter(ledger, n) ==
  LET k == Used(ledger, n)
      rest == Covered(ledger, k) - n
  IN  (IF rest > 0 THEN <<[ledger[k] EXCEPT !.n = rest]>> ELSE <<>>)
        \o SubSeq(ledger, k + 1, Len(ledger))

-----------------------------------------------------------------------------
(* Pipeline.feedTCP.  What a frame does to a stream: the stream after it,  *)
(* the messages that came out as [units, frames], and whether framing was  *)
(* found to be lost.                                                       *)

Outcome(s, out, lost) == [stream |-> s, out |-> out, lost |-> lost]

\* One turn of the loop over Next; at its end a turn changes nothing.
Turn(w, o) ==
  LET s == o.stream
      n == Complete(w, s.buf)
  IN  IF s.desync \/ n = 0 THEN o
      ELSE IF ~Intact(w, SubSeq(s.buf, 1, n))
      THEN Outcome([s EXCEPT !.desync = TRUE], o.out, TRUE)
      ELSE Outcome([s EXCEPT !.buf = SubSeq(@, n + 1, Len(@)), !.ledger = LedgerAfter(@, n)],
                   Append(o.out, [units |-> SubSeq(s.buf, 1, n), frames |-> Cited(s.ledger, n)]),
                   FALSE)

Scanned(w, s) ==
  LET after[k \in 0 .. Len(s.buf)] ==
        IF k = 0 THEN Outcome(s, <<>>, FALSE) ELSE Turn(w, after[k - 1])
  IN  after[Len(s.buf)]

\* The payload from unit `from` on is new: buffer it and scan.
Accept(w, s, from, to, ref) ==
  Scanned(w, [s EXCEPT !.started = TRUE,
                       !.nextSeq = WireSeq(w, to + 1),
                       !.buf = @ \o Run(from, to),
                       !.ledger = Append(@, [ref |-> ref, n |-> to - from + 1])])

\* markStreamDesynced feeds the scanner the poison and calls Next once,
\* discarding what it returns.
Poisoned(w, s) ==
  LET b == s.buf \o <<PoisonHead, PoisonTail>>
      n == Complete(w, b)
  IN  IF n > 0 /\ ~Intact(w, SubSeq(b, 1, n))
      THEN [s EXCEPT !.buf = b, !.desync = TRUE]
      ELSE [s EXCEPT !.buf = SubSeq(b, n + 1, Len(b))]

\* How many of the units from `from` on have been consumed before.
Skip(w, s, from) == (s.nextSeq - WireSeq(w, from)) % Modulus

\* A stream that stopped, in order, retransmission or overlap, or a gap.
FeedTCP(w, s, from, to, ref) ==
  LET seq  == WireSeq(w, from)
      skip == Skip(w, s, from)
  IN  IF s.desync THEN Outcome(s, <<>>, FALSE)
      ELSE IF ~s.started \/ seq = s.nextSeq THEN Accept(w, s, from, to, ref)
      ELSE IF SeqLess(seq, s.nextSeq)
      THEN IF skip >= to - from + 1 THEN Outcome(s, <<>>, FALSE)
           ELSE Accept(w, s, from + skip, to, ref)
      ELSE Outcome(Poisoned(w, s), <<>>, TRUE)
=============================================================================
