----------------------------- MODULE LinkSequence -----------------------------
(* Message loss and disorder of a data link (P1-DL-003 and P1-DL-004 in       *)
(* src/tpaa_metric/m3_datalink.py).  A sender numbers its messages modulo the *)
(* modulus of the epoch, from any number on; the network loses, repeats and   *)
(* reorders them.  The metrics see the positions only, in the order received. *)
EXTENDS Integers, SequencesExt

CONSTANTS
    Modulus,        \* of the sequence domain, 0 .. Modulus - 1
    MaxSent,        \* bound: messages sent in the epoch
    MaxReceived     \* bound: messages received, repeated ones included

ASSUME LinkConstants == Modulus \in Nat \ {0, 1} /\ MaxSent \in Nat /\ MaxReceived \in Nat

VARIABLES
    origin,         \* position of the first message
    sent,           \* messages sent so far
    received        \* which of them arrived, in the order in which they did

link == <<origin, sent, received>>

LinkInit ==
    /\ origin \in 0 .. Modulus - 1
    /\ sent = 0
    /\ received = <<>>

Send ==
    /\ sent < MaxSent
    /\ sent' = sent + 1
    /\ UNCHANGED <<origin, received>>

\* any message sent may arrive, late or again; one that never does is lost
Deliver(n) ==
    /\ n \in 1 .. sent
    /\ Len(received) < MaxReceived
    /\ received' = Append(received, n)
    /\ UNCHANGED <<origin, sent>>

LinkNext == Send \/ \E n \in 1 .. MaxSent : Deliver(n)

LinkSpec == LinkInit /\ [][LinkNext]_link

Positions == [i \in DOMAIN received |-> (origin + received[i] - 1) % Modulus]

-----------------------------------------------------------------------------

\* Mutant of Ranks: no wrap inside the epoch
RanksUnwrapped(positions) ==
    [i \in DOMAIN positions |-> Max({0, positions[i] - positions[1]})]

\* positions are ranked from the first one received
Ranks(positions) == [i \in DOMAIN positions |-> (positions[i] - positions[1]) % Modulus]

ExpectedCount(positions) == Max(ToSet(Ranks(positions))) + 1

MissingCount(positions) == ExpectedCount(positions) - Cardinality(ToSet(Ranks(positions)))

\* out of order: below the highest rank received before
OutOfOrderCount(positions) ==
    LET ranks == Ranks(positions) IN
    Cardinality({i \in DOMAIN ranks : \E j \in 1 .. i - 1 : ranks[i] < ranks[j]})

-----------------------------------------------------------------------------

Reached == Max(ToSet(received)) - Min(ToSet(received)) + 1

\* Both rates are at least zero and below one whatever arrives.  They are those of the
\* messages really sent, across a wrap of the numbers, as long as the first
\* message received is the earliest of those received and they do not reach
\* over a whole modulus: every gap is counted as lost once, a repeated message
\* neither as lost nor as out of order unless it is late.
SequencesExact ==
    received # <<>> =>
        /\ ExpectedCount(Positions) > MissingCount(Positions) /\ MissingCount(Positions) >= 0
        /\ OutOfOrderCount(Positions) < Len(received)
        /\ received[1] = Min(ToSet(received)) /\ Reached <= Modulus =>
              /\ ExpectedCount(Positions) = Reached
              /\ MissingCount(Positions) =
                    Cardinality((received[1] .. Max(ToSet(received))) \ ToSet(received))
              /\ OutOfOrderCount(Positions) =
                    Cardinality({i \in DOMAIN received : \E j \in 1 .. i - 1 : received[i] < received[j]})

=============================================================================
