-------------------------------- MODULE Wire --------------------------------
(***************************************************************************)
(* Bytes on the wire: the integers and byte strings of pkg/iproto/iproto/  *)
(* pack.go, and the packets of a stream (writer.go, reader.go).            *)
(*                                                                         *)
(* The code has bytes of 8 bits, of which BER gives 7 to the number: Radix *)
(* is 2^7 there.  It is a constant, so that TLC's integers hold an uint32  *)
(* of smaller bytes.                                                       *)
(*                                                                         *)
(* A reader of something in the bytes d is a function of the position: d   *)
(* was read up to there.  It gives what it took and the position behind.   *)
(***************************************************************************)
EXTENDS Integers, Sequences, SequencesExt, FiniteSetsExt

CONSTANT Radix

\* With it, as in the code, five groups hold an uint32 and three an uint16.
ASSUME WireAssumption == Radix \in Nat /\ Radix >= 16

Byte   == 2 * Radix
Octets == 0..Byte - 1

Power(b, n) ==
    LET p[i \in 0..n] == IF i = 0 THEN 1 ELSE b * p[i - 1] IN p[n]

\* An integer of n bytes is below this.
Limit(n) == Power(Byte, n)

-----------------------------------------------------------------------------
(* Integers *)

\* v \div base^i, for i up to n.
Shifted(v, base, n) ==
    LET q[i \in 0..n] == IF i = 0 THEN v ELSE q[i - 1] \div base IN q

\* The bytes of a little endian integer of n bytes.
LE(v, n) == LET q == Shifted(v, Byte, n) IN [i \in 1..n |-> q[i - 1] % Byte]

\* packUint64BER: groups from the highest, all but the last one marked.
BER(v) ==
    LET q == Shifted(v, Radix, 10)
        n == IF v = 0 THEN 1 ELSE CHOOSE k \in 1..10 : q[k - 1] > 0 /\ q[k] = 0
    IN [i \in 1..n |-> (q[n - i] % Radix) + IF i < n THEN Radix ELSE 0]

PackUint(v, n, ber) == IF ber /\ n > 1 THEN BER(v) ELSE LE(v, n)

Fail == [ok |-> FALSE]
Took(v, p) == [ok |-> TRUE, v |-> v, p |-> p]

\* r.Read takes what is there: a short integer is filled up with zeros.
TakeLE(n, d, p) ==
    LET m == IF p + n <= Len(d) THEN n ELSE Len(d) - p
        v[i \in 0..m] == IF i = 0 THEN 0 ELSE v[i - 1] * Byte + d[p + m + 1 - i]
    IN  IF p = Len(d) THEN Fail ELSE Took(v[m], p + m)

\* The value of the first m groups behind p.
Groups(d, p, m) ==
    LET v[i \in 0..m] == IF i = 0 THEN 0 ELSE v[i - 1] * Radix + (d[p + i] % Radix)
    IN  v[m]

\* Mutant of TakeBER: one group less is read.
TakeBERShort(n, d, p) ==
    LET ends == {i \in 1..(8 * n) \div 7 : p + i <= Len(d) /\ d[p + i] < Radix}
    IN  IF ends = {} THEN Fail
        ELSE Took(Groups(d, p, Min(ends)) % Limit(n), p + Min(ends))

\* unpackBER for an integer of n bytes, whose excess bits are cut off.
TakeBER(n, d, p) ==
    LET ends == {i \in 1..(8 * n) \div 7 + 1 : p + i <= Len(d) /\ d[p + i] < Radix}
    IN  IF ends = {} THEN Fail
        ELSE Took(Groups(d, p, Min(ends)) % Limit(n), p + Min(ends))

TakeUint(n, ber, d, p) == IF ber /\ n > 1 THEN TakeBER(n, d, p) ELSE TakeLE(n, d, p)

-----------------------------------------------------------------------------
(* Byte strings *)

PackBytes(v, ber) == PackUint(Len(v), 4, ber) \o v

\* UnpackBytes looks at the size of the packet, then at what is left of it.
TakeBytes(ber, d, p) ==
    LET l == TakeUint(4, ber, d, p)
    IN  IF ~l.ok \/ l.v > Len(d) \/ l.p + l.v > Len(d) THEN Fail
        ELSE Took(SubSeq(d, l.p + 1, l.p + l.v), l.p + l.v)

\* One value after another, each with its reader, until one fails.
TakeEach(takes, p) ==
    LET s[i \in 0..Len(takes)] ==
            IF i = 0 THEN Took(<< >>, p)
            ELSE IF ~s[i - 1].ok THEN Fail
            ELSE LET r == takes[i][s[i - 1].p]
                 IN  IF r.ok THEN Took(Append(s[i - 1].v, r.v), r.p) ELSE Fail
    IN  s[Len(takes)]

-----------------------------------------------------------------------------
(* Packets of a stream *)

Packet(msg, sync, body) == LE(msg, 4) \o LE(Len(body), 4) \o LE(sync, 4) \o body

\* Whether StreamReader.ReadPacket returns: it has its packet, or an error.
MayRead(d, ended, limit) ==
    \/ ended
    \/ Len(d) >= 12 /\ LET len == TakeLE(4, d, 4).v
                       IN len > limit \/ Len(d) >= 12 + len

\* ReadPacket, and what the stream has behind the packet.
TakePacket(d, limit) ==
    IF Len(d) < 12 THEN Fail ELSE
    LET len == TakeLE(4, d, 4).v
    IN  IF len > limit \/ Len(d) < 12 + len THEN Fail
        ELSE [ok |-> TRUE, msg |-> TakeLE(4, d, 0).v, sync |-> TakeLE(4, d, 8).v,
              data |-> SubSeq(d, 13, 12 + len), rest |-> SubSeq(d, 13 + len, Len(d))]
=============================================================================
