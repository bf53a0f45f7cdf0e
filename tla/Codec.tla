------------------------------- MODULE Codec --------------------------------
(***************************************************************************)
(* Pack and Unpack of pkg/iproto/iproto/pack.go, which go by reflection:   *)
(* here a type is a record.  The functions of the code that pack one value *)
(* each are the cases of PackOne and TakeOne.                              *)
(***************************************************************************)
EXTENDS Wire

Uint(n, ber)  == [k |-> "uint", n |-> n, ber |-> ber]
Int_(n, ber)  == [k |-> "int", n |-> n, ber |-> ber]
Bytes(ber)    == [k |-> "bytes", ber |-> ber]      \* []byte and string
Slice(t, ber) == [k |-> "slice", of |-> t, ber |-> ber]
Struct(ts)    == [k |-> "struct", of |-> ts]

\* packOne.  The mode of a slice is that of its length, not of its items.
RECURSIVE PackOne(_, _)
PackOne(t, v) ==
    CASE t.k = "uint"   -> PackUint(v, t.n, t.ber)
      [] t.k = "int"    -> PackUint(v % Limit(t.n), t.n, t.ber)
      [] t.k = "bytes"  -> PackBytes(v, t.ber)
      [] t.k = "slice"  -> PackUint(Len(v), 4, t.ber)
                               \o FlattenSeq([i \in DOMAIN v |-> PackOne(t.of, v[i])])
      [] t.k = "struct" -> FlattenSeq([i \in DOMAIN v |-> PackOne(t.of[i], v[i])])

Signed(v, n) == IF v < Limit(n) \div 2 THEN v ELSE v - Limit(n)

\* unpackOne.
RECURSIVE TakeOne(_, _, _)
TakeOne(t, d, p) ==
    LET reader(of) == [q \in 0..Len(d) |-> TakeOne(of, d, q)]
        int == TakeUint(t.n, t.ber, d, p)
        len == TakeUint(4, t.ber, d, p)
    IN  CASE t.k = "uint"   -> int
          [] t.k = "int"    -> IF int.ok THEN Took(Signed(int.v, t.n), int.p) ELSE Fail
          [] t.k = "bytes"  -> TakeBytes(t.ber, d, p)
          [] t.k = "slice"  -> IF ~len.ok THEN Fail
                               ELSE TakeEach([i \in 1..len.v |-> reader(t.of)], len.p)
          [] t.k = "struct" -> TakeEach([i \in DOMAIN t.of |-> reader(t.of[i])], p)

\* Unpack: the values and the bytes that remain.
Unpack(t, d) ==
    LET r == TakeOne(t, d, 0)
    IN  IF r.ok THEN [ok |-> TRUE, v |-> r.v, rest |-> SubSeq(d, r.p + 1, Len(d))]
                ELSE Fail
=============================================================================
