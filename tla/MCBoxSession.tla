---------------------------- MODULE MCBoxSession ----------------------------
(* Requests and fixtures for TLC, with fields at the first boundary of BER.  *)
EXTENDS BoxSession, Codec

Text(n) == [i \in 1..n |-> i % 60]

Insert  == [kind |-> "insert", ns |-> 300, mode |-> 1, tuple |-> <<Text(31), << >> >>]
Select  == [kind |-> "select", ns |-> 7, index |-> 1, offset |-> 0, limit |-> 0,
            keys |-> << <<Text(2), Text(32)>>, << >> >>]
Update  == [kind |-> "update", ns |-> 70, key |-> <<Text(1)>>,
            ops |-> << <<1, 3, Text(33)>> >>]
Nothing == [kind |-> "update", ns |-> 0, key |-> <<Text(3)>>, ops |-> << >>]
Delete  == [kind |-> "delete", ns |-> NoLimit, key |-> <<Text(32)>>]
Lua     == [kind |-> "lua", name |-> Text(5), args |-> <<Text(1), << >> >>]
Large   == [kind |-> "delete", ns |-> 1, key |-> <<Text(1024)>>]
Larger  == [kind |-> "delete", ns |-> 1, key |-> <<Text(1100), Text(1023)>>]

\* struct { int8; uint16 ber; []int32 ber; string }
User == [kind |-> "user",
         type |-> Struct(<<Int_(1, FALSE), Uint(2, TRUE), Slice(Int_(4, FALSE), TRUE),
                           Bytes(FALSE)>>),
         values |-> <<-2, 4095, <<5, -7>>, Text(4)>>]

MCPackUser(r) == PackOne(r.type, r.values)
MCUnpackUser(r, d) ==
    LET u == Unpack(r.type, d)
    IN  IF u.ok /\ u.rest = << >> THEN [ok |-> TRUE, r |-> u.v] ELSE Fail

MCRequests == {Insert, Select, Update, Nothing, Delete, Lua, Large, Larger, User}

Row(n) == <<Text(n), << >> >>

MCFixtureSets ==
    { <<Fixture(Select, <<Row(1), Row(32)>>, Nil), Fixture(Insert, <<Row(3)>>, "once"),
        UpdateFixture(Nothing, Nil)>>,
      <<Fixture(Insert, << >>, Nil), Fixture(Select, << >>, Nil),
        Fixture(Delete, <<Row(1), Row(1)>>, "once"), Fixture(Delete, <<Row(1)>>, Nil),
        CutFixture(Lua, <<Row(2), Row(40)>>, 20)>> }
=============================================================================
