------------------------------ MODULE Octopus -------------------------------
(***************************************************************************)
(* The requests and responses of octopus, pkg/octopus/pack.go and box.go.  *)
(* A pack function gives the bytes; a reader is that of the module Wire.   *)
(***************************************************************************)
EXTENDS Wire

\* Items behind their number.
PackCounted(ws) == LE(Len(ws), 4) \o FlattenSeq(ws)
Counted(take, d) ==
    [p \in 0..Len(d) |->
        LET n == TakeLE(4, d, p)
        IN  IF n.ok THEN TakeEach([i \in 1..n.v |-> take], n.p) ELSE Fail]

PackField(f)   == PackBytes(f, TRUE)
PackTuple(t)   == PackCounted([i \in DOMAIN t |-> PackField(t[i])])    \* and a key
PackTuples(ts) == PackCounted([i \in DOMAIN ts |-> PackTuple(ts[i])])
PackOp(o)      == FlattenSeq(<<LE(o[1], 4), LE(o[2], 1), PackField(o[3])>>)
PackOps(os)    == PackCounted([i \in DOMAIN os |-> PackOp(os[i])])

U4(d)     == [p \in 0..Len(d) |-> TakeLE(4, d, p)]
U1(d)     == [p \in 0..Len(d) |-> TakeLE(1, d, p)]
Field(d)  == [p \in 0..Len(d) |-> TakeBytes(TRUE, d, p)]
Tuple(d)  == Counted(Field(d), d)
Tuples(d) == Counted(Tuple(d), d)
\* An operation cut before its code is noticed at its value (box.go:304-316).
Op(d)     == [p \in 0..Len(d) |-> TakeEach(<<U4(d), U1(d), Field(d)>>, p)]
Ops(d)    == Counted(Op(d), d)

-----------------------------------------------------------------------------
(* Requests *)

MsgOf == [insert |-> 13, select |-> 17, update |-> 19, delete |-> 21, lua |-> 22]

\* PackRequestFlagsVal with ret set: a mode other than 0 is the number of a bit.
\* UnpackRequestFlagsVal gives the other bits of the flags for the mode, not their
\* number: 2 for the mode 1.
Flags(mode)   == IF mode = 0 THEN 1 ELSE 1 + Power(2, mode)
ModeOf(flags) == IF flags % 2 = 1 THEN flags - 1 ELSE flags

NoLimit == Limit(4) - 1

\* PackInsertReplace, PackSelect, PackUpdate, PackDelete and PackLua.
Packed(r) ==
    CASE r.kind = "insert" -> <<LE(r.ns, 4), LE(Flags(r.mode), 4), PackTuple(r.tuple)>>
      [] r.kind = "select" -> <<LE(r.ns, 4), LE(r.index, 4), LE(r.offset, 4),
                                LE(IF r.limit = 0 THEN NoLimit ELSE r.limit, 4),
                                PackTuples(r.keys)>>
      [] r.kind = "update" -> <<LE(r.ns, 4), LE(Flags(0), 4), PackTuple(r.key)>>
                                \o IF r.ops = << >> THEN << >> ELSE <<PackOps(r.ops)>>
      [] r.kind = "delete" -> <<LE(r.ns, 4), LE(Flags(0), 4), PackTuple(r.key)>>
      [] r.kind = "lua"    -> <<LE(0, 4), PackField(r.name), PackTuple(r.args)>>

Body(r) == FlattenSeq(Packed(r))

\* The readers of UnpackInsertReplace, UnpackSelect, UnpackUpdate, UnpackDelete
\* and UnpackLua.
Layout(kind, d) ==
    CASE kind = "insert" -> <<U4(d), U4(d), Tuple(d)>>
      [] kind = "select" -> <<U4(d), U4(d), U4(d), U4(d), Tuples(d)>>
      [] kind = "update" -> <<U4(d), U4(d), Tuple(d), Ops(d)>>
      [] kind = "delete" -> <<U4(d), U4(d), Tuple(d)>>
      [] kind = "lua"    -> <<U4(d), Field(d), Tuple(d)>>

\* What the values are to the caller; an update may come without operations.
Request(kind, v) ==
    CASE kind = "insert" -> [kind |-> kind, ns |-> v[1], mode |-> ModeOf(v[2]), tuple |-> v[3]]
      [] kind = "select" -> [kind |-> kind, ns |-> v[1], index |-> v[2], offset |-> v[3],
                             limit |-> IF v[4] = NoLimit THEN 0 ELSE v[4], keys |-> v[5]]
      [] kind = "update" -> [kind |-> kind, ns |-> v[1], key |-> v[3],
                             ops |-> IF Len(v) = 3 THEN << >> ELSE v[4]]
      [] kind = "delete" -> [kind |-> kind, ns |-> v[1], key |-> v[3]]
      [] kind = "lua"    -> [kind |-> kind, name |-> v[2], args |-> v[3]]

ReadRequest(kind, d) ==
    LET key   == TakeEach(Layout("delete", d), 0)
        short == kind = "update" /\ key.ok /\ key.p = Len(d)
        r     == IF short THEN key ELSE TakeEach(Layout(kind, d), 0)
    IN  IF ~r.ok \/ (kind = "lua" /\ r.v[1] # 0) THEN Fail
        ELSE [ok |-> TRUE, r |-> Request(kind, r.v)]

\* Requests as a client may make them: numbers and lengths are uint32, and only
\* the fields' lengths are looked at, not their bytes.
Uints    == 0..Limit(4) - 1
Lists(S) == {s \in Seq(S) : Len(s) \in Uints}
Fields   == Lists(Nat)
Changes  == Uints \X Octets \X Fields

Inserts == [kind : {"insert"}, ns : Uints, mode : 0..2, tuple : Lists(Fields)]
Selects == [kind : {"select"}, ns : Uints, index : Uints, offset : Uints, limit : Uints,
            keys : Lists(Lists(Fields))]
Updates == [kind : {"update"}, ns : Uints, key : Lists(Fields), ops : Lists(Changes)]
Deletes == [kind : {"delete"}, ns : Uints, key : Lists(Fields)]
Luas    == [kind : {"lua"}, name : Fields, args : Lists(Fields)]

\* Mutant of ByteLen: a length at the boundary counts as short.
ByteLenEdge(l) == l + Min({5} \cup {n \in 1..4 : l <= Power(Radix, n)})

\* The size of a field with its length before it.
ByteLen(l) == l + Min({5} \cup {n \in 1..4 : l < Power(Radix, n)})

\* Four bytes for the number of items, and the items.
Total(lens) ==
    LET t[i \in 0..Len(lens)] == IF i = 0 THEN 4 ELSE t[i - 1] + lens[i]
    IN  t[Len(lens)]

PackedTupleLen(t)   == Total([i \in DOMAIN t |-> ByteLen(Len(t[i]))])
PackedTuplesLen(ts) == Total([i \in DOMAIN ts |-> PackedTupleLen(ts[i])])
PackedOpsLen(os)    == Total([i \in DOMAIN os |-> 4 + 1 + ByteLen(Len(os[i][3]))])

\* The capacity of the buffer that a request is packed into.
Capacity(r) ==
    CASE r.kind = "insert" -> 12 + PackedTupleLen(r.tuple)
      [] r.kind = "select" -> 16 + PackedTuplesLen(r.keys)
      [] r.kind = "update" -> 8 + PackedTupleLen(r.key) + PackedOpsLen(r.ops)
      [] r.kind = "delete" -> 8 + PackedTupleLen(r.key)

-----------------------------------------------------------------------------
(* Responses *)

RcOK == 0

\* A tuple of a response, behind its size.
PackSized(t) == LE(Len(PackTuple(t)), 4) \o PackTuple(t)

\* The tuples of a response as a server may make them.
Rows == {t \in Lists(Fields) : Len(PackTuple(t)) < Limit(4)}

\* PackResopnseStatus.  An error is the first field of the first tuple.
PackResponse(code, tuples) ==
    IF code # RcOK THEN LE(code, 4) \o LE(Len(tuples[1]), 4) \o tuples[1][1]
    ELSE IF tuples = << >> THEN LE(RcOK, 4)
    ELSE LE(RcOK, 4) \o PackCounted([i \in DOMAIN tuples |-> PackSized(tuples[i])])

\* UnpackResopnseStatus: the number of tuples and where they begin.
TakeStatus(d) ==
    LET code == TakeLE(4, d, 0)
    IN  IF ~code.ok \/ code.v # RcOK THEN Fail
        ELSE IF code.p = Len(d) THEN Took(0, code.p)
        ELSE IF Len(d) - code.p < 4 THEN Fail
        ELSE TakeLE(4, d, code.p)

\* The n fields of a tuple of ProcessResp.  total counts the fields alone.  Fail is
\* an error, and stands also for a field that reaches beyond the response: there the
\* code slices the response up to its capacity (box.go:185), so that it takes stale
\* bytes, which the end of the response then refuses, or panics.  No response of
\* SessionAssumption has such a field.
RespFields(n, size, d, p) ==
    LET s[i \in 0..n] ==
            IF i = 0 THEN [ok |-> TRUE, v |-> << >>, p |-> p, total |-> 0]
            ELSE IF ~s[i - 1].ok THEN Fail ELSE
            LET l     == TakeBER(4, d, s[i - 1].p)
                total == (s[i - 1].total + l.v) % Limit(4)
            IN  IF ~l.ok \/ total > size \/ l.p + l.v > Len(d) THEN Fail
                ELSE [ok |-> TRUE, v |-> Append(s[i - 1].v, SubSeq(d, l.p + 1, l.p + l.v)),
                      p |-> l.p + l.v, total |-> total]
    IN  s[n]

\* Mutant of RespTuple: the last tuple has no byte behind it.
RespTupleLast(d) ==
    [p \in 0..Len(d) |->
        LET size   == TakeLE(4, d, p)
            fields == TakeLE(4, d, size.p)
            t      == RespFields(fields.v, size.v, d, fields.p)
        IN  IF ~size.ok \/ Len(d) - size.p <= size.v \/ ~fields.ok \/ ~t.ok THEN Fail
            ELSE Took(t.v, t.p)]

\* A tuple of ProcessResp: its size, the number of its fields and the fields.
RespTuple(d) ==
    [p \in 0..Len(d) |->
        LET size   == TakeLE(4, d, p)
            fields == TakeLE(4, d, size.p)
            t      == RespFields(fields.v, size.v, d, fields.p)
        IN  IF ~size.ok \/ Len(d) - size.p < size.v \/ ~fields.ok \/ ~t.ok THEN Fail
            ELSE Took(t.v, t.p)]

\* Whether ProcessResp accepts that number of tuples.
CountFits(n, uniq, need) == ~(uniq /\ n > 2) /\ ~(need /\ n = 0)

ProcessResp(d, uniq, need) ==
    LET n == TakeStatus(d)
        r == TakeEach([i \in 1..n.v |-> RespTuple(d)], n.p)
    IN  IF ~n.ok \/ ~CountFits(n.v, uniq, need) THEN Fail
        ELSE IF ~r.ok \/ r.p < Len(d) THEN Fail
        ELSE [ok |-> TRUE, v |-> r.v]
=============================================================================
