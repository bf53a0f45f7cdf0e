----------------------------- MODULE BoxSession -----------------------------
(***************************************************************************)
(* A connection to an octopus, as its bytes: the requests that a client of *)
(* pkg/octopus packs, the stream with its packets, the mock server that    *)
(* reads them and answers from its fixtures (mock_server.go, testutil.go), *)
(* and the responses that the client takes apart.                          *)
(*                                                                         *)
(* The stream may break between any two bytes, in both directions.  The    *)
(* requests of a channel are written in order and the mock handles them in *)
(* order; what a channel does with answers is the module Channel.          *)
(***************************************************************************)
EXTENDS Octopus

CONSTANTS
    Requests,    \* the requests of the client
    FixtureSets, \* the lists of fixtures that a test gives the mock
    PackUser(_),      \* the body of a user's own request, a Pack of its values
    UnpackUser(_, _), \* the values that a user's handler finds in such a body
    SizeLimit,   \* the largest body that a reader accepts
    MaxCalls,    \* bound: the requests sent
    MaxSets,     \* bound: the calls of SetFixtures
    MaxBreak,    \* bound: the bytes after which the stream may break
    Nil

VARIABLES
    fixtures, \* MockServer.oft
    sent,     \* the requests of the client; a request's sync is its index
    up,       \* bytes on their way to the server
    down,     \* bytes on their way to the client
    broken,   \* whether the connection has ended
    handled,  \* history: what the mock made of each packet
    results,  \* what ProcessResp made of each answer
    sets      \* the calls of SetFixtures

sessionVars == <<fixtures, sent, up, down, broken, handled, results, sets>>

\* A user's own packet goes to no fixture.
IsUser(r) == r.kind = "user"
Msg(r)  == IF IsUser(r) THEN 1 ELSE MsgOf[r.kind]
Data(r) == IF IsUser(r) THEN PackUser(r) ELSE Body(r)

\* Insert, Update and Delete want a tuple, and one; a select and CallLua do not.
Flagged(r) == r.kind \in {"insert", "update", "delete"}

\* CreateFixture and the constructors for each kind of request: the request and
\* the response are bytes at once, of which a test may give the first n only.  A
\* Trigger that takes its fixture out of the list is "once".  (tuples and cut are
\* history: what the response was made of, and whether it is all there.)
CreateFixture(r, tuples, n, trigger) ==
    LET response == PackResponse(RcOK, tuples)
    IN  [msg |-> Msg(r), request |-> Data(r), response |-> SubSeq(response, 1, n),
         trigger |-> trigger, tuples |-> tuples, cut |-> n < Len(response)]

Fixture(r, tuples, trigger) ==
    CreateFixture(r, tuples, Len(PackResponse(RcOK, tuples)), trigger)

UpdateFixture(r, trigger) == Fixture(r, << << <<48>> >> >>, trigger)

CutFixture(r, tuples, n) == CreateFixture(r, tuples, n, Nil)

\* The numbers on the wire hold every length: of a body, of a tuple and of a
\* response.  A user's handler reads what the user's Pack has written.
MadeRequest(r) ==
    /\ \/ r \in Inserts \cup Selects \cup Updates \cup Deletes \cup Luas
       \/ /\ IsUser(r)
          /\ PackUser(r) \in Seq(Nat)
          /\ UnpackUser(r, PackUser(r)) = [ok |-> TRUE, r |-> r.values]
    /\ Len(Data(r)) < Limit(4)

\* A response that ends with its status or in it, but is not empty, is no error to
\* ProcessResp, which finds no tuples in it: it is none of the cut ones.
MadeFixture(f) ==
    LET response == PackResponse(RcOK, f.tuples)
    IN  /\ f # Nil
        /\ f.tuples \in Lists(Rows) /\ Len(response) < Limit(4)
        /\ IF f.cut THEN \E n \in {0} \cup 5..Len(response) - 1 :
                             f.response = SubSeq(response, 1, n)
                    ELSE f.response = response

AllFixtures == UNION {{f[i] : i \in DOMAIN f} : f \in FixtureSets}

ASSUME SessionAssumption ==
    /\ \A r \in Requests : MadeRequest(r)
    /\ FixtureSets \subseteq Seq(AllFixtures)
    /\ \A f \in AllFixtures : MadeFixture(f)
    /\ MaxCalls \in Nat /\ MaxCalls < Limit(4) /\ MaxBreak \in Nat

-----------------------------------------------------------------------------
(* The mock server *)

\* ProcessRequest, under its lock: the first fixture with these bytes.
Matching(msg, data) ==
    {i \in DOMAIN fixtures : fixtures[i].msg = msg /\ fixtures[i].request = data}

\* Trigger(oms.oft) is the list from now on.
AfterTrigger(i) ==
    IF fixtures[i].trigger = "once" THEN RemoveAt(fixtures, i) ELSE fixtures

NotFound == LE(1, 4) \o <<63>>

\* DebugFixtureNotFound takes the request apart, by its kind, to log it with the
\* fixtures of that kind.  For another message it does not; a user's handler does.
Unpacked(p, r) ==
    IF p.msg \in {MsgOf[k] : k \in DOMAIN MsgOf}
    THEN ReadRequest(CHOOSE k \in DOMAIN MsgOf : MsgOf[k] = p.msg, p.data)
    ELSE UnpackUser(r, p.data)

\* Handler: the answer has the sync of the request.
Handle(p) ==
    LET found == Matching(p.msg, p.data)
        i     == Min(found)
        body  == IF found = {} THEN NotFound ELSE fixtures[i].response
    IN  /\ fixtures' = IF found = {} THEN fixtures ELSE AfterTrigger(i)
        /\ handled' = Append(handled,
               [sync |-> p.sync,
                fixture |-> IF found = {} THEN Nil ELSE fixtures[i],
                read |-> IF found = {} THEN Unpacked(p, sent[p.sync]) ELSE Nil])
        /\ down' = IF broken THEN down ELSE down \o Packet(p.msg, p.sync, body)

\* A packet that cannot be read ends the connection.
ServerRead ==
    /\ up # << >> /\ MayRead(up, broken, SizeLimit)
    /\ LET p == TakePacket(up, SizeLimit)
       IN  IF p.ok
           THEN Handle(p) /\ up' = p.rest /\ UNCHANGED broken
           ELSE /\ up' = << >> /\ broken' = TRUE
                /\ UNCHANGED <<fixtures, handled, down>>
    /\ UNCHANGED <<sent, results, sets>>

SetFixtures(f) ==
    /\ sets < MaxSets /\ f # fixtures
    /\ fixtures' = f
    /\ sets' = sets + 1
    /\ UNCHANGED <<sent, up, down, broken, handled, results>>

-----------------------------------------------------------------------------
(* The client and the connection *)

\* Connection.Call packs and writes a request.
Ask(r) ==
    /\ ~broken /\ Len(sent) < MaxCalls
    /\ sent' = Append(sent, r)
    /\ up' = up \o Packet(Msg(r), Len(sent'), Data(r))
    /\ UNCHANGED <<fixtures, down, broken, handled, results, sets>>

\* The client reads an answer and ProcessResp takes it apart.
ClientRead ==
    /\ down # << >> /\ MayRead(down, broken, SizeLimit)
    /\ LET p == TakePacket(down, SizeLimit)
       IN  IF p.ok
           THEN LET f == Flagged(sent[p.sync])
                IN  /\ results' = Append(results,
                           [sync |-> p.sync, resp |-> ProcessResp(p.data, f, f)])
                    /\ down' = p.rest
                    /\ UNCHANGED broken
           ELSE /\ down' = << >> /\ broken' = TRUE
                /\ UNCHANGED results
    /\ UNCHANGED <<fixtures, sent, up, handled, sets>>

\* The connection breaks: what has not arrived is lost, of one direction.  (Of
\* both is the same for each of them: the server adds no answer any more.)
Break(m, n) ==
    /\ ~broken
    /\ broken' = TRUE
    /\ up' = SubSeq(up, 1, m)
    /\ down' = SubSeq(down, 1, n)
    /\ UNCHANGED <<fixtures, sent, handled, results, sets>>

-----------------------------------------------------------------------------
SessionInit ==
    /\ fixtures = << >>
    /\ sent = << >> /\ handled = << >> /\ results = << >>
    /\ up = << >> /\ down = << >> /\ broken = FALSE
    /\ sets = 0

SessionNext ==
    \/ \E r \in Requests : Ask(r)
    \/ \E f \in FixtureSets : SetFixtures(f)
    \/ ServerRead \/ ClientRead
    \/ \E m \in 0..Min({MaxBreak, Len(up)}) : Break(m, Len(down))
    \/ \E n \in 0..Min({MaxBreak, Len(down)}) : Break(Len(up), n)

SessionSpec == SessionInit /\ [][SessionNext]_sessionVars

-----------------------------------------------------------------------------
(* Properties *)

\* The request that a server should read: the largest limit is none.
AsRead(r) ==
    CASE r.kind = "user"   -> r.values
      [] r.kind = "select" -> [r EXCEPT !.limit = IF @ = NoLimit THEN 0 ELSE @]
      [] r.kind \in {"insert", "update", "delete", "lua"} -> r

\* What was read of r, with the mode of r where that is lost: a mode other than 0 is
\* packed as a flag, and the flag is read as the mode (InsertModeReadBack).
ButMode(r, read) ==
    IF r.kind = "insert" /\ r.mode # 0 THEN [read EXCEPT !.mode = r.mode] ELSE read

\* Whatever the client packs and wherever the stream breaks, the server handles
\* the first of the requests, whole, in their order, and reads what the client
\* had packed, but for the mode of an insert; and the buffer that was made for the
\* request had been large enough for it.
RequestsReadBack ==
    \A i \in DOMAIN handled :
        /\ handled[i].sync = i
        /\ handled[i].fixture = Nil =>
               /\ handled[i].read.ok
               /\ ButMode(sent[i], handled[i].read.r) = AsRead(sent[i])
        /\ sent[i].kind \notin {"lua", "user"} => Len(Data(sent[i])) <= Capacity(sent[i])

\* The mode too: a test expects DebugInsertRequest to be told the mode that the client
\* has packed (mock_server_b_test.go:155-159), one of those that have a name
\* (types.go:81-85, 207-219).
InsertModeReadBack ==
    \A i \in DOMAIN handled :
        handled[i].fixture = Nil /\ sent[i].kind = "insert" =>
            handled[i].read.r.mode = sent[i].mode

\* What ProcessResp should make of a fixture's response to a request.
Expected(f, r) ==
    IF f = Nil THEN Fail
    ELSE IF f.cut THEN Fail
    ELSE IF ~CountFits(Len(f.tuples), Flagged(r), Flagged(r)) THEN Fail
    ELSE [ok |-> TRUE, v |-> f.tuples]

\* The client gets the tuples of the fixture that had the bytes of its request
\* when the server handled it, and an error where there was none or where the
\* response is cut short, whatever the order of triggers, SetFixtures and the
\* packets in flight.
AnswersReadBack ==
    \A i \in DOMAIN results :
        /\ results[i].sync = i
        /\ results[i].resp = Expected(handled[i].fixture, sent[i])
        /\ handled[i].fixture # Nil => handled[i].fixture.request = Data(sent[i])

\* "returning more than one tuple" is an error where one is wanted
\* (octopus/box.go:141-143).
UniqMeansOne ==
    \A i \in DOMAIN results :
        Flagged(sent[results[i].sync]) /\ results[i].resp.ok =>
            Len(results[i].resp.v) <= 1
=============================================================================
