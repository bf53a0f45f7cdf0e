---------------------------- MODULE PacketServer ----------------------------
(***************************************************************************)
(* The server of datagrams, pkg/iproto/iproto/dgram.go: the reader, which  *)
(* hands packets to the handler, the writer, which glues the packets for   *)
(* one address into datagrams, the goroutines that answer through a peer,  *)
(* and the owner, which shuts the server down and closes it.               *)
(*                                                                         *)
(* A step ends where another goroutine can see or change what the next one *)
(* uses.  An address is the object that ReadFrom makes for a datagram, its   *)
(* number here: the writer compares objects, so that two datagrams of one  *)
(* peer have two addresses.  A packet is its address, size and number.     *)
(***************************************************************************)
EXTENDS Integers, Sequences, SequencesExt

CONSTANTS
    Datagrams,  \* what a datagram may hold: sequences of kinds of packets
    Sizes,      \* the sizes of the packets of a handler
    HeaderSize, \* the size of the answer to a ping or a shutdown
    Mtu,        \* MaxTransmissionUnit
    PoolSizes,  \* the sizes that util/bufio keeps writers for, powers of two
    QueueSize,  \* WriteQueueSize
    Answerers,  \* goroutines of the handler and of OnPeerShutdown
    Shutters,   \* goroutines that call Shutdown once
    Closers,    \* goroutines that call Close once
    MaxReads,   \* bound: the datagrams received
    MaxSends,   \* bound: the packets sent
    None

Reader  == "reader"
Senders == Answerers \cup {Reader}
Owners  == Shutters \cup Closers

Packets == [addr : 1..MaxReads, size : Sizes \cup {HeaderSize}, n : 1..MaxSends]

ASSUME PacketServerAssumption ==
    /\ None \notin Packets /\ None \notin [pkt : Packets, q : 0..QueueSize]
    /\ QueueSize \in Nat \ {0} /\ Mtu \in Nat \ {0} /\ PoolSizes \subseteq Nat
    /\ {MaxReads, MaxSends} \subseteq Nat /\ Sizes \cup {HeaderSize} \subseteq Nat \ {0}
    /\ \A d \in Datagrams :
          Len(d) > 0 /\ Range(d) \subseteq {"ping", "shutdown", "other", "broken"}

VARIABLES
    out,       \* p.out
    w,         \* the writer's bufio.Writer, its size and writerTo, with what was written
    wpc,       \* the writer: program counter
    held,      \* the writer: ba and q
    exit,      \* the writer: exit
    rpc,       \* the reader: program counter
    from,      \* the reader: addr
    rest,      \* the reader: packets left of its datagram
    known,     \* the addresses that the handler or OnPeerShutdown was given
    want,      \* senders: the packet that waits in send(), or None
    opc,       \* owners: program counter
    closed, stopped, connClosed,        \* fields of PacketServer
    stopper,   \* how often p.stopper was closed
    writeDone, readDone, done,          \* whether the channels are closed
    accepted,  \* history: the packets that send() put into p.out
    reads, sends                        \* the datagrams and the packets so far

writer == <<w, wpc, held, exit, writeDone>>
reader == <<rpc, from, rest, known, readDone, reads>>
queue  == <<out, want, accepted, sends>>
state  == <<closed, stopped, connClosed, stopper>>
vars   == <<writer, reader, queue, state, opc, done>>

SizeOf(s) ==
    LET size[i \in 0..Len(s)] == IF i = 0 THEN 0 ELSE size[i - 1] + s[i].size
    IN  size[Len(s)]

-----------------------------------------------------------------------------
(* drop(), a section of p.mu *)

Drop ==
    IF closed THEN UNCHANGED state ELSE
    /\ closed' = TRUE
    /\ stopped' = TRUE
    /\ stopper' = IF stopped THEN stopper ELSE stopper + 1
    /\ connClosed' = TRUE

\* The goroutine of drop().
CloseDone ==
    /\ closed /\ writeDone /\ readDone /\ ~done
    /\ done' = TRUE
    /\ UNCHANGED <<writer, reader, queue, state, opc>>

-----------------------------------------------------------------------------
(* send() *)

Enqueue(pkt) ==
    /\ Len(out) < QueueSize
    /\ out' = Append(out, pkt)
    /\ accepted' = Append(accepted, pkt)

\* send() of a packet for address a, up to its first select: a full queue leads
\* to the second one.
Send(p, a, sizes) ==
    /\ sends < MaxSends
    /\ sends' = sends + 1
    /\ \E s \in sizes :
          LET pkt == [addr |-> a, size |-> s, n |-> sends']
          IN  \/ Enqueue(pkt) /\ UNCHANGED want
              \/ /\ Len(out) = QueueSize
                 /\ want' = [want EXCEPT ![p] = pkt]
                 /\ UNCHANGED <<out, accepted>>

\* Mutant of SendBlocked: the end of the writer is not awaited.
SendBlockedOnly(p) ==
    /\ want[p] # None
    /\ Enqueue(want[p])
    /\ want' = [want EXCEPT ![p] = None]
    /\ UNCHANGED <<writer, reader, state, opc, done, sends>>

\* The second select: room, or the writer has ended.
SendBlocked(p) ==
    /\ want[p] # None
    /\ \/ Enqueue(want[p])
       \/ writeDone /\ UNCHANGED <<out, accepted>>
    /\ want' = [want EXCEPT ![p] = None]
    /\ UNCHANGED <<writer, reader, state, opc, done, sends>>

\* A goroutine answers a peer at any time, after the close too.
Answer(g, a) ==
    /\ a \in known
    /\ want[g] = None
    /\ Send(g, a, Sizes \cup {HeaderSize})
    /\ UNCHANGED <<writer, reader, state, opc, done>>

-----------------------------------------------------------------------------
(* reader() *)

ReadFrom(d) ==
    /\ rpc = "read" /\ ~connClosed /\ reads < MaxReads
    /\ reads' = reads + 1
    /\ from' = reads' /\ rest' = d
    /\ rpc' = "packets"
    /\ UNCHANGED <<writer, queue, state, opc, done, known, readDone>>

ReadEnd == readDone' = TRUE /\ rpc' = "done"

\* ReadFrom fails, at the close or before it: drop().  (fatal() keeps the error,
\* which nothing reads.)
ReadFails ==
    /\ rpc = "read"
    /\ Drop /\ ReadEnd
    /\ UNCHANGED <<writer, queue, opc, done, from, rest, known, reads>>

Finished == rest = << >> /\ want[Reader] = None

NextDatagram ==
    /\ rpc = "packets" /\ Finished
    /\ rpc' = "read"
    /\ UNCHANGED <<writer, queue, state, opc, done, from, rest, known, readDone, reads>>

\* One packet.  A broken one drops the datagram; behind p.stopper none is handled.
\* A ping is answered, a shutdown too unless OnPeerShutdown does it (Answer), and
\* the handler may answer within its call or later.
ReadPacket ==
    /\ rpc = "packets" /\ ~Finished /\ want[Reader] = None
    /\ \/ /\ Head(rest) = "broken"
          /\ rest' = << >>
          /\ UNCHANGED <<rpc, readDone, known, queue>>
       \/ /\ Head(rest) # "broken" /\ stopper > 0
          /\ ReadEnd
          /\ UNCHANGED <<rest, known, queue>>
       \/ /\ Head(rest) # "broken" /\ stopper = 0
          /\ rest' = Tail(rest)
          /\ known' = IF Head(rest) = "ping" THEN known ELSE known \cup {from}
          /\ \/ Send(Reader, from, IF Head(rest) = "other" THEN Sizes ELSE {HeaderSize})
             \/ Head(rest) # "ping" /\ UNCHANGED queue
          /\ UNCHANGED <<rpc, readDone>>
    /\ UNCHANGED <<writer, state, opc, done, from, reads>>

-----------------------------------------------------------------------------
(* writer(): buf is a bufio.Writer, whose error stays *)

Datagram(to, pkts) == [to |-> to, pkts |-> pkts]

\* buf.Flush(); it may fail.
Flush(s, fails) ==
    IF s.buf = << >> \/ s.err THEN s
    ELSE IF fails THEN [s EXCEPT !.err = TRUE]
    ELSE [s EXCEPT !.buf = << >>, !.wire = Append(@, Datagram(s.addr, s.buf))]

\* AcquireWriterSize: a new writer has the size asked for; one of the pool was made
\* for any size that rounds up to the same power of two.
WriterSizes ==
    {Mtu} \cup UNION {(c \div 2) + 1..c : c \in {c \in PoolSizes : c \div 2 < Mtu /\ Mtu <= c}}

Available(s) == s.cap - SizeOf(s.buf)

\* buf.Write(): a packet that does not fit is written at once if nothing is
\* buffered, and in two parts otherwise.
Write(s, b, fails) ==
    IF s.err THEN s
    ELSE IF b.size <= Available(s) THEN [s EXCEPT !.buf = Append(@, b)]
    ELSE IF fails THEN [s EXCEPT !.err = TRUE]
    ELSE IF s.buf = << >> THEN [s EXCEPT !.wire = Append(@, Datagram(s.addr, <<b>>))]
    ELSE [s EXCEPT !.wire = Append(@, Datagram(s.addr, Append(s.buf, b))), !.buf = <<b>>]

\* Mutant of Put: the address is set before the flush.
PutAddrFirst(s, b, fails, failsToo) ==
    LET t == [s EXCEPT !.addr = b.addr]
    IN  IF s.addr # b.addr \/ Available(s) < b.size
        THEN Write(Flush(t, fails), b, failsToo) ELSE Write(s, b, failsToo)

\* Mutant of Put: a full datagram is flushed, and the packet forgotten.
PutFlushOnly(s, b, fails, failsToo) ==
    IF s.addr # b.addr
    THEN Write([Flush(s, fails) EXCEPT !.addr = b.addr], b, failsToo)
    ELSE IF Available(s) < b.size THEN Flush(s, fails) ELSE Write(s, b, failsToo)

\* One round of the inner loop: what is buffered is flushed before a packet for
\* another address, and before one that has no room.
Put(s, b, fails, failsToo) ==
    IF s.addr # b.addr \/ Available(s) < b.size
    THEN Write([Flush(s, fails) EXCEPT !.addr = b.addr], b, failsToo)
    ELSE Write(s, b, failsToo)

\* A closed connection fails, another one may.
Outcomes == IF connClosed THEN {TRUE} ELSE BOOLEAN

\* The select at the top takes a packet ...
WriterTakes ==
    /\ wpc = "select" /\ ~exit /\ out # << >>
    /\ held' = [pkt |-> Head(out), q |-> 0]
    /\ out' = Tail(out)
    /\ wpc' = "count"
    /\ UNCHANGED <<w, exit, writeDone, reader, want, accepted, sends, state, opc, done>>

\* ... or sees p.stopper closed, and takes a last packet if there is one.  Without
\* one the loop ends, and whatever is buffered is not flushed.
WriterStops ==
    /\ wpc = "select" /\ ~exit /\ stopper > 0
    /\ exit' = TRUE
    /\ IF out = << >>
       THEN wpc' = "exit" /\ UNCHANGED <<held, out>>
       ELSE /\ held' = [pkt |-> Head(out), q |-> 0]
            /\ out' = Tail(out)
            /\ wpc' = "count"
    /\ UNCHANGED <<w, writeDone, reader, want, accepted, sends, state, opc, done>>

\* q := len(p.out).
WriterCounts ==
    /\ wpc = "count"
    /\ held' = [held EXCEPT !.q = Len(out)]
    /\ wpc' = "put"
    /\ UNCHANGED <<w, exit, writeDone, reader, queue, state, opc, done>>

\* A round of the inner loop, and the packet of the next one.
WriterPuts ==
    /\ wpc = "put"
    /\ \E f \in Outcomes, g \in Outcomes : w' = Put(w, held.pkt, f, g)
    /\ IF held.q = 0
       THEN held' = None /\ wpc' = "last" /\ UNCHANGED out
       ELSE /\ held' = [pkt |-> Head(out), q |-> held.q - 1]
            /\ out' = Tail(out)
            /\ UNCHANGED wpc
    /\ UNCHANGED <<exit, writeDone, reader, want, accepted, sends, state, opc, done>>

\* After Gosched: more packets put the flush off, even at the last round.
WriterFlushes ==
    /\ wpc = "last"
    /\ IF out # << >>
       THEN /\ wpc' = IF exit THEN "exit" ELSE "select"
            /\ UNCHANGED <<w, state>>
       ELSE \E f \in Outcomes :
            /\ w' = Flush(w, f)
            /\ IF w'.err THEN wpc' = "exit" /\ Drop
               ELSE wpc' = (IF exit THEN "exit" ELSE "select") /\ UNCHANGED state
    /\ UNCHANGED <<held, exit, writeDone, reader, queue, opc, done>>

WriterExits ==
    /\ wpc = "exit"
    /\ wpc' = "done" /\ writeDone' = TRUE
    /\ UNCHANGED <<w, held, exit, reader, queue, state, opc, done>>

-----------------------------------------------------------------------------
(* The owner *)

Step(o, l) == opc' = [opc EXCEPT ![o] = l]

\* Shutdown: the second one returns at once.
Shutdown(s) ==
    /\ s \in Shutters /\ opc[s] = "idle"
    /\ stopped' = TRUE
    /\ Step(s, IF stopped THEN "returned" ELSE "stop")
    /\ UNCHANGED <<writer, reader, queue, closed, connClosed, stopper, done>>

ShutdownStops(s) ==
    /\ opc[s] = "stop"
    /\ stopper' = stopper + 1
    /\ Step(s, "writer")
    /\ UNCHANGED <<writer, reader, queue, closed, stopped, connClosed, done>>

\* The deferred calls: the timer is stopped, and Close.
ShutdownCloses(s) ==
    /\ opc[s] = "writer" /\ writeDone
    /\ Drop
    /\ Step(s, "close")
    /\ UNCHANGED <<writer, reader, queue, done>>

\* The timer of Shutdown, in a goroutine of its own that calls Close.
ShutdownTimesOut(s) ==
    /\ opc[s] \in {"stop", "writer"} /\ ~closed
    /\ Drop
    /\ UNCHANGED <<writer, reader, queue, opc, done>>

Close(c) ==
    /\ c \in Closers /\ opc[c] = "idle"
    /\ Drop
    /\ Step(c, "close")
    /\ UNCHANGED <<writer, reader, queue, done>>

CloseReturns(o) ==
    /\ opc[o] = "close" /\ done
    /\ Step(o, "returned")
    /\ UNCHANGED <<writer, reader, queue, state, done>>

-----------------------------------------------------------------------------
Init ==
    /\ out = << >> /\ accepted = << >>
    /\ \E n \in WriterSizes :
          w = [addr |-> None, buf |-> << >>, cap |-> n, err |-> FALSE, wire |-> << >>]
    /\ wpc = "select" /\ held = None /\ exit = FALSE
    /\ rpc = "read" /\ from = None /\ rest = << >> /\ known = {}
    /\ want = [p \in Senders |-> None]
    /\ opc = [o \in Owners |-> "idle"]
    /\ closed = FALSE /\ stopped = FALSE /\ connClosed = FALSE /\ stopper = 0
    /\ writeDone = FALSE /\ readDone = FALSE /\ done = FALSE
    /\ reads = 0 /\ sends = 0

Writing == WriterCounts \/ WriterPuts \/ WriterFlushes \/ WriterExits
Reading == ReadPacket \/ NextDatagram
Owning(o) == ShutdownStops(o) \/ ShutdownCloses(o) \/ CloseReturns(o)

Next ==
    \/ WriterTakes \/ WriterStops \/ Writing \/ Reading \/ ReadFails \/ CloseDone
    \/ \E d \in Datagrams : ReadFrom(d)
    \/ \E g \in Answerers, a \in 1..MaxReads : Answer(g, a)
    \/ \E p \in Senders : SendBlocked(p)
    \/ \E o \in Owners : Shutdown(o) \/ ShutdownTimesOut(o) \/ Close(o) \/ Owning(o)

Spec == Init /\ [][Next]_vars

\* The writer is in WriteTo, or about to be, of a connection that is open.  The server
\* sets no deadline for a write: it may block for ever, on unixgram when a peer does
\* not read.  (What is queued while Flush blocks comes too late to put it off.)
MayBlock ==
    /\ ~connClosed /\ ~w.err
    /\ \/ wpc = "put" /\ Put(w, held.pkt, TRUE, TRUE).err
       \/ wpc = "last" /\ w.buf # << >>

\* Goroutines run, the timer of Shutdown fires, a closed connection ends ReadFrom and
\* WriteTo, the handler returns, and the writer's select takes either ready case in
\* the long run.
LiveSpec ==
    /\ Spec
    /\ WF_vars(WriterTakes \/ WriterStops) /\ SF_vars(WriterStops)
    /\ WF_vars(~MayBlock /\ Writing)
    /\ WF_vars(Reading) /\ WF_vars(ReadFails /\ connClosed) /\ WF_vars(CloseDone)
    /\ \A p \in Senders : WF_vars(SendBlocked(p))
    /\ \A o \in Owners : WF_vars(Owning(o)) /\ WF_vars(ShutdownTimesOut(o))

-----------------------------------------------------------------------------
(* Properties *)

TypeOK ==
    /\ Len(out) <= QueueSize
    /\ w.cap \in WriterSizes
    /\ wpc \in {"select", "count", "put", "last", "exit", "done"}
    /\ rpc \in {"read", "packets", "done"}
    /\ {exit, closed, stopped, connClosed, writeDone, readDone, done} \subseteq BOOLEAN
    /\ opc \in [Owners -> {"idle", "stop", "writer", "close", "returned"}]
    /\ stopper \in 0..1 \* a second close of p.stopper would panic

\* A datagram has packets of one address only and goes to it; it has complete
\* packets, and more than one only if they fit the buffer (dgram.go:207-219), whose
\* size is Mtu or rounds up to the same power of two.
DatagramsWhole ==
    \A i \in DOMAIN w.wire :
        LET d == w.wire[i]
        IN  /\ \A b \in Range(d.pkts) : b.addr = d.to
            /\ Len(d.pkts) = 1 \/ SizeOf(d.pkts) <= w.cap

\* What the name of MaxTransmissionUnit says of a datagram of several packets.
FitsMtu ==
    \A i \in DOMAIN w.wire :
        Len(w.wire[i].pkts) = 1 \/ SizeOf(w.wire[i].pkts) <= Mtu

\* Until a write fails, every packet that send() took is written, buffered, in the
\* writer's hand or queued: none is lost, doubled or overtaken, whenever the
\* server is stopped.
AcceptedAccounted ==
    ~w.err =>
        FlattenSeq([i \in DOMAIN w.wire |-> w.wire[i].pkts])
            \o w.buf \o (IF held = None THEN << >> ELSE <<held.pkt>>) \o out
        = accepted

\* Close and Shutdown return, although the writer may be in a write that does not end,
\* the reader in a send() itself, and the writer may have ended; and once the server
\* is stopped no send() blocks for ever.
CallsReturn ==
    /\ \A o \in Owners : (opc[o] # "idle") ~> (opc[o] = "returned")
    /\ \A p \in Senders : (want[p] # None /\ stopped) ~> (want[p] = None)

\* What a WriteTimeout, which the config of a server has (dgram.go:28, 54-55), would
\* give: a send() waits for no longer than the writes before it take.
SendsReturn == \A p \in Senders : (want[p] # None) ~> (want[p] = None)

\* "Draining the p.out above guarantees us that p.out is zero here when stopped
\* is true" (dgram.go:238-239): a writer that ends without an error has flushed.
LastDatagramFlushed == wpc = "done" /\ ~w.err => w.buf = << >> /\ out = << >>
=============================================================================
