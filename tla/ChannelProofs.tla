---------------------------- MODULE ChannelProofs ----------------------------
(* What Channel.tla states of one channel, proved for any sets of callers,    *)
(* any queue size and any configuration.                                      *)
EXTENDS Channel, SequenceTheorems, TLAPS

USE ChannelAssumption DEF Senders, Results

-----------------------------------------------------------------------------
(* The operators that the actions share *)

\* An entry that leaves the store leaves it well typed.
LEMMA ResolveType ==
    ASSUME TypeOK, NEW c \in Calls, NEW v \in Results, Resolve(c, v)
    PROVE  /\ pending' \subseteq Calls
           /\ emptied' \in {"none", "open", "closed"}
           /\ owed' \in [Calls -> Results \cup {None}]
BY DEF TypeOK, Resolve

\* Drop and fatal keep the types of what they write.
LEMMA DropType ==
    ASSUME TypeOK, DropWith(TRUE) \/ DropWith(FALSE)
    PROVE  /\ stopped' \in BOOLEAN /\ dropped' \in BOOLEAN /\ hijacked' \in BOOLEAN /\ err' \in BOOLEAN
           /\ pending' \subseteq Calls
           /\ emptied' \in {"none", "open", "closed"}
           /\ owed' \in [Calls -> Results \cup {None}]
           /\ stopper' \in Nat
           /\ conn' \in {"open", "closed", "deadline"}
<1>1. CASE dropped
  BY <1>1 DEF TypeOK, DropWith, flags, store
<1>2. CASE ~dropped
  <2>1. /\ stopped' \in BOOLEAN /\ dropped' \in BOOLEAN /\ hijacked' \in BOOLEAN
        /\ err' \in BOOLEAN
    BY <1>2, Zenon DEF TypeOK, DropWith
  <2>3. stopper' \in Nat /\ conn' \in {"open", "closed", "deadline"}
    BY <1>2, SMT DEF TypeOK, DropWith
  <2>2. /\ pending' \subseteq Calls
        /\ emptied' \in {"none", "open", "closed"}
        /\ owed' \in [Calls -> Results \cup {None}]
    BY <1>2 DEF TypeOK, DropWith, RejectAll
  <2> QED BY <2>1, <2>2, <2>3
<1> QED BY <1>1, <1>2

\* A send that ends with an error keeps the types of what it writes.
LEMMA GiveUpType ==
    ASSUME TypeOK, NEW s \in Senders, NEW v \in Results, GiveUp(s, v)
    PROVE  /\ pc' \in [Senders -> {"idle", "check", "enqueue", "blocked", "wait", "returned"}]
           /\ pending' \subseteq Calls
           /\ emptied' \in {"none", "open", "closed"}
           /\ owed' \in [Calls -> Results \cup {None}]
           /\ res' \in [Senders -> Results \cup {None}]
<1>1. CASE s \in Calls
  BY <1>1, ResolveType DEF TypeOK, GiveUp
<1>2. CASE s \notin Calls
  BY <1>2 DEF TypeOK, GiveUp, store
<1> QED BY <1>1, <1>2

\* Packets that move from c.out and the buffers to the connection stay packets.
LEMMA TakeType ==
    ASSUME TypeOK, NEW k \in {0} \cup (Len(buf) + 1)..Len(buf \o out), Take(k)
    PROVE  /\ out' \in PacketSeq
           /\ buf' \in PacketSeq
           /\ wire' \subseteq Calls
           /\ wr' = "flush"
<1>1. buf \o out \in PacketSeq
  BY ConcatProperties DEF TypeOK, PacketSeq
<1>2. k \in Nat /\ k <= Len(buf \o out)
  BY <1>1, LenProperties DEF TypeOK, PacketSeq
<1>3. SubSeq(buf \o out, k + 1, Len(buf \o out)) \in PacketSeq
  BY <1>1, <1>2, SubSeqProperties, LenProperties DEF PacketSeq
<1>4. <<>> \in PacketSeq
  BY DEF PacketSeq
<1> QED BY <1>3, <1>4 DEF TypeOK, Take, Written

-----------------------------------------------------------------------------
(* Type correctness *)

\* Every step keeps the types.
LEMMA TypeStep ==
    ASSUME TypeOK, [Next]_vars
    PROVE  TypeOK'
<1> USE DEF TypeOK, flags, store, caller, queue, writer, reader, net, life
<1>1. ASSUME NEW c \in Calls, CallPush(c) \/ Deliver(c) \/ CallReturn(c) PROVE TypeOK'
  BY <1>1 DEF CallPush, Deliver, CallReturn
<1>2. ASSUME NEW c \in Calls, CallExpire(c) PROVE TypeOK'
  <2>1. Resolve(c, "error")
    BY <1>2 DEF CallExpire
  <2> QED BY <1>2, <2>1, ResolveType DEF CallExpire
<1>3. ASSUME NEW n \in Notices, NotifyStart(n) PROVE TypeOK'
  BY <1>3 DEF NotifyStart
<1>4. ASSUME NEW s \in Senders, SendCheck(s) PROVE TypeOK'
  <2>1. CASE stopped \/ hijacked
    BY <1>4, <2>1, GiveUpType DEF SendCheck
  <2>2. CASE ~(stopped \/ hijacked)
    BY <1>4, <2>2 DEF SendCheck
  <2> QED BY <2>1, <2>2
<1>5. ASSUME NEW s \in Senders, Enqueue(s) PROVE TypeOK'
  <2>1. out' \in PacketSeq
    BY <1>5, AppendProperties DEF Enqueue, PacketSeq
  <2>2. /\ pc' \in [Senders -> {"idle", "check", "enqueue", "blocked", "wait", "returned"}]
        /\ res' \in [Senders -> Results \cup {None}]
        /\ accepted' \subseteq Senders \cup {SHUTDOWN}
    BY <1>5 DEF Enqueue
  <2> QED BY <1>5, <2>1, <2>2 DEF Enqueue
<1>6. ASSUME NEW s \in Senders, Block(s) PROVE TypeOK'
  BY <1>6 DEF Block
<1>7. ASSUME NEW s \in Senders, BlockedGiveUp(s) PROVE TypeOK'
  BY <1>7, GiveUpType DEF BlockedGiveUp
<1>8. ASSUME ReadPacket PROVE TypeOK'
  <2>1. in' \in PacketSeq /\ Head(in) \in Senders \cup {SHUTDOWN}
    BY <1>8, HeadTailProperties DEF ReadPacket, PacketSeq
  <2>2. CASE Head(in) \in pending
    <3>1. Head(in) \in Calls /\ Resolve(Head(in), "ok")
      BY <1>8, <2>2 DEF ReadPacket
    <3> QED BY <1>8, <2>1, <2>2, <3>1, ResolveType DEF ReadPacket
  <2>3. CASE Head(in) \notin pending
    BY <1>8, <2>1, <2>3 DEF ReadPacket
  <2> QED BY <2>2, <2>3
<1>9. ASSUME Dispatch PROVE TypeOK'
  <2>1. pkt \in Senders \cup {SHUTDOWN} /\ Append(hbuf, pkt) \in PacketSeq
    BY <1>9, AppendProperties DEF Dispatch, PacketSeq
  <2>2. pc' \in [Senders -> {"idle", "check", "enqueue", "blocked", "wait", "returned"}]
    BY <1>9 DEF Dispatch
  <2>3. rd' \in {"read", "serving"} /\ pkt' = None /\ ackd' \in {0, 1}
    BY <1>9 DEF Dispatch
  <2>4. hbuf' \in PacketSeq
    BY <1>9, <2>1 DEF Dispatch
  <2>5. spawned' \in BOOLEAN
    BY <1>9, Zenon DEF Dispatch
  <2> QED BY <1>9, <2>2, <2>3, <2>4, <2>5 DEF Dispatch
<1>10. ASSUME ServeReturn \/ ReaderError PROVE TypeOK'
  BY <1>10 DEF ServeReturn, ReaderError
<1>11. ASSUME ReaderDrop PROVE TypeOK'
  <2>1. DropWith(TRUE) \/ DropWith(FALSE)
    BY <1>11, Zenon DEF ReaderDrop
  <2>2. /\ stopped' \in BOOLEAN /\ dropped' \in BOOLEAN /\ hijacked' \in BOOLEAN
        /\ err' \in BOOLEAN
        /\ pending' \subseteq Calls
        /\ emptied' \in {"none", "open", "closed"}
        /\ owed' \in [Calls -> Results \cup {None}]
        /\ stopper' \in Nat
        /\ conn' \in {"open", "closed", "deadline"}
    BY <2>1, DropType
  <2>3. rd' = "exited" /\ pkt = None /\ pkt' = pkt
    BY <1>11 DEF ReaderDrop
  <2>4. UNCHANGED <<pc, res, queue, writer, pkt, hbuf, saved, ackd, net, life>>
    BY <1>11 DEF ReaderDrop
  <2> QED BY <2>2, <2>3, <2>4
<1>12. ASSUME WriterTake PROVE TypeOK'
  BY <1>12, TakeType DEF WriterTake
<1>13. ASSUME WriterStop PROVE TypeOK'
  BY <1>13, TakeType DEF WriterStop
<1>14. ASSUME WriterFlush PROVE TypeOK'
  BY <1>14 DEF WriterFlush, Written, PacketSeq
<1>15. ASSUME WriterFatal PROVE TypeOK'
  <2>1. DropWith(TRUE)
    BY <1>15 DEF WriterFatal
  <2> QED BY <1>15, <2>1, DropType DEF WriterFatal
<1>16. ASSUME WriterCtxDone \/ ShutdownStart \/ CloseDone \/ HijackStart \/ HijackFinish
       PROVE TypeOK'
  <2>1. CASE WriterCtxDone BY <2>1 DEF WriterCtxDone
  <2>2. CASE ShutdownStart
    <3>1. stopped' \in BOOLEAN /\ sdHijacked' \in BOOLEAN /\ spawned' \in BOOLEAN
      BY <2>2, Zenon DEF ShutdownStart
    <3> QED BY <2>2, <3>1 DEF ShutdownStart
  <2>3. CASE CloseDone BY <2>3 DEF CloseDone
  <2>4. CASE HijackStart BY <2>4 DEF HijackStart
  <2>5. CASE HijackFinish BY <2>5 DEF HijackFinish
  <2> QED BY <1>16, <2>1, <2>2, <2>3, <2>4, <2>5
<1>17. ASSUME ShutdownCallbacks \/ ShutdownEmpty \/ ShutdownDrained \/ ShutdownAck
                \/ ShutdownStop \/ ShutdownFlushed
       PROVE TypeOK'
  BY <1>17 DEF ShutdownCallbacks, ShutdownEmpty, ShutdownDrained, ShutdownAck, ShutdownStop,
               ShutdownFlushed, ShutdownTo
<1>18. ASSUME ShutdownSend PROVE TypeOK'
  <2>1. Append(out, SHUTDOWN) \in PacketSeq
    BY AppendProperties DEF PacketSeq
  <2>2. out' \in PacketSeq /\ accepted' \subseteq Senders \cup {SHUTDOWN}
    BY <1>18, <2>1 DEF ShutdownSend
  <2> QED BY <1>18, <2>2 DEF ShutdownSend, ShutdownTo
<1>19. ASSUME ShutdownClose \/ ShutdownTimeout \/ Drop \/ InitFail PROVE TypeOK'
  <2>1. CASE ShutdownClose BY <2>1, DropType DEF ShutdownClose
  <2>2. CASE ShutdownTimeout BY <2>2, DropType DEF ShutdownTimeout
  <2>3. CASE Drop BY <2>3, DropType DEF Drop
  <2>4. CASE InitFail BY <2>4, DropType DEF InitFail
  <2> QED BY <1>19, <2>1, <2>2, <2>3, <2>4
<1>20. ASSUME TimerFatal PROVE TypeOK'
  <2>1. DropWith(TRUE)
    BY <1>20 DEF TimerFatal
  <2> QED BY <1>20, <2>1, DropType DEF TimerFatal
<1>21. ASSUME NEW w \in Watchers, OnClose(w) \/ CallOnClose(w) PROVE TypeOK'
  BY <1>21 DEF OnClose, CallOnClose
<1>22. ASSUME InitArm PROVE TypeOK'
  BY <1>22 DEF InitArm
<1>23. ASSUME NEW p \in Senders \cup {SHUTDOWN}, PeerSend(p) PROVE TypeOK'
  BY <1>23, AppendProperties DEF PeerSend, PacketSeq
<1>24. ASSUME PeerClose PROVE TypeOK'
  BY <1>24 DEF PeerClose
<1>25. ASSUME UNCHANGED vars PROVE TypeOK'
  BY <1>25 DEF vars
<1> QED
  BY <1>1, <1>2, <1>3, <1>4, <1>5, <1>6, <1>7, <1>8, <1>9, <1>10, <1>11, <1>12, <1>13, <1>14,
     <1>15, <1>16, <1>17, <1>18, <1>19, <1>20, <1>21, <1>22, <1>23, <1>24, <1>25
     DEF Next, SendNext, ReaderNext, WriterNext, ShutdownNext

\* In every behaviour every variable keeps its type.
THEOREM TypeCorrect == Spec => []TypeOK
<1>1. Init => TypeOK
  <2> SUFFICES ASSUME Init PROVE TypeOK
    OBVIOUS
  <2>1. <<>> \in PacketSeq
    BY DEF PacketSeq
  <2>2. /\ stopped \in BOOLEAN /\ dropped \in BOOLEAN /\ hijacked \in BOOLEAN /\ err \in BOOLEAN
        /\ wstop \in BOOLEAN /\ sdHijacked \in BOOLEAN /\ spawned \in BOOLEAN /\ done \in BOOLEAN
    BY Zenon DEF Init
  <2> QED BY <2>1, <2>2 DEF Init, TypeOK
<1> QED BY <1>1, TypeStep, PTL DEF Spec

-----------------------------------------------------------------------------
(* c.stopper *)

\* Who may still close c.stopper: Drop while nobody has stopped the channel,
\* the one Shutdown that stopped it until it has done so.
StopInv ==
    /\ dropped => stopped
    /\ ~stopped => stopper = 0 /\ sd = "idle"
    /\ sd \in {"callbacks", "empty", "drain", "send", "ack", "stop"} => stopper = 0
    /\ stopper <= 1

\* Drop and fatal close c.stopper only as long as nobody has stopped the channel.
LEMMA DropStop ==
    ASSUME TypeOK, StopInv, DropWith(TRUE) \/ DropWith(FALSE),
           sd' = sd \/ sd' = "finish"
    PROVE  StopInv'
<1>1. CASE dropped
  BY <1>1 DEF TypeOK, StopInv, DropWith, flags, store
<1>2. CASE ~dropped
  BY <1>2 DEF TypeOK, StopInv, DropWith
<1> QED BY <1>1, <1>2

\* Every step keeps StopInv.
LEMMA StopStep ==
    ASSUME TypeOK, StopInv, [Next]_vars
    PROVE  StopInv'
<1>1. CASE UNCHANGED <<stopped, dropped, stopper, sd>>
  BY <1>1 DEF StopInv
<1>2. CASE ReaderDrop \/ WriterFatal \/ ShutdownTimeout \/ Drop \/ TimerFatal
  <2>1. DropWith(TRUE) \/ DropWith(FALSE)
    BY <1>2, Zenon DEF ReaderDrop, WriterFatal, ShutdownTimeout, Drop, TimerFatal
  <2>2. sd' = sd
    BY <1>2, Zenon DEF ReaderDrop, WriterFatal, ShutdownTimeout, Drop, TimerFatal, life
  <2> QED BY <2>1, <2>2, DropStop
<1>3. CASE ShutdownClose \/ InitFail
  BY <1>3, DropStop DEF ShutdownClose, InitFail
<1>4. CASE ShutdownStart
  BY <1>4 DEF ShutdownStart, StopInv
<1>5. CASE ShutdownStop
  BY <1>5 DEF ShutdownStop, ShutdownTo, TypeOK, StopInv, flags
<1>6. CASE ShutdownCallbacks \/ ShutdownEmpty \/ ShutdownDrained \/ ShutdownSend
           \/ ShutdownAck \/ ShutdownFlushed
  BY <1>6 DEF ShutdownCallbacks, ShutdownEmpty, ShutdownDrained, ShutdownSend, ShutdownAck,
              ShutdownFlushed, ShutdownTo, TypeOK, StopInv, flags
<1>7. ASSUME NEW c \in Calls, CallPush(c) \/ Deliver(c) \/ CallExpire(c) \/ CallReturn(c)
      PROVE UNCHANGED <<stopped, dropped, stopper, sd>>
  BY <1>7, Zenon DEF CallPush, Deliver, CallExpire, CallReturn, flags, life
<1>8. ASSUME NEW s \in Senders, NotifyStart(s) \/ SendNext(s)
      PROVE UNCHANGED <<stopped, dropped, stopper, sd>>
  BY <1>8, Zenon DEF NotifyStart, SendNext, SendCheck, Enqueue, Block, BlockedGiveUp, flags, life
<1>9. ASSUME ReadPacket \/ Dispatch \/ ServeReturn \/ ReaderError
             \/ WriterTake \/ WriterStop \/ WriterFlush \/ WriterCtxDone
      PROVE UNCHANGED <<stopped, dropped, stopper, sd>>
  BY <1>9, Zenon DEF ReadPacket, Dispatch, ServeReturn, ReaderError, WriterTake, WriterStop,
                     WriterFlush, WriterCtxDone, flags, life
<1>10. ASSUME CloseDone \/ InitArm \/ HijackStart \/ HijackFinish \/ PeerClose
       PROVE UNCHANGED <<stopped, dropped, stopper, sd>>
  BY <1>10, Zenon DEF CloseDone, InitArm, HijackStart, HijackFinish, PeerClose, flags, life
<1>11. ASSUME NEW w \in Watchers, OnClose(w) \/ CallOnClose(w)
       PROVE UNCHANGED <<stopped, dropped, stopper, sd>>
  BY <1>11, Zenon DEF OnClose, CallOnClose, flags
<1>12. ASSUME NEW p \in Senders \cup {SHUTDOWN}, PeerSend(p)
       PROVE UNCHANGED <<stopped, dropped, stopper, sd>>
  BY <1>12, Zenon DEF PeerSend, flags, life
<1>13. ASSUME UNCHANGED vars
       PROVE UNCHANGED <<stopped, dropped, stopper, sd>>
  BY <1>13, Zenon DEF vars, flags, life
<1> QED
  BY <1>1, <1>2, <1>3, <1>4, <1>5, <1>6, <1>7, <1>8, <1>9, <1>10, <1>11, <1>12, <1>13
     DEF Next, ReaderNext, WriterNext, ShutdownNext

\* Drop and Shutdown never both close c.stopper.
THEOREM StopperClosedOnceHolds == Spec => []StopperClosedOnce
<1>1. Init => StopInv
  BY DEF Init, StopInv
<1>2. TypeOK /\ StopInv /\ [Next]_vars => StopInv'
  BY StopStep
<1>3. StopInv => StopperClosedOnce
  BY DEF StopInv, StopperClosedOnce
<1> QED BY <1>1, <1>2, <1>3, TypeCorrect, PTL DEF Spec

-----------------------------------------------------------------------------
(* The result of a call *)

\* A packet enters c.out before its sender goes on to wait or to return, and
\* only then; ErrStopped is the end of a send that has not come so far.
CallInv ==
    /\ OneResultPerCall
    /\ StrandedOnlyBeforeCheck
    /\ \A s \in Senders : pc[s] \in {"idle", "check", "enqueue", "blocked"} => s \notin accepted
    /\ \A s \in Senders \ Calls : pc[s] # "returned" => res[s] = None
    /\ \A s \in Senders : res[s] = "ErrStopped" =>
                              pc[s] \in {"wait", "returned"} /\ s \notin accepted
    /\ \A c \in Calls : owed[c] = "ErrStopped" => pc[c] = "wait" /\ c \notin accepted

\* The store gives up one entry: its call has been pushed, and an ErrStopped
\* comes from the call itself.
LEMMA ResolveCall ==
    ASSUME TypeOK, CallInv, NEW c \in Calls, NEW v \in Results \ {"ErrStopped"},
           Resolve(c, v), UNCHANGED <<dropped, pc, res, accepted>>
    PROVE  CallInv'
BY DEF TypeOK, CallInv, OneResultPerCall, StrandedOnlyBeforeCheck, Resolve

\* Drop takes all entries at once.
LEMMA DropCall ==
    ASSUME TypeOK, CallInv, DropWith(TRUE) \/ DropWith(FALSE), UNCHANGED <<pc, res, accepted>>
    PROVE  CallInv'
<1>1. CASE dropped
  <2>1. UNCHANGED <<dropped, pending, owed, pc, res, accepted>>
    BY <1>1 DEF DropWith, flags, store
  <2> QED BY <2>1 DEF CallInv, OneResultPerCall, StrandedOnlyBeforeCheck
<1>2. CASE ~dropped
  <2>1. RejectAll("error")
    BY <1>2, Zenon DEF DropWith
  <2> QED BY <2>1 DEF TypeOK, CallInv, OneResultPerCall, StrandedOnlyBeforeCheck, RejectAll
<1> QED BY <1>1, <1>2

\* A send that is given up before its packet enters c.out.
LEMMA GiveUpCall ==
    ASSUME TypeOK, CallInv, NEW s \in Senders, pc[s] \in {"check", "blocked"},
           NEW v \in Results, GiveUp(s, v), UNCHANGED <<dropped, accepted>>
    PROVE  CallInv'
<1>1. CASE s \in Calls
  BY <1>1 DEF TypeOK, CallInv, OneResultPerCall, StrandedOnlyBeforeCheck, GiveUp, Resolve
<1>2. CASE s \notin Calls
  BY <1>2 DEF TypeOK, CallInv, OneResultPerCall, StrandedOnlyBeforeCheck, GiveUp, store
<1> QED BY <1>1, <1>2

\* Every step keeps CallInv.
LEMMA CallStep ==
    ASSUME TypeOK, StopInv, CallInv, [Next]_vars
    PROVE  CallInv'
<1> USE DEF flags, store, caller, queue
<1>1. CASE UNCHANGED <<dropped, pending, owed, pc, res, accepted>>
  BY <1>1 DEF CallInv, OneResultPerCall, StrandedOnlyBeforeCheck
<1>2. CASE ReaderDrop \/ WriterFatal \/ ShutdownTimeout \/ Drop \/ TimerFatal
           \/ ShutdownClose \/ InitFail
  <2>1. DropWith(TRUE) \/ DropWith(FALSE)
    BY <1>2, Zenon DEF ReaderDrop, WriterFatal, ShutdownTimeout, Drop, TimerFatal,
                       ShutdownClose, InitFail
  <2>2. UNCHANGED <<pc, res, accepted>>
    BY <1>2, Zenon DEF ReaderDrop, WriterFatal, ShutdownTimeout, Drop, TimerFatal,
                       ShutdownClose, InitFail
  <2> QED BY <2>1, <2>2, DropCall
<1>3. ASSUME NEW c \in Calls, CallPush(c) PROVE CallInv'
  BY <1>3 DEF CallPush, TypeOK, CallInv, OneResultPerCall, StrandedOnlyBeforeCheck
<1>4. ASSUME NEW c \in Calls, Deliver(c) PROVE CallInv'
  BY <1>4 DEF Deliver, TypeOK, CallInv, OneResultPerCall, StrandedOnlyBeforeCheck
<1>5. ASSUME NEW c \in Calls, CallExpire(c) PROVE CallInv'
  BY <1>5, ResolveCall DEF CallExpire
<1>6. ASSUME NEW c \in Calls, CallReturn(c) PROVE CallInv'
  BY <1>6 DEF CallReturn, TypeOK, CallInv, OneResultPerCall, StrandedOnlyBeforeCheck
<1>7. ASSUME NEW n \in Notices, NotifyStart(n) PROVE CallInv'
  BY <1>7 DEF NotifyStart, TypeOK, CallInv, OneResultPerCall, StrandedOnlyBeforeCheck
<1>8. ASSUME NEW s \in Senders, SendCheck(s) PROVE CallInv'
  <2>1. CASE stopped \/ hijacked
    BY <1>8, <2>1, GiveUpCall DEF SendCheck
  <2>2. CASE ~(stopped \/ hijacked)
    BY <1>8, <2>2 DEF SendCheck, TypeOK, StopInv, CallInv, OneResultPerCall,
                      StrandedOnlyBeforeCheck
  <2> QED BY <2>1, <2>2
<1>9. ASSUME NEW s \in Senders, Enqueue(s) PROVE CallInv'
  BY <1>9 DEF Enqueue, TypeOK, CallInv, OneResultPerCall, StrandedOnlyBeforeCheck
<1>10. ASSUME NEW s \in Senders, Block(s) PROVE CallInv'
  BY <1>10 DEF Block, TypeOK, CallInv, OneResultPerCall, StrandedOnlyBeforeCheck
<1>11. ASSUME NEW s \in Senders, BlockedGiveUp(s) PROVE CallInv'
  BY <1>11, GiveUpCall DEF BlockedGiveUp
<1>12. ASSUME ReadPacket PROVE CallInv'
  <2>1. CASE Head(in) \in pending
    <3>1. Head(in) \in Calls /\ Resolve(Head(in), "ok")
      BY <1>12, <2>1 DEF ReadPacket, TypeOK
    <3> QED BY <1>12, <3>1, ResolveCall DEF ReadPacket
  <2>2. CASE Head(in) \notin pending
    BY <1>1, <1>12, <2>2 DEF ReadPacket
  <2> QED BY <2>1, <2>2
<1>13. ASSUME Dispatch PROVE CallInv'
  <2>1. UNCHANGED <<dropped, pending, owed, res, accepted>>
    BY <1>13, Zenon DEF Dispatch
  <2>2. CASE UNCHANGED pc
    BY <1>1, <2>1, <2>2
  <2>3. CASE pkt \in Replies /\ pc[pkt] = "idle" /\ pc' = [pc EXCEPT ![pkt] = "enqueue"]
    BY <2>1, <2>3 DEF TypeOK, CallInv, OneResultPerCall, StrandedOnlyBeforeCheck
  <2> QED BY <1>13, <2>2, <2>3, Zenon DEF Dispatch
<1>14. ASSUME ShutdownSend PROVE CallInv'
  BY <1>14 DEF ShutdownSend, ShutdownTo, TypeOK, CallInv, OneResultPerCall,
               StrandedOnlyBeforeCheck
<1>15. CASE ServeReturn \/ ReaderError \/ WriterTake \/ WriterStop \/ WriterFlush
            \/ WriterCtxDone
  <2>1. UNCHANGED <<dropped, pending, owed, pc, res, accepted>>
    BY <1>15, Zenon DEF ServeReturn, ReaderError, WriterTake, WriterStop, WriterFlush,
                        WriterCtxDone
  <2> QED BY <1>1, <2>1
<1>16. CASE ShutdownStart \/ ShutdownCallbacks \/ ShutdownEmpty \/ ShutdownDrained
            \/ ShutdownAck \/ ShutdownStop \/ ShutdownFlushed
  <2>1. UNCHANGED <<dropped, pending, owed, pc, res, accepted>>
    BY <1>16, Zenon DEF ShutdownStart, ShutdownCallbacks, ShutdownEmpty, ShutdownDrained,
                        ShutdownAck, ShutdownStop, ShutdownFlushed, ShutdownTo
  <2> QED BY <1>1, <2>1
<1>17. CASE CloseDone \/ InitArm \/ HijackStart \/ HijackFinish \/ PeerClose
  <2>1. UNCHANGED <<dropped, pending, owed, pc, res, accepted>>
    BY <1>17, Zenon DEF CloseDone, InitArm, HijackStart, HijackFinish, PeerClose
  <2> QED BY <1>1, <2>1
<1>18. ASSUME NEW w \in Watchers, OnClose(w) \/ CallOnClose(w) PROVE CallInv'
  BY <1>1, <1>18, Zenon DEF OnClose, CallOnClose
<1>19. ASSUME NEW p \in Senders \cup {SHUTDOWN}, PeerSend(p) PROVE CallInv'
  BY <1>1, <1>19, Zenon DEF PeerSend
<1>20. CASE UNCHANGED vars
  BY <1>1, <1>20, Zenon DEF vars
<1> QED
  BY <1>2, <1>3, <1>4, <1>5, <1>6, <1>7, <1>8, <1>9, <1>10, <1>11, <1>12, <1>13, <1>14,
     <1>15, <1>16, <1>17, <1>18, <1>19, <1>20
     DEF Next, SendNext, ReaderNext, WriterNext, ShutdownNext

\* Together the three invariants are inductive.
LEMMA CallInvariant == Spec => [](TypeOK /\ StopInv /\ CallInv)
<1>1. Init => StopInv /\ CallInv
  BY DEF Init, StopInv, CallInv, OneResultPerCall, StrandedOnlyBeforeCheck
<1>2. TypeOK /\ StopInv /\ CallInv /\ [Next]_vars => StopInv' /\ CallInv'
  BY StopStep, CallStep
<1> QED BY <1>1, <1>2, TypeCorrect, PTL DEF Spec

\* From its push on a call is owed exactly one result.
THEOREM OneResultPerCallHolds == Spec => []OneResultPerCall
<1>1. CallInv => OneResultPerCall
  BY DEF CallInv
<1> QED BY <1>1, CallInvariant, PTL

\* After Drop only calls that will still be refused are in the store.
THEOREM StrandedOnlyBeforeCheckHolds == Spec => []StrandedOnlyBeforeCheck
<1>1. CallInv => StrandedOnlyBeforeCheck
  BY DEF CallInv
<1> QED BY <1>1, CallInvariant, PTL

\* What ends with ErrStopped was never queued, so it may be sent again.
THEOREM RefusedNotSentHolds == Spec => []RefusedNotSent
<1>1. CallInv => RefusedNotSent
  BY DEF CallInv, RefusedNotSent
<1> QED BY <1>1, CallInvariant, PTL

-----------------------------------------------------------------------------
(* The shutdown packet *)

\* A call whose packet is not in c.out yet, and one that may still put it there.
Unsent(c) == pc[c] \in {"check", "enqueue", "blocked"}
Sending(c) == pc[c] \in {"enqueue", "blocked"}

\* The peer answers only what has been sent, so a call that is still on its
\* way into c.out is in the store, and the empty store that Shutdown waits for
\* leaves no such call.
OrderInv ==
    /\ \A i \in 1..Len(out) : out[i] \in accepted
    /\ \A i \in 1..Len(buf) : buf[i] \in accepted
    /\ wire \subseteq accepted
    /\ \A i \in 1..Len(in) : in[i] \in Calls => in[i] \in wire
    /\ SHUTDOWN \in accepted => sd \in {"ack", "stop", "flush", "close", "finish"}
    /\ sd = "finish" => dropped
    /\ ~dropped => \A c \in Calls : Unsent(c) => c \in pending
    /\ ~dropped /\ (sd \in {"send", "ack", "stop", "flush", "close"}
                        \/ (sd = "drain" /\ emptied = "closed"))
           => \A c \in Calls : ~Sending(c)

\* What the writer takes from c.out has been accepted, in the buffers and on
\* the connection.
LEMMA TakeOrder ==
    ASSUME TypeOK, OrderInv, NEW k \in {0} \cup (Len(buf) + 1)..Len(buf \o out), Take(k)
    PROVE  /\ \A i \in 1..Len(out') : out'[i] \in accepted
           /\ \A i \in 1..Len(buf') : buf'[i] \in accepted
           /\ wire' \subseteq accepted
<1> DEFINE all == buf \o out
<1>1. buf \in PacketSeq /\ out \in PacketSeq
  BY DEF TypeOK
<1>2. /\ Len(all) = Len(buf) + Len(out)
      /\ all \in PacketSeq
      /\ \A i \in 1..Len(all) : all[i] = IF i <= Len(buf) THEN buf[i] ELSE out[i - Len(buf)]
  BY <1>1, ConcatProperties DEF PacketSeq
<1>3. Len(buf) \in Nat /\ Len(out) \in Nat
  BY <1>1, LenProperties DEF PacketSeq
<1>4. \A i \in 1..Len(all) : all[i] \in accepted
  BY <1>2, <1>3 DEF OrderInv
<1>5. k \in Nat /\ k <= Len(all)
  BY <1>2, <1>3
<1>6. wire' \subseteq accepted
  BY <1>4, <1>5, <1>2, <1>3 DEF Take, Written, OrderInv
<1>7. \A i \in 1..Len(buf') : buf'[i] \in accepted
  <2>1. buf' = SubSeq(all, k + 1, Len(all))
    BY DEF Take, Written
  <2>2. \A i \in 1..Len(buf') : i + k \in 1..Len(all) /\ buf'[i] = all[i + k]
    BY <1>2, <1>3, <1>5, <2>1, SubSeqProperties DEF PacketSeq
  <2> QED BY <1>4, <2>2
<1>8. Len(out') = 0
  BY DEF Take
<1> QED BY <1>6, <1>7, <1>8

\* An entry that leaves the store belongs to no call on its way into c.out.
LEMMA ResolveOrder ==
    ASSUME TypeOK, OrderInv, NEW c \in Calls, ~Unsent(c)', NEW v \in Results, Resolve(c, v),
           \A d \in Calls : (Unsent(d)' => Unsent(d)) /\ (Sending(d)' => Sending(d)),
           UNCHANGED <<out, buf, wire, accepted, sd, dropped>>,
           \A i \in 1..Len(in') : in'[i] \in Calls => in'[i] \in wire
    PROVE  OrderInv'
<1>1. ~dropped' => \A d \in Calls : Unsent(d)' => d \in pending'
  BY DEF OrderInv, Resolve, TypeOK
<1>2. ~dropped' /\ sd' = "drain" /\ emptied' = "closed" => \A d \in Calls : ~Sending(d)'
  BY <1>1 DEF OrderInv, Resolve, TypeOK, Unsent, Sending
<1> QED BY <1>1, <1>2 DEF OrderInv

\* Steps that change none of the packets, the calls and the phase.
LEMMA QuietOrder ==
    ASSUME OrderInv, UNCHANGED <<out, buf, wire, accepted, in, sd, dropped, pending, emptied>>,
           \A c \in Calls : (Unsent(c)' => Unsent(c)) /\ (Sending(c)' => Sending(c))
    PROVE  OrderInv'
BY DEF OrderInv

\* Every step keeps OrderInv.
LEMMA OrderStep ==
    ASSUME TypeOK, StopInv, CallInv, OrderInv, [Next]_vars
    PROVE  OrderInv'
<1> USE DEF flags, store, caller, queue, writer, net, life
<1>1. CASE UNCHANGED <<out, buf, wire, accepted, in, sd, dropped, pending, emptied, pc>>
  BY <1>1, QuietOrder DEF Unsent, Sending
<1>2. CASE ReaderDrop \/ WriterFatal \/ ShutdownTimeout \/ Drop \/ TimerFatal
           \/ ShutdownClose \/ InitFail
  <2>1. DropWith(TRUE) \/ DropWith(FALSE)
    BY <1>2, Zenon DEF ReaderDrop, WriterFatal, ShutdownTimeout, Drop, TimerFatal,
                       ShutdownClose, InitFail
  <2>2. UNCHANGED <<out, buf, wire, accepted, in, pc>>
    BY <1>2, Zenon DEF ReaderDrop, WriterFatal, ShutdownTimeout, Drop, TimerFatal,
                       ShutdownClose, InitFail
  <2>3. dropped'
    BY <2>1, Zenon DEF DropWith
  <2>4. sd' = sd \/ (sd = "close" /\ sd' = "finish")
    BY <1>2, Zenon DEF ReaderDrop, WriterFatal, ShutdownTimeout, Drop, TimerFatal,
                       ShutdownClose, InitFail
  <2> QED BY <2>2, <2>3, <2>4 DEF OrderInv
<1>3. ASSUME NEW c \in Calls, CallPush(c) PROVE OrderInv'
  BY <1>3 DEF CallPush, TypeOK, OrderInv, Unsent, Sending
<1>4. ASSUME NEW c \in Calls, CallExpire(c) PROVE OrderInv'
  <2>1. Resolve(c, "error") /\ ~Unsent(c)'
    BY <1>4 DEF CallExpire, Unsent, Sending
  <2> QED BY <1>4, <2>1, ResolveOrder DEF CallExpire, Unsent, Sending, OrderInv
<1>5. ASSUME NEW c \in Calls, Deliver(c) PROVE OrderInv'
  BY <1>1, <1>5, Zenon DEF Deliver
<1>6. ASSUME NEW c \in Calls, CallReturn(c) PROVE OrderInv'
  BY <1>6, QuietOrder DEF CallReturn, Unsent, Sending, TypeOK
<1>7. ASSUME NEW n \in Notices, NotifyStart(n) PROVE OrderInv'
  BY <1>7, QuietOrder DEF NotifyStart, Unsent, Sending, TypeOK
<1>8. ASSUME NEW s \in Senders, NEW v \in Results, GiveUp(s, v),
             UNCHANGED <<out, buf, wire, accepted, in, sd, dropped>>
      PROVE OrderInv'
  <2>1. CASE s \in Calls
    <3>1. Resolve(s, v) /\ ~Unsent(s)' /\ \A d \in Calls : (Unsent(d)' => Unsent(d)) /\ (Sending(d)' => Sending(d))
      BY <1>8, <2>1 DEF GiveUp, Unsent, Sending, TypeOK
    <3> QED BY <1>8, <2>1, <3>1, ResolveOrder DEF OrderInv
  <2>2. CASE s \notin Calls
    BY <1>8, <2>2, QuietOrder DEF GiveUp, Unsent, Sending, TypeOK
  <2> QED BY <2>1, <2>2
<1>9. ASSUME NEW s \in Senders, SendCheck(s) PROVE OrderInv'
  <2>1. CASE stopped \/ hijacked
    BY <1>8, <1>9, <2>1 DEF SendCheck
  <2>2. CASE ~stopped /\ ~hijacked
    <3>1. sd = "idle" /\ ~dropped /\ (s \in Calls => s \in pending)
      BY <1>9, <2>2 DEF SendCheck, StopInv, OrderInv, Unsent
    <3> QED BY <1>9, <2>2, <3>1 DEF SendCheck, OrderInv, Unsent, Sending, TypeOK
  <2> QED BY <2>1, <2>2
<1>10. ASSUME NEW s \in Senders, Enqueue(s) PROVE OrderInv'
  <2>1. out' = Append(out, s) /\ accepted' = accepted \cup {s}
    BY <1>10 DEF Enqueue
  <2>2. \A i \in 1..Len(out') : out'[i] \in accepted'
    BY <2>1, AppendProperties DEF OrderInv, TypeOK, PacketSeq
  <2>3. \A c \in Calls : (Unsent(c)' => Unsent(c)) /\ (Sending(c)' => Sending(c))
    BY <1>10 DEF Enqueue, Unsent, Sending, TypeOK
  <2> QED BY <1>10, <2>1, <2>2, <2>3 DEF Enqueue, OrderInv
<1>11. ASSUME NEW s \in Senders, Block(s) PROVE OrderInv'
  BY <1>11, QuietOrder DEF Block, Unsent, Sending, TypeOK
<1>12. ASSUME NEW s \in Senders, BlockedGiveUp(s) PROVE OrderInv'
  BY <1>8, <1>12 DEF BlockedGiveUp
<1>13. ASSUME ReadPacket PROVE OrderInv'
  <2>1. /\ Head(in) = in[1] /\ 1 \in 1..Len(in)
        /\ \A i \in 1..Len(in') : in'[i] = in[i + 1] /\ i + 1 \in 1..Len(in)
    BY <1>13, HeadTailProperties DEF ReadPacket, TypeOK, PacketSeq
  <2>2. \A i \in 1..Len(in') : in'[i] \in Calls => in'[i] \in wire
    BY <2>1 DEF OrderInv
  <2>3. CASE Head(in) \in pending
    <3>1. Head(in) \in Calls /\ Head(in) \in accepted /\ Resolve(Head(in), "ok")
      <4>1. Head(in) \in Calls
        BY <2>3 DEF TypeOK
      <4>2. Resolve(Head(in), "ok")
        BY <1>13, <2>3, Zenon DEF ReadPacket
      <4> QED BY <2>1, <4>1, <4>2 DEF OrderInv
    <3>2. UNCHANGED <<out, buf, wire, accepted, sd, dropped, pc>>
      BY <1>13, Zenon DEF ReadPacket
    <3>3. \A c \in accepted \cap Calls : ~Unsent(c)'
      BY <3>2 DEF CallInv, Unsent
    <3> QED BY <2>2, <3>1, <3>2, <3>3, ResolveOrder DEF Unsent, Sending
  <2>4. CASE Head(in) \notin pending
    <3>1. UNCHANGED <<out, buf, wire, accepted, sd, dropped, pending, emptied, pc>>
      BY <1>13, <2>4, Zenon DEF ReadPacket
    <3> QED BY <2>2, <3>1 DEF OrderInv, Unsent, Sending
  <2> QED BY <2>3, <2>4
<1>14. ASSUME Dispatch PROVE OrderInv'
  <2>1. UNCHANGED <<out, buf, wire, accepted, in, sd, dropped, pending, emptied>>
    BY <1>14, Zenon DEF Dispatch
  <2>2. \A c \in Calls : pc'[c] = pc[c]
    <3>1. pc' = pc \/ \E r \in Replies : pc' = [pc EXCEPT ![r] = "enqueue"]
      BY <1>14, Zenon DEF Dispatch
    <3> QED BY <3>1, ChannelAssumption DEF TypeOK, ChannelAssumption
  <2> QED BY <2>1, <2>2, QuietOrder DEF Unsent, Sending
<1>15. ASSUME WriterTake PROVE OrderInv'
  <2>1. PICK k \in {0} \cup (Len(buf) + 1)..Len(buf \o out) : Take(k)
    BY <1>15 DEF WriterTake
  <2>2. UNCHANGED <<accepted, in, sd, dropped, pending, emptied, pc>>
    BY <1>15, Zenon DEF WriterTake
  <2>3. wire \subseteq wire'
    BY <2>1 DEF Take, Written
  <2> QED BY <2>1, <2>2, <2>3, TakeOrder DEF OrderInv, Unsent, Sending
<1>16. ASSUME WriterStop PROVE OrderInv'
  <2>1. CASE out = <<>>
    BY <1>1, <1>16, <2>1 DEF WriterStop
  <2>2. CASE out # <<>>
    <3>1. PICK k \in {0} \cup (Len(buf) + 1)..Len(buf \o out) : Take(k)
      BY <1>16, <2>2 DEF WriterStop
    <3>2. UNCHANGED <<accepted, in, sd, dropped, pending, emptied, pc>>
      BY <1>16, Zenon DEF WriterStop
    <3>3. wire \subseteq wire'
      BY <3>1 DEF Take, Written
    <3> QED BY <3>1, <3>2, <3>3, TakeOrder DEF OrderInv, Unsent, Sending
  <2> QED BY <2>1, <2>2
<1>17. ASSUME WriterFlush PROVE OrderInv'
  <2>1. CASE UNCHANGED <<buf, wire>>
    BY <1>1, <1>17, <2>1, Zenon DEF WriterFlush
  <2>2. CASE Written(buf, Len(buf))
    <3>1. Len(buf) \in Nat /\ Len(buf') = 0 /\ wire' \subseteq accepted /\ wire \subseteq wire'
      BY <2>2, LenProperties, SubSeqProperties DEF Written, OrderInv, TypeOK, PacketSeq
    <3> QED BY <1>17, <3>1 DEF WriterFlush, OrderInv, Unsent, Sending
  <2> QED BY <1>17, <2>1, <2>2, Zenon DEF WriterFlush
<1>18. ASSUME ShutdownStart PROVE OrderInv'
  BY <1>18 DEF ShutdownStart, StopInv, OrderInv, Unsent, Sending
<1>19. ASSUME ShutdownCallbacks PROVE OrderInv'
  BY <1>19 DEF ShutdownCallbacks, ShutdownTo, OrderInv, Unsent, Sending
<1>20. ASSUME ShutdownEmpty PROVE OrderInv'
  BY <1>20 DEF ShutdownEmpty, ShutdownTo, OrderInv, Unsent, Sending
<1>21. ASSUME ShutdownDrained PROVE OrderInv'
  BY <1>21 DEF ShutdownDrained, ShutdownTo, OrderInv, Unsent, Sending
<1>22. ASSUME ShutdownSend PROVE OrderInv'
  <2>1. CASE out' = Append(out, SHUTDOWN) /\ accepted' = accepted \cup {SHUTDOWN}
    <3>1. \A i \in 1..Len(out') : out'[i] \in accepted'
      BY <2>1, AppendProperties DEF OrderInv, TypeOK, PacketSeq
    <3> QED BY <1>22, <2>1, <3>1 DEF ShutdownSend, ShutdownTo, OrderInv, Unsent, Sending
  <2>2. CASE UNCHANGED queue
    BY <1>22, <2>2 DEF ShutdownSend, ShutdownTo, OrderInv, Unsent, Sending
  <2> QED BY <1>22, <2>1, <2>2 DEF ShutdownSend
<1>23. ASSUME ShutdownAck \/ ShutdownStop \/ ShutdownFlushed PROVE OrderInv'
  BY <1>23 DEF ShutdownAck, ShutdownStop, ShutdownFlushed, ShutdownTo, OrderInv, Unsent, Sending
<1>24. ASSUME NEW p \in Senders \cup {SHUTDOWN}, PeerSend(p) PROVE OrderInv'
  <2>1. p \in Calls => p \in wire
    BY <1>24 DEF PeerSend
  <2>2. \A i \in 1..Len(in') : in'[i] \in Calls => in'[i] \in wire
    BY <1>24, <2>1, AppendProperties DEF PeerSend, OrderInv, TypeOK, PacketSeq
  <2> QED BY <1>24, <2>2 DEF PeerSend, OrderInv, Unsent, Sending
<1>25. CASE ServeReturn \/ ReaderError \/ WriterCtxDone \/ CloseDone \/ InitArm \/ HijackStart
            \/ HijackFinish \/ PeerClose
  <2>1. UNCHANGED <<out, buf, wire, accepted, in, sd, dropped, pending, emptied, pc>>
    BY <1>25, Zenon DEF ServeReturn, ReaderError, WriterCtxDone, CloseDone, InitArm,
                        HijackStart, HijackFinish, PeerClose
  <2> QED BY <1>1, <2>1
<1>26. ASSUME NEW w \in Watchers, OnClose(w) \/ CallOnClose(w) PROVE OrderInv'
  BY <1>1, <1>26, Zenon DEF OnClose, CallOnClose
<1>27. CASE UNCHANGED vars
  BY <1>1, <1>27, Zenon DEF vars
<1> QED
  BY <1>2, <1>3, <1>4, <1>5, <1>6, <1>7, <1>9, <1>10, <1>11, <1>12, <1>13, <1>14, <1>15,
     <1>16, <1>17, <1>18, <1>19, <1>20, <1>21, <1>22, <1>23, <1>24, <1>25, <1>26, <1>27
     DEF Next, SendNext, ReaderNext, WriterNext, ShutdownNext

\* No call can follow the shutdown packet into c.out.
THEOREM ShutdownPacketIsLastHolds == Spec => []ShutdownPacketIsLast
<1>1. Init => OrderInv
  <2> SUFFICES ASSUME Init PROVE OrderInv
    OBVIOUS
  <2>1. Len(out) = 0 /\ Len(buf) = 0 /\ Len(in) = 0
    BY DEF Init
  <2> QED BY <2>1 DEF Init, OrderInv, Unsent, Sending
<1>2. TypeOK /\ StopInv /\ CallInv /\ OrderInv /\ [Next]_vars => OrderInv'
  BY OrderStep
<1>3. OrderInv => ShutdownPacketIsLast
  BY DEF OrderInv, ShutdownPacketIsLast, Unsent, Sending
<1> QED BY <1>1, <1>2, <1>3, CallInvariant, PTL DEF Spec

-----------------------------------------------------------------------------
(* Hijack *)

\* Only the first Drop decides what becomes of the connection: a hijacked one
\* is left with a deadline, or c.err tells Hijack that it is lost.  The reader
\* that exits of that deadline has saved what it read since Hijack.
HijackInv ==
    /\ done => dropped /\ rd = "exited"
    /\ hj # "idle" => hijacked
    /\ hj = "taken" => done /\ ~err
    /\ ~dropped => conn = "open"
    /\ dropped /\ hijacked /\ ~err => conn = "deadline"
    /\ rd \in {"failing", "ending"} => peer # "open" \/ conn = "closed"
    /\ rd = "exited" => peer # "open" \/ conn = "closed" \/ saved = hbuf

\* Drop keeps HijackInv, whoever calls it.
LEMMA DropHijack ==
    ASSUME TypeOK, HijackInv, DropWith(TRUE) \/ DropWith(FALSE),
           UNCHANGED <<hj, done, peer, hbuf, saved>>,
           rd' = rd \/ (rd \in {"failing", "ending"} /\ rd' = "exited")
    PROVE  HijackInv'
<1>1. CASE dropped
  <2>1. UNCHANGED <<dropped, hijacked, err, conn>>
    BY <1>1, Zenon DEF DropWith, flags
  <2> QED BY <1>1, <2>1 DEF HijackInv
<1>2. CASE ~dropped
  <2>1. dropped' /\ hijacked' = hijacked
    BY <1>2, Zenon DEF DropWith
  <2>2. conn' = IF hijacked /\ HasDeadline THEN "deadline" ELSE "closed"
    BY <1>2, Zenon DEF DropWith
  <2>3. hijacked /\ ~HasDeadline => err'
    BY <1>2, Zenon DEF DropWith
  <2>4. ~done /\ hj # "taken" /\ conn = "open"
    BY <1>2 DEF HijackInv
  <2>5. rd' \in {"failing", "ending"} => peer' # "open"
    BY <2>4 DEF HijackInv
  <2>6. rd' = "exited" => peer' # "open" \/ saved' = hbuf'
    BY <2>4 DEF HijackInv
  <2>7. dropped' /\ hijacked' /\ ~err' => conn' = "deadline"
    BY <2>1, <2>2, <2>3
  <2> QED BY <2>1, <2>4, <2>5, <2>6, <2>7 DEF HijackInv
<1> QED BY <1>1, <1>2

\* Every step keeps HijackInv.
LEMMA HijackStep ==
    ASSUME TypeOK, StopInv, HijackInv, [Next]_vars
    PROVE  HijackInv'
<1> USE DEF flags, reader, net, life
<1>1. CASE UNCHANGED <<dropped, hijacked, err, conn, peer, rd, hbuf, saved, hj, done>>
  BY <1>1 DEF HijackInv
<1>2. CASE ReaderDrop \/ WriterFatal \/ ShutdownTimeout \/ Drop \/ TimerFatal
           \/ ShutdownClose \/ InitFail
  <2>1. DropWith(TRUE) \/ DropWith(FALSE)
    BY <1>2, Zenon DEF ReaderDrop, WriterFatal, ShutdownTimeout, Drop, TimerFatal,
                       ShutdownClose, InitFail
  <2>2. UNCHANGED <<hj, done, peer, hbuf, saved>>
    BY <1>2, Zenon DEF ReaderDrop, WriterFatal, ShutdownTimeout, Drop, TimerFatal,
                       ShutdownClose, InitFail
  <2>3. rd' = rd \/ (rd \in {"failing", "ending"} /\ rd' = "exited")
    BY <1>2, Zenon DEF ReaderDrop, WriterFatal, ShutdownTimeout, Drop, TimerFatal,
                       ShutdownClose, InitFail
  <2> QED BY <2>1, <2>2, <2>3, DropHijack
<1>3. ASSUME NEW c \in Calls, CallPush(c) \/ Deliver(c) \/ CallExpire(c) \/ CallReturn(c)
      PROVE HijackInv'
  BY <1>1, <1>3, Zenon DEF CallPush, Deliver, CallExpire, CallReturn
<1>4. ASSUME NEW s \in Senders, NotifyStart(s) \/ SendNext(s) PROVE HijackInv'
  BY <1>1, <1>4, Zenon DEF NotifyStart, SendNext, SendCheck, Enqueue, Block, BlockedGiveUp
<1>5. CASE ReadPacket \/ ServeReturn
  <2>1. rd \in {"read", "serving"} /\ (rd' = rd \/ rd' = "dispatch" \/ rd' = "read")
    BY <1>5, Zenon DEF ReadPacket, ServeReturn
  <2>2. UNCHANGED <<dropped, hijacked, err, conn, peer, hbuf, saved, hj, done>>
    BY <1>5, Zenon DEF ReadPacket, ServeReturn
  <2> QED BY <2>1, <2>2 DEF HijackInv
<1>6. CASE Dispatch
  <2>1. /\ rd = "dispatch"
        /\ rd' = "read" \/ rd' = IF pkt \in Inline THEN "serving" ELSE "read"
    BY <1>6, Zenon DEF Dispatch
  <2>2. UNCHANGED <<dropped, hijacked, err, conn, peer, hj, done>>
    BY <1>6, Zenon DEF Dispatch
  <2> QED BY <2>1, <2>2 DEF HijackInv
<1>7. CASE ReaderError
  <2>1. UNCHANGED <<dropped, hijacked, err, conn, peer, hbuf, hj, done>>
    BY <1>7, Zenon DEF ReaderError
  <2>2. rd = "read"
    BY <1>7, Zenon DEF ReaderError
  <2>3. \/ rd' = "exited" /\ saved' = hbuf
        \/ rd' \in {"failing", "ending"} /\ (conn = "closed" \/ peer # "open")
    BY <1>7 DEF ReaderError
  <2> QED BY <2>1, <2>2, <2>3 DEF HijackInv
<1>8. CASE WriterTake \/ WriterStop \/ WriterFlush \/ WriterCtxDone
  BY <1>1, <1>8, Zenon DEF WriterTake, WriterStop, WriterFlush, WriterCtxDone
<1>9. CASE ShutdownStart \/ ShutdownCallbacks \/ ShutdownEmpty \/ ShutdownDrained
           \/ ShutdownSend \/ ShutdownAck \/ ShutdownStop \/ ShutdownFlushed
  BY <1>1, <1>9, Zenon DEF ShutdownStart, ShutdownCallbacks, ShutdownEmpty, ShutdownDrained,
                      ShutdownSend, ShutdownAck, ShutdownStop, ShutdownFlushed, ShutdownTo
<1>10. CASE CloseDone
  <2>1. UNCHANGED <<dropped, hijacked, err, conn, peer, rd, hbuf, saved, hj>>
    BY <1>10, Zenon DEF CloseDone
  <2>2. dropped /\ rd = "exited"
    BY <1>10, Zenon DEF CloseDone
  <2>3. done'
    BY <1>10, Zenon DEF CloseDone
  <2> QED BY <2>1, <2>2, <2>3 DEF HijackInv
<1>11. CASE HijackStart
  <2>1. UNCHANGED <<dropped, err, conn, peer, rd, hbuf, saved, done>>
    BY <1>11, Zenon DEF HijackStart
  <2>2. ~dropped /\ hijacked' /\ hj' = "shutdown"
    BY <1>11, Zenon DEF HijackStart, StopInv
  <2> QED BY <2>1, <2>2 DEF HijackInv
<1>12. CASE HijackFinish
  <2>1. UNCHANGED <<dropped, hijacked, err, conn, peer, rd, hbuf, saved, done>>
    BY <1>12, Zenon DEF HijackFinish
  <2>2. done /\ hj = "shutdown" /\ (hj' = "taken" => ~err)
    BY <1>12 DEF HijackFinish
  <2> QED BY <2>1, <2>2 DEF HijackInv
<1>13. CASE InitArm
  BY <1>1, <1>13, Zenon DEF InitArm
<1>14. ASSUME NEW w \in Watchers, OnClose(w) \/ CallOnClose(w) PROVE HijackInv'
  BY <1>1, <1>14, Zenon DEF OnClose, CallOnClose
<1>15. ASSUME NEW p \in Senders \cup {SHUTDOWN}, PeerSend(p) PROVE HijackInv'
  BY <1>1, <1>15, Zenon DEF PeerSend
<1>16. CASE PeerClose
  <2>1. UNCHANGED <<dropped, hijacked, err, conn, rd, hbuf, saved, hj, done>>
    BY <1>16, Zenon DEF PeerClose
  <2>2. peer' # "open"
    BY <1>16 DEF PeerClose
  <2> QED BY <2>1, <2>2 DEF HijackInv
<1>17. CASE UNCHANGED vars
  BY <1>1, <1>17, Zenon DEF vars
<1> QED
  BY <1>2, <1>3, <1>4, <1>5, <1>6, <1>7, <1>8, <1>9, <1>10, <1>11, <1>12, <1>13, <1>14,
     <1>15, <1>16, <1>17
     DEF Next, ReaderNext, WriterNext, ShutdownNext

\* What Hijack returns without an error is a connection that nobody has closed
\* and, while the peer is there, every byte that was read since.
THEOREM HijackTakesLiveConnHolds == Spec => []HijackTakesLiveConn
<1>1. Init => HijackInv
  BY DEF Init, HijackInv
<1>2. TypeOK /\ StopInv /\ HijackInv /\ [Next]_vars => HijackInv'
  BY HijackStep
<1>3. HijackInv => HijackTakesLiveConn
  BY DEF HijackInv, HijackTakesLiveConn
<1> QED BY <1>1, <1>2, <1>3, CallInvariant, PTL DEF Spec

-----------------------------------------------------------------------------
(* What the pool of connections relies on *)

\* A caller of this channel has been answered with ErrStopped.
Refused ==
    \/ \E s \in Senders : res[s] = "ErrStopped"
    \/ \E c \in Calls : owed[c] = "ErrStopped"

\* The writer exits of a channel that is stopped, and c.done is the last.
LifeInv ==
    /\ wr = "exited" => stopped
    /\ wstop => stopper > 0
    /\ done => dropped

\* Steps that neither stop the channel nor refuse anybody are stutters.
LEMMA QuietLife ==
    ASSUME UNCHANGED <<stopped, dropped, done>>, Refused' <=> Refused
    PROVE  UNCHANGED Life!lifeVars
<1>1. UNCHANGED (IF done THEN "done" ELSE IF dropped THEN "dropped"
                 ELSE IF stopped THEN "draining" ELSE "open")
  OBVIOUS
<1>2. UNCHANGED (\/ \E s \in Senders : res[s] = "ErrStopped"
                 \/ \E c \in Calls : owed[c] = "ErrStopped")
  BY Zenon DEF Refused
<1> QED BY <1>1, <1>2, Zenon DEF Life!lifeVars

\* A stopped channel may refuse.
LEMMA RefuseLife ==
    ASSUME stopped, UNCHANGED <<stopped, dropped, done>>, Refused'
    PROVE  Life!LifeRefuse
<1>1. (\/ \E s \in Senders : res[s] = "ErrStopped"
       \/ \E c \in Calls : owed[c] = "ErrStopped")' = TRUE
  BY Zenon DEF Refused
<1>2. (IF done THEN "done" ELSE IF dropped THEN "dropped"
       ELSE IF stopped THEN "draining" ELSE "open") # "open"
  OBVIOUS
<1>3. UNCHANGED (IF done THEN "done" ELSE IF dropped THEN "dropped"
                 ELSE IF stopped THEN "draining" ELSE "open")
  OBVIOUS
<1> QED BY <1>1, <1>2, <1>3, Zenon DEF Life!LifeRefuse

\* A call that gets another result than ErrStopped had got none before.
LEMMA ResolveRefused ==
    ASSUME TypeOK, CallInv, NEW c \in Calls, NEW v \in Results \ {"ErrStopped"},
           Resolve(c, v), UNCHANGED res
    PROVE  Refused' <=> Refused
<1>1. \A d \in Calls : owed'[d] = "ErrStopped" <=> owed[d] = "ErrStopped"
  BY DEF TypeOK, CallInv, OneResultPerCall, Resolve
<1> QED BY <1>1, Zenon DEF Refused

\* The end of a send with v.
LEMMA GiveUpLife ==
    ASSUME TypeOK, CallInv, NEW s \in Senders, NEW v \in Results, GiveUp(s, v),
           pc[s] \in {"check", "blocked"}, v = "ErrStopped" => stopped,
           UNCHANGED <<stopped, dropped, done>>
    PROVE  Life!LifeRefuse \/ UNCHANGED Life!lifeVars
<1>1. CASE s \in Calls
  <2>1. Resolve(s, v) /\ UNCHANGED res
    BY <1>1, Zenon DEF GiveUp
  <2>2. CASE v # "ErrStopped"
    BY <1>1, <2>1, <2>2, ResolveRefused, QuietLife
  <2>3. CASE v = "ErrStopped" /\ s \in pending
    <3>1. owed' = [owed EXCEPT ![s] = v]
      BY <2>1, <2>3, Zenon DEF Resolve
    <3>2. owed'[s] = "ErrStopped"
      BY <1>1, <2>3, <3>1 DEF TypeOK
    <3>3. Refused'
      BY <1>1, <3>2, Zenon DEF Refused
    <3> QED BY <2>3, <3>3, RefuseLife
  <2>4. CASE s \notin pending
    <3>1. UNCHANGED owed
      BY <2>1, <2>4, Zenon DEF Resolve
    <3>2. Refused' <=> Refused
      BY <2>1, <3>1, Zenon DEF Refused
    <3> QED BY <3>2, QuietLife
  <2> QED BY <2>2, <2>3, <2>4
<1>2. CASE s \notin Calls
  <2>1. res' = [res EXCEPT ![s] = v] /\ UNCHANGED owed
    BY <1>2, Zenon DEF GiveUp
  <2>2. CASE v # "ErrStopped"
    <3>1. \A t \in Senders : res'[t] = "ErrStopped" <=> res[t] = "ErrStopped"
      BY <1>2, <2>1, <2>2 DEF TypeOK, CallInv
    <3>2. Refused' <=> Refused
      BY <2>1, <3>1, Zenon DEF Refused
    <3> QED BY <3>2, QuietLife
  <2>3. CASE v = "ErrStopped"
    <3>1. res'[s] = "ErrStopped"
      BY <2>1, <2>3 DEF TypeOK
    <3>2. Refused'
      BY <3>1, Zenon DEF Refused
    <3> QED BY <2>3, <3>2, RefuseLife
  <2> QED BY <2>2, <2>3
<1> QED BY <1>1, <1>2

\* The first Drop is the drop of the abstract channel, a later one is a stutter.
LEMMA DropLife ==
    ASSUME TypeOK, CallInv, LifeInv, DropWith(TRUE) \/ DropWith(FALSE), UNCHANGED <<res, done>>
    PROVE  Life!LifeDrop \/ UNCHANGED Life!lifeVars
<1>1. CASE dropped
  <2>1. UNCHANGED <<stopped, dropped, owed>>
    BY <1>1, Zenon DEF DropWith, flags
  <2>2. Refused' <=> Refused
    BY <2>1, Zenon DEF Refused
  <2> QED BY <2>1, <2>2, QuietLife
<1>2. CASE ~dropped
  <2>1. dropped' /\ RejectAll("error")
    BY <1>2, Zenon DEF DropWith
  <2>2. \A d \in Calls : owed'[d] = "ErrStopped" <=> owed[d] = "ErrStopped"
    BY <2>1 DEF TypeOK, CallInv, OneResultPerCall, RejectAll
  <2>3. UNCHANGED (\/ \E s \in Senders : res[s] = "ErrStopped"
                   \/ \E c \in Calls : owed[c] = "ErrStopped")
    BY <2>2, Zenon
  <2>4. (IF done THEN "done" ELSE IF dropped THEN "dropped"
         ELSE IF stopped THEN "draining" ELSE "open") \in {"open", "draining"}
    BY <1>2 DEF LifeInv
  <2>5. (IF done THEN "done" ELSE IF dropped THEN "dropped"
         ELSE IF stopped THEN "draining" ELSE "open")' = "dropped"
    BY <1>2, <2>1 DEF LifeInv
  <2> QED BY <2>3, <2>4, <2>5, Zenon DEF Life!LifeDrop
<1> QED BY <1>1, <1>2

\* Every step keeps LifeInv.
LEMMA LifeInvStep ==
    ASSUME TypeOK, StopInv, LifeInv, [Next]_vars
    PROVE  LifeInv'
<1> USE DEF flags, writer, life
<1>1. CASE UNCHANGED <<wr, wstop, stopper, stopped, dropped, done>>
  BY <1>1 DEF LifeInv
<1>2. CASE ReaderDrop \/ WriterFatal \/ ShutdownTimeout \/ Drop \/ TimerFatal
           \/ ShutdownClose \/ InitFail
  <2>1. DropWith(TRUE) \/ DropWith(FALSE)
    BY <1>2, Zenon DEF ReaderDrop, WriterFatal, ShutdownTimeout, Drop, TimerFatal,
                       ShutdownClose, InitFail
  <2>2. UNCHANGED <<wstop, done>>
    BY <1>2, Zenon DEF ReaderDrop, WriterFatal, ShutdownTimeout, Drop, TimerFatal,
                       ShutdownClose, InitFail
  <2>3. dropped' /\ stopped'
    <3>1. CASE dropped
      BY <2>1, <3>1, Zenon DEF DropWith, StopInv
    <3>2. CASE ~dropped
      BY <2>1, <3>2, Zenon DEF DropWith
    <3> QED BY <3>1, <3>2
  <2>4. stopper > 0 => stopper' > 0
    BY <2>1 DEF DropWith, TypeOK
  <2> QED BY <2>2, <2>3, <2>4 DEF LifeInv
<1>3. CASE ShutdownStart
  <2>1. stopped' /\ UNCHANGED <<wr, wstop, stopper, dropped, done>>
    BY <1>3, Zenon DEF ShutdownStart
  <2> QED BY <2>1 DEF LifeInv
<1>4. CASE ShutdownStop
  <2>1. UNCHANGED <<wr, wstop, stopped, dropped, done>>
    BY <1>4, Zenon DEF ShutdownStop, ShutdownTo
  <2>2. stopper > 0 => stopper' > 0
    BY <1>4 DEF ShutdownStop, TypeOK
  <2> QED BY <2>1, <2>2 DEF LifeInv
<1>5. CASE ShutdownCallbacks \/ ShutdownEmpty \/ ShutdownDrained \/ ShutdownSend
           \/ ShutdownAck \/ ShutdownFlushed
  BY <1>1, <1>5, Zenon DEF ShutdownCallbacks, ShutdownEmpty, ShutdownDrained, ShutdownSend,
                      ShutdownAck, ShutdownFlushed, ShutdownTo
<1>6. CASE WriterTake
  <2>1. wr' = "flush"
    BY <1>6, Zenon DEF WriterTake, Take
  <2>2. UNCHANGED <<wstop, stopper, stopped, dropped, done>>
    BY <1>6, Zenon DEF WriterTake
  <2> QED BY <2>1, <2>2 DEF LifeInv
<1>7. CASE WriterStop
  <2>1. stopper > 0 /\ UNCHANGED <<stopper, stopped, dropped, done>>
    BY <1>7, Zenon DEF WriterStop
  <2>2. stopped
    BY <2>1 DEF StopInv
  <2> QED BY <2>1, <2>2 DEF LifeInv
<1>8. CASE WriterFlush
  <2>1. wr' = (IF wstop THEN "exited" ELSE "select")
        /\ UNCHANGED <<wstop, stopper, stopped, dropped, done>>
    BY <1>8, Zenon DEF WriterFlush
  <2>2. wstop => stopped
    BY DEF LifeInv, StopInv
  <2> QED BY <2>1, <2>2 DEF LifeInv
<1>9. CASE CloseDone
  <2>1. dropped /\ UNCHANGED <<wr, wstop, stopper, stopped, dropped>>
    BY <1>9, Zenon DEF CloseDone
  <2> QED BY <2>1 DEF LifeInv
<1>10. ASSUME NEW c \in Calls, CallPush(c) \/ Deliver(c) \/ CallExpire(c) \/ CallReturn(c)
       PROVE LifeInv'
  BY <1>1, <1>10, Zenon DEF CallPush, Deliver, CallExpire, CallReturn
<1>11. ASSUME NEW s \in Senders, NotifyStart(s) \/ SendNext(s) PROVE LifeInv'
  BY <1>1, <1>11, Zenon DEF NotifyStart, SendNext, SendCheck, Enqueue, Block, BlockedGiveUp
<1>12. CASE ReadPacket \/ Dispatch \/ ServeReturn \/ ReaderError \/ WriterCtxDone
  BY <1>1, <1>12, Zenon DEF ReadPacket, Dispatch, ServeReturn, ReaderError, WriterCtxDone
<1>13. CASE InitArm \/ HijackStart \/ HijackFinish \/ PeerClose
  BY <1>1, <1>13, Zenon DEF InitArm, HijackStart, HijackFinish, PeerClose
<1>14. ASSUME NEW w \in Watchers, OnClose(w) \/ CallOnClose(w) PROVE LifeInv'
  BY <1>1, <1>14, Zenon DEF OnClose, CallOnClose
<1>15. ASSUME NEW p \in Senders \cup {SHUTDOWN}, PeerSend(p) PROVE LifeInv'
  BY <1>1, <1>15, Zenon DEF PeerSend
<1>16. CASE UNCHANGED vars
  BY <1>1, <1>16, Zenon DEF vars
<1> QED
  BY <1>2, <1>3, <1>4, <1>5, <1>6, <1>7, <1>8, <1>9, <1>10, <1>11, <1>12, <1>13, <1>14,
     <1>15, <1>16
     DEF Next, ReaderNext, WriterNext, ShutdownNext

\* Every step of the channel is a step of the abstract one or leaves it alone.
LEMMA LifeStep ==
    ASSUME TypeOK, StopInv, CallInv, LifeInv, [Next]_vars
    PROVE  Life!LifeNext \/ UNCHANGED Life!lifeVars
<1> USE DEF flags, store, caller, life
<1>1. CASE UNCHANGED <<stopped, dropped, done, owed, res>>
  <2>1. Refused' <=> Refused
    BY <1>1, Zenon DEF Refused
  <2> QED BY <1>1, <2>1, QuietLife
<1>2. CASE ReaderDrop \/ WriterFatal \/ ShutdownTimeout \/ Drop \/ TimerFatal
           \/ ShutdownClose \/ InitFail
  <2>1. DropWith(TRUE) \/ DropWith(FALSE)
    BY <1>2, Zenon DEF ReaderDrop, WriterFatal, ShutdownTimeout, Drop, TimerFatal,
                       ShutdownClose, InitFail
  <2>2. UNCHANGED <<res, done>>
    BY <1>2, Zenon DEF ReaderDrop, WriterFatal, ShutdownTimeout, Drop, TimerFatal,
                       ShutdownClose, InitFail
  <2> QED BY <2>1, <2>2, DropLife DEF Life!LifeNext
<1>3. ASSUME NEW c \in Calls, CallPush(c) \/ CallReturn(c)
      PROVE Life!LifeNext \/ UNCHANGED Life!lifeVars
  BY <1>1, <1>3, Zenon DEF CallPush, CallReturn
<1>4. ASSUME NEW c \in Calls, Deliver(c) PROVE Life!LifeNext \/ UNCHANGED Life!lifeVars
  <2>1. /\ owed[c] # None /\ res[c] = None
        /\ res' = [res EXCEPT ![c] = owed[c]] /\ owed' = [owed EXCEPT ![c] = None]
    BY <1>4 DEF Deliver, CallInv, OneResultPerCall
  <2>2. /\ res'[c] = owed[c] /\ owed'[c] = None
        /\ \A s \in Senders \ {c} : res'[s] = res[s]
        /\ \A d \in Calls \ {c} : owed'[d] = owed[d]
    BY <2>1 DEF TypeOK
  <2>3. Refused' <=> Refused
    BY <2>1, <2>2 DEF Refused
  <2>4. UNCHANGED <<stopped, dropped, done>>
    BY <1>4, Zenon DEF Deliver
  <2> QED BY <2>3, <2>4, QuietLife
<1>5. ASSUME NEW c \in Calls, CallExpire(c) PROVE Life!LifeNext \/ UNCHANGED Life!lifeVars
  <2>1. Resolve(c, "error") /\ UNCHANGED <<stopped, dropped, done, res>>
    BY <1>5, Zenon DEF CallExpire
  <2>2. Refused' <=> Refused
    BY <2>1, ResolveRefused
  <2> QED BY <2>1, <2>2, QuietLife
<1>6. ASSUME NEW n \in Notices, NotifyStart(n) PROVE Life!LifeNext \/ UNCHANGED Life!lifeVars
  BY <1>1, <1>6, Zenon DEF NotifyStart
<1>7. ASSUME NEW s \in Senders, SendCheck(s) PROVE Life!LifeNext \/ UNCHANGED Life!lifeVars
  <2>1. UNCHANGED <<stopped, dropped, done>>
    BY <1>7, Zenon DEF SendCheck
  <2>2. CASE stopped \/ hijacked
    <3>1. pc[s] = "check" /\ GiveUp(s, IF stopped THEN "ErrStopped" ELSE "error")
      BY <1>7, <2>2, Zenon DEF SendCheck
    <3> QED BY <2>1, <3>1, GiveUpLife DEF Life!LifeNext
  <2>3. CASE ~(stopped \/ hijacked)
    BY <1>1, <1>7, <2>1, <2>3, Zenon DEF SendCheck
  <2> QED BY <2>2, <2>3
<1>8. ASSUME NEW s \in Senders, Enqueue(s) PROVE Life!LifeNext \/ UNCHANGED Life!lifeVars
  <2>1. UNCHANGED <<stopped, dropped, done, owed>>
    BY <1>8, Zenon DEF Enqueue
  <2>2. CASE s \in Calls
    BY <1>1, <1>8, <2>1, <2>2, Zenon DEF Enqueue
  <2>3. CASE s \notin Calls
    <3>1. res' = [res EXCEPT ![s] = "ok"] /\ res[s] = None
      BY <1>8, <2>3 DEF Enqueue, CallInv
    <3>2. \A t \in Senders : res'[t] = "ErrStopped" <=> res[t] = "ErrStopped"
      BY <3>1 DEF TypeOK
    <3>3. Refused' <=> Refused
      BY <2>1, <3>2, Zenon DEF Refused
    <3> QED BY <2>1, <3>3, QuietLife
  <2> QED BY <2>2, <2>3
<1>9. ASSUME NEW s \in Senders, Block(s) PROVE Life!LifeNext \/ UNCHANGED Life!lifeVars
  BY <1>1, <1>9, Zenon DEF Block
<1>10. ASSUME NEW s \in Senders, BlockedGiveUp(s)
       PROVE Life!LifeNext \/ UNCHANGED Life!lifeVars
  <2>1. pc[s] = "blocked" /\ UNCHANGED <<stopped, dropped, done>>
    BY <1>10, Zenon DEF BlockedGiveUp
  <2>2. (GiveUp(s, "ErrStopped") /\ stopped) \/ GiveUp(s, "error")
    BY <1>10, Zenon DEF BlockedGiveUp, LifeInv
  <2> QED BY <2>1, <2>2, GiveUpLife DEF Life!LifeNext
<1>11. CASE ReadPacket
  <2>1. UNCHANGED <<stopped, dropped, done, res>>
    BY <1>11, Zenon DEF ReadPacket
  <2>2. CASE Head(in) \in pending
    <3>1. Head(in) \in Calls /\ Resolve(Head(in), "ok")
      BY <1>11, <2>2 DEF ReadPacket, TypeOK
    <3> QED BY <2>1, <3>1, ResolveRefused, QuietLife
  <2>3. CASE Head(in) \notin pending
    BY <1>1, <1>11, <2>1, <2>3, Zenon DEF ReadPacket
  <2> QED BY <2>2, <2>3
<1>12. CASE ShutdownStart
  <2>1. ~stopped /\ ~dropped /\ ~done
    BY <1>12, Zenon DEF ShutdownStart, StopInv, LifeInv
  <2>2. stopped' /\ UNCHANGED <<dropped, done, owed, res>>
    BY <1>12, Zenon DEF ShutdownStart
  <2>3. UNCHANGED (\/ \E s \in Senders : res[s] = "ErrStopped"
                   \/ \E c \in Calls : owed[c] = "ErrStopped")
    BY <2>2, Zenon
  <2>4. /\ (IF done THEN "done" ELSE IF dropped THEN "dropped"
            ELSE IF stopped THEN "draining" ELSE "open") = "open"
        /\ (IF done THEN "done" ELSE IF dropped THEN "dropped"
            ELSE IF stopped THEN "draining" ELSE "open")' = "draining"
    BY <2>1, <2>2
  <2>5. Life!LifeDrain
    BY <2>3, <2>4, Zenon DEF Life!LifeDrain
  <2> QED BY <2>5 DEF Life!LifeNext
<1>13. CASE CloseDone
  <2>1. dropped /\ ~done
    BY <1>13, Zenon DEF CloseDone
  <2>2. done' /\ UNCHANGED <<stopped, dropped, owed, res>>
    BY <1>13, Zenon DEF CloseDone
  <2>3. UNCHANGED (\/ \E s \in Senders : res[s] = "ErrStopped"
                   \/ \E c \in Calls : owed[c] = "ErrStopped")
    BY <2>2, Zenon
  <2>4. /\ (IF done THEN "done" ELSE IF dropped THEN "dropped"
            ELSE IF stopped THEN "draining" ELSE "open") = "dropped"
        /\ (IF done THEN "done" ELSE IF dropped THEN "dropped"
            ELSE IF stopped THEN "draining" ELSE "open")' = "done"
    BY <2>1, <2>2
  <2>5. Life!LifeDone
    BY <2>3, <2>4, Zenon DEF Life!LifeDone
  <2> QED BY <2>5 DEF Life!LifeNext
<1>14. CASE Dispatch \/ ServeReturn \/ ReaderError \/ WriterTake \/ WriterStop \/ WriterFlush
            \/ WriterCtxDone
  BY <1>1, <1>14, Zenon DEF Dispatch, ServeReturn, ReaderError, WriterTake, WriterStop,
                       WriterFlush, WriterCtxDone
<1>15. CASE ShutdownCallbacks \/ ShutdownEmpty \/ ShutdownDrained \/ ShutdownSend
            \/ ShutdownAck \/ ShutdownStop \/ ShutdownFlushed
  BY <1>1, <1>15, Zenon DEF ShutdownCallbacks, ShutdownEmpty, ShutdownDrained, ShutdownSend,
                       ShutdownAck, ShutdownStop, ShutdownFlushed, ShutdownTo
<1>16. CASE InitArm \/ HijackStart \/ HijackFinish \/ PeerClose
  BY <1>1, <1>16, Zenon DEF InitArm, HijackStart, HijackFinish, PeerClose
<1>17. ASSUME NEW w \in Watchers, OnClose(w) \/ CallOnClose(w)
       PROVE Life!LifeNext \/ UNCHANGED Life!lifeVars
  BY <1>1, <1>17, Zenon DEF OnClose, CallOnClose
<1>18. ASSUME NEW p \in Senders \cup {SHUTDOWN}, PeerSend(p)
       PROVE Life!LifeNext \/ UNCHANGED Life!lifeVars
  BY <1>1, <1>18, Zenon DEF PeerSend
<1>19. CASE UNCHANGED vars
  BY <1>1, <1>19, Zenon DEF vars
<1> QED
  BY <1>2, <1>3, <1>4, <1>5, <1>6, <1>7, <1>8, <1>9, <1>10, <1>11, <1>12, <1>13, <1>14,
     <1>15, <1>16, <1>17, <1>18, <1>19
     DEF Next, SendNext, ReaderNext, WriterNext, ShutdownNext

\* The safety half of ImplementsLife: a channel moves from open to done and
\* never back, done comes after the drop, and ErrStopped comes from a channel
\* that has been stopped.
THEOREM LifeSafeHolds == Spec => Life!LifeSafe
<1>1. Init => Life!LifeInit
  <2> SUFFICES ASSUME Init PROVE Life!LifeInit
    OBVIOUS
  <2>1. (IF done THEN "done" ELSE IF dropped THEN "dropped"
         ELSE IF stopped THEN "draining" ELSE "open") = "open"
    BY DEF Init
  <2>2. (\/ \E s \in Senders : res[s] = "ErrStopped"
         \/ \E c \in Calls : owed[c] = "ErrStopped") = FALSE
    BY DEF Init
  <2> QED BY <2>1, <2>2, Zenon DEF Life!LifeInit
<1>2. Init => LifeInv
  BY DEF Init, LifeInv
<1>3. TypeOK /\ StopInv /\ LifeInv /\ [Next]_vars => LifeInv'
  BY LifeInvStep
<1>4. TypeOK /\ StopInv /\ CallInv /\ LifeInv /\ [Next]_vars
          => [Life!LifeNext]_(Life!lifeVars)
  BY LifeStep
<1> QED BY <1>1, <1>2, <1>3, <1>4, CallInvariant, PTL DEF Spec, Life!LifeSafe
=============================================================================
