--------------------------- MODULE ConnPoolProofs ---------------------------
(***************************************************************************)
(* Type correctness and the safety properties of ConnPool, for any sets of *)
(* connections, callers and closers, any Size and all settings.            *)
(***************************************************************************)
EXTENDS ConnPool, FiniteSetTheorems, TLAPS

USE DEF Goto, Return, Again, Forget

\* Taking channels from the list keeps its size within the limit, and StoreConn
\* adds one only below it (pool.go:776-790).
LEMMA OnlineBound ==
    ASSUME ConnPoolAssumption, online \subseteq Conns, Cardinality(online) <= Size
    PROVE  /\ IsFiniteSet(online) /\ Cardinality(online) \in Nat
           /\ \A k \in Conns :
                /\ Cardinality(online \ {k}) <= Size
                /\ Cardinality(online) # Size => Cardinality(online \cup {k}) <= Size
           /\ Cardinality({}) <= Size
<1>1. IsFiniteSet(online) /\ Cardinality(online) \in Nat
  BY FS_Subset, FS_CardinalityType DEF ConnPoolAssumption
<1>2. ASSUME NEW k \in Conns
      PROVE  Cardinality(online \ {k}) <= Size
  <2>1. Cardinality(online \ {k}) = IF k \in online THEN Cardinality(online) - 1
                                                     ELSE Cardinality(online)
    BY <1>1, FS_RemoveElement
  <2> QED BY <1>1, <2>1 DEF ConnPoolAssumption
<1>3. ASSUME NEW k \in Conns, Cardinality(online) # Size
      PROVE  Cardinality(online \cup {k}) <= Size
  <2>1. Cardinality(online \cup {k}) = IF k \in online THEN Cardinality(online)
                                                        ELSE Cardinality(online) + 1
    BY <1>1, FS_AddElement
  <2> QED BY <1>1, <1>3, <2>1 DEF ConnPoolAssumption
<1>4. Cardinality({}) = 0
  BY FS_EmptySet
<1> QED BY <1>1, <1>2, <1>3, <1>4 DEF ConnPoolAssumption

-----------------------------------------------------------------------------
(* TypeOK *)

\* The types hold in the beginning.
LEMMA TypeInit == ASSUME ConnPoolAssumption, Init PROVE TypeOK
<1>1. Cardinality({}) <= Size
  BY FS_EmptySet DEF ConnPoolAssumption
<1>2. /\ stopped \in BOOLEAN /\ closed \in BOOLEAN /\ done \in BOOLEAN /\ cancelled \in BOOLEAN
      /\ full \in [Callers -> BOOLEAN]
  BY Zenon DEF Init
<1> QED BY <1>1, <1>2 DEF Init, TypeOK

\* The dial and the storing of a connection.
LEMMA TypeDial ==
    ASSUME ConnPoolAssumption, TypeOK,
           \/ \E k \in Conns : DialOK(k) \/ Provide(k) \/ StoreConn(k)
           \/ Dialing \/ CancelDial
    PROVE  TypeOK'
<1>1. ASSUME NEW k \in Conns, DialOK(k) PROVE TypeOK'
  BY <1>1 DEF TypeOK, DialOK, StoreInit, pool, caller, closer
<1>2. ASSUME NEW k \in Conns, Provide(k) PROVE TypeOK'
  BY <1>2 DEF TypeOK, Provide, StoreInit, pool, dial, caller, closer
<1>3. ASSUME NEW k \in Conns, StoreReady(k) \/ StoreClosed(k) PROVE TypeOK'
  BY <1>3 DEF TypeOK, StoreReady, StoreClosed, pool, dial, caller, closer
<1>4. ASSUME NEW k \in Conns, StoreAppend(k) PROVE TypeOK'
  <2>1. CASE stopped \/ Cardinality(online) = Size
    BY <1>4, <2>1 DEF TypeOK, StoreAppend, dial, caller, closer
  <2>2. CASE ~(stopped \/ Cardinality(online) = Size)
    <3>1. online' \subseteq Conns /\ Cardinality(online') <= Size
      <4>1. online' = online \cup {k}
        BY <1>4, <2>2 DEF StoreAppend
      <4> QED BY <2>2, <4>1, OnlineBound DEF TypeOK
    <3> QED BY <1>4, <2>2, <3>1 DEF TypeOK, StoreAppend, dial, caller, closer
  <2> QED BY <2>1, <2>2
<1>5. ASSUME Dialing PROVE TypeOK'
  BY <1>5 DEF TypeOK, Dialing, DialFails, DialStored, Broadcast, pool, chans, caller, closer
<1>6. ASSUME CancelDial PROVE TypeOK'
  BY <1>6 DEF TypeOK, CancelDial, pool, chans, caller, closer
<1> QED BY <1>1, <1>2, <1>3, <1>4, <1>5, <1>6 DEF StoreConn

\* The channels and their callbacks.
LEMMA TypeChannels ==
    ASSUME ConnPoolAssumption, TypeOK, NEW k \in Conns,
           Drain(k) \/ Drop(k) \/ ChannelDone(k) \/ Callback(k)
    PROVE  TypeOK'
<1>1. ASSUME Drain(k) \/ Drop(k) \/ ChannelDone(k) PROVE TypeOK'
  BY <1>1 DEF TypeOK, Drain, Drop, ChannelDone, pool, dial, caller, closer
<1>2. ASSUME CallbackRemove(k) PROVE TypeOK'
  <2>1. online' \subseteq Conns /\ Cardinality(online') <= Size
    BY <1>2, OnlineBound DEF TypeOK, CallbackRemove
  <2> QED BY <1>2, <2>1 DEF TypeOK, CallbackRemove, dial, caller, closer
<1>3. ASSUME CallbackRedial(k) PROVE TypeOK'
  BY <1>3 DEF TypeOK, CallbackRedial, DialBackground, DialTask, pool, dial, caller, closer
<1> QED BY <1>1, <1>2, <1>3 DEF Callback

\* What a caller changes keeps the types of the rest.
CallerType ==
    /\ pc \in [Callers -> {"next", "picked", "remove", "again", "more", "cutoff", "dial",
                           "wait", "call", "sent", "returned"}]
    /\ res \in [Callers -> {"answer", "ErrStopped", None}]
    /\ got \in [Callers -> Conns \cup {None}]
    /\ full \in [Callers -> BOOLEAN]

DialType ==
    /\ task \in {"none", "dialing", "storing", "result"}
    /\ held \in Conns \cup {None} /\ rcvrs \subseteq Callers
    /\ cancelled \in BOOLEAN

\* A caller's step keeps the types if it keeps those of what it changes.
LEMMA CallerKeepsTypes ==
    ASSUME TypeOK, CallerType', DialType', dialed' \subseteq Callers,
           sent' \in [Callers -> Nat], UNCHANGED <<pool, chans, closer>>
    PROVE  TypeOK'
BY DEF TypeOK, CallerType, DialType, pool, chans, closer

\* The moves of a caller within and out of the loops.
LEMMA CallerMoves ==
    ASSUME TypeOK, NEW a \in Callers
    PROVE  /\ \A to \in {"picked", "remove", "again", "more", "cutoff", "dial", "wait",
                          "call", "sent"} :
                pc' = [pc EXCEPT ![a] = to] /\ UNCHANGED <<res, got, full>> => CallerType'
           /\ \A from \in {"again", "remove", "wait", "call"} : Again(a, from) => CallerType'
           /\ \A from \in {"next", "cutoff", "dial", "wait", "call", "sent"},
                 v \in {"answer", "ErrStopped"} : Return(a, from, v) => CallerType'
<1> CallerType
  BY DEF TypeOK, CallerType
<1>1. ASSUME NEW to \in {"picked", "remove", "again", "more", "cutoff", "dial", "wait",
                        "call", "sent"},
             pc' = [pc EXCEPT ![a] = to] /\ UNCHANGED <<res, got, full>>
      PROVE  CallerType'
  BY <1>1 DEF CallerType
<1>2. ASSUME NEW from, Again(a, from) PROVE CallerType'
  BY <1>2 DEF CallerType
<1>3. ASSUME NEW from, NEW v \in {"answer", "ErrStopped"}, Return(a, from, v)
      PROVE  CallerType'
  BY <1>3 DEF CallerType
<1> QED BY <1>1, <1>2, <1>3

\* Asking for a dial, and not asking.
LEMMA DialMoves ==
    ASSUME TypeOK
    PROVE  /\ UNCHANGED dial => DialType'
           /\ \A s \in SUBSET Callers : DialTask(s) => DialType'
           /\ DialBackground => DialType'
<1>1. UNCHANGED dial => DialType'
  BY DEF TypeOK, DialType, dial
<1>2. ASSUME NEW s \in SUBSET Callers, DialTask(s) PROVE DialType'
  BY <1>2 DEF TypeOK, DialType, DialTask
<1> QED BY <1>1, <1>2 DEF DialBackground

\* A caller.
LEMMA TypeCaller ==
    ASSUME ConnPoolAssumption, TypeOK, NEW a \in Callers, Calling(a)
    PROVE  TypeOK'
<1>a. dialed \subseteq Callers /\ sent \in [Callers -> Nat]
  BY DEF TypeOK
<1>1. ASSUME Look(a) \/ Picked(a) PROVE TypeOK'
  <2>1. CASE Picked(a)
    <3>1. \E to \in {"remove", "call", "more"} : pc' = [pc EXCEPT ![a] = to]
      BY <2>1, Zenon DEF Picked
    <3> QED BY <1>a, <2>1, <3>1, CallerMoves, DialMoves, CallerKeepsTypes DEF Picked
  <2>2. CASE Look(a)
    <3>1. full' \in [Callers -> BOOLEAN]
      <4>1. \E b \in BOOLEAN : full' = [full EXCEPT ![a] = b] \/ full' = full
        BY <2>2, Zenon DEF Look
      <4> QED BY <4>1 DEF TypeOK
    <3>2. /\ got' \in [Callers -> Conns \cup {None}]
          /\ res' \in [Callers -> {"answer", "ErrStopped", None}]
          /\ pc' \in [Callers -> {"next", "picked", "remove", "again", "more", "cutoff", "dial",
                                  "wait", "call", "sent", "returned"}]
      BY <2>2 DEF TypeOK, Look
    <3>3. CallerType'
      BY <3>1, <3>2 DEF CallerType
    <3> QED BY <1>a, <2>2, <3>3, DialMoves, CallerKeepsTypes DEF Look
  <2> QED BY <1>1, <2>1, <2>2
<1>2. ASSUME Remove(a) PROVE TypeOK'
  <2>1. online' \subseteq Conns /\ Cardinality(online') <= Size
    <3>1. CASE got[a] \in Conns
      BY <1>2, <3>1, OnlineBound DEF TypeOK, Remove
    <3>2. CASE got[a] \notin Conns
      <4>1. online' = online
        BY <1>2, <3>2 DEF TypeOK, Remove
      <4> QED BY <4>1 DEF TypeOK
    <3> QED BY <3>1, <3>2
  <2>2. CallerType'
    <3>1. CASE pc' = [pc EXCEPT ![a] = "again"] /\ UNCHANGED <<res, got, full>>
      BY <3>1, CallerMoves
    <3>2. CASE Again(a, "remove")
      BY <3>2, CallerMoves
    <3> QED BY <1>2, <3>1, <3>2 DEF Remove
  <2>3. UNCHANGED <<config, stopped, closed, done, chans, dial, dialed, sent, closer>>
    BY <1>2, Zenon DEF Remove
  <2> QED BY <2>1, <2>2, <2>3 DEF TypeOK, CallerType, chans, dial, closer
<1>3. ASSUME Redial(a) PROVE TypeOK'
  <2>1. CallerType'
    <3>1. CASE pc' = [pc EXCEPT ![a] = "call"] /\ UNCHANGED <<res, got, full>>
      BY <3>1, CallerMoves
    <3>2. CASE Again(a, "again") \/ Return(a, "cutoff", "answer")
      BY <3>2, CallerMoves
    <3> QED BY <1>3, <3>1, <3>2 DEF Redial
  <2>2. DialBackground /\ UNCHANGED <<pool, chans, dialed, sent, closer>>
    BY <1>3, Zenon DEF Redial
  <2> QED BY <1>a, <2>1, <2>2, DialMoves, CallerKeepsTypes
<1>4. ASSUME DialForeground(a) PROVE TypeOK'
  <2>1. UNCHANGED <<pool, chans, dialed, sent, closer>>
    BY <1>4, Zenon DEF DialForeground
  <2>2. CASE pc' = [pc EXCEPT ![a] = "wait"] /\ DialTask({a}) /\ UNCHANGED <<res, got, full>>
    BY <1>a, <2>1, <2>2, CallerMoves, DialMoves, CallerKeepsTypes
  <2>3. CASE Return(a, "dial", "answer") /\ UNCHANGED dial
    BY <1>a, <2>1, <2>3, CallerMoves, DialMoves, CallerKeepsTypes
  <2> QED BY <1>4, <2>2, <2>3 DEF DialForeground
<1>5. ASSUME WaitDialed(a) PROVE TypeOK'
  <2>1. /\ Again(a, "wait") /\ dialed' \subseteq dialed
        /\ UNCHANGED <<pool, chans, dial, sent, closer>>
    BY <1>5 DEF WaitDialed
  <2> QED BY <1>a, <2>1, CallerMoves, DialMoves, CallerKeepsTypes
<1>6. ASSUME WaitExpire(a) PROVE TypeOK'
  <2>1. /\ Return(a, "wait", "answer") /\ dialed' \subseteq dialed /\ rcvrs' \subseteq rcvrs
        /\ UNCHANGED <<pool, chans, task, held, cancelled, sent, closer>>
    BY <1>6 DEF WaitExpire
  <2>2. DialType'
    BY <2>1 DEF TypeOK, DialType
  <2> QED BY <1>a, <2>1, <2>2, CallerMoves, CallerKeepsTypes
<1>7. ASSUME CallRefused(a) \/ CallReturn(a) PROVE TypeOK'
  <2>1. /\ Again(a, "call") \/ Return(a, "call", "answer") \/ Return(a, "sent", "answer")
        /\ UNCHANGED <<pool, chans, dial, dialed, sent, closer>>
    BY <1>7, Zenon DEF CallRefused, CallReturn
  <2> QED BY <1>a, <2>1, CallerMoves, DialMoves, CallerKeepsTypes
<1>8. ASSUME CallSend(a) PROVE TypeOK'
  <2>1. sent' \in [Callers -> Nat]
    BY <1>8, <1>a DEF CallSend
  <2> QED BY <1>a, <1>8, <2>1, CallerMoves, DialMoves, CallerKeepsTypes DEF CallSend
<1> QED BY <1>1, <1>2, <1>3, <1>4, <1>5, <1>6, <1>7, <1>8 DEF Calling

\* Shutdown and Close.
LEMMA TypeCloser ==
    ASSUME ConnPoolAssumption, TypeOK, NEW x \in Closers, Closing(x)
    PROVE  TypeOK'
<1>1. Cardinality({}) <= Size
  BY OnlineBound DEF TypeOK
<1>2. ASSUME ShutdownStart(x) PROVE TypeOK'
  <2>1. CASE stopped
    BY <1>2, <2>1 DEF TypeOK, ShutdownStart, pool, chans, dial, caller
  <2>2. CASE ~stopped
    <3>1. /\ online' = {} /\ list' = [list EXCEPT ![x] = online]
          /\ stopped' \in BOOLEAN /\ closed' \in BOOLEAN
          /\ config' = config /\ done' = done
          /\ UNCHANGED <<chans, dial, caller>>
      BY <1>2, <2>2, Zenon DEF TypeOK, ShutdownStart, Take
    <3>2. cpc' \in [Closers -> {"idle", "await", "shutdown", "close", "cancel", "closing",
                                "returned"}]
      BY <1>2, <2>2 DEF TypeOK, ShutdownStart
    <3> QED BY <1>1, <3>1, <3>2 DEF TypeOK, chans, dial, caller
  <2> QED BY <2>1, <2>2
<1>3. ASSUME CloseStart(x) PROVE TypeOK'
  <2>1. CASE closed
    BY <1>3, <2>1 DEF TypeOK, CloseStart, pool, chans, dial, caller
  <2>2. CASE ~closed
    <3>1. /\ online' = {} /\ list' = [list EXCEPT ![x] = online]
          /\ stopped' \in BOOLEAN /\ closed' \in BOOLEAN
          /\ config' = config /\ done' = done
          /\ UNCHANGED <<chans, dial, caller>>
      BY <1>3, <2>2, Zenon DEF TypeOK, CloseStart, Take
    <3>2. cpc' \in [Closers -> {"idle", "await", "shutdown", "close", "cancel", "closing",
                                "returned"}]
      BY <1>3, <2>2 DEF TypeOK, CloseStart
    <3> QED BY <1>1, <3>1, <3>2 DEF TypeOK, chans, dial, caller
  <2> QED BY <2>1, <2>2
<1>4. ASSUME ShutdownAwait(x) PROVE TypeOK'
  BY <1>4 DEF TypeOK, ShutdownAwait, pool, chans, dial, caller
<1>6. ASSUME CloseDone(x) PROVE TypeOK'
  BY <1>6 DEF TypeOK, CloseDone, chans, dial, caller
<1>5. ASSUME CloseCancel(x) PROVE TypeOK'
  BY <1>5 DEF TypeOK, CloseCancel, pool, chans, caller
<1> QED BY <1>2, <1>3, <1>4, <1>5, <1>6 DEF Closing

\* Every variable keeps its type and the pool its limit of Size channels.
THEOREM TypeCorrect == Spec => []TypeOK
<1>1. ASSUME ConnPoolAssumption, TypeOK, [Next]_vars PROVE TypeOK'
  <2>1. CASE UNCHANGED vars
    BY <1>1, <2>1 DEF TypeOK, vars, pool, chans, dial, caller, closer
  <2> QED BY <1>1, <2>1, TypeDial, TypeChannels, TypeCaller, TypeCloser DEF Next
<1> QED BY <1>1, ConnPoolAssumption, TypeInit, PTL DEF Spec

-----------------------------------------------------------------------------
(* SentOnce *)

\* Where a caller is tells whether its packet was sent: the loop goes round only
\* before CallSend, and ErrStopped is an answer of Look alone.
CallerInv ==
    \A a \in Callers :
        /\ sent[a] \in {0, 1}
        /\ pc[a] = "sent" => sent[a] = 1
        /\ pc[a] \notin {"sent", "returned"} => sent[a] = 0
        /\ res[a] = "ErrStopped" => sent[a] = 0 /\ pc[a] = "returned"

\* A caller's step keeps the tie of its place to the count of its sends.
LEMMA CallerStep ==
    ASSUME TypeOK, CallerInv, NEW a \in Callers, Calling(a)
    PROVE  CallerInv'
<1>1. ASSUME Look(a) PROVE CallerInv'
  <2>1. /\ pc[a] = "next" /\ sent' = sent
        /\ \/ pc' = [pc EXCEPT ![a] = "returned"] /\ res' = [res EXCEPT ![a] = "ErrStopped"]
           \/ \E to \in {"cutoff", "dial", "picked"} :
                pc' = [pc EXCEPT ![a] = to] /\ res' = res
    BY <1>1, Zenon DEF Look
  <2> QED BY <2>1 DEF TypeOK, CallerInv
<1>2. ASSUME Picked(a) \/ Remove(a) PROVE CallerInv'
  BY <1>2 DEF TypeOK, CallerInv, Picked, Remove
<1>3. ASSUME Redial(a) \/ DialForeground(a) PROVE CallerInv'
  BY <1>3 DEF TypeOK, CallerInv, Redial, DialForeground
<1>4. ASSUME WaitDialed(a) \/ WaitExpire(a) PROVE CallerInv'
  BY <1>4 DEF TypeOK, CallerInv, WaitDialed, WaitExpire
<1>5. ASSUME CallRefused(a) \/ CallReturn(a) PROVE CallerInv'
  BY <1>5 DEF TypeOK, CallerInv, CallRefused, CallReturn
<1>6. ASSUME CallSend(a) PROVE CallerInv'
  BY <1>6 DEF TypeOK, CallerInv, CallSend
<1> QED BY <1>1, <1>2, <1>3, <1>4, <1>5, <1>6 DEF Calling

\* The dial, the channels and the closers leave a caller where it is.
LEMMA CallerKept ==
    ASSUME CallerInv, UNCHANGED <<pc, res, sent>>
    PROVE  CallerInv'
BY DEF CallerInv

\* No other step touches the callers.
LEMMA OthersKeepCallers ==
    ASSUME \/ \E k \in Conns : DialOK(k) \/ Provide(k) \/ StoreConn(k)
           \/ \E k \in Conns : Drain(k) \/ Drop(k) \/ ChannelDone(k) \/ Callback(k)
           \/ Dialing \/ CancelDial
           \/ \E x \in Closers : Closing(x)
           \/ UNCHANGED vars
    PROVE  UNCHANGED <<pc, res, sent>>
<1>1. ASSUME NEW k \in Conns, DialOK(k) \/ Provide(k) \/ StoreConn(k)
      PROVE  UNCHANGED <<pc, res, sent>>
  BY <1>1 DEF DialOK, Provide, StoreConn, StoreReady, StoreAppend, StoreClosed, caller
<1>2. ASSUME NEW k \in Conns, Drain(k) \/ Drop(k) \/ ChannelDone(k) \/ Callback(k)
      PROVE  UNCHANGED <<pc, res, sent>>
  BY <1>2 DEF Drain, Drop, ChannelDone, Callback, CallbackRemove, CallbackRedial, caller
<1>3. ASSUME Dialing \/ CancelDial PROVE UNCHANGED <<pc, res, sent>>
  BY <1>3 DEF Dialing, DialFails, DialStored, Broadcast, CancelDial, caller
<1>4. ASSUME NEW x \in Closers, Closing(x) PROVE UNCHANGED <<pc, res, sent>>
  BY <1>4 DEF Closing, ShutdownStart, ShutdownAwait, CloseStart, CloseCancel, CloseDone, caller
<1>5. ASSUME UNCHANGED vars PROVE UNCHANGED <<pc, res, sent>>
  BY <1>5 DEF vars, caller
<1> QED BY <1>1, <1>2, <1>3, <1>4, <1>5

\* A Call, Notify or Send sends its packet on one channel at most, and on none
\* when it returns ErrStopped, so that its owner may repeat it elsewhere.
THEOREM SentOnceHolds == Spec => []SentOnce
<1>1. ASSUME Init PROVE CallerInv
  BY <1>1, ConnPoolAssumption DEF Init, CallerInv, ConnPoolAssumption
<1>2. ASSUME TypeOK, CallerInv, [Next]_vars PROVE CallerInv'
  BY <1>2, CallerStep, CallerKept, OthersKeepCallers DEF Next
<1>3. ASSUME CallerInv PROVE SentOnce
  BY <1>3 DEF CallerInv, SentOnce
<1> QED BY <1>1, <1>2, <1>3, TypeCorrect, PTL DEF Spec

-----------------------------------------------------------------------------
(* StoppedIsEmpty *)

\* A step that leaves a stopped pool's list alone or takes channels from it.
LEMMA StoppedKept ==
    ASSUME StoppedIsEmpty, online' \subseteq online, stopped' = stopped
    PROVE  StoppedIsEmpty'
BY DEF StoppedIsEmpty

\* Shutdown and Close take every channel in the section that sets p.stopped, and
\* StoreConn adds none after it.
THEOREM StoppedIsEmptyHolds == Spec => []StoppedIsEmpty
<1>1. ASSUME Init PROVE StoppedIsEmpty
  BY <1>1 DEF Init, StoppedIsEmpty
<1>2. ASSUME StoppedIsEmpty, [Next]_vars PROVE StoppedIsEmpty'
  <2>1. ASSUME NEW k \in Conns, DialOK(k) \/ Provide(k) \/ StoreReady(k) \/ StoreClosed(k)
        PROVE  StoppedIsEmpty'
    BY <1>2, <2>1, StoppedKept DEF DialOK, Provide, StoreReady, StoreClosed, pool
  <2>2. ASSUME NEW k \in Conns, StoreAppend(k) PROVE StoppedIsEmpty'
    BY <1>2, <2>2 DEF StoreAppend, StoppedIsEmpty
  <2>3. ASSUME NEW k \in Conns, Drain(k) \/ Drop(k) \/ ChannelDone(k) \/ Callback(k)
        PROVE  StoppedIsEmpty'
    BY <1>2, <2>3, StoppedKept
       DEF Drain, Drop, ChannelDone, Callback, CallbackRemove, CallbackRedial, pool
  <2>4. ASSUME Dialing \/ CancelDial \/ UNCHANGED vars PROVE StoppedIsEmpty'
    BY <1>2, <2>4, StoppedKept
       DEF Dialing, DialFails, DialStored, Broadcast, CancelDial, vars, pool
  <2>5. ASSUME NEW a \in Callers, Calling(a) PROVE StoppedIsEmpty'
    BY <1>2, <2>5, StoppedKept
       DEF Calling, Look, Picked, Remove, Redial, DialForeground, WaitDialed, WaitExpire,
           CallRefused, CallSend, CallReturn, pool
  <2>6. ASSUME NEW x \in Closers, ShutdownStart(x) \/ CloseStart(x) PROVE StoppedIsEmpty'
    BY <1>2, <2>6 DEF ShutdownStart, CloseStart, Take, StoppedIsEmpty, pool
  <2>7. ASSUME NEW x \in Closers, ShutdownAwait(x) \/ CloseCancel(x) \/ CloseDone(x)
        PROVE  StoppedIsEmpty'
    BY <1>2, <2>7, StoppedKept DEF ShutdownAwait, CloseCancel, CloseDone, pool
  <2> QED BY <1>2, <2>1, <2>2, <2>3, <2>4, <2>5, <2>6, <2>7 DEF Next, StoreConn, Closing
<1> QED BY <1>1, <1>2, PTL DEF Spec

-----------------------------------------------------------------------------
(* WaitersAreKnown *)

\* A step that leaves the list of the task and the results alone, and the task
\* running, and sends nobody to wait.
LEMMA WaitersKept ==
    ASSUME WaitersAreKnown, rcvrs' = rcvrs, dialed' = dialed,
           \A a \in Callers : pc'[a] = "wait" => pc[a] = "wait",
           task # "none" => task' # "none"
    PROVE  WaitersAreKnown'
BY DEF WaitersAreKnown

\* A request for a dial that nobody waits for starts a task or changes nothing.
LEMMA BackgroundKeeps ==
    ASSUME DialBackground
    PROVE  rcvrs' = rcvrs /\ (task # "none" => task' # "none")
BY DEF DialBackground, DialTask, dial

\* NextChannel and the loop around it: who begins to wait has joined the task,
\* and who ceases to wait needs neither the list nor the result.
LEMMA WaitersCaller ==
    ASSUME TypeOK, WaitersAreKnown, NEW a \in Callers, Calling(a)
    PROVE  WaitersAreKnown'
<1>1. ASSUME Look(a) PROVE WaitersAreKnown'
  <2>1. /\ dialed' = dialed /\ UNCHANGED dial
        /\ \E to \in {"returned", "cutoff", "dial", "picked"} : pc' = [pc EXCEPT ![a] = to]
    BY <1>1, Zenon DEF Look
  <2> QED BY <2>1, WaitersKept DEF TypeOK, dial
<1>2. ASSUME Picked(a) \/ Remove(a) PROVE WaitersAreKnown'
  <2>1. /\ dialed' = dialed /\ UNCHANGED dial
        /\ \E to \in {"remove", "call", "more", "again", "next"} : pc' = [pc EXCEPT ![a] = to]
    BY <1>2 DEF Picked, Remove
  <2> QED BY <2>1, WaitersKept DEF TypeOK, dial
<1>3. ASSUME Redial(a) PROVE WaitersAreKnown'
  <2>1. /\ dialed' = dialed
        /\ \E to \in {"call", "next", "returned"} : pc' = [pc EXCEPT ![a] = to]
    BY <1>3 DEF Redial
  <2>2. rcvrs' = rcvrs /\ (task # "none" => task' # "none")
    BY <1>3, BackgroundKeeps DEF Redial
  <2> QED BY <2>1, <2>2, WaitersKept DEF TypeOK
<1>4. ASSUME DialForeground(a) PROVE WaitersAreKnown'
  <2>1. CASE pc' = [pc EXCEPT ![a] = "wait"] /\ DialTask({a}) /\ dialed' = dialed
    BY <2>1 DEF TypeOK, WaitersAreKnown, DialTask
  <2>2. CASE pc' = [pc EXCEPT ![a] = "returned"] /\ UNCHANGED dial /\ dialed' = dialed
    BY <2>2, WaitersKept DEF TypeOK, dial
  <2> QED BY <1>4, <2>1, <2>2 DEF DialForeground
<1>5. ASSUME WaitDialed(a) \/ WaitExpire(a) PROVE WaitersAreKnown'
  BY <1>5 DEF TypeOK, WaitersAreKnown, WaitDialed, WaitExpire, dial
<1>6. ASSUME CallRefused(a) \/ CallSend(a) \/ CallReturn(a) PROVE WaitersAreKnown'
  <2>1. /\ dialed' = dialed /\ UNCHANGED dial
        /\ \E to \in {"next", "sent", "returned"} : pc' = [pc EXCEPT ![a] = to]
    BY <1>6 DEF CallRefused, CallSend, CallReturn
  <2> QED BY <2>1, WaitersKept DEF TypeOK, dial
<1> QED BY <1>1, <1>2, <1>3, <1>4, <1>5, <1>6 DEF Calling

\* A caller that joins a dial, also between its end and the broadcast of its
\* result, is told: TaskRunner takes the list of the task in one section, and a
\* request after it finds no task and starts another one.
THEOREM WaitersAreKnownHolds == Spec => []WaitersAreKnown
<1>1. ASSUME Init PROVE WaitersAreKnown
  BY <1>1 DEF Init, WaitersAreKnown
<1>2. ASSUME TypeOK, WaitersAreKnown, [Next]_vars PROVE WaitersAreKnown'
  <2>1. ASSUME NEW k \in Conns, DialOK(k) \/ Provide(k) \/ StoreConn(k)
        PROVE  WaitersAreKnown'
    BY <1>2, <2>1, WaitersKept
       DEF DialOK, Provide, StoreConn, StoreReady, StoreAppend, StoreClosed, dial, caller
  <2>2. ASSUME NEW k \in Conns, Drain(k) \/ Drop(k) \/ ChannelDone(k) \/ CallbackRemove(k)
        PROVE  WaitersAreKnown'
    BY <1>2, <2>2, WaitersKept DEF Drain, Drop, ChannelDone, CallbackRemove, dial, caller
  <2>3. ASSUME NEW k \in Conns, CallbackRedial(k) PROVE WaitersAreKnown'
    BY <1>2, <2>3, WaitersKept, BackgroundKeeps DEF CallbackRedial, caller
  <2>4. ASSUME DialFails \/ DialStored \/ CancelDial PROVE WaitersAreKnown'
    BY <1>2, <2>4, WaitersKept DEF DialFails, DialStored, CancelDial, caller
  <2>5. ASSUME Broadcast PROVE WaitersAreKnown'
    BY <1>2, <2>5 DEF Broadcast, WaitersAreKnown
  <2>6. ASSUME NEW x \in Closers, Closing(x) PROVE WaitersAreKnown'
    BY <1>2, <2>6, WaitersKept
       DEF Closing, ShutdownStart, ShutdownAwait, CloseStart, CloseCancel, CloseDone, dial, caller
  <2>7. ASSUME UNCHANGED vars PROVE WaitersAreKnown'
    BY <1>2, <2>7, WaitersKept DEF vars, dial, caller
  <2> QED BY <1>2, <2>1, <2>2, <2>3, <2>4, <2>5, <2>6, <2>7, WaitersCaller
          DEF Next, Dialing, Callback
<1> QED BY <1>1, <1>2, TypeCorrect, PTL DEF Spec
=============================================================================
