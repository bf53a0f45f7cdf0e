------------------------------ MODULE TaskGroup ------------------------------
(***************************************************************************)
(* syncutil.TaskGroup, pkg/iproto/syncutil/taskgroup.go, with the caller   *)
(* it has in the repository, Pool.connect of pkg/iproto/iproto/pool.go: a  *)
(* call that needs n connections joins the dials that run and starts the   *)
(* ones that are missing, then waits for all of them until its deadline.   *)
(*                                                                         *)
(* Do and Cancel hold t.mu from start to end and are one step each.  A     *)
(* task sends its result without the mutex and takes the mutex afterwards  *)
(* to leave the group, so those are two steps.  A task is a number; its    *)
(* channel, of capacity one, is result[i].  The sub context of a Do is     *)
(* named after the call that made it.                                      *)
(***************************************************************************)
EXTENDS Integers, Sequences, FiniteSets

CONSTANTS
    Callers,    \* goroutines that call connect once
    N,          \* TaskGroup.N, the size of the pool
    GoerFails,  \* whether Goer may refuse to start a goroutine
    MaxTasks,   \* bound: the tasks started
    MaxCancels, \* bound: the calls of Cancel
    None

ASSUME TaskGroupAssumption ==
    /\ N \in Nat \ {0} /\ MaxTasks \in Nat /\ MaxCancels \in Nat
    /\ GoerFails \in BOOLEAN
    /\ None \notin 1..MaxTasks

Slots == 1..N
Tasks == 1..MaxTasks

VARIABLES
    pending,    \* t.pending: the task whose channel a slot holds, or None
    n,          \* t.n
    chain,      \* t.cancel: the sub contexts that it cancels
    exec,       \* the variable exec of each Do, which its tasks share
    cancelled,  \* the calls whose sub context was cancelled by its own cancel()
    task,       \* tasks: state, the call that started it, its slot
    result,     \* tasks: what their channel holds
    pc,         \* callers: "idle", "wait", "ok", "error", "timeout"
    ret,        \* callers: the channels that Do returned and are not read yet
    started,    \* the tasks started so far
    cancels     \* the calls of Cancel so far

group   == <<pending, n, chain, exec, cancelled>>
callers == <<pc, ret>>
vars    == <<group, task, result, callers, started, cancels>>

Init ==
    /\ pending = [j \in Slots |-> None] /\ n = 0 /\ chain = {}
    /\ exec = [c \in Callers |-> 0] /\ cancelled = {}
    /\ task = [i \in Tasks |-> [state |-> "none", by |-> None, slot |-> 1]]
    /\ result = [i \in Tasks |-> None]
    /\ pc = [c \in Callers |-> "idle"] /\ ret = [c \in Callers |-> <<>>]
    /\ started = 0 /\ cancels = 0

Waiting(c) == pc[c] = "wait"

\* A sub context ends with its own cancel() and with its parent, the context of
\* connect, which ends when connect returns: defer cancel().
CtxDone(c) == c \in cancelled \/ pc[c] \notin {"idle", "wait"}

Free(j) == pending[j] = None

----------------------------------------------------------------------------
(* Do, as connect calls it.                                                *)

\* The lowest free slots take the tasks that Goer agreed to start.
Start(k) ==
    [j \in Slots |-> LET r == Cardinality({l \in 1..j : Free(l)})
                     IN  IF Free(j) /\ r <= k THEN started + r ELSE pending[j]]

\* The new t.cancel calls the previous one first.
ChainedAlone(c) == {c}
Chained(c) == chain \cup {c}

\* The channels of the first m slots that are taken, fewer when Goer refused.
Promises(p, m) ==
    LET all == SelectSeq(p, LAMBDA t : t # None)
    IN  SubSeq(all, 1, IF Len(all) < m THEN Len(all) ELSE m)

\* connect asks for m connections; k of the missing ones are started.  A refused
\* task leaves its slot free and its error in a channel that nobody was given.
Do(c) ==
    /\ pc[c] = "idle"
    /\ \E m \in Slots :
         LET missing == IF m > n THEN m - n ELSE 0
         IN  \E k \in 0..missing :
               /\ k = missing \/ GoerFails
               /\ started + k <= MaxTasks
               /\ pending' = Start(k)
               /\ n' = n + k
               /\ IF missing > 0
                  THEN /\ chain' = Chained(c)
                       /\ exec' = [exec EXCEPT ![c] = missing]
                  ELSE UNCHANGED <<chain, exec>>
               /\ task' = [i \in Tasks |->
                             IF i \in started + 1..started + k
                             THEN [state |-> "run", by |-> c,
                                   slot |-> CHOOSE j \in Slots : pending'[j] = i]
                             ELSE task[i]]
               /\ started' = started + k
               /\ ret' = [ret EXCEPT ![c] = Promises(pending', m)]
               /\ pc' = [pc EXCEPT ![c] = IF ret'[c] = <<>> THEN "ok" ELSE "wait"]
    /\ UNCHANGED <<cancelled, result, cancels>>

----------------------------------------------------------------------------
(* A task: dial and StoreConn, then leave the group.                       *)

\* done <- task(subctx, j)
TaskSend(i) ==
    /\ task[i].state = "run"
    /\ \E r \in {"ok", "error"} \cup (IF CtxDone(task[i].by) THEN {"canceled"} ELSE {}) :
         result' = [result EXCEPT ![i] = r]
    /\ task' = [task EXCEPT ![i].state = "sent"]
    /\ UNCHANGED <<group, callers, started, cancels>>

LeaveAnyway(i) ==
    IF n > 0
    THEN /\ pending' = [pending EXCEPT ![task[i].slot] = None]
         /\ n' = n - 1
         /\ chain' = IF n = 1 THEN {} ELSE chain
    ELSE UNCHANGED <<pending, n, chain>>

\* The slot is given back unless Cancel took it: another task may have it by now.
Leave(i) ==
    IF pending[task[i].slot] = i
    THEN /\ pending' = [pending EXCEPT ![task[i].slot] = None]
         /\ n' = n - 1
         /\ chain' = IF n = 1 THEN {} ELSE chain
    ELSE UNCHANGED <<pending, n, chain>>

TaskLeave(i) ==
    /\ task[i].state = "sent"
    /\ exec' = [exec EXCEPT ![task[i].by] = @ - 1]
    /\ cancelled' = IF exec[task[i].by] = 1 THEN cancelled \cup {task[i].by} ELSE cancelled
    /\ Leave(i)
    /\ task' = [task EXCEPT ![i].state = "done"]
    /\ UNCHANGED <<result, callers, started, cancels>>

----------------------------------------------------------------------------
(* Cancel                                                                  *)

Cancel ==
    /\ cancels < MaxCancels
    /\ cancels' = cancels + 1
    /\ cancelled' = cancelled \cup chain
    /\ chain' = {} /\ n' = 0
    /\ pending' = [j \in Slots |-> None]
    /\ UNCHANGED <<exec, task, result, callers, started>>

----------------------------------------------------------------------------
(* connect: read the results in the order of the slots                     *)

\* case err := <-r: the first error ends the call.
Receive(c) ==
    /\ Waiting(c)
    /\ LET i == Head(ret[c])
       IN  /\ result[i] # None
           /\ result' = [result EXCEPT ![i] = None]
           /\ pc' = [pc EXCEPT ![c] = IF result[i] # "ok" THEN "error"
                                      ELSE IF Len(ret[c]) = 1 THEN "ok" ELSE @]
    /\ ret' = [ret EXCEPT ![c] = IF pc'[c] = "wait" THEN Tail(@) ELSE <<>>]
    /\ UNCHANGED <<group, task, started, cancels>>

\* case <-ctx.Done(): ConnectTimeout, or the end of the caller's context.
Expire(c) ==
    /\ Waiting(c)
    /\ pc' = [pc EXCEPT ![c] = "timeout"] /\ ret' = [ret EXCEPT ![c] = <<>>]
    /\ UNCHANGED <<group, task, result, started, cancels>>

Next ==
    \/ \E c \in Callers : Do(c) \/ Receive(c) \/ Expire(c)
    \/ \E i \in Tasks : TaskSend(i) \/ TaskLeave(i)
    \/ Cancel

Spec == Init /\ [][Next]_vars

----------------------------------------------------------------------------
(* Properties                                                              *)

TypeOK ==
    /\ pending \in [Slots -> Tasks \cup {None}] /\ n \in 0..N /\ chain \subseteq Callers
    /\ exec \in [Callers -> 0..N] /\ cancelled \subseteq Callers
    /\ result \in [Tasks -> {None, "ok", "error", "canceled"}]
    /\ pc \in [Callers -> {"idle", "wait", "ok", "error", "timeout"}]
    /\ \A c \in Callers : ret[c] \in Seq(Tasks) /\ (Waiting(c) <=> ret[c] # <<>>)
    /\ started \in 0..MaxTasks /\ cancels \in 0..MaxCancels
    /\ \A i \in Tasks :
          /\ task[i].state \in {"none", "run", "sent", "done"}
          /\ task[i].by \in Callers \cup {None} /\ task[i].slot \in Slots

Running(i) == task[i].state = "run"
Heeded(i)  == Running(i) /\ task[i].by \notin cancelled

\* "It is intended to execute at most N tasks at one time": the tasks that run and
\* were not told to stop are at most N, whatever Cancel, late ends of cancelled
\* tasks and refusals of Goer come between, and t.n counts the slots taken.
AtMostN ==
    /\ n = Cardinality({j \in Slots : ~Free(j)})
    /\ Cardinality({i \in Tasks : Heeded(i)}) <= N

\* "All currently executing tasks can be signaled to cancel by calling Cancel()":
\* t.cancel reaches the context of every task that runs and was not told to stop,
\* also of tasks that several calls of Do started one after another.
CancelReachesAll == \A i \in Tasks : Heeded(i) => task[i].by \in chain

\* "It returns slice of n channels which fulfillment means the end of appropriate
\* task execution", and for tasks that run already the channels refer "to a
\* previously spawned task": a call that waits for a task that ended finds the
\* result in its channel.
EndIsSeen ==
    \A c \in Callers : Waiting(c) =>
        LET i == Head(ret[c]) IN task[i].state = "done" => result[i] # None
=============================================================================
