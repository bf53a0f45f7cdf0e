----------------------------- MODULE PeerCluster -----------------------------
(***************************************************************************)
(* Cluster of pkg/iproto/iproto/cluster.go: the list of peers that readers *)
(* load atomically, the disabled ones, and the in-place merge of reset.    *)
(* Every operation holds c.mu, so it is one step; only the pools that      *)
(* Shutdown or Close stop are stopped later, each by a goroutine.          *)
(***************************************************************************)
EXTENDS Integers, SequencesExt

CONSTANTS
    Pools,         \* pools, by identity
    Addr,          \* their remote addresses, in the order of cmpRemoteAddr
    Given,         \* the slices that Reset is called with
    Nil            \* a nil pointer, that is no pool

ASSUME ClusterAssumption ==
    /\ Addr \in [Pools -> Nat]
    /\ Given \subseteq Seq(Pools)
    /\ Nil \notin Pools

VARIABLES
    peers,       \* c.peers
    disabled,    \* the values of c.disabled
    terminated,  \* c.terminated
    stopping,    \* pools that terminate stops
    answer       \* what the last operation returned

vars == <<peers, disabled, terminated, stopping, answer>>

Addrs(ps) == {Addr[p] : p \in ps}
At(ps, p) == {q \in ps : Addr[q] = Addr[p]}

Answer(ok, i, r, g) == [ok |-> ok, inserted |-> i, removed |-> r, ignored |-> g]
Refused == answer' = Answer(FALSE, {}, {}, {}) /\ UNCHANGED <<peers, disabled>>
Accepted == answer' = Answer(TRUE, {}, {}, {})

Init ==
    /\ peers = <<>> /\ disabled = {} /\ terminated = FALSE
    /\ stopping = {} /\ answer = Answer(FALSE, {}, {}, {})

-----------------------------------------------------------------------------
(* The merge *)

\* sort.SliceStable by address.
Sorted(s) ==
    LET Below(m, k) == \/ Addr[s[m]] < Addr[s[k]]
                       \/ Addr[s[m]] = Addr[s[k]] /\ m < k
        Rank(k) == Cardinality({m \in DOMAIN s : Below(m, k)}) + 1
    IN [x \in DOMAIN s |-> s[CHOOSE k \in DOMAIN s : Rank(k) = x]]

Swap(s, a, b) == [s EXCEPT ![a] = s[b], ![b] = s[a]]

\* The state of reset: ps, the source half and the other one; i and j, their
\* right bounds; dp, deduped items at the left; cr, the left bound of the
\* created items; rm, the left bound of the removed ones.
Start(dst, src) ==
    [ps |-> Sorted(src) \o Sorted(dst), mid |-> Len(src), i |-> Len(src),
     j |-> Len(src) + Len(dst), dp |-> 0, cr |-> Len(src), rm |-> Len(src) + Len(dst)]

Duplicate(m) == m.i < m.mid /\ Addr[m.ps[m.i + 1]] = Addr[m.ps[m.i]]

\* The closures remove, create and dedup, with the step of i or j.
Drop(m) == [m EXCEPT !.ps = Swap(@, m.rm, m.j), !.rm = @ - 1, !.j = @ - 1]
Create(m) == [m EXCEPT !.ps = Swap(@, m.cr, m.i), !.cr = @ - 1, !.i = @ - 1]
Dedup(m) ==
    [m EXCEPT !.ps = [k \in DOMAIN @ |-> CASE k = m.dp + 1 -> @[m.i]
                                           [] k \in m.dp + 2..m.i -> @[k - 1]
                                           [] OTHER -> @[k]],
              !.dp = @ + 1]
Keep(m) == [m EXCEPT !.i = @ - 1, !.j = @ - 1]

\* Mutant of Turn: a pool that is both in the list and given is created anew.
TurnCreates(m) ==
    LET src == m.i > m.dp
        dst == m.j > m.mid
    IN CASE dst /\ (src => Addr[m.ps[m.i]] < Addr[m.ps[m.j]]) -> Drop(m)
         [] src /\ (dst => Addr[m.ps[m.i]] >= Addr[m.ps[m.j]]) ->
              IF Duplicate(m) THEN Dedup(m) ELSE Create(m)
         [] OTHER -> m

\* One turn of one of the three loops.
Turn(m) ==
    LET src == m.i > m.dp
        dst == m.j > m.mid
    IN CASE dst /\ (src => Addr[m.ps[m.i]] < Addr[m.ps[m.j]]) -> Drop(m)
         [] src /\ (dst => Addr[m.ps[m.i]] > Addr[m.ps[m.j]]) ->
              IF Duplicate(m) THEN Dedup(m) ELSE Create(m)
         [] src /\ dst /\ Addr[m.ps[m.i]] = Addr[m.ps[m.j]] -> Keep(m)
         [] OTHER -> m

\* Every turn takes an item from one of the halves.
Merge(dst, src) ==
    LET turns == Len(dst) + Len(src)
        run[n \in 0..turns] == IF n = 0 THEN Start(dst, src) ELSE Turn(run[n - 1])
        m == run[turns]
    IN [result    |-> SubSeq(m.ps, m.cr + 1, m.rm),
        untouched |-> SubSeq(m.ps, m.mid + 1, m.rm),
        inserted  |-> ToSet(SubSeq(m.ps, m.cr + 1, m.mid)),
        removed   |-> ToSet(SubSeq(m.ps, m.rm + 1, Len(m.ps))),
        ignored   |-> ToSet(SubSeq(m.ps, 1, m.dp))]

-----------------------------------------------------------------------------
(* The operations *)

\* Mutant of Reset: what was removed can still be enabled later.
ResetKeepsDisabled(ps, disable) ==
    /\ ~terminated
    /\ LET m == Merge(peers \o SetToSeq(disabled), ps) IN
       /\ peers' = IF disable THEN m.untouched ELSE m.result
       /\ disabled' = disabled \cup (IF disable THEN m.inserted ELSE {})
       /\ answer' = Answer(TRUE, m.inserted, m.removed, m.ignored)
    /\ UNCHANGED <<terminated, stopping>>

\* Reset and ResetAndDisableInserted.  c.disabled maps an address to a pool.  A
\* disabled pool that ps names gets into the list and stays disabled; the next Reset
\* finds it twice.
Reset(ps, disable) ==
    /\ ~terminated
    /\ LET m == Merge(peers \o SetToSeq(disabled), ps)
           new == IF disable THEN m.inserted ELSE {}
           left == {q \in disabled : Addr[q] \notin Addrs(m.removed \cup new)}
       IN /\ peers' = IF disable THEN m.untouched ELSE m.result
          /\ disabled' = left \cup new
          /\ answer' = Answer(TRUE, m.inserted, m.removed, m.ignored)
    /\ UNCHANGED <<terminated, stopping>>

\* insert and remove, that look for the address and copy the slice.
Listed(p) == At(ToSet(peers), p) # {}
InsertPeer(p) == peers' = Append(peers, p)

RemovePeer(p) ==
    \E x \in DOMAIN peers :
        /\ Addr[peers[x]] = Addr[p]
        /\ \A y \in 1..x - 1 : Addr[peers[y]] # Addr[p]
        /\ peers' = RemoveAt(peers, x)

\* Mutant of Insert: the list is not searched for the address.
InsertUnseen(p) ==
    /\ IF terminated \/ At(disabled, p) # {}
       THEN Refused
       ELSE InsertPeer(p) /\ Accepted /\ UNCHANGED disabled
    /\ UNCHANGED <<terminated, stopping>>

Insert(p) ==
    /\ IF terminated \/ At(disabled, p) # {} \/ Listed(p)
       THEN Refused
       ELSE InsertPeer(p) /\ Accepted /\ UNCHANGED disabled
    /\ UNCHANGED <<terminated, stopping>>

\* Remove; the name is taken by SequencesExt.
RemovePool(p) ==
    /\ IF terminated \/ (At(disabled, p) = {} /\ ~Listed(p))
       THEN Refused
       ELSE /\ IF At(disabled, p) # {}
               THEN disabled' = disabled \ At(disabled, p) /\ UNCHANGED peers
               ELSE RemovePeer(p) /\ UNCHANGED disabled
            /\ Accepted
    /\ UNCHANGED <<terminated, stopping>>

Disable(p) ==
    /\ IF terminated \/ ~Listed(p)
       THEN Refused
       ELSE /\ RemovePeer(p)
            /\ disabled' = (disabled \ At(disabled, p)) \cup {p}
            /\ Accepted
    /\ UNCHANGED <<terminated, stopping>>

\* A pool that is in the list already is not inserted, but it is no longer
\* disabled.
Enable(p) ==
    /\ IF terminated \/ At(disabled, p) = {}
       THEN Refused
       ELSE /\ disabled' = disabled \ At(disabled, p)
            /\ IF Listed(p)
               THEN answer' = Answer(FALSE, {}, {}, {}) /\ UNCHANGED peers
               ELSE InsertPeer(p) /\ Accepted
    /\ UNCHANGED <<terminated, stopping>>

\* Shutdown and Close, up to the goroutines that stop the pools.
Terminate ==
    /\ terminated' = TRUE
    /\ stopping' = stopping \cup ToSet(peers)
    /\ peers' = <<>>
    /\ UNCHANGED <<disabled, answer>>

\* The method of one pool returns.
Stop(p) ==
    /\ p \in stopping
    /\ stopping' = stopping \ {p}
    /\ UNCHANGED <<peers, disabled, terminated, answer>>

Next ==
    \/ \E ps \in Given, disable \in BOOLEAN : Reset(ps, disable)
    \/ \E p \in Pools : Insert(p) \/ RemovePool(p) \/ Disable(p) \/ Enable(p) \/ Stop(p)
    \/ Terminate

Spec == Init /\ [][Next]_vars

-----------------------------------------------------------------------------
(* Properties *)

TypeOK ==
    /\ peers \in Seq(Pools) /\ disabled \in SUBSET Pools
    /\ terminated \in BOOLEAN /\ stopping \in SUBSET Pools
    /\ answer \in [ok : BOOLEAN, inserted : SUBSET Pools, removed : SUBSET Pools,
                   ignored : SUBSET Pools]

\* Cluster "is a wrapper around unique slice of Pools", by remote address:
\* the list holds an address once, whatever was inserted, enabled or reset.
UniquePeers == \A i, k \in DOMAIN peers : Addr[peers[i]] = Addr[peers[k]] => i = k

\* What Reset returns as removed cannot be enabled any more (cluster.go:173-184), and
\* is in the list only if it was both listed and disabled before: the merge keeps one
\* of the two then and removes the other.
RemovedIsGone ==
    [][/\ answer'.removed \cap disabled' = {}
       /\ answer'.removed \cap ToSet(peers') \subseteq ToSet(peers) \cap disabled
      ]_<<peers, disabled, answer>>

\* "those which were removed from the existing list and probably must to be closed"
\* (cluster.go:40-41): no pool that Reset returned as removed is in the list.
RemovedFromList == answer.removed \cap ToSet(peers) = {}

\* The slices implement the sets of PeerRegistry: every Reset keeps, inserts,
\* removes and ignores what its doc says, in any order of the pools given.
Registry == INSTANCE PeerRegistry WITH enabled <- ToSet(peers)
ImplementsRegistry == Registry!RegistrySpec
=============================================================================
