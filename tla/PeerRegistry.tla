---------------------------- MODULE PeerRegistry ----------------------------
(***************************************************************************)
(* What a Cluster of pools (pkg/iproto/iproto/cluster.go) promises: a set  *)
(* of pools, at most one for a remote address, each enabled or disabled, or *)
(* both once a Reset has named a disabled one.  The doc of Reset, and the  *)
(* uses of it, are about sets; how slices are merged is left to PeerCluster. *)
(***************************************************************************)
EXTENDS Integers, Sequences, SequencesExt

CONSTANTS
    Pools,   \* pools, by identity
    Addr,    \* the remote address of each
    Given    \* the slices that Reset is called with

VARIABLES enabled, disabled, terminated, answer

Addrs(ps) == {Addr[p] : p \in ps}
Known == enabled \cup disabled
Others(ps, p) == {q \in ps : Addr[q] # Addr[p]}

Answer(ok, i, r, g) == [ok |-> ok, inserted |-> i, removed |-> r, ignored |-> g]

RegistryInit ==
    /\ enabled = {} /\ disabled = {} /\ terminated = FALSE
    /\ answer = Answer(FALSE, {}, {}, {})

\* Pools at an address that is known are kept, and listed; one pool is taken for
\* every other address of ps; what ps does not name is removed, and so is one of the
\* two places of a pool that was enabled and disabled.
RegistryReset(ps, disable) ==
    /\ ~terminated
    /\ \E new \in SUBSET ps :
         /\ Addrs(new) = Addrs(ps) \ Addrs(Known)
         /\ \A p, q \in new : Addr[p] = Addr[q] => p = q
         /\ LET named == {p \in Known : Addr[p] \in Addrs(ps)}
                gone == (Known \ named) \cup (enabled \cap disabled) IN
            /\ enabled' = named \cup (IF disable THEN {} ELSE new)
            /\ disabled' = (disabled \ gone) \cup (IF disable THEN new ELSE {})
            /\ answer' = Answer(TRUE, new, gone, {p \in ps \ new : Addr[p] \in Addrs(new)})
    /\ UNCHANGED terminated

RegistryInsert(p) ==
    /\ ~terminated /\ Addr[p] \notin Addrs(Known)
    /\ enabled' = enabled \cup {p}
    /\ answer' = Answer(TRUE, {}, {}, {})
    /\ UNCHANGED <<disabled, terminated>>

\* A pool that is disabled is looked for there, and only there.
RegistryRemove(p) ==
    /\ ~terminated /\ Addr[p] \in Addrs(Known)
    /\ IF Addr[p] \in Addrs(disabled)
       THEN disabled' = Others(disabled, p) /\ UNCHANGED enabled
       ELSE enabled' = Others(enabled, p) /\ UNCHANGED disabled
    /\ answer' = Answer(TRUE, {}, {}, {})
    /\ UNCHANGED terminated

\* The pool given replaces the one of its address, in Enable only if none is enabled.
RegistryDisable(p) ==
    /\ ~terminated /\ Addr[p] \in Addrs(enabled)
    /\ enabled' = Others(enabled, p)
    /\ disabled' = Others(disabled, p) \cup {p}
    /\ answer' = Answer(TRUE, {}, {}, {})
    /\ UNCHANGED terminated

RegistryEnable(p) ==
    /\ ~terminated /\ Addr[p] \in Addrs(disabled)
    /\ disabled' = Others(disabled, p)
    /\ IF Addr[p] \in Addrs(enabled)
       THEN answer' = Answer(FALSE, {}, {}, {}) /\ UNCHANGED enabled
       ELSE answer' = Answer(TRUE, {}, {}, {}) /\ enabled' = enabled \cup {p}
    /\ UNCHANGED terminated

RegistryRefuse ==
    /\ answer' = Answer(FALSE, {}, {}, {})
    /\ UNCHANGED <<enabled, disabled, terminated>>

RegistryTerminate ==
    /\ terminated' = TRUE /\ enabled' = {}
    /\ UNCHANGED <<disabled, answer>>

RegistryNext ==
    \/ \E ps \in Given, disable \in BOOLEAN : RegistryReset(ToSet(ps), disable)
    \/ \E p \in Pools :
          RegistryInsert(p) \/ RegistryRemove(p) \/ RegistryDisable(p) \/ RegistryEnable(p)
    \/ RegistryRefuse \/ RegistryTerminate

RegistrySpec == RegistryInit /\ [][RegistryNext]_<<enabled, disabled, terminated, answer>>
=============================================================================
