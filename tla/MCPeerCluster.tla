---------------------------- MODULE MCPeerCluster ----------------------------
(* Instances of PeerCluster for TLC: five pools at three addresses.          *)
EXTENDS PeerCluster

MCPools == 1..5
MCAddr == <<1, 1, 2, 2, 3>>
Slices == UNION {[1..n -> MCPools] : n \in 0..3}

\* Slices of pools at different addresses.
MCDistinct == {s \in Slices : \A i, k \in DOMAIN s : MCAddr[s[i]] = MCAddr[s[k]] => i = k}
\* Slices that may name an address twice.
MCRepeated == {s \in Slices : IsInjective(s)}
=============================================================================
