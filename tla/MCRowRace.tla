----------------------------- MODULE MCRowRace -----------------------------
(* Two CPUs, two nodes, and three connections of which one is accepted and  *)
(* two are connected; the more of them there are, the fewer sends and ACKs: *)
(* three on one connection, two with two, one with three.                   *)
EXTENDS RowRace, Functions, TLC

Traffic(s) == asked[s] + Len(samples[s])
Connections == Cardinality({s \in Sock : sockState[s] # "new"})
TrafficBound == FoldFunction(+, 0, [s \in Sock |-> Traffic(s)]) + Connections <= 4

Symmetry == Permutations(Cpu) \cup Permutations(Node) \cup Permutations(Sock \ Accepted)
=============================================================================
