----------------------------- MODULE RaftServers ----------------------------
(* What the election model and the full cores share: who may vote. *)
EXTENDS Integers, FiniteSets

CONSTANTS
    Node,           \* the voting servers
    None,           \* no vote
    MaxTerm         \* largest term explored: uint64 in the code

ASSUME ElectionConstants ==
    /\ IsFiniteSet(Node)
    /\ None \notin Node
    /\ MaxTerm \in Nat

majority == Cardinality(Node) \div 2 + 1
=============================================================================
