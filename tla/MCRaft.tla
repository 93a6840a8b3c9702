------------------------------- MODULE MCRaft -------------------------------
(* Small instances of Raft for TLC. *)
EXTENDS Raft, TLC

CONSTANTS n1, n2, n3

\* Node ids may be permuted when all nodes are voters from the start.
Symmetry == Permutations(Server)

\* Calls fail, and there are more than two rounds, only once the last election has begun.
LateTrouble == failures > 0 \/ rounds > 2 => elections = MaxElections

\* One failed call or one restart.
OneTrouble == failures + restarts <= 1

\* A joining node, and a node that leaves.
JoinAndLeave == {Add(n3), Remove(n2)}

=============================================================================
