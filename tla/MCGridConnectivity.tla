-------------------------- MODULE MCGridConnectivity --------------------------
(* Systems of up to four buses for GridConnectivity.                         *)
EXTENDS GridConnectivity

Branch(ends, inService) == [ends |-> ends, inService |-> inService]

MCIds == 1 .. 4

\* A ring and one diagonal, a branch that is out of service beside one that
\* would join the same buses, and a transformer with three windings.
MCBranches ==
    {Branch({1, 2}, TRUE), Branch({2, 3}, TRUE), Branch({3, 4}, TRUE),
     Branch({1, 4}, TRUE), Branch({1, 3}, TRUE), Branch({2, 4}, FALSE),
     Branch({3, 4}, FALSE), Branch({1, 2, 4}, TRUE)}
=============================================================================
