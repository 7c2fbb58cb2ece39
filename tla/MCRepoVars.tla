----------------------------- MODULE MCRepoVars -----------------------------
(* A small instance of RepoVars for TLC: two operators, two deployments and   *)
(* two contexts, one of which names BMT.                                      *)
EXTENDS RepoVars, TLC

CONSTANTS gate, build

MCOverrides == {Unset, [Unset EXCEPT ![Status] = Empty, ![Provider] = Empty]}
               \cup {[Unset EXCEPT ![Provider] = d, ![Status] = build] : d \in Deployments}

MCOperators == Permutations(Operators)
MCDeployments == Permutations(Deployments)
MCSymmetry == MCOperators \cup MCDeployments
=============================================================================
