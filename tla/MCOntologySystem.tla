-------------------------- MODULE MCOntologySystem -------------------------
(* Instances of OntologySystem for TLC.                                    *)
EXTENDS OntologySystem, TLC

DistinctNames == [r \in Rids |-> r]

Symmetry == Permutations(NodeIds) \cup Permutations(Users)
              \cup Permutations(Editors) \cup Permutations(Committers)
              \cup Permutations(Snaps \ ForeignSnaps)
=============================================================================
