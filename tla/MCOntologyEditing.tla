------------------------- MODULE MCOntologyEditing -------------------------
(* Instances of OntologyEditing for TLC.                                   *)
EXTENDS OntologyEditing, TLC

\* All entities of the instance want the same name.
SameName == [r \in Rids |-> "name"]

Symmetry == Permutations(NodeIds) \cup Permutations(Users) \cup Permutations(Editors)
=============================================================================
