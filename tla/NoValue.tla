------------------------------ MODULE NoValue ------------------------------
(* The value of a missing row, an empty slot or a Python None.             *)
CONSTANT None
=============================================================================
