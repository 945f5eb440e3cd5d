-------------------------- MODULE SnapshotHistory --------------------------
(***************************************************************************)
(* What the version history of a tenant promises: a commit adds one row    *)
(* whose parent is the version current at that moment and makes the new    *)
(* version current, in one step; a rollback makes an existing version      *)
(* current, its own or a foreign one, and adds nothing.                    *)
(***************************************************************************)
CONSTANTS Snaps, ForeignSnaps, None

VARIABLES rows,     \* the snapshots table: {[snap, parent]}
          pointer   \* the tenant's row of active_pointers, or None

Committed == {row.snap : row \in rows}

Init ==
  \/ rows = {} /\ pointer = None
  \/ \E s \in Snaps \ ForeignSnaps : rows = {[snap |-> s, parent |-> None]} /\ pointer = s

Commit(s) ==
  /\ s \notin Committed \cup ForeignSnaps
  /\ rows' = rows \cup {[snap |-> s, parent |-> pointer]}
  /\ pointer' = s

Rollback(s) ==
  /\ s \in Committed \cup ForeignSnaps
  /\ pointer' = s
  /\ UNCHANGED rows

Next == \E s \in Snaps : Commit(s) \/ Rollback(s)

Spec == Init /\ [][Next]_<<rows, pointer>>

=============================================================================
