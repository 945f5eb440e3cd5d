------------------------- MODULE OntologyPublishing ------------------------
(***************************************************************************)
(* The publishing half of OntologyServiceImpl: commit_staging and          *)
(* rollback_to_snapshot over three stores.  Redis holds the commit lock,   *)
(* Neo4j the graph, PostgreSQL the snapshots table and the active pointer. *)
(* Each awaited call is one action.  What a PostgreSQL session has flushed *)
(* but not committed lives in the request's record until its commit.       *)
(***************************************************************************)
EXTENDS OntologyGraph, Naturals

CONSTANTS Committers,       \* publishing requests that can be in flight at once
          PublishOps,       \* which of the two handlers the clients call
          MaxRetries,       \* of retry_neo4j_operation
          Faults,           \* which failures the instance exhibits
          CommitsFitLease,  \* whether every commit ends within the lock's TTL
          ForeignSnaps      \* rows that other tenants have in the snapshots table

VARIABLES commitLock,  \* Redis "ontology:commit_lock:{tenant}", or None
          pub,         \* the request in flight in each slot
          rows,        \* the tenant's committed rows of snapshots
          pointer      \* committed active pointer, or None

pubVars == <<commitLock, pub, rows, pointer>>

ASSUME PublishAssumption ==
  /\ PublishOps \subseteq {"commit", "rollback"}
  /\ Faults \subseteq {"crash", "error", "transient"}
  /\ MaxRetries \in Nat
  /\ CommitsFitLease \in BOOLEAN
  /\ ForeignSnaps \subseteq Snaps
  /\ None \notin Committers

Kinds == {"create", "update", "delete"}

Changes == UNION {[S -> Kinds] : S \in SUBSET Rids}

Row == [snap : Snaps, parent : Snaps \cup {None}, changes : Changes]

GraphCalls == {"deactivate", "promote", "cleanup"}

\* A commit can fail from here on, until its PostgreSQL commit.
CommitCalls == {"read", "classify", "snapshot", "point"} \cup GraphCalls

RollbackCalls == {"find_target", "switch_off", "switch_on", "repoint"}

PubRequest ==
  [pc      : {"idle", "unlock"} \cup CommitCalls \cup RollbackCalls,
   snap    : Snaps \cup {None},  \* the new snapshot, or the rollback's target
   parent  : Snaps \cup {None},  \* the active pointer it read
   staged  : SUBSET [rid : Rids, is_active : BOOLEAN],
   changes : Changes,
   retries : 0..MaxRetries]

NoChanges == [r \in {} |-> "create"]

NoRequest == [pc |-> "idle", snap |-> None, parent |-> None, staged |-> {},
              changes |-> NoChanges, retries |-> 0]

PubTypeOK ==
  /\ commitLock \in Committers \cup {None}
  /\ pub \in [Committers -> PubRequest]
  /\ rows \subseteq Row
  /\ pointer \in Snaps \cup {None}

----------------------------------------------------------------------------

Committed == {row.snap : row \in rows}

\* generate_rid never returns an identifier in use anywhere.
FreshSnaps ==
  {s \in Snaps : /\ s \notin Committed \cup ForeignSnaps
                 /\ \A c \in Committers : pub[c].snap # s
                 /\ \A n \in NodeIds : Has(graph, n) => graph[n].snapshot_id # s}

Committing(c) == pub[c].pc \in CommitCalls \cup {"unlock"}

PubAt(c, pc) == pub[c].pc = pc

PubGoto(c, pc) == pub' = [pub EXCEPT ![c].pc = pc]

PubFinish(c) == pub' = [pub EXCEPT ![c] = NoRequest]

----------------------------------------------------------------------------
(* commit_staging.  The identifier of the new snapshot is drawn with the   *)
(* lock, which bounds the number of commits by the number of snapshots.    *)

\* A variant that sets the lock without NX.
CommitOverwriteLock(c, s) ==
  /\ "commit" \in PublishOps
  /\ pub[c] = NoRequest
  /\ s \in FreshSnaps
  /\ commitLock' = c
  /\ pub' = [pub EXCEPT ![c].pc = "read", ![c].snap = s]
  /\ UNCHANGED <<graph, rows, pointer>>

CommitAcquireLock(c, s) ==
  /\ "commit" \in PublishOps
  /\ pub[c] = NoRequest
  /\ commitLock = None
  /\ s \in FreshSnaps
  /\ commitLock' = c
  /\ pub' = [pub EXCEPT ![c].pc = "read", ![c].snap = s]
  /\ UNCHANGED <<graph, rows, pointer>>

CommitReadStaging(c) ==
  /\ PubAt(c, "read")
  /\ IF Staging(graph) = {}
       THEN PubGoto(c, "unlock")
       ELSE pub' = [pub EXCEPT ![c].pc = "classify",
                               ![c].staged = {[rid       |-> graph[n].rid,
                                               is_active |-> graph[n].is_active] :
                                              n \in Staging(graph)}]
  /\ UNCHANGED <<graph, commitLock, rows, pointer>>

ChangeOf(x) ==
  IF ~x.is_active THEN "delete"
  ELSE IF ActivesOf(graph, x.rid) # {} THEN "update" ELSE "create"

\* The dictionary is keyed by rid: the last staged node of an entity wins.
\* The lookups of the entities are taken at one instant.
CommitClassify(c) ==
  /\ PubAt(c, "classify")
  /\ \E f \in [{x.rid : x \in pub[c].staged} -> Kinds] :
       /\ \A r \in DOMAIN f : \E x \in pub[c].staged : x.rid = r /\ f[r] = ChangeOf(x)
       /\ pub' = [pub EXCEPT ![c].pc = "snapshot", ![c].changes = f,
                             ![c].staged = {}]
  /\ UNCHANGED <<graph, commitLock, rows, pointer>>

\* Reads the pointer and flushes the new row into the open transaction.
CommitCreateSnapshot(c) ==
  /\ PubAt(c, "snapshot")
  /\ pub' = [pub EXCEPT ![c].pc = "deactivate", ![c].parent = pointer]
  /\ UNCHANGED <<graph, commitLock, rows, pointer>>

\* A variant that promotes before it deactivates.
PromoteFirst(c) ==
  CASE PubAt(c, "deactivate") -> Promote(graph, pub[c].snap)
    [] PubAt(c, "promote")    -> Deactivate(graph)
    [] PubAt(c, "cleanup")    -> Cleanup(graph, pub[c].snap)

\* The statement of promote_staging_to_active that c runs next.
PromoteStatement(c) ==
  CASE PubAt(c, "deactivate") -> Deactivate(graph)
    [] PubAt(c, "promote")    -> Promote(graph, pub[c].snap)
    [] PubAt(c, "cleanup")    -> Cleanup(graph, pub[c].snap)

AfterStatement(c) ==
  CASE PubAt(c, "deactivate") -> "promote"
    [] PubAt(c, "promote")    -> "cleanup"
    [] PubAt(c, "cleanup")    -> "point"

CommitPromote(c) ==
  /\ pub[c].pc \in GraphCalls
  /\ graph' = PromoteStatement(c)
  /\ PubGoto(c, AfterStatement(c))
  /\ UNCHANGED <<commitLock, rows, pointer>>

\* Variants: one retry too many; giving up without an error.
CommitRetryOnceMore(c) ==
  /\ "transient" \in Faults
  /\ pub[c].pc \in GraphCalls
  /\ pub[c].retries <= MaxRetries
  /\ graph' \in {graph, PromoteStatement(c)}
  /\ pub' = [pub EXCEPT ![c].pc = "deactivate", ![c].retries = @ + 1]
  /\ UNCHANGED <<commitLock, rows, pointer>>

CommitGiveUp(c) ==
  /\ "transient" \in Faults
  /\ pub[c].pc \in GraphCalls
  /\ graph' \in {graph, PromoteStatement(c)}
  /\ PubGoto(c, "unlock")
  /\ UNCHANGED <<commitLock, rows, pointer>>

\* A transient error, after which Neo4j may or may not have run the
\* statement: the three statements start over.
CommitRetry(c) ==
  /\ "transient" \in Faults
  /\ pub[c].pc \in GraphCalls
  /\ pub[c].retries < MaxRetries
  /\ graph' \in {graph, PromoteStatement(c)}
  /\ pub' = [pub EXCEPT ![c].pc = "deactivate", ![c].retries = @ + 1]
  /\ UNCHANGED <<commitLock, rows, pointer>>

\* A variant that does not fill in the parent.
CommitPointNoParent(c) ==
  /\ PubAt(c, "point")
  /\ rows' = rows \cup {[snap    |-> pub[c].snap,
                         parent  |-> None,
                         changes |-> pub[c].changes]}
  /\ pointer' = pub[c].snap
  /\ PubGoto(c, "unlock")
  /\ UNCHANGED <<graph, commitLock>>

\* set_active_pointer and session.commit: row and pointer appear together.
CommitPoint(c) ==
  /\ PubAt(c, "point")
  /\ rows' = rows \cup {[snap    |-> pub[c].snap,
                         parent  |-> pub[c].parent,
                         changes |-> pub[c].changes]}
  /\ pointer' = pub[c].snap
  /\ PubGoto(c, "unlock")
  /\ UNCHANGED <<graph, commitLock>>

\* Any call raises (an error that is not retried, the retries are used up,
\* PostgreSQL refuses the commit): the session rolls back, finally unlocks.
CommitFails(c) ==
  /\ "error" \in Faults
  /\ pub[c].pc \in CommitCalls
  /\ PubGoto(c, "unlock")
  /\ UNCHANGED <<graph, commitLock, rows, pointer>>

\* finally: DEL, without asking whose lock it is.
CommitUnlock(c) ==
  /\ PubAt(c, "unlock")
  /\ commitLock' = None
  /\ PubFinish(c)
  /\ UNCHANGED <<graph, rows, pointer>>

----------------------------------------------------------------------------
(* rollback_to_snapshot: no lock, and no retry.                            *)

RollbackCheck(c, s) ==
  /\ "rollback" \in PublishOps
  /\ pub[c] = NoRequest
  /\ ~HasUncommittedChanges(graph)
  /\ pub' = [pub EXCEPT ![c].pc = "find_target", ![c].snap = s]
  /\ UNCHANGED <<graph, commitLock, rows, pointer>>

\* Variants: the target is not looked up; the target is switched off.
RollbackToAny(c) ==
  /\ PubAt(c, "find_target")
  /\ pub' = [pub EXCEPT ![c].pc = "switch_off", ![c].parent = pointer]
  /\ UNCHANGED <<graph, commitLock, rows, pointer>>

RollbackOffTarget(c) ==
  /\ PubAt(c, "switch_off")
  /\ graph' = SwitchOff(graph, pub[c].snap)
  /\ PubGoto(c, "switch_on")
  /\ UNCHANGED <<commitLock, rows, pointer>>

\* get_by_id, which does not ask for the tenant, and get_active_pointer.
RollbackFindTarget(c) ==
  /\ PubAt(c, "find_target")
  /\ IF pub[c].snap \in Committed \cup ForeignSnaps
       THEN pub' = [pub EXCEPT ![c].pc = "switch_off", ![c].parent = pointer]
       ELSE PubFinish(c)
  /\ UNCHANGED <<graph, commitLock, rows, pointer>>

RollbackSwitchOff(c) ==
  /\ PubAt(c, "switch_off")
  /\ graph' = SwitchOff(graph, pub[c].parent)
  /\ PubGoto(c, "switch_on")
  /\ UNCHANGED <<commitLock, rows, pointer>>

RollbackSwitchOn(c) ==
  /\ PubAt(c, "switch_on")
  /\ graph' = SwitchOn(graph, pub[c].snap)
  /\ PubGoto(c, "repoint")
  /\ UNCHANGED <<commitLock, rows, pointer>>

RollbackPoint(c) ==
  /\ PubAt(c, "repoint")
  /\ pointer' = pub[c].snap
  /\ PubFinish(c)
  /\ UNCHANGED <<graph, commitLock, rows>>

----------------------------------------------------------------------------

\* The worker dies, or a rollback raises: open transactions are rolled
\* back, a commit leaves its lock behind.
PublisherDies(c) ==
  /\ "crash" \in Faults
  /\ pub[c] # NoRequest
  /\ PubFinish(c)
  /\ UNCHANGED <<graph, commitLock, rows, pointer>>

\* A variant of a lock set without TTL.
CommitLockStays == FALSE /\ UNCHANGED <<graph, pubVars>>

\* Redis drops the lock after its TTL, which nothing renews.
CommitLockExpires ==
  /\ commitLock # None
  /\ CommitsFitLease => ~Committing(commitLock)
  /\ commitLock' = None
  /\ UNCHANGED <<graph, pub, rows, pointer>>

PublishArrival(c) == \E s \in Snaps : CommitAcquireLock(c, s) \/ RollbackCheck(c, s)

PublishCall(c) ==
  \/ CommitReadStaging(c)
  \/ CommitClassify(c)
  \/ CommitCreateSnapshot(c)
  \/ CommitPromote(c)
  \/ CommitRetry(c)
  \/ CommitPoint(c)
  \/ CommitFails(c)
  \/ CommitUnlock(c)
  \/ RollbackFindTarget(c)
  \/ RollbackSwitchOff(c)
  \/ RollbackSwitchOn(c)
  \/ RollbackPoint(c)

PublishNext ==
  \/ \E c \in Committers : PublishArrival(c) \/ PublishCall(c) \/ PublisherDies(c)
  \/ CommitLockExpires

PublishStart ==
  /\ commitLock = None
  /\ pub = [c \in Committers |-> NoRequest]

=============================================================================
