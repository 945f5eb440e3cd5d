--------------------------- MODULE OntologyGraph ---------------------------
(***************************************************************************)
(* The ontology graph of one tenant and the Cypher statements that         *)
(* GraphRepository runs on it.  Every statement is one auto-commit         *)
(* transaction of Neo4j, hence one operator here that maps the graph       *)
(* before the statement to the graph after it.  All statements filter on   *)
(* the tenant, so one tenant is modelled.                                  *)
(*                                                                         *)
(* A version of an entity is a node.  Its business fields are abstracted:  *)
(* what is kept is what the versioning code tests and sets.                *)
(***************************************************************************)
EXTENDS FiniteSets

CONSTANTS NodeIds,  \* node identities the database can hand out
          Rids,     \* entities
          Users,
          Snaps,    \* snapshot identifiers
          None,     \* Python's None and Cypher's null
          ApiName   \* the api_name of an entity (immutable once created)

VARIABLE graph      \* the node stored under each identity, None if unused

Node == [rid                : Rids,
         is_draft           : BOOLEAN,
         is_staging         : BOOLEAN,
         is_active          : BOOLEAN,
         draft_owner        : Users \cup {None},
         snapshot_id        : Snaps \cup {None},
         parent_snapshot_id : Snaps \cup {None}]

Graph == [NodeIds -> Node \cup {None}]

ASSUME NoneAssumption ==
  /\ None \notin Users
  /\ None \notin Snaps
  /\ None \notin Rids
  /\ None \notin Node

----------------------------------------------------------------------------
(* What the MATCH clauses select.                                          *)

Has(g, n) == g[n] # None

Of(g, r) == {n \in NodeIds : Has(g, n) /\ g[n].rid = r}

DraftsOf(g, r, u) == {n \in Of(g, r) : g[n].is_draft /\ g[n].draft_owner = u}

Staging(g) == {n \in NodeIds : Has(g, n) /\ g[n].is_staging}

StagingOf(g, r) == Of(g, r) \cap Staging(g)

IsPublished(x) == ~x.is_draft /\ ~x.is_staging

\* Published nodes are the current version and the historical ones.
Published(g) == {n \in NodeIds : Has(g, n) /\ IsPublished(g[n])}

Actives(g) == {n \in Published(g) : g[n].is_active}

ActivesOf(g, r) == Of(g, r) \cap Actives(g)

HasUncommittedChanges(g) ==
  \E n \in NodeIds : Has(g, n) /\ (g[n].is_draft \/ g[n].is_staging)

\* check_api_name_unique looks at current versions only.
ApiNameUnique(g, r) == \A n \in Actives(g) : ApiName[g[n].rid] # ApiName[r]

----------------------------------------------------------------------------
(* What the CREATE, SET and DELETE clauses do.                             *)

CreateNode(g, n, x) == [g EXCEPT ![n] = x]

DeleteNodes(g, S) == [n \in NodeIds |-> IF n \in S THEN None ELSE g[n]]

NewDraft(r, u) == [rid |-> r, is_draft |-> TRUE, is_staging |-> FALSE,
                   is_active |-> TRUE, draft_owner |-> u,
                   snapshot_id |-> None, parent_snapshot_id |-> None]

\* A variant that forgets to record the base version.
CloneWithoutBase(x, u) == [x EXCEPT !.is_draft = TRUE, !.is_staging = FALSE,
                                    !.draft_owner = u]

\* dict(source) with the draft marks: the clone keeps the source's
\* snapshot_id and, unless overwritten, its is_active.
CloneAsDraft(x, u) == [x EXCEPT !.is_draft = TRUE, !.is_staging = FALSE,
                                !.draft_owner = u,
                                !.parent_snapshot_id = x.snapshot_id]

DeletionMarker(x, u) == [CloneAsDraft(x, u) EXCEPT !.is_active = FALSE]

\* A variant that forgets to clear the owner.
DraftsToStagingOwned(g, r, u) ==
  [n \in NodeIds |->
     IF n \in DraftsOf(g, r, u)
       THEN [g[n] EXCEPT !.is_draft = FALSE, !.is_staging = TRUE]
       ELSE g[n]]

\* update_node filtered on is_draft and draft_owner: every match is set.
DraftsToStaging(g, r, u) ==
  [n \in NodeIds |->
     IF n \in DraftsOf(g, r, u)
       THEN [g[n] EXCEPT !.is_draft = FALSE, !.is_staging = TRUE,
                         !.draft_owner = None]
       ELSE g[n]]

\* update_node without a filter: every version of the entity is set.
AllToDraft(g, r, u) ==
  [n \in NodeIds |->
     IF n \in Of(g, r)
       THEN [g[n] EXCEPT !.is_staging = FALSE, !.is_draft = TRUE,
                         !.draft_owner = u]
       ELSE g[n]]

StagedRids(g) == {g[n].rid : n \in Staging(g)}

\* The three statements of promote_staging_to_active, in order.
Deactivate(g) ==
  [n \in NodeIds |-> IF n \in Actives(g) /\ g[n].rid \in StagedRids(g)
                       THEN [g[n] EXCEPT !.is_active = FALSE]
                       ELSE g[n]]

Promote(g, s) ==
  [n \in NodeIds |-> IF n \in Staging(g)
                       THEN [g[n] EXCEPT !.is_staging = FALSE, !.snapshot_id = s]
                       ELSE g[n]]

\* Removes the promoted deletion markers.
Cleanup(g, s) ==
  DeleteNodes(g, {n \in NodeIds : /\ Has(g, n)
                                  /\ g[n].snapshot_id = s
                                  /\ ~g[n].is_active})

\* The two statements of rollback_to_snapshot.  Neither filters on the
\* stage, and a null snapshot_id equals nothing.
SwitchOff(g, s) ==
  [n \in NodeIds |-> IF Has(g, n) /\ s # None /\ g[n].snapshot_id = s
                       THEN [g[n] EXCEPT !.is_active = FALSE]
                       ELSE g[n]]

SwitchOn(g, s) ==
  [n \in NodeIds |-> IF Has(g, n) /\ s # None /\ g[n].snapshot_id = s
                       THEN [g[n] EXCEPT !.is_active = TRUE]
                       ELSE g[n]]

----------------------------------------------------------------------------
(* A tenant after its first publication: the entities created so far have  *)
(* one current version each, all of snapshot s.                            *)

ActiveNode(r, s) == [rid |-> r, is_draft |-> FALSE, is_staging |-> FALSE,
                     is_active |-> TRUE, draft_owner |-> None,
                     snapshot_id |-> s, parent_snapshot_id |-> None]

\* Where the entities' nodes are: at most one identity for each entity.
Placements == {at \in [NodeIds -> Rids \cup {None}] :
                 \A n, m \in NodeIds : at[n] = at[m] /\ at[n] # None => n = m}

FirstVersion(at, s) ==
  [n \in NodeIds |-> IF at[n] = None THEN None ELSE ActiveNode(at[n], s)]

=============================================================================
