-------------------------- MODULE OntologyEditing --------------------------
(***************************************************************************)
(* The editing half of OntologyServiceImpl: edit locks in Redis and the    *)
(* handlers that create, update, delete, submit and discard versions of    *)
(* an entity.  A handler awaits every Redis call and every Cypher          *)
(* statement, so requests interleave between them: a request is a record   *)
(* whose pc names the call it makes next, and each call is one action.  A  *)
(* request whose first check refuses it changes nothing and is not started.*)
(*                                                                         *)
(* Time is not modelled: a lock may expire in any state, so the calls that *)
(* only renew its TTL (refresh_lock, re-acquiring one's own lock) change   *)
(* nothing.                                                                *)
(***************************************************************************)
EXTENDS OntologyGraph

CONSTANTS Editors,   \* editing requests that can be in flight at once
          EditOps    \* which handlers the clients call

VARIABLES editLock,  \* Redis "ontology:lock:{rid}": its owner, or None
          edit       \* the request in flight in each slot

editVars == <<editLock, edit>>

AllEditOps == {"create", "update", "delete", "submit", "discard_draft",
               "discard_staging", "discard_all", "acquire", "release"}

ASSUME EditOpsAssumption == EditOps \subseteq AllEditOps

Calls == {"idle", "create_node", "get_draft", "get_staging", "get_active",
          "clone", "set_draft", "check_active", "mark", "delete_draft",
          "delete_staging", "set_staging", "drop_lock", "remove_staging",
          "find_staging", "to_draft", "discard_next"}

Request == [pc   : Calls,
            user : Users \cup {None},
            rid  : Rids \cup {None},
            src  : Node \cup {None},   \* the node an earlier call returned
            todo : SUBSET Rids]        \* entities discard_all has left to do

Idle == [pc |-> "idle", user |-> None, rid |-> None, src |-> None, todo |-> {}]

EditTypeOK ==
  /\ graph \in Graph
  /\ editLock \in [Rids -> Users \cup {None}]
  /\ edit \in [Editors -> Request]

----------------------------------------------------------------------------

At(e, pc) == edit[e].pc = pc

\* A request arrives in a free slot and makes its first call.
Begin(e, op, u, r, pc) ==
  /\ op \in EditOps
  /\ edit[e] = Idle
  /\ edit' = [edit EXCEPT ![e] = [Idle EXCEPT !.pc = pc, !.user = u, !.rid = r]]

Goto(e, pc) == edit' = [edit EXCEPT ![e].pc = pc]

GotoWith(e, pc, x) == edit' = [edit EXCEPT ![e].pc = pc, ![e].src = x]

Finish(e) == edit' = [edit EXCEPT ![e] = Idle]

\* What the three reads return: any match, as single() does with several.
Answers(S) == IF S = {} THEN {None} ELSE {graph[n] : n \in S}

----------------------------------------------------------------------------
(* create: check the name, then CREATE under a fresh rid.                  *)

CreateCheckName(e, u, r) ==
  /\ Of(graph, r) = {}
  /\ \A f \in Editors : edit[f].rid # r
  /\ ApiNameUnique(graph, r)
  /\ Begin(e, "create", u, r, "create_node")
  /\ UNCHANGED <<graph, editLock>>

CreateDraft(e, n) ==
  /\ At(e, "create_node")
  /\ ~Has(graph, n)
  /\ graph' = CreateNode(graph, n, NewDraft(edit[e].rid, edit[e].user))
  /\ Finish(e)
  /\ UNCHANGED editLock

(* update: check the lock, look for the caller's draft; without one clone  *)
(* the staged version, or else the current one.                            *)

UpdateRequireLock(e, u, r) ==
  /\ editLock[r] = u
  /\ Begin(e, "update", u, r, "get_draft")
  /\ UNCHANGED <<graph, editLock>>

UpdateGetDraft(e) ==
  /\ At(e, "get_draft")
  /\ Goto(e, IF DraftsOf(graph, edit[e].rid, edit[e].user) # {}
               THEN "set_draft" ELSE "get_staging")
  /\ UNCHANGED <<graph, editLock>>

\* Sets the business fields only.
UpdateDraft(e) ==
  /\ At(e, "set_draft")
  /\ Finish(e)
  /\ UNCHANGED <<graph, editLock>>

UpdateGetStaging(e) ==
  /\ At(e, "get_staging")
  /\ \E x \in Answers(StagingOf(graph, edit[e].rid)) :
       GotoWith(e, IF x # None THEN "clone" ELSE "get_active", x)
  /\ UNCHANGED <<graph, editLock>>

UpdateGetActive(e) ==
  /\ At(e, "get_active")
  /\ \E x \in Answers(ActivesOf(graph, edit[e].rid)) :
       IF x # None THEN GotoWith(e, "clone", x) ELSE Finish(e)
  /\ UNCHANGED <<graph, editLock>>

UpdateClone(e, n) ==
  /\ At(e, "clone")
  /\ ~Has(graph, n)
  /\ graph' = CreateNode(graph, n, CloneAsDraft(edit[e].src, edit[e].user))
  /\ Finish(e)
  /\ UNCHANGED editLock

(* delete: a current version gets a deletion marker; otherwise the         *)
(* caller's draft goes, or else the staged version.                        *)

DeleteRequireLock(e, u, r) ==
  /\ editLock[r] = u
  /\ Begin(e, "delete", u, r, "check_active")
  /\ UNCHANGED <<graph, editLock>>

DeleteGetActive(e) ==
  /\ At(e, "check_active")
  /\ \E x \in Answers(ActivesOf(graph, edit[e].rid)) :
       GotoWith(e, IF x # None THEN "mark" ELSE "delete_draft", x)
  /\ UNCHANGED <<graph, editLock>>

DeleteMark(e, n) ==
  /\ At(e, "mark")
  /\ ~Has(graph, n)
  /\ graph' = CreateNode(graph, n, DeletionMarker(edit[e].src, edit[e].user))
  /\ Finish(e)
  /\ UNCHANGED editLock

DeleteDraft(e) ==
  /\ At(e, "delete_draft")
  /\ LET own == DraftsOf(graph, edit[e].rid, edit[e].user) IN
       /\ graph' = DeleteNodes(graph, own)
       /\ IF own # {} THEN Finish(e) ELSE Goto(e, "delete_staging")
  /\ UNCHANGED editLock

\* A variant without the filter on is_staging.
DeleteEveryVersion(e) ==
  /\ At(e, "delete_staging")
  /\ graph' = DeleteNodes(graph, Of(graph, edit[e].rid))
  /\ Finish(e)
  /\ UNCHANGED editLock

DeleteStaging(e) ==
  /\ At(e, "delete_staging")
  /\ graph' = DeleteNodes(graph, StagingOf(graph, edit[e].rid))
  /\ Finish(e)
  /\ UNCHANGED editLock

----------------------------------------------------------------------------
(* submit_to_staging: no lock is required; the lock key is deleted         *)
(* whoever holds it.                                                       *)

SubmitGetDraft(e, u, r) ==
  /\ DraftsOf(graph, r, u) # {}
  /\ Begin(e, "submit", u, r, "set_staging")
  /\ UNCHANGED <<graph, editLock>>

SubmitDraft(e) ==
  /\ At(e, "set_staging")
  /\ graph' = DraftsToStaging(graph, edit[e].rid, edit[e].user)
  /\ IF DraftsOf(graph, edit[e].rid, edit[e].user) # {}
       THEN Goto(e, "drop_lock") ELSE Finish(e)
  /\ UNCHANGED editLock

DiscardDraft(e, u, r) ==
  /\ DraftsOf(graph, r, u) # {}
  /\ graph' = DeleteNodes(graph, DraftsOf(graph, r, u))
  /\ Begin(e, "discard_draft", u, r, "drop_lock")
  /\ UNCHANGED editLock

\* The last call of submit_to_staging, discard_draft and release_lock.
DropLock(e) ==
  /\ At(e, "drop_lock")
  /\ editLock' = [editLock EXCEPT ![edit[e].rid] = None]
  /\ Finish(e)
  /\ UNCHANGED graph

\* A variant that does not ask for the current version.
DiscardStagingUnchecked(e, u, r) ==
  /\ Begin(e, "discard_staging", u, r, "find_staging")
  /\ UNCHANGED <<graph, editLock>>

(* discard_staging: with a current version the staged one is deleted,      *)
(* otherwise it is turned back into a draft of the caller.                 *)

DiscardStagingGetActive(e, u, r) ==
  /\ Begin(e, "discard_staging", u, r,
           IF ActivesOf(graph, r) # {} THEN "remove_staging" ELSE "find_staging")
  /\ UNCHANGED <<graph, editLock>>

DiscardStagingRemove(e) ==
  /\ At(e, "remove_staging")
  /\ graph' = DeleteNodes(graph, StagingOf(graph, edit[e].rid))
  /\ Finish(e)
  /\ UNCHANGED editLock

DiscardStagingFind(e) ==
  /\ At(e, "find_staging")
  /\ IF StagingOf(graph, edit[e].rid) # {} THEN Goto(e, "to_draft") ELSE Finish(e)
  /\ UNCHANGED <<graph, editLock>>

DiscardStagingToDraft(e) ==
  /\ At(e, "to_draft")
  /\ graph' = AllToDraft(graph, edit[e].rid, edit[e].user)
  /\ Finish(e)
  /\ UNCHANGED editLock

(* discard_all_staging: list the staged entities, then delete the staged   *)
(* versions of each.                                                       *)

DiscardAllList(e) ==
  /\ "discard_all" \in EditOps
  /\ edit[e] = Idle
  /\ Staging(graph) # {}
  /\ edit' = [edit EXCEPT ![e].pc = "discard_next", ![e].todo = StagedRids(graph)]
  /\ UNCHANGED <<graph, editLock>>

DiscardAllNext(e, r) ==
  /\ At(e, "discard_next")
  /\ r \in edit[e].todo
  /\ graph' = DeleteNodes(graph, StagingOf(graph, r))
  /\ IF edit[e].todo = {r} THEN Finish(e)
       ELSE edit' = [edit EXCEPT ![e].todo = @ \ {r}]
  /\ UNCHANGED editLock

----------------------------------------------------------------------------
(* Locks: SET NX, and GET followed by DEL.                                 *)

\* A variant with key and value swapped.
AcquireLockSwapped(e, u, r) ==
  /\ "acquire" \in EditOps
  /\ edit[e] = Idle
  /\ editLock[r] = None
  /\ editLock' = [editLock EXCEPT ![r] = r]
  /\ UNCHANGED <<graph, edit>>

AcquireLock(e, u, r) ==
  /\ "acquire" \in EditOps
  /\ edit[e] = Idle
  /\ editLock[r] = None
  /\ editLock' = [editLock EXCEPT ![r] = u]
  /\ UNCHANGED <<graph, edit>>

ReleaseGetOwner(e, u, r) ==
  /\ editLock[r] = u
  /\ Begin(e, "release", u, r, "drop_lock")
  /\ UNCHANGED <<graph, editLock>>

LockExpires(r) ==
  /\ editLock[r] # None
  /\ editLock' = [editLock EXCEPT ![r] = None]
  /\ UNCHANGED <<graph, edit>>

\* The request dies between two calls: an exception, or its worker.
RequestDies(e) ==
  /\ edit[e] # Idle
  /\ Finish(e)
  /\ UNCHANGED <<graph, editLock>>

----------------------------------------------------------------------------

Arrival(e) ==
  \/ DiscardAllList(e)
  \/ \E u \in Users, r \in Rids :
       \/ CreateCheckName(e, u, r)
       \/ UpdateRequireLock(e, u, r)
       \/ DeleteRequireLock(e, u, r)
       \/ SubmitGetDraft(e, u, r)
       \/ DiscardDraft(e, u, r)
       \/ DiscardStagingGetActive(e, u, r)
       \/ AcquireLock(e, u, r)
       \/ ReleaseGetOwner(e, u, r)

NextCall(e) ==
  \/ UpdateGetDraft(e)
  \/ UpdateDraft(e)
  \/ UpdateGetStaging(e)
  \/ UpdateGetActive(e)
  \/ DeleteGetActive(e)
  \/ DeleteDraft(e)
  \/ DeleteStaging(e)
  \/ SubmitDraft(e)
  \/ DropLock(e)
  \/ DiscardStagingRemove(e)
  \/ DiscardStagingFind(e)
  \/ DiscardStagingToDraft(e)
  \/ \E r \in Rids : DiscardAllNext(e, r)
  \/ \E n \in NodeIds : CreateDraft(e, n) \/ UpdateClone(e, n) \/ DeleteMark(e, n)

EditNext ==
  \/ \E e \in Editors : Arrival(e) \/ NextCall(e) \/ RequestDies(e)
  \/ \E r \in Rids : LockExpires(r)

EditStart ==
  /\ editLock = [r \in Rids |-> None]
  /\ edit = [e \in Editors |-> Idle]

EditInit ==
  /\ \E at \in Placements, s \in Snaps : graph = FirstVersion(at, s)
  /\ EditStart

EditSpec == EditInit /\ [][EditNext]_<<graph, editVars>>

----------------------------------------------------------------------------

\* The stage flags exclude each other and the owner goes with the draft
\* flag: clones, submissions and discards of several requests never leave a
\* node that is both draft and staged, a draft nobody owns (no request
\* could ever submit or discard it) or an owned version others can see.
StagesExclusive ==
  \A n \in NodeIds : Has(graph, n) =>
    /\ ~(graph[n].is_draft /\ graph[n].is_staging)
    /\ graph[n].is_draft <=> graph[n].draft_owner # None

\* The base recorded for conflict detection is right in every unpublished
\* version, however often it went through staging and back: it is the
\* snapshot the version was cloned from, and the graph still holds the
\* entity's version of that snapshot.
BaseVersionKept ==
  \A n \in NodeIds : Has(graph, n) /\ ~IsPublished(graph[n]) =>
    /\ graph[n].parent_snapshot_id = graph[n].snapshot_id
    /\ graph[n].snapshot_id # None =>
         \E m \in Published(graph) : /\ graph[m].rid = graph[n].rid
                                     /\ graph[m].snapshot_id = graph[n].snapshot_id

\* Whatever editing requests do and wherever they die, the versions that
\* readers see stay as they are: publication alone changes them.  This is a
\* statement about tenants before their second publication; HistoricalKept
\* in OntologySystem asks the same of superseded versions.
EditsKeepPublished ==
  [][/\ Published(graph') = Published(graph)
     /\ \A n \in Published(graph) : graph'[n] = graph[n]]_graph

=============================================================================
