----------------------- MODULE OntologySystem_proofs -----------------------
(***************************************************************************)
(* Proofs about OntologySystem for any number of nodes, entities, users,   *)
(* snapshots and requests.                                                 *)
(*                                                                         *)
(* SoundInv is the type invariant made inductive: what a request uses      *)
(* after an await has the type it had before.  On top of it come the two   *)
(* invariants of publishing, LockInv for the commit lock and the version   *)
(* history, OriginInv for the snapshots that nodes refer to.               *)
(***************************************************************************)
EXTENDS OntologySystem, TLAPS

SoundNode(x) == /\ ~(x.is_draft /\ x.is_staging)
                /\ x.is_draft <=> x.draft_owner # None

SoundGraph(g) == g \in Graph /\ \A n \in NodeIds : Has(g, n) => SoundNode(g[n])

SoundRequest(q) ==
  /\ q \in Request
  /\ q.pc \notin {"idle", "discard_next"} => q.user \in Users /\ q.rid \in Rids
  /\ q.pc \in {"clone", "mark"} => q.src \in Node

SoundEdit == /\ editLock \in [Rids -> Users \cup {None}]
             /\ edit \in [Editors -> Request]
             /\ \A e \in Editors : SoundRequest(edit[e])

SoundPub == /\ PubTypeOK
            /\ \A c \in Committers : pub[c].pc # "idle" => pub[c].snap \in Snaps

SoundInv == SoundGraph(graph) /\ SoundEdit /\ SoundPub

----------------------------------------------------------------------------
(* What the Cypher statements preserve.                                    *)

\* Creating a sound node.
LEMMA CreateSound ==
  ASSUME NEW g, SoundGraph(g), NEW n \in NodeIds, NEW x \in Node, SoundNode(x)
  PROVE  SoundGraph(CreateNode(g, n, x))
BY DEF CreateNode, SoundGraph, Graph, Has

\* Deleting nodes.
LEMMA DeleteSound ==
  ASSUME NEW g, SoundGraph(g), NEW S
  PROVE  SoundGraph(DeleteNodes(g, S))
BY DEF DeleteNodes, SoundGraph, Graph, Has

\* The nodes that create, update and delete put into the graph.
LEMMA NewDraftSound ==
  ASSUME NEW u \in Users, NEW r \in Rids
  PROVE  NewDraft(r, u) \in Node /\ SoundNode(NewDraft(r, u))
BY NoneAssumption DEF NewDraft, Node, SoundNode

LEMMA CloneSound ==
  ASSUME NEW x \in Node, NEW u \in Users
  PROVE  /\ CloneAsDraft(x, u) \in Node /\ SoundNode(CloneAsDraft(x, u))
         /\ DeletionMarker(x, u) \in Node /\ SoundNode(DeletionMarker(x, u))
<1>1. CloneAsDraft(x, u) \in Node /\ SoundNode(CloneAsDraft(x, u))
  BY NoneAssumption DEF CloneAsDraft, Node, SoundNode
<1>2. DeletionMarker(x, u) \in Node /\ SoundNode(DeletionMarker(x, u))
  <2> HIDE DEF CloneAsDraft
  <2> QED
    BY <1>1 DEF DeletionMarker, Node, SoundNode
<1> QED
  BY <1>1, <1>2

\* Submitting the drafts of a user, and turning all versions into drafts.
LEMMA RestageSound ==
  ASSUME NEW g, SoundGraph(g), NEW r, NEW u \in Users
  PROVE  SoundGraph(DraftsToStaging(g, r, u)) /\ SoundGraph(AllToDraft(g, r, u))
<1>1. ASSUME NEW x \in Node, SoundNode(x)
      PROVE  LET y == [x EXCEPT !.is_draft = FALSE, !.is_staging = TRUE,
                                !.draft_owner = None]
                 z == [x EXCEPT !.is_staging = FALSE, !.is_draft = TRUE,
                                !.draft_owner = u]
             IN  y \in Node /\ SoundNode(y) /\ z \in Node /\ SoundNode(z)
  BY <1>1, NoneAssumption DEF Node, SoundNode
<1>2. \A n \in DraftsOf(g, r, u) \cup Of(g, r) :
        n \in NodeIds /\ Has(g, n) /\ g[n] \in Node /\ SoundNode(g[n])
  BY DEF DraftsOf, Of, Has, SoundGraph, Graph
<1>3. SoundGraph(DraftsToStaging(g, r, u))
  <2> DEFINE new(n) == [g[n] EXCEPT !.is_draft = FALSE, !.is_staging = TRUE,
                                    !.draft_owner = None]
  <2>1. \A n \in DraftsOf(g, r, u) : new(n) \in Node /\ SoundNode(new(n))
    BY <1>1, <1>2
  <2>2. DraftsToStaging(g, r, u) =
          [n \in NodeIds |-> IF n \in DraftsOf(g, r, u) THEN new(n) ELSE g[n]]
    BY DEF DraftsToStaging
  <2> HIDE DEF new
  <2> QED
    BY <1>2, <2>1, <2>2 DEF SoundGraph, Graph, Has
<1>4. SoundGraph(AllToDraft(g, r, u))
  <2> DEFINE new(n) == [g[n] EXCEPT !.is_staging = FALSE, !.is_draft = TRUE,
                                    !.draft_owner = u]
  <2>1. \A n \in Of(g, r) : new(n) \in Node /\ SoundNode(new(n))
    BY <1>1, <1>2
  <2>2. AllToDraft(g, r, u) =
          [n \in NodeIds |-> IF n \in Of(g, r) THEN new(n) ELSE g[n]]
    BY DEF AllToDraft
  <2> HIDE DEF new
  <2> QED
    BY <1>2, <2>1, <2>2 DEF SoundGraph, Graph, Has
<1> QED
  BY <1>3, <1>4

\* The statements of promote_staging_to_active.
LEMMA PromoteSound ==
  ASSUME NEW g, SoundGraph(g), NEW s \in Snaps
  PROVE  SoundGraph(Deactivate(g)) /\ SoundGraph(Promote(g, s)) /\ SoundGraph(Cleanup(g, s))
<1>1. ASSUME NEW x \in Node, SoundNode(x)
      PROVE  LET y == [x EXCEPT !.is_active = FALSE]
                 z == [x EXCEPT !.is_staging = FALSE, !.snapshot_id = s]
             IN  y \in Node /\ SoundNode(y) /\ z \in Node /\ (x.is_staging => SoundNode(z))
  BY <1>1 DEF Node, SoundNode
<1>2. \A n \in Actives(g) \cup Staging(g) : /\ n \in NodeIds /\ Has(g, n)
                                            /\ g[n] \in Node /\ SoundNode(g[n])
  BY DEF Actives, Published, Staging, Has, SoundGraph, Graph
<1>3. SoundGraph(Deactivate(g))
  <2> DEFINE new(n) == [g[n] EXCEPT !.is_active = FALSE]
             S == {n \in Actives(g) : g[n].rid \in StagedRids(g)}
  <2>1. \A n \in S : new(n) \in Node /\ SoundNode(new(n))
    BY <1>1, <1>2
  <2>2. \A n \in NodeIds : Deactivate(g)[n] = IF n \in S THEN new(n) ELSE g[n]
    BY DEF Deactivate
  <2>3. Deactivate(g) = [n \in NodeIds |-> Deactivate(g)[n]]
    BY DEF Deactivate
  <2> HIDE DEF new, S
  <2> QED
    BY <2>1, <2>2, <2>3 DEF SoundGraph, Graph, Has
<1>4. SoundGraph(Promote(g, s))
  <2> DEFINE new(n) == [g[n] EXCEPT !.is_staging = FALSE, !.snapshot_id = s]
  <2>1. \A n \in Staging(g) : new(n) \in Node /\ SoundNode(new(n))
    BY <1>1, <1>2 DEF Staging
  <2>2. Promote(g, s) = [n \in NodeIds |-> IF n \in Staging(g) THEN new(n) ELSE g[n]]
    BY DEF Promote
  <2> HIDE DEF new
  <2> QED
    BY <2>1, <2>2 DEF SoundGraph, Graph, Has
<1> QED
  BY <1>3, <1>4, DeleteSound DEF Cleanup

\* The statements of rollback_to_snapshot.
LEMMA SwitchSound ==
  ASSUME NEW g, SoundGraph(g), NEW s
  PROVE  SoundGraph(SwitchOff(g, s)) /\ SoundGraph(SwitchOn(g, s))
<1>1. ASSUME NEW n \in NodeIds, Has(g, n), NEW b \in BOOLEAN
      PROVE  LET y == [g[n] EXCEPT !.is_active = b] IN y \in Node /\ SoundNode(y)
  <2>1. g[n] \in Node /\ SoundNode(g[n])
    BY <1>1 DEF SoundGraph, Graph, Has
  <2> QED
    BY <2>1 DEF Node, SoundNode
<1> DEFINE S == {n \in NodeIds : Has(g, n) /\ s # None /\ g[n].snapshot_id = s}
           new(n, b) == [g[n] EXCEPT !.is_active = b]
<1>2. \A n \in S, b \in BOOLEAN : new(n, b) \in Node /\ SoundNode(new(n, b))
  BY <1>1
<1>3. /\ SwitchOff(g, s) = [n \in NodeIds |-> IF n \in S THEN new(n, FALSE) ELSE g[n]]
      /\ SwitchOn(g, s) = [n \in NodeIds |-> IF n \in S THEN new(n, TRUE) ELSE g[n]]
  BY DEF SwitchOff, SwitchOn
<1> HIDE DEF S, new
<1> QED
  BY <1>2, <1>3 DEF SoundGraph, Graph, Has

----------------------------------------------------------------------------
(* Type correctness.                                                       *)

LEMMA SoundInvTypes == SoundInv => TypeOK
BY DEF SoundInv, SoundGraph, SoundEdit, SoundPub, TypeOK, EditTypeOK

\* A dictionary of changes of some entities.
LEMMA ChangesTyped ==
  ASSUME NEW D \in SUBSET Rids, NEW f \in [D -> Kinds]
  PROVE  f \in Changes
<1>1. [D -> Kinds] \in {[S -> Kinds] : S \in SUBSET Rids}
  OBVIOUS
<1> QED
  BY <1>1 DEF Changes

\* An idle slot.
LEMMA NoRequestTyped == NoRequest \in PubRequest
<1>1. NoChanges \in Changes
  <2>1. NoChanges \in [{} -> Kinds]
    BY DEF NoChanges
  <2> QED
    BY <2>1, ChangesTyped
<1>2. 0 \in 0..MaxRetries
  BY PublishAssumption
<1> QED
  BY <1>1, <1>2 DEF NoRequest, PubRequest

LEMMA InitSound == Init => SoundInv
<1> SUFFICES ASSUME Init PROVE SoundInv
  OBVIOUS
<1> PICK at \in Placements, s \in Snaps :
      LET created == {at[n] : n \in NodeIds} \ {None} IN
      /\ graph = FirstVersion(at, s)
      /\ IF created = {}
           THEN rows = {} /\ pointer = None
           ELSE /\ rows = {[snap |-> s, parent |-> None,
                            changes |-> [r \in created |-> "create"]]}
                /\ pointer = s
  BY DEF Init
<1>1. SoundGraph(graph)
  <2>1. \A n \in NodeIds : at[n] # None =>
          ActiveNode(at[n], s) \in Node /\ SoundNode(ActiveNode(at[n], s))
    BY DEF Placements, ActiveNode, Node, SoundNode
  <2> QED
    BY <2>1 DEF FirstVersion, SoundGraph, Graph, Has
<1>2. SoundEdit
  <2>1. Idle \in Request /\ SoundRequest(Idle)
    BY DEF Idle, Request, Calls, SoundRequest
  <2> QED
    BY <2>1 DEF Init, EditStart, SoundEdit
<1>3. SoundPub
  <2> DEFINE created == {at[n] : n \in NodeIds} \ {None}
  <2>1. created \subseteq Rids
    BY DEF Placements
  <2>2. [r \in created |-> "create"] \in Changes
    BY <2>1, ChangesTyped DEF Kinds
  <2>3. rows \subseteq Row /\ pointer \in Snaps \cup {None}
    <3>1. CASE created = {}
      BY <3>1
    <3>2. CASE created # {}
      <4>1. [snap |-> s, parent |-> None, changes |-> [r \in created |-> "create"]] \in Row
        BY <2>2 DEF Row
      <4> QED
        BY <3>2, <4>1
    <3> QED
      BY <3>1, <3>2
  <2>4. commitLock \in Committers \cup {None} /\ pub \in [Committers -> PubRequest]
    BY NoRequestTyped DEF Init, PublishStart
  <2>5. \A c \in Committers : pub[c].pc = "idle"
    BY DEF Init, PublishStart, NoRequest
  <2> QED
    BY <2>3, <2>4, <2>5 DEF SoundPub, PubTypeOK
<1> QED
  BY <1>1, <1>2, <1>3 DEF SoundInv

\* The ways a request goes on keep its record sound.
LEMMA SlotSound ==
  ASSUME SoundEdit, NEW e \in Editors, NEW q, SoundRequest(q),
         edit' = [edit EXCEPT ![e] = q],
         editLock' \in [Rids -> Users \cup {None}]
  PROVE  SoundEdit'
BY DEF SoundEdit, SoundRequest

LEMMA FinishSound ==
  ASSUME SoundEdit, NEW e \in Editors, Finish(e),
         editLock' \in [Rids -> Users \cup {None}]
  PROVE  SoundEdit'
<1>1. SoundRequest(Idle)
  BY DEF SoundRequest, Idle, Request, Calls
<1> QED
  BY <1>1, SlotSound DEF Finish

LEMMA GotoSound ==
  ASSUME SoundEdit, NEW e \in Editors, NEW pc \in Calls, Goto(e, pc),
         edit[e].pc \notin {"idle", "discard_next"}, pc \notin {"clone", "mark"},
         editLock' \in [Rids -> Users \cup {None}]
  PROVE  SoundEdit'
<1> DEFINE q == [edit[e] EXCEPT !.pc = pc]
<1>1. SoundRequest(q)
  BY DEF SoundEdit, SoundRequest, Request
<1>2. edit' = [edit EXCEPT ![e] = q]
  BY DEF Goto
<1> QED
  BY <1>1, <1>2, SlotSound

LEMMA ReadSound ==
  ASSUME SoundEdit, SoundGraph(graph), NEW e \in Editors, NEW pc \in Calls,
         NEW r, NEW S \in SUBSET Of(graph, r), NEW x \in Answers(S), GotoWith(e, pc, x),
         edit[e].pc \notin {"idle", "discard_next"},
         pc \in {"clone", "mark"} => x # None,
         editLock' \in [Rids -> Users \cup {None}]
  PROVE  SoundEdit'
<1> DEFINE q == [edit[e] EXCEPT !.pc = pc, !.src = x]
<1>1. x \in Node \cup {None}
  BY DEF Answers, Of, Has, SoundGraph, Graph
<1>2. edit[e] \in Request /\ SoundRequest(edit[e])
  BY DEF SoundEdit
<1>3. SoundRequest(q)
  BY <1>1, <1>2 DEF SoundRequest, Request
<1>4. edit' = [edit EXCEPT ![e] = q]
  BY <1>2 DEF GotoWith, Request, SoundEdit
<1> QED
  BY <1>3, <1>4, SlotSound

LEMMA BeginSound ==
  ASSUME SoundEdit, NEW e \in Editors, NEW op, NEW u \in Users, NEW r \in Rids,
         NEW pc \in Calls, Begin(e, op, u, r, pc), pc \notin {"clone", "mark"},
         editLock' \in [Rids -> Users \cup {None}]
  PROVE  SoundEdit'
<1> DEFINE q == [Idle EXCEPT !.pc = pc, !.user = u, !.rid = r]
<1>1. SoundRequest(q)
  BY DEF SoundRequest, Idle, Request
<1> QED
  BY <1>1, SlotSound DEF Begin

\* Calls that start an editing request.
LEMMA ArrivalSound ==
  ASSUME SoundGraph(graph), SoundEdit, NEW e \in Editors, Arrival(e)
  PROVE  SoundGraph(graph') /\ SoundEdit'
<1>1. editLock \in [Rids -> Users \cup {None}] /\ edit \in [Editors -> Request]
  BY DEF SoundEdit
<1>2. CASE DiscardAllList(e)
  <2> DEFINE q == [Idle EXCEPT !.pc = "discard_next", !.todo = StagedRids(graph)]
  <2>1. StagedRids(graph) \subseteq Rids
    BY DEF StagedRids, Staging, Has, SoundGraph, Graph, Node
  <2>2. SoundRequest(q)
    BY <2>1 DEF SoundRequest, Idle, Request, Calls
  <2>3. edit' = [edit EXCEPT ![e] = q]
    BY <1>1, <1>2 DEF DiscardAllList
  <2> QED
    BY <1>1, <1>2, <2>2, <2>3, SlotSound DEF DiscardAllList
<1>3. ASSUME NEW u \in Users, NEW r \in Rids,
             \/ CreateCheckName(e, u, r)
             \/ UpdateRequireLock(e, u, r)
             \/ DeleteRequireLock(e, u, r)
             \/ SubmitGetDraft(e, u, r)
             \/ DiscardDraft(e, u, r)
             \/ DiscardStagingGetActive(e, u, r)
             \/ ReleaseGetOwner(e, u, r)
      PROVE  SoundGraph(graph') /\ SoundEdit'
  <2>1. /\ UNCHANGED editLock
        /\ \/ UNCHANGED graph
           \/ graph' = DeleteNodes(graph, DraftsOf(graph, r, u))
        /\ \E op, pc : Begin(e, op, u, r, pc) /\ pc \in Calls \ {"clone", "mark"}
    BY <1>3 DEF CreateCheckName, UpdateRequireLock, DeleteRequireLock, SubmitGetDraft,
                DiscardDraft, DiscardStagingGetActive, ReleaseGetOwner, Calls
  <2> QED
    BY <1>1, <2>1, DeleteSound, BeginSound
<1>4. ASSUME NEW u \in Users, NEW r \in Rids, AcquireLock(e, u, r)
      PROVE  SoundGraph(graph') /\ SoundEdit'
  BY <1>1, <1>4 DEF AcquireLock, SoundEdit
<1> QED
  BY <1>2, <1>3, <1>4 DEF Arrival

\* Later calls of an editing request.
LEMMA CallSound ==
  ASSUME SoundGraph(graph), SoundEdit, NEW e \in Editors, NextCall(e)
  PROVE  SoundGraph(graph') /\ SoundEdit'
<1> DEFINE r == edit[e].rid
           u == edit[e].user
<1>1. /\ editLock \in [Rids -> Users \cup {None}]
      /\ edit \in [Editors -> Request]
      /\ edit[e].pc \notin {"idle", "discard_next"} => u \in Users /\ r \in Rids
      /\ edit[e].pc \in {"clone", "mark"} => edit[e].src \in Node
  BY DEF SoundEdit, SoundRequest
<1>2. CASE UpdateGetDraft(e) \/ DiscardStagingFind(e)
  <2>1. /\ UNCHANGED <<graph, editLock>>
        /\ edit[e].pc \notin {"idle", "discard_next"}
        /\ \/ Finish(e)
           \/ \E pc \in Calls \ {"clone", "mark"} : Goto(e, pc)
    BY <1>2 DEF UpdateGetDraft, DiscardStagingFind, At, Calls
  <2> QED
    BY <1>1, <2>1, FinishSound, GotoSound
<1>3. CASE UpdateGetStaging(e) \/ UpdateGetActive(e) \/ DeleteGetActive(e)
  <2>1. \/ Finish(e)
        \/ \E S \in SUBSET Of(graph, r) : \E x \in Answers(S), pc \in Calls :
             /\ pc \in {"clone", "mark"} => x # None
             /\ GotoWith(e, pc, x)
    <3>1. StagingOf(graph, r) \subseteq Of(graph, r) /\ ActivesOf(graph, r) \subseteq Of(graph, r)
      BY DEF StagingOf, ActivesOf
    <3>2. {"clone", "mark", "get_active", "delete_draft"} \subseteq Calls
      BY DEF Calls
    <3>3. CASE UpdateGetStaging(e)
      BY <3>1, <3>2, <3>3 DEF UpdateGetStaging
    <3>4. CASE UpdateGetActive(e)
      <4> PICK x \in Answers(ActivesOf(graph, r)) :
            IF x # None THEN GotoWith(e, "clone", x) ELSE Finish(e)
        BY <3>4 DEF UpdateGetActive
      <4>1. CASE x # None
        BY <3>1, <3>2, <4>1
      <4>2. CASE x = None
        BY <3>1, <3>2, <4>2
      <4> QED
        BY <4>1, <4>2
    <3>5. CASE DeleteGetActive(e)
      BY <3>1, <3>2, <3>5 DEF DeleteGetActive
    <3> QED
      BY <1>3, <3>3, <3>4, <3>5
  <2>2. UNCHANGED <<graph, editLock>> /\ edit[e].pc \notin {"idle", "discard_next"}
    BY <1>3 DEF UpdateGetStaging, UpdateGetActive, DeleteGetActive, At
  <2> QED
    BY <1>1, <2>1, <2>2, FinishSound, ReadSound
<1>4. CASE UpdateDraft(e) \/ DropLock(e)
  BY <1>1, <1>4, FinishSound DEF UpdateDraft, DropLock
<1>5. CASE DeleteDraft(e) \/ DeleteStaging(e) \/ DiscardStagingRemove(e)
  <2>1. /\ UNCHANGED editLock
        /\ \E S : graph' = DeleteNodes(graph, S)
        /\ edit[e].pc \notin {"idle", "discard_next"}
        /\ Finish(e) \/ Goto(e, "delete_staging")
    BY <1>5 DEF DeleteDraft, DeleteStaging, DiscardStagingRemove, At
  <2>2. "delete_staging" \in Calls
    BY DEF Calls
  <2> QED
    BY <1>1, <2>1, <2>2, DeleteSound, FinishSound, GotoSound
<1>6. CASE SubmitDraft(e) \/ DiscardStagingToDraft(e)
  <2>1. /\ UNCHANGED editLock
        /\ \/ graph' = DraftsToStaging(graph, r, u)
           \/ graph' = AllToDraft(graph, r, u)
        /\ edit[e].pc \notin {"idle", "discard_next"}
        /\ Finish(e) \/ Goto(e, "drop_lock")
    BY <1>6 DEF SubmitDraft, DiscardStagingToDraft, At
  <2>2. "drop_lock" \in Calls
    BY DEF Calls
  <2> QED
    BY <1>1, <2>1, <2>2, RestageSound, FinishSound, GotoSound
<1>7. ASSUME NEW s \in Rids, DiscardAllNext(e, s)
      PROVE  SoundGraph(graph') /\ SoundEdit'
  <2> DEFINE q == [edit[e] EXCEPT !.todo = @ \ {s}]
  <2>1. SoundGraph(graph') /\ UNCHANGED editLock
    BY <1>7, DeleteSound DEF DiscardAllNext
  <2>2. CASE Finish(e)
    BY <1>1, <2>1, <2>2, FinishSound
  <2>3. CASE edit' = [edit EXCEPT ![e].todo = @ \ {s}]
    <3>1. SoundRequest(q) /\ edit' = [edit EXCEPT ![e] = q]
      BY <1>1, <1>7, <2>3 DEF DiscardAllNext, At, SoundRequest, Request
    <3> QED
      BY <1>1, <2>1, <3>1, SlotSound
  <2> QED
    BY <1>7, <2>2, <2>3 DEF DiscardAllNext
<1>8. ASSUME NEW n \in NodeIds, CreateDraft(e, n) \/ UpdateClone(e, n) \/ DeleteMark(e, n)
      PROVE  SoundGraph(graph') /\ SoundEdit'
  <2>2. Finish(e) /\ UNCHANGED editLock
    BY <1>8 DEF CreateDraft, UpdateClone, DeleteMark
  <2>3. \E y \in Node : SoundNode(y) /\ graph' = CreateNode(graph, n, y)
    BY <1>1, <1>8, NewDraftSound, CloneSound DEF CreateDraft, UpdateClone, DeleteMark, At
  <2> QED
    BY <1>1, <2>2, <2>3, CreateSound, FinishSound
<1> QED
  BY <1>2, <1>3, <1>4, <1>5, <1>6, <1>7, <1>8 DEF NextCall

LEMMA EditStepSound ==
  ASSUME SoundInv, EditStep
  PROVE  SoundInv'
<1>1. SoundGraph(graph) /\ SoundEdit /\ SoundPub'
  BY DEF SoundInv, EditStep, SoundPub, PubTypeOK, pubVars
<1>2. SoundGraph(graph') /\ SoundEdit'
  <2>1. ASSUME NEW e \in Editors, RequestDies(e) PROVE SoundGraph(graph') /\ SoundEdit'
    BY <1>1, <2>1, FinishSound DEF RequestDies, SoundEdit
  <2>2. ASSUME NEW r \in Rids, LockExpires(r) PROVE SoundGraph(graph') /\ SoundEdit'
    BY <1>1, <2>2 DEF LockExpires, SoundEdit
  <2> QED
    BY <1>1, <2>1, <2>2, ArrivalSound, CallSound DEF EditStep, EditNext
<1> QED
  BY <1>1, <1>2 DEF SoundInv

\* The ways a publishing request goes on keep its record sound.
LEMMA PubSlotSound ==
  ASSUME SoundPub, NEW c \in Committers, NEW q \in PubRequest,
         q.pc # "idle" => q.snap \in Snaps, pub' = [pub EXCEPT ![c] = q],
         commitLock' \in Committers \cup {None}, rows' \subseteq Row,
         pointer' \in Snaps \cup {None}
  PROVE  SoundPub'
BY DEF SoundPub, PubTypeOK

LEMMA PubFinishSound ==
  ASSUME SoundPub, NEW c \in Committers, PubFinish(c),
         commitLock' \in Committers \cup {None}, rows' \subseteq Row,
         pointer' \in Snaps \cup {None}
  PROVE  SoundPub'
<1>1. NoRequest.pc = "idle"
  BY DEF NoRequest
<1> QED
  BY <1>1, NoRequestTyped, PubSlotSound DEF PubFinish

LEMMA PubGotoSound ==
  ASSUME SoundPub, NEW c \in Committers, pub[c].pc # "idle",
         NEW pc \in {"unlock"} \cup CommitCalls \cup RollbackCalls, PubGoto(c, pc),
         commitLock' \in Committers \cup {None}, rows' \subseteq Row,
         pointer' \in Snaps \cup {None}
  PROVE  SoundPub'
<1> DEFINE q == [pub[c] EXCEPT !.pc = pc]
<1>1. pub[c] \in PubRequest /\ pub[c].snap \in Snaps
  BY DEF SoundPub, PubTypeOK
<1>2. q \in PubRequest /\ q.snap \in Snaps
  BY <1>1 DEF PubRequest
<1>3. pub' = [pub EXCEPT ![c] = q]
  BY DEF PubGoto
<1> QED
  BY <1>2, <1>3, PubSlotSound

\* Calls of commit_staging.
LEMMA CommitSound ==
  ASSUME SoundGraph(graph), SoundPub, NEW c \in Committers,
         \/ \E s \in Snaps : CommitAcquireLock(c, s)
         \/ CommitReadStaging(c)
         \/ CommitClassify(c)
         \/ CommitCreateSnapshot(c)
         \/ CommitPromote(c)
         \/ CommitRetry(c)
         \/ CommitPoint(c)
         \/ CommitFails(c)
         \/ CommitUnlock(c)
  PROVE  SoundGraph(graph') /\ SoundPub'
<1>1. /\ commitLock \in Committers \cup {None} /\ rows \subseteq Row
      /\ pointer \in Snaps \cup {None} /\ pub \in [Committers -> PubRequest]
      /\ pub[c] \in PubRequest
      /\ pub[c].pc # "idle" => pub[c].snap \in Snaps
  BY DEF SoundPub, PubTypeOK
<1>2. ASSUME NEW s \in Snaps, CommitAcquireLock(c, s)
      PROVE  SoundGraph(graph') /\ SoundPub'
  <2> DEFINE q == [NoRequest EXCEPT !.pc = "read", !.snap = s]
  <2>1. q \in PubRequest /\ q.snap \in Snaps
    BY NoRequestTyped DEF PubRequest, CommitCalls
  <2>2. pub' = [pub EXCEPT ![c] = q]
    BY <1>1, <1>2 DEF CommitAcquireLock
  <2> HIDE DEF q
  <2> QED
    BY <1>1, <1>2, <2>1, <2>2, PubSlotSound DEF CommitAcquireLock
<1>3. CASE CommitReadStaging(c)
  <2> DEFINE S == {[rid |-> graph[n].rid, is_active |-> graph[n].is_active] :
                     n \in Staging(graph)}
             q == [pub[c] EXCEPT !.pc = "classify", !.staged = S]
  <2>1. pub[c].pc = "read" /\ UNCHANGED <<graph, commitLock, rows, pointer>>
    BY <1>3 DEF CommitReadStaging, PubAt
  <2>2. CASE PubGoto(c, "unlock")
    BY <1>1, <2>1, <2>2, PubGotoSound
  <2>3. CASE pub' = [pub EXCEPT ![c].pc = "classify", ![c].staged = S]
    <3>1. S \subseteq [rid : Rids, is_active : BOOLEAN]
      BY DEF Staging, Has, SoundGraph, Graph, Node
    <3>2. q \in PubRequest /\ pub' = [pub EXCEPT ![c] = q] /\ q.snap = pub[c].snap
      <4> HIDE DEF S
      <4> QED
        BY <1>1, <2>3, <3>1 DEF PubRequest, CommitCalls
    <3> HIDE DEF q
    <3> QED
      BY <1>1, <2>1, <3>2, PubSlotSound
  <2> QED
    BY <1>3, <2>2, <2>3 DEF CommitReadStaging
<1>4. CASE CommitClassify(c)
  <2> DEFINE R == {x.rid : x \in pub[c].staged}
  <2>1. PICK f \in [R -> Kinds] :
          pub' = [pub EXCEPT ![c].pc = "snapshot", ![c].changes = f, ![c].staged = {}]
    BY <1>4 DEF CommitClassify
  <2> DEFINE q == [pub[c] EXCEPT !.pc = "snapshot", !.changes = f, !.staged = {}]
  <2>2. R \in SUBSET Rids
    BY <1>1 DEF PubRequest
  <2>3. f \in Changes
    <3> HIDE DEF R
    <3> QED
      BY <2>2, ChangesTyped
  <2>4. q \in PubRequest /\ pub' = [pub EXCEPT ![c] = q] /\ q.snap = pub[c].snap
    BY <1>1, <2>1, <2>3 DEF PubRequest, CommitCalls
  <2>5. pub[c].pc = "classify" /\ UNCHANGED <<graph, commitLock, rows, pointer>>
    BY <1>4 DEF CommitClassify, PubAt
  <2> HIDE DEF q
  <2> QED
    BY <1>1, <2>4, <2>5, PubSlotSound
<1>5. CASE CommitCreateSnapshot(c)
  <2> DEFINE q == [pub[c] EXCEPT !.pc = "deactivate", !.parent = pointer]
  <2>1. q \in PubRequest /\ pub' = [pub EXCEPT ![c] = q] /\ q.snap = pub[c].snap
    BY <1>1, <1>5 DEF CommitCreateSnapshot, PubRequest, CommitCalls, GraphCalls
  <2>2. pub[c].pc = "snapshot" /\ UNCHANGED <<graph, commitLock, rows, pointer>>
    BY <1>5 DEF CommitCreateSnapshot, PubAt
  <2> HIDE DEF q
  <2> QED
    BY <1>1, <2>1, <2>2, PubSlotSound
<1>6. ASSUME pub[c].pc \in GraphCalls
      PROVE  SoundGraph(PromoteStatement(c)) /\ AfterStatement(c) \in CommitCalls
  <2>1. pub[c].snap \in Snaps
    BY <1>1, <1>6 DEF GraphCalls
  <2> QED
    BY <1>6, <2>1, PromoteSound
    DEF GraphCalls, CommitCalls, PromoteStatement, AfterStatement, PubAt
<1>7. CASE CommitPromote(c)
  <2>1. pub[c].pc \in GraphCalls /\ UNCHANGED <<commitLock, rows, pointer>>
        /\ graph' = PromoteStatement(c) /\ PubGoto(c, AfterStatement(c))
    BY <1>7 DEF CommitPromote
  <2>2. pub[c].pc # "idle"
    BY <2>1 DEF GraphCalls
  <2> QED
    BY <1>1, <1>6, <2>1, <2>2, PubGotoSound
<1>8. CASE CommitRetry(c)
  <2> DEFINE q == [pub[c] EXCEPT !.pc = "deactivate", !.retries = @ + 1]
  <2>1. /\ pub[c].pc \in GraphCalls /\ pub[c].retries < MaxRetries
        /\ graph' \in {graph, PromoteStatement(c)}
        /\ pub' = [pub EXCEPT ![c].pc = "deactivate", ![c].retries = @ + 1]
        /\ UNCHANGED <<commitLock, rows, pointer>>
    BY <1>8 DEF CommitRetry
  <2>2. pub[c].retries + 1 \in 0..MaxRetries
    BY <1>1, <2>1, PublishAssumption DEF PubRequest
  <2>3. q \in PubRequest /\ pub' = [pub EXCEPT ![c] = q] /\ q.snap = pub[c].snap
    BY <1>1, <2>1, <2>2 DEF PubRequest, CommitCalls, GraphCalls
  <2>4. pub[c].pc # "idle"
    BY <2>1 DEF GraphCalls
  <2> HIDE DEF q
  <2> QED
    BY <1>1, <1>6, <2>1, <2>3, <2>4, PubSlotSound
<1>9. CASE CommitPoint(c)
  <2> DEFINE row == [snap |-> pub[c].snap, parent |-> pub[c].parent,
                     changes |-> pub[c].changes]
  <2>1. /\ pub[c].pc = "point" /\ rows' = rows \cup {row} /\ pointer' = pub[c].snap
        /\ PubGoto(c, "unlock") /\ UNCHANGED <<graph, commitLock>>
    BY <1>9 DEF CommitPoint, PubAt
  <2>2. row \in Row /\ pub[c].snap \in Snaps
    BY <1>1, <2>1 DEF PubRequest, Row
  <2> HIDE DEF row
  <2> QED
    BY <1>1, <2>1, <2>2, PubGotoSound
<1>10. CASE CommitFails(c)
  <2>1. pub[c].pc # "idle" /\ PubGoto(c, "unlock")
        /\ UNCHANGED <<graph, commitLock, rows, pointer>>
    BY <1>10 DEF CommitFails, CommitCalls, GraphCalls
  <2> QED
    BY <1>1, <2>1, PubGotoSound
<1>11. CASE CommitUnlock(c)
  BY <1>1, <1>11, PubFinishSound DEF CommitUnlock
<1> QED
  BY <1>2, <1>3, <1>4, <1>5, <1>7, <1>8, <1>9, <1>10, <1>11

\* Calls of rollback_to_snapshot.
LEMMA RollbackSound ==
  ASSUME SoundGraph(graph), SoundPub, NEW c \in Committers,
         \/ \E s \in Snaps : RollbackCheck(c, s)
         \/ RollbackFindTarget(c)
         \/ RollbackSwitchOff(c)
         \/ RollbackSwitchOn(c)
         \/ RollbackPoint(c)
  PROVE  SoundGraph(graph') /\ SoundPub'
<1>1. /\ commitLock \in Committers \cup {None} /\ rows \subseteq Row
      /\ pointer \in Snaps \cup {None} /\ pub \in [Committers -> PubRequest]
      /\ pub[c] \in PubRequest
      /\ pub[c].pc # "idle" => pub[c].snap \in Snaps
  BY DEF SoundPub, PubTypeOK
<1>2. ASSUME NEW s \in Snaps, RollbackCheck(c, s)
      PROVE  SoundGraph(graph') /\ SoundPub'
  <2> DEFINE q == [NoRequest EXCEPT !.pc = "find_target", !.snap = s]
  <2>1. q \in PubRequest /\ q.snap \in Snaps
    BY NoRequestTyped DEF PubRequest, RollbackCalls
  <2>2. pub' = [pub EXCEPT ![c] = q]
    BY <1>1, <1>2 DEF RollbackCheck
  <2> HIDE DEF q
  <2> QED
    BY <1>1, <1>2, <2>1, <2>2, PubSlotSound DEF RollbackCheck
<1>3. CASE RollbackFindTarget(c)
  <2> DEFINE q == [pub[c] EXCEPT !.pc = "switch_off", !.parent = pointer]
  <2>1. pub[c].pc = "find_target" /\ UNCHANGED <<graph, commitLock, rows, pointer>>
    BY <1>3 DEF RollbackFindTarget, PubAt
  <2>2. PubFinish(c) \/ pub' = [pub EXCEPT ![c].pc = "switch_off", ![c].parent = pointer]
    BY <1>3 DEF RollbackFindTarget
  <2>3. q \in PubRequest /\ q.snap = pub[c].snap
    BY <1>1 DEF PubRequest, RollbackCalls
  <2>4. pub' = [pub EXCEPT ![c].pc = "switch_off", ![c].parent = pointer]
          => pub' = [pub EXCEPT ![c] = q]
    BY <1>1
  <2> HIDE DEF q
  <2> QED
    BY <1>1, <2>1, <2>2, <2>3, <2>4, PubFinishSound, PubSlotSound
<1>4. CASE RollbackSwitchOff(c) \/ RollbackSwitchOn(c)
  <2>1. /\ UNCHANGED <<commitLock, rows, pointer>> /\ pub[c].pc # "idle"
        /\ \E s : graph' \in {SwitchOff(graph, s), SwitchOn(graph, s)}
        /\ \E pc \in RollbackCalls : PubGoto(c, pc)
    BY <1>4 DEF RollbackSwitchOff, RollbackSwitchOn, PubAt, RollbackCalls
  <2> QED
    BY <1>1, <2>1, SwitchSound, PubGotoSound
<1>5. CASE RollbackPoint(c)
  <2>1. pub[c].snap \in Snaps
    BY <1>1, <1>5 DEF RollbackPoint, PubAt
  <2> QED
    BY <1>1, <1>5, <2>1, PubFinishSound DEF RollbackPoint
<1> QED
  BY <1>2, <1>3, <1>4, <1>5

LEMMA PublishStepSound ==
  ASSUME SoundInv, PublishStep
  PROVE  SoundInv'
<1>1. SoundGraph(graph) /\ SoundPub /\ SoundEdit'
  BY DEF SoundInv, PublishStep, SoundEdit, SoundRequest, editVars
<1>2. SoundGraph(graph') /\ SoundPub'
  <2>1. ASSUME NEW c \in Committers, PublisherDies(c)
        PROVE  SoundGraph(graph') /\ SoundPub'
    BY <1>1, <2>1, PubFinishSound DEF PublisherDies, SoundPub, PubTypeOK
  <2>2. CASE CommitLockExpires
    BY <1>1, <2>2 DEF CommitLockExpires, SoundPub, PubTypeOK
  <2> QED
    BY <1>1, <2>1, <2>2, CommitSound, RollbackSound
    DEF PublishStep, PublishNext, PublishArrival, PublishCall
<1> QED
  BY <1>1, <1>2 DEF SoundInv

LEMMA SoundInvariant == Spec => []SoundInv
<1>1. SoundInv /\ UNCHANGED vars => SoundInv'
  BY DEF SoundInv, SoundEdit, SoundRequest, SoundPub, PubTypeOK, vars, editVars, pubVars
<1>2. SoundInv /\ [Next]_vars => SoundInv'
  BY <1>1, EditStepSound, PublishStepSound DEF Next
<1> QED
  BY <1>2, InitSound, PTL DEF Spec

\* Type correctness of editing and publishing together, with requests
\* interleaved, retries, failures and rollbacks.
THEOREM TypeCorrect == Spec => []TypeOK
BY SoundInvariant, SoundInvTypes, PTL

\* Snapshots, the pointer, the lock and the publishing requests keep their
\* types: a row's operations name entities, and a parent is a snapshot.
THEOREM PublishingTypeCorrect == Spec => []PubTypeOK
<1>1. TypeOK => PubTypeOK
  BY DEF TypeOK
<1> QED BY <1>1, TypeCorrect, PTL

\* The stages stay exclusive while commits and rollbacks run next to the
\* editing requests: promotion never publishes a version that has an owner.
THEOREM StagesStayExclusive == Spec => []StagesExclusive
<1>1. SoundInv => StagesExclusive
  BY DEF SoundInv, SoundGraph, SoundNode, StagesExclusive
<1> QED
  BY <1>1, SoundInvariant, PTL

----------------------------------------------------------------------------
(* The commit lock and the version history.                                *)

\* A commit in flight is the one whose request set the lock.
LockInv == \A c \in Committers : Committing(c) => commitLock = c

LEMMA LockInvInit == Init => LockInv
BY DEF Init, PublishStart, LockInv, Committing, CommitCalls, GraphCalls, NoRequest

\* A call writes the record of its own request only.
LEMMA OwnSlot ==
  ASSUME pub \in [Committers -> PubRequest], NEW c \in Committers,
         PublishArrival(c) \/ PublishCall(c) \/ PublisherDies(c)
  PROVE  \A d \in Committers \ {c} : pub'[d] = pub[d]
<1>1. CASE PublishArrival(c)
  BY <1>1 DEF PublishArrival, CommitAcquireLock, RollbackCheck
<1>2. CASE PublishCall(c) \/ PublisherDies(c)
  <2>1. \E q : pub' = [pub EXCEPT ![c] = q]
    BY <1>2 DEF PublishCall, PublisherDies, CommitReadStaging, CommitClassify,
       CommitCreateSnapshot, CommitPromote, CommitRetry, CommitPoint, CommitFails,
       CommitUnlock, RollbackFindTarget, RollbackSwitchOff, RollbackSwitchOn,
       RollbackPoint, PubGoto, PubFinish
  <2> QED
    BY <2>1
<1> QED
  BY <1>1, <1>2

\* No other call makes its request a commit.
LEMMA CommitsStart ==
  ASSUME pub \in [Committers -> PubRequest], NEW c \in Committers,
         (\E s \in Snaps : RollbackCheck(c, s)) \/ PublishCall(c) \/ PublisherDies(c)
  PROVE  Committing(c)' => Committing(c)
<1>1. CASE \E s \in Snaps : RollbackCheck(c, s)
  <2>1. pub'[c].pc = "find_target"
    BY <1>1 DEF RollbackCheck, NoRequest
  <2> QED
    BY <2>1 DEF Committing, CommitCalls, GraphCalls
<1>2. CASE \/ PublisherDies(c) \/ CommitUnlock(c) \/ RollbackPoint(c)
           \/ RollbackFindTarget(c) /\ PubFinish(c)
  BY <1>2 DEF PublisherDies, CommitUnlock, RollbackPoint, PubFinish, Committing,
     CommitCalls, GraphCalls, NoRequest
<1>3. CASE \/ RollbackSwitchOff(c) \/ RollbackSwitchOn(c)
           \/ RollbackFindTarget(c) /\ ~PubFinish(c)
  BY <1>3 DEF RollbackSwitchOff, RollbackSwitchOn, RollbackFindTarget, PubGoto,
     Committing, CommitCalls, GraphCalls, PubRequest
<1>4. CASE CommitReadStaging(c) \/ CommitClassify(c) \/ CommitCreateSnapshot(c)
             \/ CommitPromote(c) \/ CommitRetry(c) \/ CommitPoint(c) \/ CommitFails(c)
  BY <1>4 DEF CommitReadStaging, CommitClassify, CommitCreateSnapshot, CommitPromote,
     CommitRetry, CommitPoint, CommitFails, PubAt, Committing, CommitCalls, GraphCalls
<1> QED
  BY <1>1, <1>2, <1>3, <1>4 DEF PublishCall

\* With commits that end within the TTL, only their own request unlocks.
LEMMA LockInvStep ==
  ASSUME CommitsFitLease, SoundInv, LockInv, [Next]_vars
  PROVE  LockInv'
<1>1. /\ pub \in [Committers -> PubRequest]
      /\ commitLock \in Committers \cup {None}
  BY DEF SoundInv, SoundPub, PubTypeOK
<1>2. CASE UNCHANGED vars \/ EditStep
  BY <1>2 DEF EditStep, vars, pubVars, LockInv, Committing
<1>3. ASSUME NEW c \in Committers, NEW s \in Snaps, CommitAcquireLock(c, s)
      PROVE  LockInv'
  <2>1. \A d \in Committers \ {c} : Committing(d) <=> Committing(d)'
    BY <1>1, <1>3, OwnSlot DEF PublishArrival, Committing
  <2> QED
    BY <1>3, <2>1, PublishAssumption DEF CommitAcquireLock, LockInv
<1>4. ASSUME NEW c \in Committers,
             \/ \E s \in Snaps : RollbackCheck(c, s)
             \/ PublishCall(c) /\ ~CommitUnlock(c)
             \/ PublisherDies(c)
      PROVE  LockInv'
  <2>1. UNCHANGED commitLock
    BY <1>4 DEF RollbackCheck, PublishCall, PublisherDies, CommitReadStaging,
       CommitClassify, CommitCreateSnapshot, CommitPromote, CommitRetry, CommitPoint,
       CommitFails, RollbackFindTarget, RollbackSwitchOff, RollbackSwitchOn, RollbackPoint
  <2>2. Committing(c)' => Committing(c)
    BY <1>1, <1>4, CommitsStart
  <2>3. \A d \in Committers \ {c} : Committing(d) <=> Committing(d)'
    BY <1>1, <1>4, OwnSlot DEF PublishArrival, Committing
  <2> QED
    BY <2>1, <2>2, <2>3 DEF LockInv
<1>5. ASSUME NEW c \in Committers, CommitUnlock(c) PROVE LockInv'
  <2>1. Committing(c) /\ ~Committing(c)'
    BY <1>1, <1>5 DEF CommitUnlock, PubAt, PubFinish, NoRequest, Committing,
                      CommitCalls, GraphCalls
  <2>2. \A d \in Committers \ {c} : Committing(d) <=> Committing(d)'
    BY <1>1, <1>5, OwnSlot DEF PublishCall, Committing
  <2> QED
    BY <2>1, <2>2 DEF LockInv
<1>6. CASE CommitLockExpires /\ UNCHANGED editVars
  BY <1>6 DEF CommitLockExpires, LockInv, Committing
<1> QED
  BY <1>2, <1>3, <1>4, <1>5, <1>6 DEF Next, PublishStep, PublishNext, PublishArrival

\* At most one commit is between taking the lock and its finally clause,
\* provided commits end within the TTL of the lock.
THEOREM CommitsExclusive ==
  ASSUME CommitsFitLease PROVE Spec => []CommitExclusion
<1>1. LockInv => CommitExclusion
  BY DEF LockInv, CommitExclusion
<1>2. SoundInv /\ LockInv /\ [Next]_vars => LockInv'
  BY LockInvStep
<1> QED
  BY <1>1, <1>2, LockInvInit, SoundInvariant, PTL DEF Spec

\* What a request in flight knows of the history is true.
Informed(c) ==
  /\ pub[c].pc \in RollbackCalls => "rollback" \in PublishOps
  /\ Committing(c) /\ pub[c].pc # "unlock" => pub[c].snap \notin Committed \cup ForeignSnaps
  /\ pub[c].pc \in GraphCalls \cup {"point", "switch_off"} => pub[c].parent = pointer
  /\ pub[c].pc \in {"switch_off", "switch_on", "repoint"} =>
       pub[c].snap \in Committed \cup ForeignSnaps

HistoryInv == \A c \in Committers : Informed(c)

\* A rollback takes no lock: where there are rollbacks, one request runs.
RollbacksAlone == "rollback" \in PublishOps => \A c, d \in Committers : c = d

LEMMA HistoryInvInit == Init => HistoryInv
BY DEF Init, PublishStart, HistoryInv, Informed, Committing, CommitCalls, GraphCalls,
       RollbackCalls, NoRequest

\* The lock, or there being no other, keeps publishing requests apart.
LEMMA OneBusy ==
  ASSUME RollbacksAlone, SoundInv, LockInv, HistoryInv,
         NEW c \in Committers, NEW d \in Committers,
         pub[c].pc # "idle", pub[d].pc # "idle"
  PROVE  c = d
<1>1. \A b \in {c, d} : pub[b] \in PubRequest /\ (Committing(b) \/ pub[b].pc \in RollbackCalls)
  BY DEF SoundInv, SoundPub, PubTypeOK, PubRequest, Committing
<1>2. CASE "rollback" \in PublishOps
  BY <1>2 DEF RollbacksAlone
<1>3. CASE "rollback" \notin PublishOps
  BY <1>1, <1>3 DEF HistoryInv, Informed, LockInv
<1> QED
  BY <1>2, <1>3

\* The parent read by a request is still current at its own commit, because
\* no other request publishes.
LEMMA HistoryInvStep ==
  ASSUME CommitsFitLease, RollbacksAlone, SoundInv, LockInv, HistoryInv, [Next]_vars
  PROVE  /\ HistoryInv'
         /\ \/ UNCHANGED <<rows, pointer>>
            \/ \E c \in Committers : CommitPoint(c) \/ RollbackPoint(c)
<1>1. pub \in [Committers -> PubRequest]
  BY DEF SoundInv, SoundPub, PubTypeOK
<1>2. CASE UNCHANGED vars \/ EditStep \/ (CommitLockExpires /\ UNCHANGED editVars)
  BY <1>2 DEF EditStep, CommitLockExpires, vars, pubVars, HistoryInv, Informed,
              Committing, Committed
<1>3. ASSUME NEW c \in Committers, CommitPoint(c) \/ RollbackPoint(c)
      PROVE  HistoryInv'
  <2>1. /\ pub[c].pc \in {"point", "repoint"} /\ pub'[c].pc \in {"unlock", "idle"}
        /\ \A d \in Committers \ {c} : pub'[d] = pub[d]
    BY <1>1, <1>3 DEF CommitPoint, RollbackPoint, PubGoto, PubFinish, PubAt, NoRequest,
                      PubRequest
  <2>2. \A d \in Committers : pub'[d].pc \in {"unlock", "idle"}
    BY <2>1, OneBusy
  <2> QED
    BY <2>2 DEF HistoryInv, Informed, RollbackCalls, GraphCalls, Committing, CommitCalls
<1>4. ASSUME NEW c \in Committers,
             \/ PublishArrival(c)
             \/ PublishCall(c) /\ ~CommitPoint(c) /\ ~RollbackPoint(c)
             \/ PublisherDies(c)
      PROVE  HistoryInv' /\ UNCHANGED <<rows, pointer>>
  <2>1. Informed(c) /\ pub[c] \in PubRequest
    BY <1>1 DEF HistoryInv
  <2>2. UNCHANGED <<rows, pointer>>
    BY <1>4 DEF PublishArrival, PublishCall, PublisherDies, CommitAcquireLock,
       CommitReadStaging, CommitClassify, CommitCreateSnapshot, CommitPromote, CommitRetry,
       CommitFails, CommitUnlock, RollbackCheck, RollbackFindTarget, RollbackSwitchOff,
       RollbackSwitchOn
  <2>3. Informed(c)'
    <3>1. CASE \E s \in Snaps : CommitAcquireLock(c, s)
      BY <1>1, <2>2, <3>1 DEF CommitAcquireLock, FreshSnaps, Informed, Committing,
         CommitCalls, GraphCalls, RollbackCalls, Committed, NoRequest
    <3>2. CASE CommitReadStaging(c) \/ CommitClassify(c) \/ CommitCreateSnapshot(c)
      <4>1. /\ pub[c].pc \in {"read", "classify", "snapshot"}
            /\ \/ pub'[c].pc \in {"unlock", "classify", "snapshot"}
               \/ pub'[c].pc = "deactivate" /\ pub'[c].parent = pointer
            /\ pub'[c].snap = pub[c].snap
        <5>1. CASE CommitReadStaging(c)
          BY <1>1, <2>1, <5>1 DEF CommitReadStaging, PubAt, PubGoto, PubRequest
        <5>2. CASE CommitClassify(c)
          <6> PICK f : pub' = [pub EXCEPT ![c].pc = "snapshot", ![c].changes = f,
                                          ![c].staged = {}]
            BY <5>2 DEF CommitClassify
          <6> QED
            BY <1>1, <2>1, <5>2 DEF CommitClassify, PubAt, PubRequest
        <5>3. CASE CommitCreateSnapshot(c)
          BY <1>1, <2>1, <5>3 DEF CommitCreateSnapshot, PubAt, PubRequest
        <5> QED
          BY <3>2, <5>1, <5>2, <5>3
      <4> QED
        BY <2>1, <2>2, <4>1 DEF Informed, Committing, CommitCalls, GraphCalls,
           RollbackCalls, Committed
    <3>3. CASE CommitPromote(c) \/ CommitRetry(c) \/ CommitFails(c)
      <4>1. /\ Committing(c) /\ pub[c].pc # "unlock"
            /\ \/ pub[c].pc \in GraphCalls /\ pub'[c].pc \in GraphCalls \cup {"point"}
               \/ pub'[c].pc = "unlock"
            /\ pub'[c].snap = pub[c].snap /\ pub'[c].parent = pub[c].parent
        BY <1>1, <2>1, <3>3 DEF CommitPromote, CommitRetry, CommitFails, AfterStatement,
           PubAt, PubGoto, Committing, CommitCalls, GraphCalls, PubRequest
      <4> QED
        BY <2>1, <2>2, <4>1 DEF Informed, Committing, CommitCalls, GraphCalls,
           RollbackCalls, Committed
    <3>4. CASE CommitUnlock(c) \/ PublisherDies(c) \/ (RollbackFindTarget(c) /\ PubFinish(c))
      BY <1>1, <3>4 DEF CommitUnlock, PublisherDies, PubFinish, NoRequest, Informed,
         Committing, CommitCalls, GraphCalls, RollbackCalls
    <3>5. CASE \E s \in Snaps : RollbackCheck(c, s)
      <4>1. pub'[c].pc = "find_target" /\ "rollback" \in PublishOps
        BY <1>1, <3>5 DEF RollbackCheck, NoRequest
      <4> QED
        BY <4>1 DEF Informed, Committing, CommitCalls, GraphCalls, RollbackCalls
    <3>6. CASE \/ RollbackFindTarget(c) /\ ~PubFinish(c)
               \/ RollbackSwitchOff(c) \/ RollbackSwitchOn(c)
      <4>1. /\ pub[c].pc \in RollbackCalls
            /\ \/ /\ pub'[c].pc = "switch_off" /\ pub'[c].parent = pointer
                  /\ pub[c].snap \in Committed \cup ForeignSnaps
               \/ /\ pub[c].pc \in {"switch_off", "switch_on"}
                  /\ pub'[c].pc \in {"switch_on", "repoint"}
            /\ pub'[c].snap = pub[c].snap
        BY <1>1, <2>1, <3>6 DEF RollbackFindTarget, RollbackSwitchOff, RollbackSwitchOn,
           PubAt, PubGoto, RollbackCalls, PubRequest
      <4> QED
        BY <2>1, <2>2, <4>1 DEF Informed, Committing, CommitCalls, GraphCalls,
           RollbackCalls, Committed
    <3> QED
      BY <1>4, <3>1, <3>2, <3>3, <3>4, <3>5, <3>6 DEF PublishArrival, PublishCall
  <2>4. ASSUME NEW d \in Committers \ {c} PROVE Informed(d)'
    <3>1. pub'[d] = pub[d] /\ Informed(d)
      BY <1>1, <1>4, OwnSlot DEF HistoryInv
    <3> QED
      BY <2>2, <3>1 DEF Informed, Committing, Committed
  <2> QED
    BY <2>2, <2>3, <2>4 DEF HistoryInv
<1> QED
  BY <1>2, <1>3, <1>4 DEF Next, EditStep, PublishStep, PublishNext, PublishCall,
     vars, pubVars, CommitLockExpires

\* What the refinement mapping shows of the rows.
Shown(S) == {[snap |-> row.snap, parent |-> row.parent] : row \in S}

LEMMA ShownAdds ==
  ASSUME NEW S, NEW x
  PROVE  Shown(S \cup {x}) = Shown(S) \cup {[snap |-> x.snap, parent |-> x.parent]}
BY DEF Shown

LEMMA HistoryInit == Init => History!Init
<1> SUFFICES ASSUME Init PROVE History!Init
  OBVIOUS
<1>1. PICK s \in Snaps \ ForeignSnaps :
                         \/ rows = {} /\ pointer = None
                         \/ \E f : /\ rows = {[snap |-> s, parent |-> None, changes |-> f]}
                                   /\ pointer = s
  BY DEF Init
<1>2. CASE rows = {} /\ pointer = None
  BY <1>2 DEF History!Init
<1>3. CASE \E f : /\ rows = {[snap |-> s, parent |-> None, changes |-> f]}
                  /\ pointer = s
  <2>1. Shown(rows) = {[snap |-> s, parent |-> None]}
    BY <1>3 DEF Shown
  <2> QED
    BY <1>3, <2>1 DEF History!Init, Shown
<1> QED
  BY <1>1, <1>2, <1>3

LEMMA HistoryStep ==
  ASSUME SoundInv, HistoryInv, NEW c \in Committers, CommitPoint(c) \/ RollbackPoint(c)
  PROVE  History!Next
<1> DEFINE s == pub[c].snap
<1>1. s \in Snaps /\ pointer' = s
  BY DEF CommitPoint, RollbackPoint, PubAt, SoundInv, SoundPub
<1>2. History!Committed = Committed
  <2> DEFINE f(row) == [snap |-> row.snap, parent |-> row.parent]
  <2>1. \A row : f(row).snap = row.snap
    OBVIOUS
  <2>2. History!Committed = {x.snap : x \in {f(row) : row \in rows}}
    BY DEF History!Committed
  <2> HIDE DEF f
  <2> QED
    BY <2>1, <2>2 DEF Committed
<1>3. CASE CommitPoint(c)
  <2>1. pub[c].parent = pointer /\ s \notin Committed \cup ForeignSnaps
    BY <1>3 DEF CommitPoint, PubAt, HistoryInv, Informed, Committing, CommitCalls
  <2>2. Shown(rows') = Shown(rows) \cup {[snap |-> s, parent |-> pointer]}
    <3> DEFINE x == [snap |-> s, parent |-> pub[c].parent, changes |-> pub[c].changes]
    <3>1. rows' = rows \cup {x} /\ x.snap = s /\ x.parent = pointer
      BY <1>3, <2>1 DEF CommitPoint
    <3> HIDE DEF x
    <3> QED
      BY <3>1, ShownAdds
  <2> HIDE DEF s
  <2> QED
    BY <1>1, <1>2, <2>1, <2>2 DEF History!Next, History!Commit, Shown
<1>4. CASE RollbackPoint(c)
  <2>1. s \in Committed \cup ForeignSnaps /\ UNCHANGED rows
    BY <1>4 DEF RollbackPoint, PubAt, HistoryInv, Informed
  <2> QED
    BY <1>1, <1>2, <2>1 DEF History!Next, History!Rollback
<1> QED
  BY <1>3, <1>4

\* Commits and rollbacks implement the promised history: each row's parent
\* is the version current when the row appears, and a rollback goes to a
\* version that the table has, the tenant's own or another's.  Commits must end within the TTL of their lock;
\* a rollback takes no lock, so with rollbacks one request publishes at a
\* time.
THEOREM HistoryLinear ==
  ASSUME CommitsFitLease, "rollback" \in PublishOps => \A c, d \in Committers : c = d
  PROVE  Spec => LinearHistory
<1>0. RollbacksAlone
  BY DEF RollbacksAlone
<1>1. SoundInv /\ LockInv /\ [Next]_vars => LockInv'
  BY LockInvStep
<1>2. SoundInv /\ LockInv /\ HistoryInv /\ [Next]_vars => HistoryInv'
  BY <1>0, HistoryInvStep
<1>3. SoundInv /\ LockInv /\ HistoryInv /\ [Next]_vars
        => [History!Next]_<<Shown(rows), pointer>>
  BY <1>0, HistoryInvStep, HistoryStep DEF Shown
<1>4. [History!Next]_<<Shown(rows), pointer>>
        <=> [History!Next]_<<{[snap |-> row.snap, parent |-> row.parent] : row \in rows},
                             pointer>>
  BY DEF Shown
<1> QED
  BY <1>1, <1>2, <1>3, <1>4, LockInvInit, HistoryInvInit, HistoryInit, SoundInvariant, PTL
  DEF Spec, LinearHistory, History!Spec
=============================================================================
