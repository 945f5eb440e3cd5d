----------------------- MODULE OntologyEditing_proofs ----------------------
(***************************************************************************)
(* Proofs about OntologyEditing for any number of nodes, entities, users,  *)
(* snapshots and requests, and any choice of handlers.                     *)
(*                                                                         *)
(* The invariant has two halves.  GoodGraph holds of the graph alone; what *)
(* a statement does to it is proved once per statement, in lemmas about    *)
(* the operators of OntologyGraph.  GoodRequest holds of a request in      *)
(* flight: what it read before an await and uses after it.  It mentions    *)
(* the published nodes only, so a step that keeps them (Kept) disturbs no  *)
(* other request.                                                          *)
(***************************************************************************)
EXTENDS OntologyEditing, TLAPS

\* The published version that x was cloned from is still there.
HasBase(g, x) ==
  x.snapshot_id # None =>
    \E m \in Published(g) : g[m].rid = x.rid /\ g[m].snapshot_id = x.snapshot_id

GoodNode(g, n) ==
  /\ ~(g[n].is_draft /\ g[n].is_staging)
  /\ g[n].is_draft <=> g[n].draft_owner # None
  /\ IF IsPublished(g[n])
       THEN g[n].is_active
       ELSE g[n].parent_snapshot_id = g[n].snapshot_id /\ HasBase(g, g[n])

GoodGraph(g) == g \in Graph /\ \A n \in NodeIds : Has(g, n) => GoodNode(g, n)

GoodRequest(g, q) ==
  /\ q.pc \notin {"idle", "discard_next"} => q.user \in Users /\ q.rid \in Rids
  /\ q.pc \in {"clone", "mark"} => /\ q.src \in Node
                                   /\ q.src.rid = q.rid
                                   /\ HasBase(g, q.src)
  /\ q.pc \in {"find_staging", "to_draft"} => Of(g, q.rid) \cap Published(g) = {}

IInv ==
  /\ GoodGraph(graph)
  /\ editLock \in [Rids -> Users \cup {None}]
  /\ edit \in [Editors -> Request]
  /\ \A e \in Editors : GoodRequest(graph, edit[e])

Kept(g, h) == /\ Published(h) = Published(g)
              /\ \A n \in Published(g) : h[n] = g[n]

----------------------------------------------------------------------------
(* What the Cypher statements preserve.                                    *)

\* Creating a draft with a sound base, under an unused identity.
LEMMA CreateKeeps ==
  ASSUME NEW g, GoodGraph(g), NEW n \in NodeIds, ~Has(g, n), NEW x \in Node,
         x.is_draft, ~x.is_staging, x.draft_owner # None,
         x.parent_snapshot_id = x.snapshot_id, HasBase(g, x)
  PROVE  GoodGraph(CreateNode(g, n, x)) /\ Kept(g, CreateNode(g, n, x))
<1> DEFINE h == CreateNode(g, n, x)
<1>1. h \in Graph /\ \A m \in NodeIds : h[m] = IF m = n THEN x ELSE g[m]
  BY DEF GoodGraph, Graph, CreateNode
<1>2. x # None
  BY NoneAssumption
<1>3. Kept(g, h)
  BY <1>1, <1>2 DEF Kept, Published, IsPublished, Has
<1>4. ASSUME NEW m \in NodeIds, Has(h, m) PROVE GoodNode(h, m)
  BY <1>1, <1>3, <1>4 DEF GoodGraph, GoodNode, HasBase, Kept, IsPublished, Has
<1> QED
  BY <1>1, <1>3, <1>4 DEF GoodGraph

\* Deleting unpublished nodes.
LEMMA DeleteKeeps ==
  ASSUME NEW g, GoodGraph(g), NEW S, S \cap Published(g) = {}
  PROVE  GoodGraph(DeleteNodes(g, S)) /\ Kept(g, DeleteNodes(g, S))
<1> DEFINE h == DeleteNodes(g, S)
<1>1. h \in Graph /\ \A m \in NodeIds : h[m] = IF m \in S THEN None ELSE g[m]
  BY DEF GoodGraph, Graph, DeleteNodes
<1>2. Kept(g, h)
  BY <1>1 DEF Kept, Published, Has
<1>3. ASSUME NEW m \in NodeIds, Has(h, m) PROVE GoodNode(h, m)
  BY <1>1, <1>2, <1>3 DEF GoodGraph, GoodNode, HasBase, Kept, Has
<1> QED
  BY <1>1, <1>2, <1>3 DEF GoodGraph

\* Submitting the drafts of a user.
LEMMA StageKeeps ==
  ASSUME NEW g, GoodGraph(g), NEW r \in Rids, NEW u \in Users
  PROVE  GoodGraph(DraftsToStaging(g, r, u)) /\ Kept(g, DraftsToStaging(g, r, u))
<1> DEFINE h == DraftsToStaging(g, r, u)
           D == DraftsOf(g, r, u)
           staged(n) == [g[n] EXCEPT !.is_draft = FALSE, !.is_staging = TRUE,
                                     !.draft_owner = None]
<1>1. \A n \in NodeIds : h[n] = IF n \in D THEN staged(n) ELSE g[n]
  BY DEF DraftsToStaging
<1>2. \A n \in D : /\ n \in NodeIds /\ Has(g, n) /\ g[n].is_draft
                   /\ g[n] \in Node /\ staged(n) \in Node /\ staged(n) # None
  BY NoneAssumption DEF DraftsOf, Of, Has, GoodGraph, Graph, Node
<1>3. h \in Graph
  BY <1>1, <1>2 DEF DraftsToStaging, GoodGraph, Graph
<1>4. Kept(g, h)
  BY <1>1, <1>2 DEF Kept, Published, IsPublished, Has, Node
<1>5. ASSUME NEW n \in NodeIds, Has(h, n) PROVE GoodNode(h, n)
  <2>1. CASE n \in D
    <3>1. g[n] \in Node /\ h[n] = staged(n) /\ GoodNode(g, n) /\ g[n].is_draft
      BY <1>1, <1>2, <2>1 DEF GoodGraph
    <3>2. HasBase(g, g[n]) /\ g[n].parent_snapshot_id = g[n].snapshot_id
      BY <3>1 DEF GoodNode, IsPublished
    <3>3. HasBase(h, h[n])
      BY <3>1, <3>2, <1>4 DEF HasBase, Kept, Node
    <3> QED
      BY <3>1, <3>2, <3>3 DEF GoodNode, IsPublished, Node
  <2>2. CASE n \notin D
    <3>1. h[n] = g[n] /\ GoodNode(g, n)
      BY <1>1, <1>5, <2>2 DEF GoodGraph, Has
    <3>2. ASSUME HasBase(g, g[n]) PROVE HasBase(h, h[n])
      BY <3>1, <3>2, <1>4 DEF HasBase, Kept
    <3> QED
      BY <3>1, <3>2 DEF GoodNode
  <2> QED
    BY <2>1, <2>2
<1> QED
  BY <1>3, <1>4, <1>5 DEF GoodGraph

\* Turning every version of an entity into a draft, when none is published.
LEMMA DraftKeeps ==
  ASSUME NEW g, GoodGraph(g), NEW r \in Rids, NEW u \in Users,
         Of(g, r) \cap Published(g) = {}
  PROVE  GoodGraph(AllToDraft(g, r, u)) /\ Kept(g, AllToDraft(g, r, u))
<1> DEFINE h == AllToDraft(g, r, u)
           D == Of(g, r)
           draft(n) == [g[n] EXCEPT !.is_staging = FALSE, !.is_draft = TRUE,
                                    !.draft_owner = u]
<1>1. \A n \in NodeIds : h[n] = IF n \in D THEN draft(n) ELSE g[n]
  BY DEF AllToDraft
<1>2. \A n \in D : /\ n \in NodeIds /\ Has(g, n) /\ ~IsPublished(g[n])
                   /\ g[n] \in Node /\ draft(n) \in Node /\ draft(n) # None
                   /\ ~IsPublished(draft(n))
  BY NoneAssumption DEF Of, Published, IsPublished, Has, GoodGraph, Graph, Node
<1>3. h \in Graph
  BY <1>1, <1>2 DEF AllToDraft, GoodGraph, Graph
<1>4. Kept(g, h)
  <2> HIDE DEF h, D, draft
  <2>1. \A n \in NodeIds : n \in Published(h) <=> n \in Published(g)
    BY <1>1, <1>2 DEF Published, Has
  <2>2. \A n \in Published(g) : n \in NodeIds /\ n \notin D
    BY <1>2 DEF Published
  <2>3. Published(g) = Published(h)
    BY <2>1 DEF Published
  <2> QED
    BY <1>1, <2>2, <2>3 DEF Kept
<1>5. ASSUME NEW n \in NodeIds, Has(h, n) PROVE GoodNode(h, n)
  <2>1. CASE n \in D
    <3>1. g[n] \in Node /\ h[n] = draft(n) /\ GoodNode(g, n) /\ ~IsPublished(g[n])
      BY <1>1, <1>2, <2>1 DEF GoodGraph
    <3>2. HasBase(g, g[n]) /\ g[n].parent_snapshot_id = g[n].snapshot_id
      BY <3>1 DEF GoodNode
    <3>3. HasBase(h, h[n])
      BY <3>1, <3>2, <1>4 DEF HasBase, Kept, Node
    <3> QED
      BY <3>1, <3>2, <3>3, NoneAssumption DEF GoodNode, IsPublished, Node
  <2>2. CASE n \notin D
    <3>1. h[n] = g[n] /\ GoodNode(g, n)
      BY <1>1, <1>5, <2>2 DEF GoodGraph, Has
    <3>2. ASSUME HasBase(g, g[n]) PROVE HasBase(h, h[n])
      BY <3>1, <3>2, <1>4 DEF HasBase, Kept
    <3> QED
      BY <3>1, <3>2 DEF GoodNode
  <2> QED
    BY <2>1, <2>2
<1> QED
  BY <1>3, <1>4, <1>5 DEF GoodGraph

\* Drafts and staged versions are not published.
LEMMA Unpublished ==
  ASSUME NEW g, NEW r, NEW u
  PROVE  /\ DraftsOf(g, r, u) \cap Published(g) = {}
         /\ StagingOf(g, r) \cap Published(g) = {}
BY DEF DraftsOf, StagingOf, Staging, Of, Published, IsPublished

\* A node read from the graph has a base: its own, or itself.
LEMMA ReadHasBase ==
  ASSUME NEW g, GoodGraph(g), NEW n \in NodeIds, Has(g, n)
  PROVE  HasBase(g, g[n])
BY DEF GoodGraph, GoodNode, HasBase, Published, Has

\* Clones are nodes with a base again.
LEMMA CloneGood ==
  ASSUME NEW g, NEW x \in Node, NEW u \in Users, HasBase(g, x)
  PROVE  \A y \in {CloneAsDraft(x, u), DeletionMarker(x, u)} :
           /\ y \in Node /\ y.is_draft /\ ~y.is_staging /\ y.draft_owner # None
           /\ y.parent_snapshot_id = y.snapshot_id
           /\ HasBase(g, y)
BY NoneAssumption DEF CloneAsDraft, DeletionMarker, Node, HasBase

\* A request is not disturbed by a step that keeps the published nodes.
LEMMA RequestKept ==
  ASSUME NEW g, NEW h, NEW q, Kept(g, h), GoodRequest(g, q)
  PROVE  GoodRequest(h, q)
BY DEF Kept, GoodRequest, HasBase, Of, Published, Has

----------------------------------------------------------------------------
(* The invariant is inductive.                                             *)

\* The parts of the invariant that say each variable has its type.
LEMMA IInvTypes == IInv => EditTypeOK
BY DEF IInv, GoodGraph, EditTypeOK

\* The first versions of a tenant and idle slots.
LEMMA EditInitInv == EditInit => IInv
<1> SUFFICES ASSUME EditInit PROVE IInv
  OBVIOUS
<1> PICK at \in Placements, s \in Snaps : graph = FirstVersion(at, s)
  BY DEF EditInit
<1>1. \A n \in NodeIds : graph[n] = IF at[n] = None THEN None ELSE ActiveNode(at[n], s)
  BY DEF FirstVersion
<1>2. \A n \in NodeIds : at[n] # None => ActiveNode(at[n], s) \in Node
  BY DEF Placements, ActiveNode, Node
<1>3. graph \in Graph
  BY <1>1, <1>2 DEF FirstVersion, Graph
<1>4. ASSUME NEW n \in NodeIds, Has(graph, n) PROVE GoodNode(graph, n)
  <2>1. graph[n] = ActiveNode(at[n], s)
    BY <1>1, <1>4 DEF Has
  <2> QED
    BY <2>1 DEF GoodNode, IsPublished, ActiveNode
<1>5. Idle \in Request /\ \A e \in Editors : edit[e] = Idle
  BY DEF EditInit, EditStart, Idle, Request, Calls
<1>6. edit \in [Editors -> Request] /\ editLock \in [Rids -> Users \cup {None}]
  BY <1>5 DEF EditInit, EditStart
<1>7. \A e \in Editors : GoodRequest(graph, edit[e])
  BY <1>5 DEF GoodRequest, Idle
<1> QED
  BY <1>3, <1>4, <1>6, <1>7 DEF IInv, GoodGraph

\* A step that keeps the published nodes and changes one slot.
LEMMA SlotStep ==
  ASSUME IInv, GoodGraph(graph'), Kept(graph, graph'),
         editLock' \in [Rids -> Users \cup {None}],
         NEW e \in Editors, NEW q \in Request, GoodRequest(graph', q),
         edit' = [edit EXCEPT ![e] = q]
  PROVE  IInv'
<1>1. \A f \in Editors : GoodRequest(graph, edit[f])
  BY DEF IInv
<1>2. \A f \in Editors : GoodRequest(graph', edit[f])
  BY <1>1, RequestKept
<1>3. edit' \in [Editors -> Request]
  BY DEF IInv
<1>4. \A f \in Editors : GoodRequest(graph', edit'[f])
  BY <1>2 DEF IInv
<1> QED
  BY <1>3, <1>4 DEF IInv

\* The request ends: nothing is asked of an idle slot.
LEMMA FinishStep ==
  ASSUME IInv, GoodGraph(graph'), Kept(graph, graph'),
         editLock' \in [Rids -> Users \cup {None}],
         NEW e \in Editors, Finish(e)
  PROVE  IInv'
<1>1. Idle \in Request /\ GoodRequest(graph', Idle)
  BY DEF Idle, Request, Calls, GoodRequest
<1> QED
  BY <1>1, SlotStep DEF Finish

\* The request goes on to a call that asks nothing of what was read.
LEMMA GotoStep ==
  ASSUME IInv, GoodGraph(graph'), Kept(graph, graph'),
         editLock' \in [Rids -> Users \cup {None}],
         NEW e \in Editors, NEW pc \in Calls, Goto(e, pc),
         edit[e].pc \notin {"idle", "discard_next"},
         pc \notin {"clone", "mark"},
         pc \in {"find_staging", "to_draft"} => edit[e].pc = "find_staging"
  PROVE  IInv'
<1> DEFINE q == [edit[e] EXCEPT !.pc = pc]
<1>1. edit[e] \in Request /\ GoodRequest(graph, edit[e])
  BY DEF IInv
<1>2. q \in Request /\ GoodRequest(graph, q)
  BY <1>1 DEF Request, GoodRequest
<1>3. GoodRequest(graph', q)
  BY <1>2, RequestKept
<1>4. edit' = [edit EXCEPT ![e] = q]
  BY DEF Goto
<1> QED
  BY <1>2, <1>3, <1>4, SlotStep

\* The request goes on with the node its read returned.
LEMMA ReadStep ==
  ASSUME IInv, UNCHANGED <<graph, editLock>>,
         NEW e \in Editors, edit[e].pc \notin {"idle", "discard_next"},
         NEW S \in SUBSET Of(graph, edit[e].rid), NEW x \in Answers(S),
         NEW pc \in Calls, GotoWith(e, pc, x),
         pc \in {"clone", "mark"} => x # None,
         pc \notin {"find_staging", "to_draft"}
  PROVE  IInv'
<1> DEFINE q == [edit[e] EXCEPT !.pc = pc, !.src = x]
<1>1. edit[e] \in Request /\ GoodRequest(graph, edit[e]) /\ GoodGraph(graph)
  BY DEF IInv
<1>2. x # None => /\ x \in Node /\ x.rid = edit[e].rid /\ HasBase(graph, x)
  BY <1>1, ReadHasBase DEF Answers, Of, GoodGraph, Graph, Has
<1>3. x \in Node \cup {None}
  BY <1>2
<1>4. q \in Request /\ GoodRequest(graph, q)
  BY <1>1, <1>2, <1>3 DEF Request, GoodRequest
<1>5. edit' = [edit EXCEPT ![e] = q]
  BY <1>1 DEF GotoWith, Request, IInv
<1>6. GoodGraph(graph') /\ Kept(graph, graph') /\ GoodRequest(graph', q)
  BY <1>1, <1>4 DEF Kept
<1>7. editLock' \in [Rids -> Users \cup {None}]
  BY DEF IInv
<1> QED
  BY <1>4, <1>5, <1>6, <1>7, SlotStep

\* A request arrives.
LEMMA BeginStep ==
  ASSUME IInv, GoodGraph(graph'), Kept(graph, graph'),
         editLock' \in [Rids -> Users \cup {None}],
         NEW e \in Editors, NEW op, NEW u \in Users, NEW r \in Rids,
         NEW pc \in Calls, Begin(e, op, u, r, pc),
         pc \notin {"clone", "mark"},
         pc \in {"find_staging", "to_draft"} => Of(graph', r) \cap Published(graph') = {}
  PROVE  IInv'
<1> DEFINE q == [Idle EXCEPT !.pc = pc, !.user = u, !.rid = r]
<1>1. q \in Request /\ GoodRequest(graph', q)
  BY DEF Idle, Request, GoodRequest
<1> QED
  BY <1>1, SlotStep DEF Begin

\* A slot that is not idle has a well-typed request.
LEMMA Busy ==
  ASSUME IInv, NEW e \in Editors, edit[e].pc \notin {"idle", "discard_next"}
  PROVE  edit[e].user \in Users /\ edit[e].rid \in Rids
BY DEF IInv, GoodRequest

\* A clone of the node read earlier goes into the graph.
LEMMA CloneStep ==
  ASSUME IInv, NEW e \in Editors, NEW n \in NodeIds, ~Has(graph, n),
         edit[e].pc \in {"clone", "mark"}, UNCHANGED editLock, Finish(e),
         NEW y \in {CloneAsDraft(edit[e].src, edit[e].user),
                    DeletionMarker(edit[e].src, edit[e].user)},
         graph' = CreateNode(graph, n, y)
  PROVE  IInv' /\ Kept(graph, graph')
<1>1. /\ edit[e].src \in Node /\ HasBase(graph, edit[e].src)
      /\ edit[e].user \in Users /\ GoodGraph(graph)
  BY DEF IInv, GoodRequest
<1>2. /\ y \in Node /\ y.is_draft /\ ~y.is_staging /\ y.draft_owner # None
      /\ y.parent_snapshot_id = y.snapshot_id /\ HasBase(graph, y)
  BY <1>1, CloneGood
<1>3. GoodGraph(graph') /\ Kept(graph, graph')
  BY <1>1, <1>2, CreateKeeps
<1>4. editLock' \in [Rids -> Users \cup {None}]
  BY DEF IInv
<1> QED
  BY <1>3, <1>4, FinishStep

\* Every call that starts a request.
LEMMA ArrivalStep ==
  ASSUME IInv, NEW e \in Editors, Arrival(e)
  PROVE  IInv' /\ Kept(graph, graph')
<1>1. /\ GoodGraph(graph)
      /\ editLock \in [Rids -> Users \cup {None}]
      /\ edit \in [Editors -> Request]
  BY DEF IInv
<1>2. UNCHANGED graph => GoodGraph(graph') /\ Kept(graph, graph')
  BY <1>1 DEF Kept
<1>3. CASE DiscardAllList(e)
  <2> DEFINE q == [Idle EXCEPT !.pc = "discard_next", !.todo = StagedRids(graph)]
  <2>1. StagedRids(graph) \subseteq Rids
    BY <1>1 DEF StagedRids, Staging, Has, GoodGraph, Graph, Node
  <2>2. q \in Request /\ GoodRequest(graph', q)
    BY <2>1 DEF Idle, Request, Calls, GoodRequest
  <2>3. edit' = [edit EXCEPT ![e] = q]
    BY <1>1, <1>3 DEF DiscardAllList
  <2> QED
    BY <1>1, <1>2, <1>3, <2>2, <2>3, SlotStep DEF DiscardAllList
<1>4. ASSUME NEW u \in Users, NEW r \in Rids,
             \/ CreateCheckName(e, u, r)
             \/ UpdateRequireLock(e, u, r)
             \/ DeleteRequireLock(e, u, r)
             \/ SubmitGetDraft(e, u, r)
             \/ ReleaseGetOwner(e, u, r)
      PROVE  IInv' /\ Kept(graph, graph')
  <2>1. /\ UNCHANGED <<graph, editLock>>
        /\ \E op, pc : /\ Begin(e, op, u, r, pc)
                       /\ pc \in Calls \ {"clone", "mark", "find_staging", "to_draft"}
    BY <1>4 DEF CreateCheckName, UpdateRequireLock, DeleteRequireLock,
                SubmitGetDraft, ReleaseGetOwner, Calls
  <2> QED
    BY <1>1, <1>2, <2>1, BeginStep
<1>5. ASSUME NEW u \in Users, NEW r \in Rids, DiscardDraft(e, u, r)
      PROVE  IInv' /\ Kept(graph, graph')
  <2>1. GoodGraph(graph') /\ Kept(graph, graph')
    BY <1>1, <1>5, Unpublished, DeleteKeeps DEF DiscardDraft
  <2>2. Begin(e, "discard_draft", u, r, "drop_lock") /\ "drop_lock" \in Calls
    BY <1>5 DEF DiscardDraft, Calls
  <2>3. editLock' \in [Rids -> Users \cup {None}]
    BY <1>1, <1>5 DEF DiscardDraft
  <2> QED
    BY <2>1, <2>2, <2>3, BeginStep
<1>6. ASSUME NEW u \in Users, NEW r \in Rids, DiscardStagingGetActive(e, u, r)
      PROVE  IInv' /\ Kept(graph, graph')
  <2> DEFINE pc == IF ActivesOf(graph, r) # {} THEN "remove_staging" ELSE "find_staging"
  <2>1. UNCHANGED <<graph, editLock>> /\ Begin(e, "discard_staging", u, r, pc)
    BY <1>6 DEF DiscardStagingGetActive
  <2>2. pc = "find_staging" => Of(graph, r) \cap Published(graph) = {}
    BY <1>1 DEF ActivesOf, Actives, Of, Published, GoodGraph, GoodNode
  <2>3. pc \in Calls /\ pc \notin {"clone", "mark", "to_draft"}
    BY DEF Calls
  <2>4. editLock' \in [Rids -> Users \cup {None}]
    BY <1>1, <2>1
  <2> HIDE DEF pc
  <2> QED
    BY <1>2, <2>1, <2>2, <2>3, <2>4, BeginStep
<1>7. ASSUME NEW u \in Users, NEW r \in Rids, AcquireLock(e, u, r)
      PROVE  IInv' /\ Kept(graph, graph')
  BY <1>1, <1>2, <1>7 DEF AcquireLock, IInv
<1> QED
  BY <1>3, <1>4, <1>5, <1>6, <1>7 DEF Arrival

\* Every later call of a request.
LEMMA CallStep ==
  ASSUME IInv, NEW e \in Editors, NextCall(e)
  PROVE  IInv' /\ Kept(graph, graph')
<1> DEFINE r == edit[e].rid
           u == edit[e].user
<1>1. /\ GoodGraph(graph)
      /\ editLock \in [Rids -> Users \cup {None}]
      /\ edit \in [Editors -> Request]
      /\ GoodRequest(graph, edit[e])
  BY DEF IInv
<1>2. UNCHANGED graph => GoodGraph(graph') /\ Kept(graph, graph')
  BY <1>1 DEF Kept
<1>3. UNCHANGED editLock => editLock' \in [Rids -> Users \cup {None}]
  BY <1>1
<1>4. CASE UpdateGetDraft(e)
  <2> DEFINE pc == IF DraftsOf(graph, r, u) # {} THEN "set_draft" ELSE "get_staging"
  <2>1. /\ edit[e].pc \notin {"idle", "discard_next"}
        /\ UNCHANGED <<graph, editLock>> /\ Goto(e, pc)
        /\ pc \in Calls \ {"clone", "mark", "find_staging", "to_draft"}
    BY <1>4 DEF UpdateGetDraft, At, Calls
  <2> HIDE DEF pc
  <2> QED
    BY <1>2, <1>3, <2>1, GotoStep
<1>5. CASE UpdateDraft(e)
  BY <1>2, <1>3, <1>5, FinishStep DEF UpdateDraft
<1>6. CASE UpdateGetStaging(e)
  <2>1. PICK x \in Answers(StagingOf(graph, r)) :
          GotoWith(e, IF x # None THEN "clone" ELSE "get_active", x)
    BY <1>6 DEF UpdateGetStaging
  <2> DEFINE pc == IF x # None THEN "clone" ELSE "get_active"
  <2>2. /\ edit[e].pc \notin {"idle", "discard_next"}
        /\ UNCHANGED <<graph, editLock>>
        /\ pc \in Calls /\ pc \notin {"mark", "find_staging", "to_draft"}
        /\ pc = "clone" => x # None
        /\ StagingOf(graph, r) \in SUBSET Of(graph, r)
    BY <1>6 DEF UpdateGetStaging, At, Calls, StagingOf
  <2>3. GotoWith(e, pc, x)
    BY <2>1
  <2> HIDE DEF pc
  <2> QED
    BY <1>2, <2>2, <2>3, ReadStep
<1>7. CASE UpdateGetActive(e)
  <2>1. PICK x \in Answers(ActivesOf(graph, r)) :
          IF x # None THEN GotoWith(e, "clone", x) ELSE Finish(e)
    BY <1>7 DEF UpdateGetActive
  <2>2. /\ edit[e].pc \notin {"idle", "discard_next"}
        /\ UNCHANGED <<graph, editLock>>
        /\ "clone" \in Calls
        /\ ActivesOf(graph, r) \in SUBSET Of(graph, r)
    BY <1>7 DEF UpdateGetActive, At, Calls, ActivesOf
  <2>3. CASE x # None
    BY <1>2, <2>1, <2>2, <2>3, ReadStep
  <2>4. CASE x = None
    BY <1>2, <1>3, <2>1, <2>2, <2>4, FinishStep
  <2> QED
    BY <2>3, <2>4
<1>8. CASE DeleteGetActive(e)
  <2>1. PICK x \in Answers(ActivesOf(graph, r)) :
          GotoWith(e, IF x # None THEN "mark" ELSE "delete_draft", x)
    BY <1>8 DEF DeleteGetActive
  <2> DEFINE pc == IF x # None THEN "mark" ELSE "delete_draft"
  <2>2. /\ edit[e].pc \notin {"idle", "discard_next"}
        /\ UNCHANGED <<graph, editLock>>
        /\ pc \in Calls /\ pc \notin {"clone", "find_staging", "to_draft"}
        /\ pc = "mark" => x # None
        /\ ActivesOf(graph, r) \in SUBSET Of(graph, r)
    BY <1>8 DEF DeleteGetActive, At, Calls, ActivesOf
  <2>3. GotoWith(e, pc, x)
    BY <2>1
  <2> HIDE DEF pc
  <2> QED
    BY <1>2, <2>2, <2>3, ReadStep
<1>9. CASE DeleteDraft(e)
  <2>1. GoodGraph(graph') /\ Kept(graph, graph')
    BY <1>1, <1>9, Unpublished, DeleteKeeps DEF DeleteDraft
  <2>2. UNCHANGED editLock /\ (Finish(e) \/ Goto(e, "delete_staging"))
    BY <1>9 DEF DeleteDraft
  <2>3. edit[e].pc \notin {"idle", "discard_next"} /\ "delete_staging" \in Calls
    BY <1>9 DEF DeleteDraft, At, Calls
  <2> QED
    BY <1>3, <2>1, <2>2, <2>3, FinishStep, GotoStep
<1>10. CASE DeleteStaging(e) \/ DiscardStagingRemove(e)
  <2>1. /\ graph' = DeleteNodes(graph, StagingOf(graph, r))
        /\ Finish(e) /\ UNCHANGED editLock
    BY <1>10 DEF DeleteStaging, DiscardStagingRemove
  <2>2. GoodGraph(graph') /\ Kept(graph, graph')
    BY <1>1, <2>1, Unpublished, DeleteKeeps
  <2> QED
    BY <1>3, <2>1, <2>2, FinishStep
<1>11. CASE SubmitDraft(e)
  <2>1. edit[e].pc \notin {"idle", "discard_next"} /\ "drop_lock" \in Calls
    BY <1>11 DEF SubmitDraft, At, Calls
  <2>2. GoodGraph(graph') /\ Kept(graph, graph')
    BY <1>1, <1>11, <2>1, Busy, StageKeeps DEF SubmitDraft
  <2> QED
    BY <1>3, <1>11, <2>1, <2>2, FinishStep, GotoStep DEF SubmitDraft
<1>12. CASE DropLock(e)
  <2>1. editLock' \in [Rids -> Users \cup {None}]
    BY <1>1, <1>12 DEF DropLock
  <2> QED
    BY <1>2, <1>12, <2>1, FinishStep DEF DropLock
<1>13. CASE DiscardStagingFind(e)
  <2>1. /\ edit[e].pc = "find_staging" /\ "to_draft" \in Calls
        /\ UNCHANGED <<graph, editLock>>
        /\ Finish(e) \/ Goto(e, "to_draft")
    BY <1>13 DEF DiscardStagingFind, At, Calls
  <2> QED
    BY <1>2, <1>3, <2>1, FinishStep, GotoStep
<1>14. CASE DiscardStagingToDraft(e)
  <2>1. Of(graph, r) \cap Published(graph) = {} /\ u \in Users /\ r \in Rids
    BY <1>1, <1>14 DEF DiscardStagingToDraft, At, GoodRequest
  <2>2. GoodGraph(graph') /\ Kept(graph, graph')
    BY <1>1, <1>14, <2>1, DraftKeeps DEF DiscardStagingToDraft
  <2> QED
    BY <1>3, <1>14, <2>2, FinishStep DEF DiscardStagingToDraft
<1>15. ASSUME NEW s \in Rids, DiscardAllNext(e, s) PROVE IInv' /\ Kept(graph, graph')
  <2> DEFINE q == [edit[e] EXCEPT !.todo = @ \ {s}]
  <2>1. GoodGraph(graph') /\ Kept(graph, graph')
    BY <1>1, <1>15, Unpublished, DeleteKeeps DEF DiscardAllNext
  <2>2. CASE Finish(e)
    BY <1>3, <1>15, <2>1, <2>2, FinishStep DEF DiscardAllNext
  <2>3. CASE edit' = [edit EXCEPT ![e].todo = @ \ {s}]
    <3>1. q \in Request /\ q.pc = "discard_next" /\ edit' = [edit EXCEPT ![e] = q]
      BY <1>1, <1>15, <2>3 DEF DiscardAllNext, At, Request
    <3>2. GoodRequest(graph', q)
      BY <3>1 DEF GoodRequest
    <3> QED
      BY <1>3, <1>15, <2>1, <3>1, <3>2, SlotStep DEF DiscardAllNext
  <2> QED
    BY <1>15, <2>2, <2>3 DEF DiscardAllNext
<1>16. ASSUME NEW n \in NodeIds, CreateDraft(e, n) PROVE IInv' /\ Kept(graph, graph')
  <2> DEFINE y == NewDraft(r, u)
  <2>1. u \in Users /\ r \in Rids
    BY <1>16, Busy DEF CreateDraft, At
  <2>2. /\ y \in Node /\ y.is_draft /\ ~y.is_staging /\ y.draft_owner # None
        /\ y.parent_snapshot_id = y.snapshot_id /\ HasBase(graph, y)
    BY <2>1, NoneAssumption DEF NewDraft, Node, HasBase
  <2>3. GoodGraph(graph') /\ Kept(graph, graph')
    <3> HIDE DEF y
    <3> QED
      BY <1>1, <1>16, <2>2, CreateKeeps DEF CreateDraft, y
  <2> QED
    BY <1>3, <1>16, <2>3, FinishStep DEF CreateDraft
<1>17. ASSUME NEW n \in NodeIds, UpdateClone(e, n) \/ DeleteMark(e, n)
       PROVE  IInv' /\ Kept(graph, graph')
  BY <1>17, CloneStep DEF UpdateClone, DeleteMark, At
<1> QED
  BY <1>4, <1>5, <1>6, <1>7, <1>8, <1>9, <1>10, <1>11, <1>12, <1>13, <1>14, <1>15,
     <1>16, <1>17 DEF NextCall

\* A step of the system, of a request that dies, or of time.
LEMMA EditStepInv ==
  ASSUME IInv, [EditNext]_<<graph, editVars>>
  PROVE  IInv' /\ Kept(graph, graph')
<1>1. CASE UNCHANGED <<graph, editVars>>
  BY <1>1 DEF IInv, Kept, editVars
<1>2. ASSUME NEW e \in Editors, RequestDies(e) PROVE IInv' /\ Kept(graph, graph')
  BY <1>2, FinishStep DEF RequestDies, IInv, Kept
<1>3. ASSUME NEW r \in Rids, LockExpires(r) PROVE IInv' /\ Kept(graph, graph')
  BY <1>3 DEF LockExpires, IInv, Kept
<1> QED
  BY <1>1, <1>2, <1>3, ArrivalStep, CallStep DEF EditNext

LEMMA EditInvariant == EditSpec => []IInv
<1>1. IInv /\ [EditNext]_<<graph, editVars>> => IInv'
  BY EditStepInv
<1> QED
  BY EditInitInv, <1>1, PTL DEF EditSpec

----------------------------------------------------------------------------

\* Type correctness of the editing handlers.
THEOREM EditTypeCorrect == EditSpec => []EditTypeOK
BY EditInvariant, IInvTypes, PTL

\* However editing requests interleave and wherever they die, no version is
\* both draft and staged, and exactly the drafts have an owner.
THEOREM EditStagesExclusive == EditSpec => []StagesExclusive
<1>1. IInv => StagesExclusive
  BY DEF IInv, GoodGraph, GoodNode, StagesExclusive
<1> QED
  BY <1>1, EditInvariant, PTL

\* Every unpublished version keeps the snapshot it was cloned from, and the
\* graph keeps that version, although the clone is created from a node read
\* several calls earlier.
THEOREM EditBaseVersionKept == EditSpec => []BaseVersionKept
<1>1. IInv => BaseVersionKept
  BY DEF IInv, GoodGraph, GoodNode, HasBase, BaseVersionKept
<1> QED
  BY <1>1, EditInvariant, PTL

\* No editing request changes, adds or removes a published version.
THEOREM EditPublishedKept == EditSpec => EditsKeepPublished
<1>1. IInv /\ [EditNext]_<<graph, editVars>>
        => [/\ Published(graph') = Published(graph)
            /\ \A n \in Published(graph) : graph'[n] = graph[n]]_graph
  BY EditStepInv DEF Kept
<1> QED
  BY <1>1, EditInvariant, PTL DEF EditSpec, EditsKeepPublished
=============================================================================
