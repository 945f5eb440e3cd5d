---------------------- MODULE OntologyVersions_proofs ----------------------
(***************************************************************************)
(* The graph and the version history together.                             *)
(*                                                                         *)
(* OriginInv: where the snapshots that nodes refer to come from.  Every    *)
(* snapshot in use, in the graph or in what a request has read of it, is   *)
(* in PostgreSQL or belongs to a commit in flight, and the identifier a    *)
(* commit has drawn is used nowhere before it promotes.  This needs no     *)
(* exclusion of commits and holds next to rollbacks; it does need commits  *)
(* that neither fail nor die between the graph and PostgreSQL.             *)
(*                                                                         *)
(* ShowInv: what the graph shows of the history at each call of a commit   *)
(* or rollback that runs alone.                                            *)
(*                                                                         *)
(* OneInv: a commit that is about to publish what is staged has switched   *)
(* off what it replaces.                                                   *)
(***************************************************************************)
EXTENDS OntologySystem_proofs

InGraph(g, s) == \E n \in NodeIds : Has(g, n) /\ g[n].snapshot_id = s

InRequest(e, s) == edit[e].src # None /\ edit[e].src.snapshot_id = s

Uses(s) == InGraph(graph, s) \/ \E e \in Editors : InRequest(e, s)

Known(s) == \/ s \in Committed
            \/ \E c \in Committers : Committing(c) /\ pub[c].snap = s

Numbered(g) == \A n \in Published(g) : g[n].snapshot_id # None

\* The identifier drawn by c is in no node yet, or not any more its own.
Unused(c) == \/ pub[c].pc \in {"read", "classify", "snapshot"}
             \/ pub[c].pc = "unlock" /\ pub[c].snap \notin Committed

OriginInv ==
  /\ Numbered(graph)
  /\ \A s \in Snaps : Uses(s) => Known(s)
  /\ \A c \in Committers : Committing(c) =>
       /\ \A d \in Committers : Committing(d) /\ pub[d].snap = pub[c].snap => d = c
       /\ Unused(c) => ~Uses(pub[c].snap)

----------------------------------------------------------------------------
(* What the Cypher statements do to the snapshots in use.                  *)

\* g is followed by h without a new snapshot or a new published node.
NoNewSnap(g, h) ==
  /\ Numbered(g) => Numbered(h)
  /\ \A s \in Snaps : InGraph(h, s) => InGraph(g, s)

LEMMA DeleteNoNew ==
  ASSUME NEW g, NEW S
  PROVE  NoNewSnap(g, DeleteNodes(g, S))
BY DEF NoNewSnap, Numbered, InGraph, DeleteNodes, Published, Has

LEMMA CreateNoNew ==
  ASSUME NEW g, NEW n \in NodeIds, NEW x \in Node, g \in Graph, x.is_draft
  PROVE  /\ Numbered(g) => Numbered(CreateNode(g, n, x))
         /\ \A s \in Snaps : InGraph(CreateNode(g, n, x), s)
                               => InGraph(g, s) \/ x.snapshot_id = s
BY DEF Numbered, InGraph, CreateNode, Published, IsPublished, Has, Graph

LEMMA RestageNoNew ==
  ASSUME NEW g, SoundGraph(g), NEW r, NEW u
  PROVE  /\ NoNewSnap(g, DraftsToStaging(g, r, u))
         /\ NoNewSnap(g, AllToDraft(g, r, u))
<1>1. ASSUME NEW n \in NodeIds, Has(g, n)
      PROVE  LET y == [g[n] EXCEPT !.is_draft = FALSE, !.is_staging = TRUE,
                                   !.draft_owner = None]
                 z == [g[n] EXCEPT !.is_staging = FALSE, !.is_draft = TRUE,
                                   !.draft_owner = u]
             IN  /\ y.snapshot_id = g[n].snapshot_id /\ ~IsPublished(y)
                 /\ z.snapshot_id = g[n].snapshot_id /\ ~IsPublished(z)
  BY <1>1 DEF SoundGraph, Graph, Has, Node, IsPublished
<1>2. NoNewSnap(g, DraftsToStaging(g, r, u))
  <2> DEFINE h == DraftsToStaging(g, r, u)
  <2>1. \A n \in NodeIds : Has(h, n) =>
          \/ h[n] = g[n]
          \/ Has(g, n) /\ h[n].snapshot_id = g[n].snapshot_id /\ ~IsPublished(h[n])
    BY <1>1 DEF DraftsToStaging, DraftsOf, Of
  <2>2. NoNewSnap(g, h)
    <3> HIDE DEF h
    <3> QED
      BY <2>1 DEF NoNewSnap, Numbered, InGraph, Published, Has
  <2> QED
    BY <2>2
<1>3. NoNewSnap(g, AllToDraft(g, r, u))
  <2> DEFINE h == AllToDraft(g, r, u)
  <2>1. \A n \in NodeIds : Has(h, n) =>
          \/ h[n] = g[n]
          \/ Has(g, n) /\ h[n].snapshot_id = g[n].snapshot_id /\ ~IsPublished(h[n])
    BY <1>1 DEF AllToDraft, Of
  <2>2. NoNewSnap(g, h)
    <3> HIDE DEF h
    <3> QED
      BY <2>1 DEF NoNewSnap, Numbered, InGraph, Published, Has
  <2> QED
    BY <2>2
<1> QED
  BY <1>2, <1>3

\* Changing is_active, as Deactivate, SwitchOff and SwitchOn do.
LEMMA ActiveNoNew ==
  ASSUME NEW g, SoundGraph(g), NEW s
  PROVE  /\ NoNewSnap(g, Deactivate(g))
         /\ NoNewSnap(g, SwitchOff(g, s))
         /\ NoNewSnap(g, SwitchOn(g, s))
<1> DEFINE Sets(h) == \A n \in NodeIds :
             \/ h[n] = g[n]
             \/ Has(g, n) /\ \E b \in BOOLEAN : h[n] = [g[n] EXCEPT !.is_active = b]
<1>1. ASSUME NEW h, Sets(h) PROVE NoNewSnap(g, h)
  <2>1. \A n \in NodeIds : Has(h, n) =>
          /\ Has(g, n)
          /\ h[n].snapshot_id = g[n].snapshot_id
          /\ IsPublished(h[n]) <=> IsPublished(g[n])
    BY <1>1 DEF SoundGraph, Graph, Has, Node, IsPublished
  <2> QED
    BY <2>1 DEF NoNewSnap, Numbered, InGraph, Published
<1>2. Sets(Deactivate(g))
  BY DEF Deactivate, Actives, Published
<1>3. Sets(SwitchOff(g, s)) /\ Sets(SwitchOn(g, s))
  BY DEF SwitchOff, SwitchOn
<1> HIDE DEF Sets
<1> QED
  BY <1>1, <1>2, <1>3

\* Promotion numbers what it publishes.
LEMMA PromoteNumbers ==
  ASSUME NEW g, SoundGraph(g), NEW t \in Snaps
  PROVE  /\ Numbered(g) => Numbered(Promote(g, t))
         /\ \A s \in Snaps : InGraph(Promote(g, t), s) => InGraph(g, s) \/ s = t
<1> DEFINE h == Promote(g, t)
<1>1. \A n \in NodeIds : Has(h, n) => h[n] = g[n] \/ h[n].snapshot_id = t
  BY DEF Promote, Staging, SoundGraph, Graph, Has, Node
<1>2. t # None
  BY NoneAssumption
<1>3. \A n \in Published(h) : h[n] = g[n] => n \in Published(g)
  BY DEF Published, Has
<1>4. /\ Numbered(g) => Numbered(h)
      /\ \A s \in Snaps : InGraph(h, s) => InGraph(g, s) \/ s = t
  <2> HIDE DEF h
  <2> QED
    BY <1>1, <1>2, <1>3 DEF Numbered, InGraph, Published, Has
<1> QED
  BY <1>4

----------------------------------------------------------------------------
(* Editing requests bring no snapshot into use.                            *)

\* A request reads what the graph holds, or keeps what it read.
SrcKept(e) == \A f \in Editors, s \in Snaps : InRequest(f, s)' =>
                InRequest(f, s) \/ (f = e /\ InGraph(graph, s))

LEMMA RequestNoNew ==
  ASSUME SoundEdit, SoundGraph(graph), NEW e \in Editors,
         \/ Finish(e)
         \/ \E pc : Goto(e, pc)
         \/ \E pc, r : \E S \in SUBSET Of(graph, r) : \E x \in Answers(S) : GotoWith(e, pc, x)
         \/ \E op, u, r, pc : Begin(e, op, u, r, pc)
         \/ \E T : edit' = [edit EXCEPT ![e].todo = T]
         \/ \E T : edit[e] = Idle /\ edit' = [edit EXCEPT ![e].pc = "discard_next", ![e].todo = T]
         \/ UNCHANGED edit
  PROVE  SrcKept(e)
<1>1. edit \in [Editors -> Request] /\ edit[e] \in Request
  BY DEF SoundEdit
<1>2. \A f \in Editors \ {e} : edit'[f] = edit[f]
  BY <1>1 DEF Finish, Goto, GotoWith, Begin
<1>3. \/ edit'[e].src = None
      \/ edit'[e].src = edit[e].src
      \/ \E n \in NodeIds : Has(graph, n) /\ edit'[e].src = graph[n]
  <2>1. CASE Finish(e)
    BY <1>1, <2>1 DEF Finish, Idle
  <2>6. CASE \E op, u, r, pc : Begin(e, op, u, r, pc)
    <3> PICK op, u, r, pc : Begin(e, op, u, r, pc)
      BY <2>6
    <3>1. edit'[e] = [Idle EXCEPT !.pc = pc, !.user = u, !.rid = r]
      BY <1>1 DEF Begin
    <3>2. edit'[e].src = None
      BY <3>1 DEF Idle
    <3> QED
      BY <3>2
  <2>2. CASE (\E pc : Goto(e, pc)) \/ (\E T : edit' = [edit EXCEPT ![e].todo = T])
    BY <1>1, <2>2 DEF Goto, Request
  <2>3. CASE \E T : edit[e] = Idle /\ edit' = [edit EXCEPT ![e].pc = "discard_next",
                                                          ![e].todo = T]
    BY <1>1, <2>3 DEF Request
  <2>4. CASE \E pc, r : \E S \in SUBSET Of(graph, r) : \E x \in Answers(S) : GotoWith(e, pc, x)
    <3> PICK pc, r : \E S \in SUBSET Of(graph, r) : \E x \in Answers(S) : GotoWith(e, pc, x)
      BY <2>4
    <3> PICK S \in SUBSET Of(graph, r) : \E x \in Answers(S) : GotoWith(e, pc, x)
      OBVIOUS
    <3> PICK x \in Answers(S) : GotoWith(e, pc, x)
      OBVIOUS
    <3>1. edit'[e].src = x
      BY <1>1 DEF GotoWith, Request
    <3>2. x = None \/ \E n \in S : x = graph[n]
      BY DEF Answers
    <3> QED
      BY <3>1, <3>2 DEF Of
  <2>5. CASE UNCHANGED edit
    BY <2>5
  <2> QED
    BY <2>1, <2>2, <2>3, <2>4, <2>5, <2>6
<1> QED
  BY <1>2, <1>3 DEF SrcKept, InRequest, InGraph

\* The graph gains no snapshot except from what the request has read.
LEMMA GraphNoNew ==
  ASSUME SoundEdit, SoundGraph(graph), NEW e \in Editors,
         Arrival(e) \/ NextCall(e) \/ RequestDies(e)
  PROVE  /\ Numbered(graph) => Numbered(graph')
         /\ \A s \in Snaps : InGraph(graph', s) => InGraph(graph, s) \/ InRequest(e, s)
<1> DEFINE r == edit[e].rid
           u == edit[e].user
<1>1. CASE \/ UNCHANGED graph
           \/ \E S : graph' = DeleteNodes(graph, S)
           \/ \E q, v : graph' \in {DraftsToStaging(graph, q, v), AllToDraft(graph, q, v)}
  BY <1>1, DeleteNoNew, RestageNoNew DEF NoNewSnap
<1>2. ASSUME NEW n \in NodeIds, CreateDraft(e, n) \/ UpdateClone(e, n) \/ DeleteMark(e, n)
      PROVE  /\ Numbered(graph) => Numbered(graph')
             /\ \A s \in Snaps : InGraph(graph', s) => InGraph(graph, s) \/ InRequest(e, s)
  <2>1. /\ edit[e].pc \notin {"idle", "discard_next"} => u \in Users /\ r \in Rids
        /\ edit[e].pc \in {"clone", "mark"} => edit[e].src \in Node
        /\ graph \in Graph
    BY DEF SoundEdit, SoundRequest, SoundGraph
  <2>2. CASE CreateDraft(e, n)
    <3> DEFINE y == NewDraft(r, u)
    <3>1. y \in Node /\ y.is_draft /\ y.snapshot_id \notin Snaps
      BY <2>1, <2>2, NewDraftSound, NoneAssumption DEF CreateDraft, At, NewDraft
    <3>2. graph' = CreateNode(graph, n, y)
      BY <2>2 DEF CreateDraft
    <3> HIDE DEF y
    <3> QED
      BY <2>1, <3>1, <3>2, CreateNoNew
  <2>3. CASE UpdateClone(e, n) \/ DeleteMark(e, n)
    <3> DEFINE x == edit[e].src
    <3>1. x \in Node /\ u \in Users /\ x # None
      BY <2>1, <2>3, NoneAssumption DEF UpdateClone, DeleteMark, At
    <3>2. \A y \in {CloneAsDraft(x, u), DeletionMarker(x, u)} :
            y \in Node /\ y.is_draft /\ y.snapshot_id = x.snapshot_id
      <4>1. CloneAsDraft(x, u) \in Node /\ DeletionMarker(x, u) \in Node
        BY <3>1, CloneSound
      <4>2. CloneAsDraft(x, u).is_draft /\ CloneAsDraft(x, u).snapshot_id = x.snapshot_id
        BY <3>1 DEF CloneAsDraft, Node
      <4>3. /\ DeletionMarker(x, u).is_draft
            /\ DeletionMarker(x, u).snapshot_id = x.snapshot_id
        <5> HIDE DEF CloneAsDraft, x
        <5> QED
          BY <4>1, <4>2 DEF DeletionMarker, Node
      <4> QED
        BY <4>1, <4>2, <4>3
    <3>3. PICK y \in {CloneAsDraft(x, u), DeletionMarker(x, u)} :
            graph' = CreateNode(graph, n, y)
      BY <2>3 DEF UpdateClone, DeleteMark
    <3> QED
      BY <2>1, <3>1, <3>2, <3>3, CreateNoNew DEF InRequest
  <2> QED
    BY <1>2, <2>2, <2>3
<1>3. \/ UNCHANGED graph
      \/ \E S : graph' = DeleteNodes(graph, S)
      \/ \E q, v : graph' \in {DraftsToStaging(graph, q, v), AllToDraft(graph, q, v)}
      \/ \E n \in NodeIds : CreateDraft(e, n) \/ UpdateClone(e, n) \/ DeleteMark(e, n)
  BY DEF Arrival, NextCall, RequestDies, DiscardAllList, CreateCheckName, UpdateRequireLock,
     DeleteRequireLock, SubmitGetDraft, DiscardDraft, DiscardStagingGetActive, AcquireLock,
     ReleaseGetOwner, UpdateGetDraft, UpdateDraft, UpdateGetStaging, UpdateGetActive,
     DeleteGetActive, DeleteDraft, DeleteStaging, SubmitDraft, DropLock, DiscardStagingRemove,
     DiscardStagingFind, DiscardStagingToDraft, DiscardAllNext
<1> QED
  BY <1>1, <1>2, <1>3

\* How a call writes the record of its request.
LEMMA WritesSlot ==
  ASSUME NEW e \in Editors, Arrival(e) \/ NextCall(e) \/ RequestDies(e)
  PROVE  \/ UpdateGetStaging(e) \/ UpdateGetActive(e) \/ DeleteGetActive(e)
         \/ Finish(e)
         \/ \E pc : Goto(e, pc)
         \/ \E op, u, r, pc : Begin(e, op, u, r, pc)
         \/ \E T : edit' = [edit EXCEPT ![e].todo = T]
         \/ \E T : edit[e] = Idle /\ edit' = [edit EXCEPT ![e].pc = "discard_next", ![e].todo = T]
         \/ UNCHANGED edit
<1>1. CASE Arrival(e)
  BY <1>1 DEF Arrival, DiscardAllList, CreateCheckName, UpdateRequireLock,
     DeleteRequireLock, SubmitGetDraft, DiscardDraft, DiscardStagingGetActive, AcquireLock,
     ReleaseGetOwner
<1>2. CASE NextCall(e) \/ RequestDies(e)
  BY <1>2 DEF NextCall, RequestDies, CreateDraft, UpdateClone, DeleteMark, UpdateGetDraft,
     UpdateDraft, DeleteDraft, DeleteStaging, SubmitDraft, DropLock, DiscardStagingRemove,
     DiscardStagingFind, DiscardStagingToDraft, DiscardAllNext
<1> QED
  BY <1>1, <1>2

\* A call writes the record of its own request only.
LEMMA OwnEdit ==
  ASSUME edit \in [Editors -> Request], NEW e \in Editors,
         Arrival(e) \/ NextCall(e) \/ RequestDies(e), NEW f \in Editors \ {e}
  PROVE  edit'[f] = edit[f]
<1>1. ASSUME Finish(e) \/ (\E pc, x : GotoWith(e, pc, x)) PROVE edit'[f] = edit[f]
  BY <1>1 DEF Finish, GotoWith
<1>2. CASE UpdateGetStaging(e) \/ UpdateGetActive(e) \/ DeleteGetActive(e)
  <2>1. CASE UpdateGetStaging(e)
    <3> PICK x : GotoWith(e, IF x # None THEN "clone" ELSE "get_active", x)
      BY <2>1 DEF UpdateGetStaging
    <3> QED
      BY <1>1
  <2>2. CASE UpdateGetActive(e)
    BY <1>1, <2>2 DEF UpdateGetActive
  <2>3. CASE DeleteGetActive(e)
    <3> PICK x : GotoWith(e, IF x # None THEN "mark" ELSE "delete_draft", x)
      BY <2>3 DEF DeleteGetActive
    <3> QED
      BY <1>1
  <2> QED
    BY <1>2, <2>1, <2>2, <2>3
<1>3. ASSUME NEW pc, Goto(e, pc) PROVE edit'[f] = edit[f]
  BY <1>3 DEF Goto
<1>4. ASSUME NEW op, NEW u, NEW r, NEW pc, Begin(e, op, u, r, pc) PROVE edit'[f] = edit[f]
  BY <1>4 DEF Begin
<1> QED
  BY <1>1, <1>2, <1>3, <1>4, WritesSlot

\* The request reads what the graph holds.
LEMMA ReadNoNew ==
  ASSUME SoundEdit, SoundGraph(graph), NEW e \in Editors,
         Arrival(e) \/ NextCall(e) \/ RequestDies(e)
  PROVE  SrcKept(e)
<1>1. CASE UpdateGetStaging(e) \/ UpdateGetActive(e) \/ DeleteGetActive(e)
  <2>1. /\ StagingOf(graph, edit[e].rid) \in SUBSET Of(graph, edit[e].rid)
        /\ ActivesOf(graph, edit[e].rid) \in SUBSET Of(graph, edit[e].rid)
    BY DEF StagingOf, ActivesOf
  <2>2. CASE UpdateGetStaging(e)
    BY <2>1, <2>2, RequestNoNew DEF UpdateGetStaging
  <2>3. CASE UpdateGetActive(e)
    <3> PICK x \in Answers(ActivesOf(graph, edit[e].rid)) :
          IF x # None THEN GotoWith(e, "clone", x) ELSE Finish(e)
      BY <2>3 DEF UpdateGetActive
    <3> QED
      BY <2>1, RequestNoNew
  <2>4. CASE DeleteGetActive(e)
    BY <2>1, <2>4, RequestNoNew DEF DeleteGetActive
  <2> QED
    BY <1>1, <2>2, <2>3, <2>4
<1> QED
  BY <1>1, WritesSlot, RequestNoNew

\* No editing step brings a snapshot into use or publishes.
LEMMA EditNoNew ==
  ASSUME SoundGraph(graph), SoundEdit, EditNext, Numbered(graph)
  PROVE  Numbered(graph') /\ \A s \in Snaps : Uses(s)' => Uses(s)
<1>1. CASE \E r \in Rids : LockExpires(r)
  BY <1>1 DEF LockExpires, Uses, InRequest
<1>2. ASSUME NEW e \in Editors, Arrival(e) \/ NextCall(e) \/ RequestDies(e)
      PROVE  Numbered(graph') /\ \A s \in Snaps : Uses(s)' => Uses(s)
  BY <1>2, GraphNoNew, ReadNoNew DEF SrcKept, Uses
<1> QED
  BY <1>1, <1>2 DEF EditNext

----------------------------------------------------------------------------
(* The invariant is inductive.                                             *)

LEMMA OriginInit == Init => OriginInv
<1> SUFFICES ASSUME Init PROVE OriginInv
  OBVIOUS
<1> PICK at \in Placements, s \in Snaps :
      LET created == {at[n] : n \in NodeIds} \ {None} IN
      /\ graph = FirstVersion(at, s)
      /\ IF created = {}
           THEN rows = {} /\ pointer = None
           ELSE /\ rows = {[snap |-> s, parent |-> None,
                            changes |-> [r \in created |-> "create"]]}
                /\ pointer = s
  BY DEF Init
<1>1. ASSUME NEW n \in NodeIds, Has(graph, n)
      PROVE  graph[n].snapshot_id = s /\ s \in Committed
  <2>1. graph[n] = ActiveNode(at[n], s) /\ at[n] # None
    BY <1>1 DEF FirstVersion, Has
  <2>2. at[n] \in {at[m] : m \in NodeIds} \ {None}
    BY <2>1
  <2>3. \E f : rows = {[snap |-> s, parent |-> None, changes |-> f]}
    BY <2>2
  <2> QED
    BY <2>1, <2>3 DEF ActiveNode, Committed
<1>2. \A e \in Editors : edit[e].src = None
  BY DEF Init, EditStart, Idle
<1>3. \A c \in Committers : ~Committing(c)
  BY DEF Init, PublishStart, NoRequest, Committing, CommitCalls, GraphCalls
<1>4. Numbered(graph)
  BY <1>1, NoneAssumption DEF Numbered, Published
<1>5. \A t \in Snaps : Uses(t) => Known(t)
  BY <1>1, <1>2 DEF Uses, InGraph, InRequest, Known
<1> QED
  BY <1>3, <1>4, <1>5 DEF OriginInv

LEMMA OriginEdit ==
  ASSUME SoundInv, OriginInv, EditStep
  PROVE  OriginInv'
<1>1. Numbered(graph') /\ \A s \in Snaps : Uses(s)' => Uses(s)
  BY EditNoNew DEF SoundInv, OriginInv, EditStep
<1>2. /\ \A s \in Snaps : Known(s)' <=> Known(s)
      /\ \A c \in Committers : /\ Committing(c)' <=> Committing(c)
                               /\ Unused(c)' <=> Unused(c)
                               /\ pub'[c] = pub[c]
  BY DEF EditStep, pubVars, Known, Committed, Committing, Unused
<1>3. \A c \in Committers : Committing(c) => pub[c].snap \in Snaps
  BY DEF SoundInv, SoundPub, Committing, CommitCalls, GraphCalls
<1> QED
  BY <1>1, <1>2, <1>3 DEF OriginInv

\* A call of c that puts no snapshot into the graph but the one c has drawn.
LEMMA OriginCall ==
  ASSUME SoundPub, OriginInv, UNCHANGED editVars, NEW c \in Committers,
         \A d \in Committers \ {c} : pub'[d] = pub[d],
         Committed \subseteq Committed',
         Committing(c)' => /\ Committing(c)
                           /\ pub'[c].snap = pub[c].snap
                           /\ Unused(c)' => Unused(c),
         Committing(c) /\ ~Committing(c)' => pub[c].snap \in Committed' \/ Unused(c),
         Numbered(graph'),
         \A s \in Snaps : InGraph(graph', s) =>
           InGraph(graph, s) \/ (s = pub[c].snap /\ Committing(c)' /\ ~Unused(c)')
  PROVE  OriginInv'
<1>1. \A d \in Committers : Committing(d) => pub[d].snap \in Snaps
  BY DEF SoundPub, Committing, CommitCalls, GraphCalls
<1>2. \A d \in Committers \ {c} : /\ Committing(d)' <=> Committing(d)
                                  /\ Unused(d)' => Unused(d)
  BY DEF Committing, Unused
<1>3. \A s \in Snaps : Uses(s)' =>
        Uses(s) \/ (s = pub[c].snap /\ Committing(c)' /\ ~Unused(c)')
  BY DEF Uses, InRequest, editVars
<1>4. \A s \in Snaps : Uses(s)' => Known(s)'
  <2>1. ASSUME NEW s \in Snaps, Uses(s)', Uses(s) PROVE Known(s)'
    <3>1. CASE s \in Committed
      BY <3>1 DEF Known
    <3>2. ASSUME NEW d \in Committers, Committing(d), pub[d].snap = s PROVE Known(s)'
      <4>1. CASE Committing(d)'
        BY <1>2, <3>2, <4>1 DEF Known
      <4>2. CASE ~Committing(d)'
        BY <1>2, <2>1, <3>2, <4>2 DEF Known, OriginInv
      <4> QED
        BY <4>1, <4>2
    <3> QED
      BY <2>1, <3>1, <3>2 DEF OriginInv, Known
  <2> QED
    BY <1>3, <2>1 DEF Known
<1>5. ASSUME NEW d \in Committers, Committing(d)'
      PROVE  /\ \A b \in Committers : Committing(b)' /\ pub'[b].snap = pub'[d].snap => b = d
             /\ Unused(d)' => ~Uses(pub[d].snap)'
  <2>1. \A b \in Committers : Committing(b)' => Committing(b) /\ pub'[b].snap = pub[b].snap
    BY <1>2
  <2>2. \A b \in Committers : Committing(b)' /\ pub'[b].snap = pub'[d].snap => b = d
    BY <1>5, <2>1 DEF OriginInv
  <2>3. ASSUME Unused(d)' PROVE ~Uses(pub[d].snap)'
    <3>1. ~Uses(pub[d].snap) /\ pub'[d].snap = pub[d].snap /\ pub[d].snap \in Snaps
      BY <1>1, <1>2, <1>5, <2>1, <2>3 DEF OriginInv
    <3> QED
      BY <1>3, <1>5, <2>1, <2>2, <2>3, <3>1
  <2> QED
    BY <2>2, <2>3
<1> QED
  BY <1>4, <1>5 DEF OriginInv

\* The calls that change no record of a commit but c's.
LEMMA OriginPublish ==
  ASSUME "crash" \notin Faults, "error" \notin Faults, SoundInv, OriginInv,
         NEW c \in Committers, UNCHANGED editVars, PublishCall(c)
  PROVE  OriginInv'
<1> DEFINE t == pub[c].snap
<1>1. /\ pub \in [Committers -> PubRequest] /\ pub[c] \in PubRequest
      /\ SoundGraph(graph) /\ SoundPub /\ Numbered(graph)
      /\ pub[c].pc # "idle" => t \in Snaps
  BY DEF SoundInv, SoundPub, PubTypeOK, OriginInv
<1>2. \A d \in Committers \ {c} : pub'[d] = pub[d]
  BY <1>1, OwnSlot
<1>3. CASE CommitReadStaging(c) \/ CommitClassify(c) \/ CommitCreateSnapshot(c)
  <2>1. /\ pub[c].pc \in {"read", "classify", "snapshot"}
        /\ pub'[c].snap = t /\ UNCHANGED <<graph, rows>>
    <3>1. CASE CommitReadStaging(c)
      BY <1>1, <3>1 DEF CommitReadStaging, PubAt, PubGoto, PubRequest
    <3>2. CASE CommitClassify(c)
      <4> PICK f : pub' = [pub EXCEPT ![c].pc = "snapshot", ![c].changes = f,
                                      ![c].staged = {}]
        BY <3>2 DEF CommitClassify
      <4> QED
        BY <1>1, <3>2 DEF CommitClassify, PubAt, PubRequest
    <3>3. CASE CommitCreateSnapshot(c)
      BY <1>1, <3>3 DEF CommitCreateSnapshot, PubAt, PubRequest
    <3> QED
      BY <1>3, <3>1, <3>2, <3>3
  <2>2. Committing(c) /\ Unused(c) /\ Committed' = Committed /\ Numbered(graph')
    BY <1>1, <2>1 DEF Committing, CommitCalls, Unused, Committed
  <2> QED
    BY <1>1, <1>2, <2>1, <2>2, OriginCall
<1>4. CASE CommitPromote(c) \/ CommitRetry(c)
  <2>1. /\ pub[c].pc \in GraphCalls /\ graph' \in {graph, PromoteStatement(c)}
        /\ pub'[c].pc \in GraphCalls \cup {"point"} /\ pub'[c].snap = t
        /\ UNCHANGED rows
    BY <1>1, <1>4 DEF CommitPromote, CommitRetry, AfterStatement, PubAt, PubGoto,
                      GraphCalls, PubRequest
  <2>2. /\ Committing(c) /\ Committing(c)' /\ ~Unused(c)' /\ Committed' = Committed
        /\ t \in Snaps
    BY <1>1, <2>1 DEF Committing, CommitCalls, GraphCalls, Unused, Committed
  <2>3. /\ Numbered(graph')
        /\ \A s \in Snaps : InGraph(graph', s) => InGraph(graph, s) \/ s = t
    <3>1. PromoteStatement(c) \in {Deactivate(graph), Promote(graph, t), Cleanup(graph, t)}
      BY <2>1 DEF PromoteStatement, PubAt, GraphCalls
    <3>2. NoNewSnap(graph, Deactivate(graph)) /\ NoNewSnap(graph, Cleanup(graph, t))
      BY <1>1, ActiveNoNew, DeleteNoNew DEF Cleanup
    <3> QED
      BY <1>1, <2>1, <2>2, <3>1, <3>2, PromoteNumbers DEF NoNewSnap
  <2> QED
    BY <1>1, <1>2, <2>1, <2>2, <2>3, OriginCall
<1>5. CASE CommitPoint(c)
  <2>1. /\ pub[c].pc = "point" /\ pub'[c].pc = "unlock" /\ pub'[c].snap = t
        /\ UNCHANGED graph
        /\ \E x : rows' = rows \cup {x} /\ x.snap = t
    <3> DEFINE x == [snap |-> t, parent |-> pub[c].parent, changes |-> pub[c].changes]
    <3>1. rows' = rows \cup {x} /\ x.snap = t
      BY <1>5 DEF CommitPoint
    <3> HIDE DEF x
    <3> QED
      BY <1>1, <1>5, <3>1 DEF CommitPoint, PubAt, PubGoto, PubRequest
  <2>2. /\ Committing(c) /\ Committed \subseteq Committed' /\ t \in Committed'
    BY <2>1 DEF Committing, CommitCalls, Committed
  <2>3. Committing(c)' /\ ~Unused(c)'
    BY <2>1, <2>2 DEF Committing, Unused
  <2> QED
    BY <1>1, <1>2, <2>1, <2>2, <2>3, OriginCall
<1>6. CASE CommitUnlock(c)
  <2>1. /\ pub[c].pc = "unlock" /\ pub'[c].pc = "idle" /\ UNCHANGED <<graph, rows>>
    BY <1>1, <1>6 DEF CommitUnlock, PubAt, PubFinish, NoRequest
  <2>2. ~Committing(c)' /\ Committed' = Committed /\ (t \in Committed \/ Unused(c))
    BY <2>1 DEF Committing, CommitCalls, GraphCalls, Committed, Unused
  <2> QED
    BY <1>1, <1>2, <2>1, <2>2, OriginCall
<1>7. CASE RollbackFindTarget(c) \/ RollbackSwitchOff(c) \/ RollbackSwitchOn(c)
             \/ RollbackPoint(c)
  <2>1. /\ pub[c].pc \in RollbackCalls /\ UNCHANGED rows
        /\ \E s : graph' \in {graph, SwitchOff(graph, s), SwitchOn(graph, s)}
    BY <1>7 DEF RollbackFindTarget, RollbackSwitchOff, RollbackSwitchOn, RollbackPoint,
                PubAt, RollbackCalls
  <2>2. ~Committing(c)
    BY <2>1 DEF Committing, CommitCalls, GraphCalls, RollbackCalls
  <2>3. ~Committing(c)'
    BY <1>1, <1>7, <2>2, CommitsStart
  <2>4. /\ Numbered(graph')
        /\ \A s \in Snaps : InGraph(graph', s) => InGraph(graph, s)
    BY <1>1, <2>1, ActiveNoNew DEF NoNewSnap
  <2>5. Committed' = Committed
    BY <2>1 DEF Committed
  <2> QED
    BY <1>1, <1>2, <2>2, <2>3, <2>4, <2>5, OriginCall
<1>8. ~CommitFails(c)
  BY DEF CommitFails
<1> QED
  BY <1>3, <1>4, <1>5, <1>6, <1>7, <1>8 DEF PublishCall

LEMMA OriginAcquire ==
  ASSUME SoundInv, OriginInv, NEW c \in Committers, NEW s \in Snaps,
         UNCHANGED editVars, CommitAcquireLock(c, s)
  PROVE  OriginInv'
<1>1. /\ pub \in [Committers -> PubRequest] /\ pub[c] = NoRequest
      /\ \A d \in Committers : Committing(d) => pub[d].snap \in Snaps
  BY DEF SoundInv, SoundPub, PubTypeOK, CommitAcquireLock, Committing, CommitCalls, GraphCalls
<1>2. /\ \A d \in Committers \ {c} : pub'[d] = pub[d]
      /\ pub'[c].pc = "read" /\ pub'[c].snap = s /\ UNCHANGED <<graph, rows>>
  BY <1>1 DEF CommitAcquireLock, NoRequest
<1>3. /\ \A d \in Committers \ {c} : (Committing(d)' <=> Committing(d))
                                     /\ (Unused(d)' <=> Unused(d))
      /\ ~Committing(c)
      /\ \A x \in Snaps : Uses(x)' <=> Uses(x)
      /\ Committed' = Committed
  BY <1>1, <1>2 DEF Committing, Unused, Committed, Uses, InRequest, editVars, NoRequest,
                    CommitCalls, GraphCalls
<1>4. /\ \A d \in Committers : pub[d].snap # s
      /\ ~Uses(s)
  BY DEF CommitAcquireLock, FreshSnaps, OriginInv, Known
<1>5. \A x \in Snaps : Known(x) => Known(x)'
  BY <1>2, <1>3 DEF Known
<1>6. \A x \in Snaps : Uses(x)' => Known(x)'
  BY <1>3, <1>5 DEF OriginInv
<1>7. ASSUME NEW d \in Committers, Committing(d)'
      PROVE  /\ \A b \in Committers : Committing(b)' /\ pub'[b].snap = pub'[d].snap => b = d
             /\ Unused(d)' => ~Uses(pub[d].snap)'
  <2>1. CASE d = c
    BY <1>2, <1>3, <1>4, <2>1 DEF Uses, InRequest, editVars
  <2>2. CASE d # c
    BY <1>1, <1>2, <1>3, <1>4, <1>7, <2>2 DEF OriginInv
  <2> QED
    BY <2>1, <2>2
<1> QED
  BY <1>2, <1>6, <1>7 DEF OriginInv

LEMMA OriginStep ==
  ASSUME "crash" \notin Faults, "error" \notin Faults, SoundInv, OriginInv, [Next]_vars
  PROVE  OriginInv'
<1>1. CASE UNCHANGED vars \/ (CommitLockExpires /\ UNCHANGED editVars)
  <2>1. UNCHANGED <<graph, edit, pub, rows>>
    BY <1>1 DEF vars, editVars, pubVars, CommitLockExpires
  <2> QED
    BY <2>1 DEF OriginInv, Uses, InRequest, Known, Committed, Committing, Unused
<1>2. CASE EditStep
  BY <1>2, OriginEdit
<1>3. ASSUME NEW c \in Committers, UNCHANGED editVars,
             (\E s \in Snaps : CommitAcquireLock(c, s)) \/ PublishCall(c)
      PROVE  OriginInv'
  BY <1>3, OriginAcquire, OriginPublish
<1>4. ASSUME NEW c \in Committers, UNCHANGED editVars, NEW s \in Snaps, RollbackCheck(c, s)
      PROVE  OriginInv'
  <2>1. /\ pub \in [Committers -> PubRequest] /\ SoundPub /\ Numbered(graph)
        /\ UNCHANGED <<graph, rows>> /\ ~Committing(c)
    BY <1>4 DEF SoundInv, SoundPub, PubTypeOK, OriginInv, RollbackCheck, Committing,
                CommitCalls, GraphCalls, NoRequest
  <2>2. ~Committing(c)' /\ \A d \in Committers \ {c} : pub'[d] = pub[d]
    BY <1>4, <2>1, CommitsStart, OwnSlot DEF PublishArrival
  <2>3. Committed' = Committed
    BY <2>1 DEF Committed
  <2> QED
    BY <1>4, <2>1, <2>2, <2>3, OriginCall
<1>5. ASSUME NEW c \in Committers PROVE ~PublisherDies(c)
  BY DEF PublisherDies
<1> QED
  BY <1>1, <1>2, <1>3, <1>4, <1>5 DEF Next, PublishStep, PublishNext, PublishArrival

\* Every published version carries a snapshot that PostgreSQL has or that a
\* commit in flight will write, whatever editing requests, rollbacks and
\* other commits do at the same time, when no commit fails or dies.
THEOREM PublishedRows ==
  ASSUME "crash" \notin Faults, "error" \notin Faults
  PROVE  Spec => []PublishedHasRow
<1>1. SoundInv /\ OriginInv /\ [Next]_vars => OriginInv'
  BY OriginStep
<1>2. SoundInv /\ OriginInv => PublishedHasRow
  <2> SUFFICES ASSUME SoundInv, OriginInv, NEW n \in Published(graph)
               PROVE  \/ graph[n].snapshot_id \in Committed
                      \/ \E c \in Committers :
                           Committing(c) /\ pub[c].snap = graph[n].snapshot_id
    BY DEF PublishedHasRow
  <2>1. n \in NodeIds /\ Has(graph, n) /\ graph[n] \in Node
    BY DEF Published, SoundInv, SoundGraph, Graph, Has
  <2>2. graph[n].snapshot_id \in Snaps
    BY <2>1 DEF OriginInv, Numbered, Node
  <2>3. Known(graph[n].snapshot_id)
    BY <2>1, <2>2 DEF OriginInv, Uses, InGraph
  <2> QED
    BY <2>3 DEF Known
<1> QED
  BY <1>1, <1>2, OriginInit, SoundInvariant, PTL DEF Spec

----------------------------------------------------------------------------
(* Lines of history when a row is added.                                   *)

SnapsOf(R) == {row.snap : row \in R}

\* The parents of the rows R are there.
Closed(R) == \A row \in R : row.parent \in SnapsOf(R) \cup {None}

\* A line has its start and with each version its parent, and no more.
LEMMA LineFacts ==
  ASSUME NEW R \in SUBSET Row, NEW s \in Snaps \cup {None}
  PROVE  /\ Line(R, s) \in SUBSET (Snaps \cup {None})
         /\ s \in Line(R, s)
         /\ HasParents(R, Line(R, s))
         /\ \A T \in SUBSET (Snaps \cup {None}) :
              s \in T /\ HasParents(R, T) => Line(R, s) \subseteq T
<1>1. \A row \in R : row.parent \in Snaps \cup {None}
  BY DEF Row
<1> QED
  BY <1>1 DEF Line, HasParents

\* The new row is on no old line.
LEMMA LineOld ==
  ASSUME NEW R \in SUBSET Row, NEW x \in Row, x.snap \notin SnapsOf(R), Closed(R),
         NEW s \in SnapsOf(R) \cup {None}
  PROVE  /\ Line(R \cup {x}, s) = Line(R, s)
         /\ x.snap \notin Line(R, s)
<1> DEFINE old == SnapsOf(R) \cup {None}
<1>1. /\ old \in SUBSET (Snaps \cup {None}) /\ x.snap \notin old /\ s \in Snaps \cup {None}
      /\ R \cup {x} \in SUBSET Row
  BY NoneAssumption DEF SnapsOf, Row
<1>2. HasParents(R, old)
  BY DEF Closed, HasParents
<1>3. x.snap \notin Line(R, s)
  BY <1>1, <1>2, LineFacts
<1>4. HasParents(R \cup {x}, Line(R, s))
  BY <1>1, <1>3, LineFacts DEF HasParents
<1>5. HasParents(R, Line(R \cup {x}, s))
  BY <1>1, LineFacts DEF HasParents
<1>6. Line(R \cup {x}, s) \subseteq Line(R, s) /\ Line(R, s) \subseteq Line(R \cup {x}, s)
  BY <1>1, <1>4, <1>5, LineFacts
<1> QED
  BY <1>3, <1>6

\* Its own line is its parent's and itself.
LEMMA LineNew ==
  ASSUME NEW R \in SUBSET Row, NEW x \in Row, x.snap \notin SnapsOf(R), Closed(R),
         x.parent \in SnapsOf(R) \cup {None}
  PROVE  Line(R \cup {x}, x.snap) = {x.snap} \cup Line(R, x.parent)
<1> DEFINE both == R \cup {x}
           new == {x.snap} \cup Line(R, x.parent)
<1>1. /\ both \in SUBSET Row /\ x.snap \in Snaps \cup {None} /\ x.parent \in Snaps \cup {None}
      /\ \A row \in R : row.snap # x.snap
  BY DEF SnapsOf, Row
<1>2. HasParents(both, new)
  <2>1. x.parent \in Line(R, x.parent) /\ HasParents(R, Line(R, x.parent))
    BY <1>1, LineFacts
  <2> QED
    BY <1>1, <2>1 DEF HasParents
<1>3. Line(both, x.snap) \subseteq new
  <2>1. new \in SUBSET (Snaps \cup {None}) /\ x.snap \in new
    BY <1>1, LineFacts
  <2> HIDE DEF new, both
  <2> QED
    BY <1>1, <1>2, <2>1, LineFacts
<1>4. x.snap \in Line(both, x.snap) /\ HasParents(both, Line(both, x.snap))
  <2> HIDE DEF both
  <2> QED
    BY <1>1, LineFacts
<1>5. x.parent \in Line(both, x.snap) /\ HasParents(R, Line(both, x.snap))
  BY <1>4 DEF HasParents
<1>6. Line(R, x.parent) \subseteq Line(both, x.snap)
  <2>1. Line(both, x.snap) \in SUBSET (Snaps \cup {None})
    <3> HIDE DEF both
    <3> QED
      BY <1>1, LineFacts
  <2> DEFINE T == Line(both, x.snap)
  <2>2. T \in SUBSET (Snaps \cup {None}) /\ x.parent \in T /\ HasParents(R, T)
    BY <1>5, <2>1
  <2> HIDE DEF T
  <2>3. Line(R, x.parent) \subseteq T
    BY <1>1, <2>2, LineFacts
  <2> QED
    BY <2>3 DEF T
<1> QED
  BY <1>3, <1>4, <1>6

\* What changed an entity last before an old version stays.
LEMMA LastOld ==
  ASSUME NEW R \in SUBSET Row, NEW x \in Row, x.snap \notin SnapsOf(R), Closed(R),
         NEW s \in SnapsOf(R) \cup {None}, NEW r
  PROVE  LastChanges(R \cup {x}, r, s) = LastChanges(R, r, s)
<1>1. \A t \in SnapsOf(R) \cup {None} :
        Line(R \cup {x}, t) = Line(R, t) /\ x.snap \notin Line(R, t)
  BY LineOld
<1>2. ChangesOf(R \cup {x}, r, s) = ChangesOf(R, r, s)
  BY <1>1 DEF ChangesOf
<1>3. \A row \in ChangesOf(R, r, s) : Line(R \cup {x}, row.snap) = Line(R, row.snap)
  BY <1>1 DEF ChangesOf, SnapsOf
<1> QED
  BY <1>2, <1>3 DEF LastChanges

\* The new version changed what its row says, last of all.
LEMMA LastNew ==
  ASSUME NEW R \in SUBSET Row, NEW x \in Row, x.snap \notin SnapsOf(R), Closed(R),
         x.parent \in SnapsOf(R) \cup {None}, NEW r
  PROVE  LastChanges(R \cup {x}, r, x.snap) =
           IF r \in DOMAIN x.changes THEN {x} ELSE LastChanges(R, r, x.parent)
<1> DEFINE new == ChangesOf(R \cup {x}, r, x.snap)
           old == ChangesOf(R, r, x.parent)
<1>1. /\ Line(R \cup {x}, x.snap) = {x.snap} \cup Line(R, x.parent)
      /\ \A row \in R : row.snap # x.snap
  BY LineNew DEF SnapsOf
<1>2. \A row \in R : Line(R \cup {x}, row.snap) = Line(R, row.snap)
                     /\ x.snap \notin Line(R, row.snap)
  BY LineOld DEF SnapsOf
<1>3. new = old \cup {row \in {x} : r \in DOMAIN row.changes}
  BY <1>1 DEF ChangesOf
<1>4. CASE r \in DOMAIN x.changes
  <2>1. new = old \cup {x} /\ old \subseteq R
    BY <1>3, <1>4 DEF ChangesOf
  <2>2. \A other \in new : other.snap \in Line(R \cup {x}, x.snap)
    BY <1>1, <2>1 DEF ChangesOf
  <2>3. \A row \in old : x.snap \notin Line(R \cup {x}, row.snap)
    BY <1>2, <2>1
  <2> HIDE DEF new, old
  <2>4. {row \in new : \A other \in new : other.snap \in Line(R \cup {x}, row.snap)} = {x}
    BY <2>1, <2>2, <2>3
  <2> QED
    BY <1>4, <2>4 DEF LastChanges, new
<1>5. CASE r \notin DOMAIN x.changes
  <2>1. new = old /\ \A row \in old : Line(R \cup {x}, row.snap) = Line(R, row.snap)
    BY <1>2, <1>3, <1>5 DEF ChangesOf
  <2> QED
    BY <1>5, <2>1 DEF LastChanges
<1> QED
  BY <1>4, <1>5

----------------------------------------------------------------------------
(* What steps do to the current and the published versions.                *)

PublishedKept(g, h) == /\ Published(h) = Published(g)
                       /\ \A n \in Published(g) : h[n] = g[n]

ActivesKept(g, h) == /\ Actives(h) = Actives(g)
                     /\ \A n \in Actives(g) : h[n].rid = g[n].rid
                                              /\ h[n].snapshot_id = g[n].snapshot_id

LEMMA PublishedKeepsActives ==
  ASSUME NEW g, NEW h, PublishedKept(g, h)
  PROVE  ActivesKept(g, h)
BY DEF PublishedKept, ActivesKept, Actives

LEMMA CreateKept ==
  ASSUME NEW g, g \in Graph, NEW n \in NodeIds, ~Has(g, n), NEW x \in Node, x.is_draft
  PROVE  PublishedKept(g, CreateNode(g, n, x))
BY DEF PublishedKept, CreateNode, Graph, Published, IsPublished, Has

LEMMA DeleteKept ==
  ASSUME NEW g, NEW S, S \cap Published(g) = {}
  PROVE  PublishedKept(g, DeleteNodes(g, S))
BY DEF PublishedKept, DeleteNodes, Published, Has

LEMMA StageKept ==
  ASSUME NEW g, SoundGraph(g), NEW r, NEW u
  PROVE  PublishedKept(g, DraftsToStaging(g, r, u))
<1> DEFINE h == DraftsToStaging(g, r, u)
<1>1. \A n \in NodeIds : n \in DraftsOf(g, r, u) => Has(g, n) /\ ~IsPublished(g[n])
                                                    /\ ~IsPublished(h[n])
  BY DEF DraftsToStaging, DraftsOf, Of, Has, IsPublished, SoundGraph, Graph, Node
<1>2. \A n \in NodeIds : n \notin DraftsOf(g, r, u) => h[n] = g[n]
  BY DEF DraftsToStaging
<1> HIDE DEF h
<1>3. PublishedKept(g, h)
  BY <1>1, <1>2 DEF PublishedKept, Published, Has
<1> QED
  BY <1>3 DEF h

\* Turning an entity without a current version into drafts.
LEMMA DraftKept ==
  ASSUME NEW g, SoundGraph(g), NEW r, NEW u, ActivesOf(g, r) = {}
  PROVE  ActivesKept(g, AllToDraft(g, r, u))
<1> DEFINE h == AllToDraft(g, r, u)
<1>1. \A n \in NodeIds : n \in Of(g, r) => n \notin Actives(g) /\ ~IsPublished(h[n])
  BY DEF AllToDraft, Of, ActivesOf, Has, IsPublished, SoundGraph, Graph, Node
<1>2. \A n \in NodeIds : n \notin Of(g, r) => h[n] = g[n]
  BY DEF AllToDraft
<1> HIDE DEF h
<1>3. ActivesKept(g, h)
  BY <1>1, <1>2 DEF ActivesKept, Actives, Published, Has
<1> QED
  BY <1>3 DEF h

\* Editing requests keep what is published; only the second step of a
\* discard turns versions into drafts.
LEMMA EditKept ==
  ASSUME SoundGraph(graph), SoundEdit, EditNext
  PROVE  \/ PublishedKept(graph, graph')
         \/ \E e \in Editors : /\ At(e, "to_draft")
                               /\ graph' = AllToDraft(graph, edit[e].rid, edit[e].user)
<1>1. ASSUME UNCHANGED graph PROVE PublishedKept(graph, graph')
  BY <1>1 DEF PublishedKept
<1>2. \A r, u : /\ DraftsOf(graph, r, u) \cap Published(graph) = {}
                /\ StagingOf(graph, r) \cap Published(graph) = {}
  BY DEF DraftsOf, StagingOf, Staging, Published, IsPublished
<1>3. ASSUME NEW r, NEW u,
             graph' \in {DeleteNodes(graph, DraftsOf(graph, r, u)),
                         DeleteNodes(graph, StagingOf(graph, r)),
                         DraftsToStaging(graph, r, u)}
      PROVE  PublishedKept(graph, graph')
  BY <1>2, <1>3, DeleteKept, StageKept
<1>4. ASSUME NEW e \in Editors, NEW n \in NodeIds,
             CreateDraft(e, n) \/ UpdateClone(e, n) \/ DeleteMark(e, n)
      PROVE  PublishedKept(graph, graph')
  <2> DEFINE u == edit[e].user
             r == edit[e].rid
  <2>1. /\ edit[e].pc \notin {"idle", "discard_next"} => u \in Users /\ r \in Rids
        /\ edit[e].pc \in {"clone", "mark"} => edit[e].src \in Node
        /\ graph \in Graph
    BY DEF SoundEdit, SoundRequest, SoundGraph
  <2>2. ~Has(graph, n)
    BY <1>4 DEF CreateDraft, UpdateClone, DeleteMark
  <2>3. ASSUME NEW x \in Node, NEW v \in Users
        PROVE  CloneAsDraft(x, v).is_draft /\ DeletionMarker(x, v).is_draft
    BY DEF CloneAsDraft, DeletionMarker, Node
  <2>4. \E x \in Node : x.is_draft /\ graph' = CreateNode(graph, n, x)
    <3>1. CASE CreateDraft(e, n)
      BY <2>1, <3>1, NewDraftSound DEF CreateDraft, At, NewDraft
    <3>2. CASE UpdateClone(e, n) \/ DeleteMark(e, n)
      BY <2>1, <2>3, <3>2, CloneSound DEF UpdateClone, DeleteMark, At
    <3> QED
      BY <1>4, <3>1, <3>2
  <2> QED
    BY <2>1, <2>2, <2>4, CreateKept
<1>5. ASSUME NEW e \in Editors, Arrival(e)
      PROVE  PublishedKept(graph, graph')
  <2>1. ASSUME NEW u, NEW r, DiscardDraft(e, u, r) PROVE PublishedKept(graph, graph')
    BY <1>3, <2>1 DEF DiscardDraft
  <2>2. UNCHANGED graph \/ \E u \in Users, r \in Rids : DiscardDraft(e, u, r)
    BY <1>5 DEF Arrival, DiscardAllList, CreateCheckName, UpdateRequireLock,
       DeleteRequireLock, SubmitGetDraft, DiscardStagingGetActive, AcquireLock,
       ReleaseGetOwner
  <2> QED
    BY <1>1, <2>1, <2>2
<1>6. ASSUME NEW e \in Editors, NextCall(e), ~DiscardStagingToDraft(e)
      PROVE  PublishedKept(graph, graph')
  <2>1. CASE DeleteDraft(e) \/ DeleteStaging(e) \/ DiscardStagingRemove(e) \/ SubmitDraft(e)
    BY <1>3, <2>1 DEF DeleteDraft, DeleteStaging, DiscardStagingRemove, SubmitDraft
  <2>2. ASSUME NEW r \in Rids, DiscardAllNext(e, r) PROVE PublishedKept(graph, graph')
    BY <1>3, <2>2 DEF DiscardAllNext
  <2>3. CASE \/ UpdateGetDraft(e) \/ UpdateDraft(e) \/ UpdateGetStaging(e)
             \/ UpdateGetActive(e) \/ DeleteGetActive(e) \/ DropLock(e)
             \/ DiscardStagingFind(e)
    BY <1>1, <2>3 DEF UpdateGetDraft, UpdateDraft, UpdateGetStaging, UpdateGetActive,
       DeleteGetActive, DropLock, DiscardStagingFind
  <2> QED
    BY <1>4, <1>6, <2>1, <2>2, <2>3 DEF NextCall
<1>7. CASE (\E e \in Editors : RequestDies(e)) \/ (\E r \in Rids : LockExpires(r))
  BY <1>1, <1>7 DEF RequestDies, LockExpires
<1>8. ASSUME NEW e \in Editors, DiscardStagingToDraft(e)
      PROVE  At(e, "to_draft") /\ graph' = AllToDraft(graph, edit[e].rid, edit[e].user)
  BY <1>8 DEF DiscardStagingToDraft
<1> QED
  BY <1>5, <1>6, <1>7, <1>8 DEF EditNext

Discarding(e) == edit[e].pc \in {"find_staging", "to_draft"}

\* A discard reaches those calls from its check of the current version.
LEMMA DiscardsBegin ==
  ASSUME SoundEdit, EditNext, NEW e \in Editors, Discarding(e)'
  PROVE  \/ Discarding(e) /\ edit'[e].rid = edit[e].rid
         \/ "discard_staging" \in EditOps /\ ActivesOf(graph, edit'[e].rid) = {}
<1>1. edit \in [Editors -> Request] /\ edit[e] \in Request
  BY DEF SoundEdit
<1>2. CASE edit'[e] = edit[e]
  BY <1>2 DEF Discarding
<1>3. ASSUME NEW f \in Editors, Finish(f) PROVE f # e
  BY <1>1, <1>3 DEF Finish, Idle, Discarding
<1>4. ASSUME NEW f \in Editors, Arrival(f), f = e
      PROVE  "discard_staging" \in EditOps /\ ActivesOf(graph, edit'[e].rid) = {}
  <2>1. ~DiscardAllList(f)
    BY <1>1, <1>4 DEF DiscardAllList, Idle, Discarding, Request
  <2>2. ASSUME NEW op, NEW u \in Users, NEW r \in Rids, NEW pc, Begin(f, op, u, r, pc)
        PROVE  pc \in {"find_staging", "to_draft"} /\ edit'[e].rid = r /\ op \in EditOps
    BY <1>1, <1>4, <2>2 DEF Begin, Idle, Discarding
  <2>3. ASSUME NEW u \in Users, NEW r \in Rids, AcquireLock(f, u, r) PROVE FALSE
    BY <1>4, <2>3 DEF AcquireLock, Idle, Discarding
  <2>4. ASSUME NEW u \in Users, NEW r \in Rids, DiscardStagingGetActive(f, u, r)
        PROVE  "discard_staging" \in EditOps /\ ActivesOf(graph, edit'[e].rid) = {}
    BY <2>2, <2>4 DEF DiscardStagingGetActive
  <2>5. ASSUME NEW u \in Users, NEW r \in Rids,
               \/ CreateCheckName(f, u, r) \/ UpdateRequireLock(f, u, r)
               \/ DeleteRequireLock(f, u, r) \/ SubmitGetDraft(f, u, r)
               \/ DiscardDraft(f, u, r) \/ ReleaseGetOwner(f, u, r)
        PROVE  FALSE
    <3>1. \E op, pc : Begin(f, op, u, r, pc) /\ pc \notin {"find_staging", "to_draft"}
      BY <2>5 DEF CreateCheckName, UpdateRequireLock, DeleteRequireLock, SubmitGetDraft,
         DiscardDraft, ReleaseGetOwner
    <3> QED
      BY <2>2, <3>1
  <2> QED
    BY <1>4, <2>1, <2>3, <2>4, <2>5 DEF Arrival
<1>5. ASSUME NEW f \in Editors, NextCall(f), f = e, edit'[e] # edit[e]
      PROVE  Discarding(e) /\ edit'[e].rid = edit[e].rid
  <2>1. ASSUME NEW pc, Goto(f, pc)
        PROVE  pc \in {"find_staging", "to_draft"} /\ edit'[e].rid = edit[e].rid
    BY <1>1, <1>5, <2>1 DEF Goto, Discarding, Request
  <2>2. ASSUME NEW pc, NEW x, GotoWith(f, pc, x)
        PROVE  pc \in {"find_staging", "to_draft"}
    BY <1>1, <1>5, <2>2 DEF GotoWith, Discarding, Request
  <2>3. ~UpdateGetStaging(f) /\ ~UpdateGetActive(f) /\ ~DeleteGetActive(f)
    <3>1. ASSUME NEW x, GotoWith(f, IF x # None THEN "clone" ELSE "get_active", x) PROVE FALSE
      BY <2>2, <3>1
    <3>2. ASSUME NEW x, GotoWith(f, IF x # None THEN "mark" ELSE "delete_draft", x) PROVE FALSE
      BY <2>2, <3>2
    <3>3. ASSUME NEW x, GotoWith(f, "clone", x) PROVE FALSE
      BY <2>2, <3>3
    <3> QED
      BY <1>3, <1>5, <3>1, <3>2, <3>3 DEF UpdateGetStaging, UpdateGetActive, DeleteGetActive
  <2>4. ASSUME NEW r \in Rids, DiscardAllNext(f, r) PROVE FALSE
    BY <1>1, <1>3, <1>5, <2>4 DEF DiscardAllNext, At, Discarding, Request
  <2> QED
    BY <1>3, <1>5, <2>1, <2>3, <2>4 DEF NextCall, UpdateGetDraft, UpdateDraft, DeleteDraft,
       DeleteStaging, SubmitDraft, DropLock, DiscardStagingRemove, DiscardStagingFind,
       DiscardStagingToDraft, CreateDraft, UpdateClone, DeleteMark, At, Discarding
<1>6. ASSUME NEW f \in Editors, Arrival(f) \/ NextCall(f) \/ RequestDies(f), f # e
      PROVE  edit'[e] = edit[e]
  BY <1>1, <1>6, OwnEdit
<1>7. CASE \E r \in Rids : LockExpires(r)
  BY <1>2, <1>7 DEF LockExpires
<1> QED
  BY <1>2, <1>3, <1>4, <1>5, <1>6, <1>7 DEF EditNext, RequestDies

\* What the three statements of a promotion do.
LEMMA DeactivateShows ==
  ASSUME NEW g, SoundGraph(g)
  PROVE  LET h == Deactivate(g) IN
         /\ Staging(h) = Staging(g) /\ \A n \in Staging(g) : h[n] = g[n]
         /\ Published(h) = Published(g)
         /\ \A n \in Published(g) : /\ h[n].rid = g[n].rid
                                    /\ h[n].snapshot_id = g[n].snapshot_id
         /\ Actives(h) = {n \in Actives(g) : g[n].rid \notin StagedRids(g)}
<1> DEFINE h == Deactivate(g)
           off == {n \in Actives(g) : g[n].rid \in StagedRids(g)}
<1>1. \A n \in NodeIds \ off : h[n] = g[n]
  BY DEF Deactivate
<1>2. ASSUME NEW n \in off
      PROVE  /\ n \in NodeIds /\ Has(g, n) /\ IsPublished(g[n])
             /\ Has(h, n) /\ IsPublished(h[n]) /\ ~h[n].is_active
             /\ h[n].rid = g[n].rid /\ h[n].snapshot_id = g[n].snapshot_id
  <2>1. n \in NodeIds /\ Has(g, n) /\ IsPublished(g[n]) /\ g[n] \in Node
    BY DEF Actives, Published, SoundGraph, Graph, Has
  <2>2. h[n] = [g[n] EXCEPT !.is_active = FALSE]
    BY <2>1 DEF Deactivate
  <2>3. h[n] \in Node /\ ~h[n].is_active /\ IsPublished(h[n])
        /\ h[n].rid = g[n].rid /\ h[n].snapshot_id = g[n].snapshot_id
    BY <2>1, <2>2 DEF Node, IsPublished
  <2> QED
    BY <2>1, <2>3, NoneAssumption DEF Has
<1>3. /\ Published(h) = Published(g)
      /\ Staging(h) = Staging(g) /\ Staging(g) \cap off = {} /\ Staging(g) \subseteq NodeIds
  <2> HIDE DEF h, off
  <2>1. off \subseteq NodeIds
    BY <1>2
  <2> QED
    BY <1>1, <1>2, <2>1 DEF Published, Staging, Has, IsPublished
<1>4. Actives(h) = Actives(g) \ off
  <2>1. off \subseteq Actives(g)
    OBVIOUS
  <2> HIDE DEF h, off
  <2> QED
    BY <1>1, <1>2, <1>3, <2>1 DEF Actives, Published
<1>5. \A n \in Published(g) : h[n].rid = g[n].rid /\ h[n].snapshot_id = g[n].snapshot_id
  <2> HIDE DEF h, off
  <2> QED
    BY <1>1, <1>2 DEF Published
<1> HIDE DEF h
<1> QED
  BY <1>1, <1>3, <1>4, <1>5 DEF h

LEMMA PromoteShows ==
  ASSUME NEW g, SoundGraph(g), NEW s \in Snaps
  PROVE  LET h == Promote(g, s) IN
         /\ Staging(h) = {}
         /\ Published(h) = Published(g) \cup Staging(g)
         /\ \A n \in Published(g) : h[n] = g[n]
         /\ \A n \in Staging(g) : /\ h[n].rid = g[n].rid
                                  /\ h[n].is_active = g[n].is_active
                                  /\ h[n].snapshot_id = s
<1> DEFINE h == Promote(g, s)
<1>1. \A n \in NodeIds \ Staging(g) : h[n] = g[n]
  BY DEF Promote
<1>2. ASSUME NEW n \in Staging(g)
      PROVE  /\ n \in NodeIds /\ Has(h, n) /\ IsPublished(h[n]) /\ ~IsPublished(g[n])
             /\ ~h[n].is_staging /\ h[n].rid = g[n].rid
             /\ h[n].is_active = g[n].is_active /\ h[n].snapshot_id = s
  <2>1. n \in NodeIds /\ Has(g, n) /\ g[n].is_staging /\ g[n] \in Node /\ SoundNode(g[n])
    BY DEF Staging, SoundGraph, Graph, Has
  <2>2. h[n] = [g[n] EXCEPT !.is_staging = FALSE, !.snapshot_id = s]
    BY <2>1 DEF Promote
  <2>3. h[n] \in Node /\ IsPublished(h[n]) /\ h[n].rid = g[n].rid
        /\ h[n].is_active = g[n].is_active /\ h[n].snapshot_id = s /\ ~h[n].is_staging
    BY <2>1, <2>2 DEF Node, IsPublished, SoundNode
  <2> QED
    BY <2>1, <2>3, NoneAssumption DEF Has, IsPublished
<1>3. \A n \in NodeIds \ Staging(g) : Has(g, n) => ~g[n].is_staging
  BY DEF Staging
<1> HIDE DEF h
<1>4. Staging(h) = {} /\ Published(h) = Published(g) \cup Staging(g)
  BY <1>1, <1>2, <1>3 DEF Staging, Published, Has
<1>5. \A n \in Published(g) : n \in NodeIds \ Staging(g)
  BY DEF Staging, Published, IsPublished
<1> QED
  BY <1>1, <1>2, <1>4, <1>5 DEF h

LEMMA CleanupShows ==
  ASSUME NEW g, NEW s
  PROVE  LET h == Cleanup(g, s) IN
         /\ Staging(h) \subseteq Staging(g)
         /\ ActivesKept(g, h)
         /\ \A n \in Published(g) : g[n].snapshot_id # s => n \in Published(h) /\ h[n] = g[n]
<1> DEFINE h == Cleanup(g, s)
           gone == {n \in NodeIds : Has(g, n) /\ g[n].snapshot_id = s /\ ~g[n].is_active}
<1>1. \A n \in NodeIds : IF n \in gone THEN ~Has(h, n) ELSE h[n] = g[n]
  BY DEF Cleanup, DeleteNodes, Has
<1>2. \A n \in gone : ~g[n].is_active /\ g[n].snapshot_id = s
  OBVIOUS
<1>3. /\ Staging(h) \subseteq Staging(g)
      /\ ActivesKept(g, h)
      /\ \A n \in Published(g) : g[n].snapshot_id # s => n \in Published(h) /\ h[n] = g[n]
  <2> HIDE DEF h, gone
  <2> QED
    BY <1>1, <1>2 DEF Staging, ActivesKept, Actives, Published, Has
<1> QED
  BY <1>3

\* What the two statements of a rollback do.
LEMMA SwitchShows ==
  ASSUME NEW g, SoundGraph(g), NEW s, NEW h, h \in {SwitchOff(g, s), SwitchOn(g, s)}
  PROVE  /\ Published(h) = Published(g)
         /\ \A n \in Published(g) : h[n].snapshot_id = g[n].snapshot_id
         /\ h = SwitchOff(g, s) =>
              Actives(h) = {n \in Actives(g) : s = None \/ g[n].snapshot_id # s}
         /\ h = SwitchOn(g, s) /\ s # None =>
              Actives(h) = Actives(g) \cup {n \in Published(g) : g[n].snapshot_id = s}
<1> DEFINE hit == {n \in NodeIds : Has(g, n) /\ s # None /\ g[n].snapshot_id = s}
<1>1. \A n \in NodeIds \ hit : h[n] = g[n]
  BY DEF SwitchOff, SwitchOn
<1>2. ASSUME NEW n \in hit
      PROVE  /\ Has(h, n) /\ (IsPublished(h[n]) <=> IsPublished(g[n]))
             /\ h[n].snapshot_id = g[n].snapshot_id
             /\ h = SwitchOff(g, s) => ~h[n].is_active
             /\ h = SwitchOn(g, s) => h[n].is_active
  <2>1. n \in NodeIds /\ g[n] \in Node
    BY DEF SoundGraph, Graph, Has
  <2>2. /\ h = SwitchOff(g, s) => h[n] = [g[n] EXCEPT !.is_active = FALSE]
        /\ h = SwitchOn(g, s) => h[n] = [g[n] EXCEPT !.is_active = TRUE]
    BY <2>1 DEF SwitchOff, SwitchOn
  <2>3. \E b \in BOOLEAN : h[n] = [g[n] EXCEPT !.is_active = b]
    BY <2>2
  <2>4. h[n] \in Node /\ (IsPublished(h[n]) <=> IsPublished(g[n]))
        /\ h[n].snapshot_id = g[n].snapshot_id
    BY <2>1, <2>3 DEF Node, IsPublished
  <2> QED
    BY <2>1, <2>2, <2>4, NoneAssumption DEF Has, Node
<1>3. Published(h) = Published(g) /\ \A n \in Published(g) : h[n].snapshot_id = g[n].snapshot_id
  <2>1. hit \subseteq NodeIds /\ \A n \in hit : Has(g, n)
    OBVIOUS
  <2> HIDE DEF hit
  <2> QED
    BY <1>1, <1>2, <2>1 DEF Published, Has
<1>4. \A n \in Published(g) : n \in hit <=> s # None /\ g[n].snapshot_id = s
  BY DEF Published
<1>5. Published(g) \subseteq NodeIds
  BY DEF Published
<1> HIDE DEF hit
<1> QED
  BY <1>1, <1>2, <1>3, <1>4, <1>5 DEF Actives

\* What an entity shows depends on its current versions only.
LEMMA ShowsKept ==
  ASSUME NEW g, NEW h, NEW r, NEW last, Shows(g, r, last),
         ActivesOf(h, r) = ActivesOf(g, r),
         \A n \in ActivesOf(g, r) : h[n].snapshot_id = g[n].snapshot_id
  PROVE  Shows(h, r, last)
BY DEF Shows

LEMMA ActivesKeptOf ==
  ASSUME NEW g, NEW h, ActivesKept(g, h), NEW r
  PROVE  /\ ActivesOf(h, r) = ActivesOf(g, r)
         /\ \A n \in ActivesOf(g, r) : h[n].snapshot_id = g[n].snapshot_id
BY DEF ActivesKept, ActivesOf, Actives, Published, Of, Has

----------------------------------------------------------------------------
(* The graph shows the pointer's version, when one request runs at a time  *)
(* and no commit fails.  A rollback knows only the pointer's own row, so   *)
(* with rollbacks this is about a tenant of one entity, whose superseded   *)
(* versions no discard turns into drafts, and about its own rows.          *)

Orderly ==
  /\ Serial
  /\ CommitsFitLease
  /\ Faults \subseteq {"transient"}
  /\ "rollback" \in PublishOps =>
       /\ \A c, d \in Committers : c = d
       /\ \A q, r \in Rids : q = r
       /\ "discard_staging" \notin EditOps
       /\ ForeignSnaps = {}

\* What the pointer and the rows name is there.
VersionsKnown == /\ pointer \in Committed \cup {None}
                 /\ \A row \in rows : row.parent \in Committed \cup {None}

\* Only an entity without a current version is turned back into drafts.
DiscardsUnpublished ==
  \A e \in Editors : Discarding(e) => /\ "discard_staging" \in EditOps
                                      /\ ActivesOf(graph, edit[e].rid) = {}

ShowsPointer(g, r) == Shows(g, r, LastChanges(rows, r, pointer))

\* The changes f are those staged.
Covers(g, f) ==
  /\ DOMAIN f = StagedRids(g)
  /\ Staging(g) # {}
  /\ \A r \in StagedRids(g) : f[r] # "delete" => \E n \in StagingOf(g, r) : g[n].is_active

\* The entities that f does not change are as they were.
OthersShown(g, f) == \A r \in Rids \ DOMAIN f : ShowsPointer(g, r)

\* The entities that f changes have no current version.
Cleared(g, f) == \A r \in DOMAIN f : ActivesOf(g, r) = {}

\* They show the new version s.
ChangesShown(g, f, s) ==
  /\ Staging(g) = {}
  /\ DOMAIN f # {}
  /\ \A r \in DOMAIN f : /\ \A n \in ActivesOf(g, r) : g[n].snapshot_id = s
                         /\ f[r] # "delete" => ActivesOf(g, r) # {}

StagedIn(g) == {[rid |-> g[n].rid, is_active |-> g[n].is_active] : n \in Staging(g)}

\* What request q has done to the graph so far.  After a retry the promotion
\* may start over on a graph that already shows the new version.
Progress(q) ==
  /\ q.pc = "classify" => q.staged = StagedIn(graph) /\ Staging(graph) # {}
  /\ q.pc = "snapshot" => Covers(graph, q.changes)
  /\ q.pc \in {"deactivate", "promote"} =>
       /\ OthersShown(graph, q.changes)
       /\ \/ ChangesShown(graph, q.changes, q.snap)
          \/ Covers(graph, q.changes) /\ (q.pc = "promote" => Cleared(graph, q.changes))
  /\ q.pc \in {"cleanup", "point"} =>
       OthersShown(graph, q.changes) /\ ChangesShown(graph, q.changes, q.snap)
  /\ q.pc = "switch_on" => Actives(graph) = {}
  /\ q.pc = "repoint" =>
       /\ \A n \in Actives(graph) : graph[n].snapshot_id = q.snap
       /\ (\E n \in Published(graph) : graph[n].snapshot_id = q.snap) => Actives(graph) # {}

\* The calls at which the graph shows the pointer's version.
Quiet == {"idle", "unlock", "read", "classify", "snapshot", "find_target", "switch_off"}

\* Each row changes the one entity there is, and what it published is there.
RowsRestorable ==
  "rollback" \in PublishOps =>
    \A row \in rows, r \in Rids :
      /\ r \in DOMAIN row.changes
      /\ LastChanges(rows, r, row.snap) = {row}
      /\ row.changes[r] # "delete" => \E n \in Published(graph) : graph[n].snapshot_id = row.snap

ShowInv ==
  /\ VersionsKnown
  /\ DiscardsUnpublished
  /\ (\A c \in Committers : pub[c].pc \in Quiet) => \A r \in Rids : ShowsPointer(graph, r)
  /\ \A c \in Committers : Progress(pub[c])
  /\ RowsRestorable

LEMMA ShowInit == Orderly /\ Init => ShowInv
<1> SUFFICES ASSUME Orderly, Init PROVE ShowInv
  OBVIOUS
<1> PICK at \in Placements, s \in Snaps :
      LET created == {at[n] : n \in NodeIds} \ {None} IN
      /\ graph = FirstVersion(at, s)
      /\ IF created = {}
           THEN rows = {} /\ pointer = None
           ELSE /\ rows = {[snap |-> s, parent |-> None,
                            changes |-> [r \in created |-> "create"]]}
                /\ pointer = s
  BY DEF Init
<1> DEFINE created == {at[n] : n \in NodeIds} \ {None}
           x == [snap |-> s, parent |-> None, changes |-> [r \in created |-> "create"]]
<1>1. \A n \in NodeIds : /\ graph[n] = IF at[n] = None THEN None ELSE ActiveNode(at[n], s)
                         /\ Has(graph, n) <=> at[n] # None
  <2>1. \A n \in NodeIds : at[n] # None => ActiveNode(at[n], s) \in Node
    BY DEF Placements, ActiveNode, Node
  <2> QED
    BY <2>1, NoneAssumption DEF FirstVersion, Has
<1>2. \A r : /\ \A n \in ActivesOf(graph, r) : graph[n].snapshot_id = s /\ r \in created
             /\ r \in created => ActivesOf(graph, r) # {}
  <2>1. ASSUME NEW n \in NodeIds, Has(graph, n)
        PROVE  /\ graph[n].snapshot_id = s /\ graph[n].rid = at[n] /\ at[n] # None
               /\ n \in Actives(graph)
    <3>1. \A r : LET y == ActiveNode(r, s) IN
                 y.snapshot_id = s /\ y.rid = r /\ y.is_active /\ IsPublished(y)
      BY DEF ActiveNode, IsPublished
    <3>2. at[n] # None /\ graph[n] = ActiveNode(at[n], s)
      BY <1>1, <2>1
    <3> QED
      BY <2>1, <3>1, <3>2 DEF Actives, Published
  <2>2. ASSUME NEW r, NEW n \in ActivesOf(graph, r)
        PROVE  graph[n].snapshot_id = s /\ r \in created
    <3>1. n \in NodeIds /\ Has(graph, n) /\ graph[n].rid = r
      BY <2>2 DEF ActivesOf, Of
    <3> QED
      BY <2>1, <3>1
  <2>3. ASSUME NEW r \in created PROVE ActivesOf(graph, r) # {}
    <3> PICK n \in NodeIds : at[n] = r /\ at[n] # None
      OBVIOUS
    <3>1. n \in ActivesOf(graph, r)
      BY <1>1, <2>1 DEF ActivesOf, Of
    <3> QED
      BY <3>1
  <2> QED
    BY <2>2, <2>3
<1>3. /\ \A c \in Committers : pub[c].pc = "idle"
      /\ \A e \in Editors : ~Discarding(e)
  BY DEF Init, PublishStart, EditStart, NoRequest, Idle, Discarding
<1>4. \A c \in Committers : Progress(pub[c])
  BY <1>3 DEF Progress
<1>5. DiscardsUnpublished
  BY <1>3 DEF DiscardsUnpublished
<1>6. \A r : LastChanges({}, r, None) = {}
  BY DEF LastChanges, ChangesOf
<1>7. CASE created = {}
  <2>1. rows = {} /\ pointer = None
    BY <1>7
  <2>2. \A r \in Rids : ShowsPointer(graph, r)
    BY <1>2, <1>6, <1>7, <2>1 DEF ShowsPointer, Shows
  <2>3. VersionsKnown /\ RowsRestorable
    BY <2>1 DEF VersionsKnown, RowsRestorable
  <2> QED
    BY <1>4, <1>5, <2>2, <2>3 DEF ShowInv
<1>8. CASE created # {}
  <2>1. rows = {x} /\ pointer = s /\ rows \subseteq Row
    BY <1>8, InitSound DEF SoundInv, SoundPub, PubTypeOK
  <2>2. /\ x.snap = s /\ x.parent = None /\ DOMAIN x.changes = created
        /\ \A r \in created : x.changes[r] = "create"
    OBVIOUS
  <2> HIDE DEF x
  <2>3. \A r : LastChanges({x}, r, s) = IF r \in created THEN {x} ELSE {}
    <3>1. x.snap \notin SnapsOf({}) /\ Closed({}) /\ x.parent \in SnapsOf({}) \cup {None}
      BY <2>2 DEF SnapsOf, Closed
    <3>2. \A r : LastChanges({} \cup {x}, r, x.snap) =
                   IF r \in DOMAIN x.changes THEN {x} ELSE LastChanges({}, r, x.parent)
      BY <2>1, <3>1, LastNew
    <3>3. {} \cup {x} = {x}
      OBVIOUS
    <3> QED
      BY <1>6, <2>2, <3>2, <3>3
  <2>4. \A r \in Rids : ShowsPointer(graph, r)
    <3> SUFFICES ASSUME NEW r \in Rids PROVE Shows(graph, r, LastChanges({x}, r, s))
      BY <2>1 DEF ShowsPointer
    <3>1. CASE r \in created
      <4>1. \A n \in ActivesOf(graph, r) : graph[n].snapshot_id = x.snap
        BY <1>2, <2>2
      <4>2. {row.snap : row \in {x}} = {x.snap}
        OBVIOUS
      <4> QED
        BY <1>2, <2>3, <3>1, <4>1, <4>2 DEF Shows
    <3>2. CASE r \notin created
      BY <1>2, <2>3, <3>2 DEF Shows
    <3> QED
      BY <3>1, <3>2
  <2>5. VersionsKnown
    BY <2>1, <2>2 DEF VersionsKnown, Committed
  <2>6. RowsRestorable
    <3> SUFFICES ASSUME "rollback" \in PublishOps, NEW r \in Rids
                 PROVE  /\ r \in created
                        /\ LastChanges({x}, r, s) = {x}
                        /\ \E n \in Published(graph) : graph[n].snapshot_id = s
      BY <2>1, <2>2 DEF RowsRestorable
    <3>1. r \in created
      <4>1. PICK q : q \in created
        BY <1>8
      <4>2. created \subseteq Rids
        BY DEF Placements
      <4> QED
        BY <4>1, <4>2 DEF Orderly
    <3>2. \E n \in ActivesOf(graph, r) : graph[n].snapshot_id = s
      BY <1>2, <3>1
    <3> QED
      BY <2>3, <3>1, <3>2 DEF ActivesOf, Actives
  <2> QED
    BY <1>4, <1>5, <2>4, <2>5, <2>6 DEF ShowInv
<1> QED
  BY <1>7, <1>8

LEMMA ShowEdit ==
  ASSUME Orderly, SoundInv, ShowInv, EditStep
  PROVE  ShowInv'
<1>1. /\ SoundGraph(graph) /\ SoundEdit /\ EditNext /\ UNCHANGED pubVars
      /\ \A c \in Committers : pub[c].pc = "idle"
  BY DEF SoundInv, EditStep, Orderly, PublishersIdle, NoRequest
<1>2. UNCHANGED <<pub, rows, pointer>> /\ Committed' = Committed
  BY <1>1 DEF pubVars, Committed
<1>3. ActivesKept(graph, graph')
  <2>1. ASSUME NEW e \in Editors, At(e, "to_draft"),
               graph' = AllToDraft(graph, edit[e].rid, edit[e].user)
        PROVE  ActivesKept(graph, graph')
    BY <1>1, <2>1, DraftKept DEF ShowInv, DiscardsUnpublished, Discarding, At
  <2> QED
    BY <1>1, <2>1, EditKept, PublishedKeepsActives
<1>4. \A r \in Rids : ShowsPointer(graph, r)'
  <2> SUFFICES ASSUME NEW r \in Rids
               PROVE  Shows(graph', r, LastChanges(rows, r, pointer))
    BY <1>2 DEF ShowsPointer
  <2>1. Shows(graph, r, LastChanges(rows, r, pointer))
    BY <1>1 DEF ShowInv, Quiet, ShowsPointer
  <2> QED
    BY <1>3, <2>1, ActivesKeptOf, ShowsKept
<1>5. DiscardsUnpublished'
  <2> SUFFICES ASSUME NEW e \in Editors, Discarding(e)'
               PROVE  /\ "discard_staging" \in EditOps
                      /\ ActivesOf(graph', edit'[e].rid) = {}
    BY DEF DiscardsUnpublished
  <2>1. "discard_staging" \in EditOps /\ ActivesOf(graph, edit'[e].rid) = {}
    BY <1>1, DiscardsBegin DEF ShowInv, DiscardsUnpublished
  <2> QED
    BY <1>3, <2>1, ActivesKeptOf
<1>6. RowsRestorable'
  <2> SUFFICES ASSUME "rollback" \in PublishOps
               PROVE  PublishedKept(graph, graph')
    BY <1>2 DEF ShowInv, RowsRestorable, PublishedKept
  <2>1. \A e \in Editors : ~At(e, "to_draft")
    BY DEF Orderly, ShowInv, DiscardsUnpublished, Discarding, At
  <2> QED
    BY <1>1, <2>1, EditKept
<1>7. \A c \in Committers : Progress(pub[c])'
  BY <1>1, <1>2 DEF Progress
<1>8. VersionsKnown'
  BY <1>2 DEF ShowInv, VersionsKnown
<1> QED
  BY <1>4, <1>5, <1>6, <1>7, <1>8 DEF ShowInv

\* Steps that keep the current versions.
LEMMA ShownKept ==
  ASSUME NEW g, NEW h, ActivesKept(g, h), NEW f, NEW s
  PROVE  /\ \A r \in Rids : ShowsPointer(g, r) => ShowsPointer(h, r)
         /\ OthersShown(g, f) => OthersShown(h, f)
         /\ ChangesShown(g, f, s) /\ Staging(h) = {} => ChangesShown(h, f, s)
<1>1. \A r : /\ ActivesOf(h, r) = ActivesOf(g, r)
             /\ \A n \in ActivesOf(g, r) : h[n].snapshot_id = g[n].snapshot_id
  BY ActivesKeptOf
<1>2. \A r : ShowsPointer(g, r) => ShowsPointer(h, r)
  BY <1>1, ShowsKept DEF ShowsPointer
<1> QED
  BY <1>1, <1>2 DEF OthersShown, ChangesShown

LEMMA DeactivateProgress ==
  ASSUME NEW g, SoundGraph(g), NEW f, NEW s, OthersShown(g, f),
         ChangesShown(g, f, s) \/ Covers(g, f)
  PROVE  LET h == Deactivate(g) IN
         /\ OthersShown(h, f)
         /\ ChangesShown(h, f, s) \/ (Covers(h, f) /\ Cleared(h, f))
<1> DEFINE h == Deactivate(g)
<1>1. /\ Staging(h) = Staging(g) /\ \A n \in Staging(g) : h[n] = g[n]
      /\ Published(h) = Published(g)
      /\ \A n \in Published(g) : /\ h[n].rid = g[n].rid
                                 /\ h[n].snapshot_id = g[n].snapshot_id
      /\ Actives(h) = {n \in Actives(g) : g[n].rid \notin StagedRids(g)}
      /\ Actives(g) \subseteq Published(g)
  BY DeactivateShows DEF Actives
<1> HIDE DEF h
<1>2. CASE ChangesShown(g, f, s)
  <2>1. Staging(g) = {} /\ StagedRids(g) = {}
    BY <1>2 DEF ChangesShown, StagedRids
  <2>2. ActivesKept(g, h)
    BY <1>1, <2>1 DEF ActivesKept
  <2> QED
    BY <1>1, <1>2, <2>1, <2>2, ShownKept DEF h
<1>3. CASE Covers(g, f)
  <2>1. /\ StagedRids(h) = StagedRids(g)
        /\ \A r : StagingOf(h, r) = StagingOf(g, r)
    BY <1>1 DEF StagedRids, StagingOf, Of, Staging
  <2>2. Covers(h, f)
    BY <1>1, <1>3, <2>1 DEF Covers, StagingOf
  <2>3. ASSUME NEW r
        PROVE  ActivesOf(h, r) = IF r \in StagedRids(g) THEN {} ELSE ActivesOf(g, r)
    <3>1. \A n \in Published(g) : n \in NodeIds /\ Has(g, n) /\ Has(h, n)
      BY <1>1 DEF Published
    <3>2. Actives(h) \subseteq Published(g)
      BY <1>1
    <3>3. ActivesOf(h, r) = {n \in Actives(h) : g[n].rid = r}
      BY <1>1, <3>1, <3>2 DEF ActivesOf, Of
    <3>4. ActivesOf(g, r) = {n \in Actives(g) : g[n].rid = r}
      BY <1>1, <3>1 DEF ActivesOf, Of
    <3> QED
      BY <1>1, <3>3, <3>4
  <2>4. Cleared(h, f)
    BY <1>3, <2>3 DEF Cleared, Covers
  <2>5. OthersShown(h, f)
    <3> SUFFICES ASSUME NEW r \in Rids \ DOMAIN f
                 PROVE  Shows(h, r, LastChanges(rows, r, pointer))
      BY DEF OthersShown, ShowsPointer
    <3>1. Shows(g, r, LastChanges(rows, r, pointer))
      BY DEF OthersShown, ShowsPointer
    <3>2. ActivesOf(h, r) = ActivesOf(g, r)
      BY <1>3, <2>3 DEF Covers
    <3>3. \A n \in ActivesOf(g, r) : h[n].snapshot_id = g[n].snapshot_id
      BY <1>1 DEF ActivesOf
    <3> QED
      BY <3>1, <3>2, <3>3, ShowsKept
  <2> QED
    BY <2>2, <2>4, <2>5 DEF h
<1> QED
  BY <1>2, <1>3

LEMMA PromoteProgress ==
  ASSUME NEW g, SoundGraph(g), NEW f, NEW s \in Snaps, OthersShown(g, f),
         ChangesShown(g, f, s) \/ (Covers(g, f) /\ Cleared(g, f))
  PROVE  LET h == Promote(g, s) IN OthersShown(h, f) /\ ChangesShown(h, f, s)
<1> DEFINE h == Promote(g, s)
<1>1. /\ Staging(h) = {}
      /\ Published(h) = Published(g) \cup Staging(g)
      /\ \A n \in Published(g) : h[n] = g[n]
      /\ \A n \in Staging(g) : /\ h[n].rid = g[n].rid
                               /\ h[n].is_active = g[n].is_active
                               /\ h[n].snapshot_id = s
  BY PromoteShows
<1> HIDE DEF h
<1>2. CASE ChangesShown(g, f, s)
  <2>1. Staging(g) = {}
    BY <1>2 DEF ChangesShown
  <2>2. ActivesKept(g, h)
    BY <1>1, <2>1 DEF ActivesKept, Actives
  <2> QED
    BY <1>1, <1>2, <2>2, ShownKept DEF h
<1>3. CASE Covers(g, f) /\ Cleared(g, f)
  <2>1. /\ \A n \in Published(h) : n \in NodeIds /\ Has(h, n)
        /\ \A n \in Published(g) \cup Staging(g) : Has(g, n)
    BY DEF Published, Staging
  <2>2. ASSUME NEW r, NEW n \in ActivesOf(h, r)
        PROVE  \/ n \in ActivesOf(g, r)
               \/ n \in Staging(g) /\ r \in StagedRids(g)
    <3>1. n \in Published(h) /\ h[n].is_active /\ h[n].rid = r
      BY DEF ActivesOf, Actives, Of
    <3>2. CASE n \in Published(g)
      BY <1>1, <2>1, <3>1, <3>2 DEF ActivesOf, Actives, Of
    <3>3. CASE n \in Staging(g)
      BY <1>1, <3>1, <3>3 DEF StagedRids
    <3> QED
      BY <1>1, <3>1, <3>2, <3>3
  <2>3. ASSUME NEW r, NEW n \in ActivesOf(g, r)
        PROVE  n \in ActivesOf(h, r) /\ h[n] = g[n]
    BY <1>1, <2>1 DEF ActivesOf, Actives, Of
  <2>4. ASSUME NEW r \in DOMAIN f
        PROVE  /\ \A n \in ActivesOf(h, r) : h[n].snapshot_id = s
               /\ f[r] # "delete" => ActivesOf(h, r) # {}
    <3>1. ActivesOf(g, r) = {} /\ r \in StagedRids(g)
      BY <1>3 DEF Cleared, Covers
    <3>2. \A n \in ActivesOf(h, r) : h[n].snapshot_id = s
      BY <1>1, <2>2, <3>1
    <3>3. ASSUME f[r] # "delete" PROVE ActivesOf(h, r) # {}
      <4> PICK n \in StagingOf(g, r) : g[n].is_active
        BY <1>3, <3>1, <3>3 DEF Covers
      <4>1. n \in Staging(g) /\ g[n].rid = r
        BY DEF StagingOf, Of
      <4>2. n \in ActivesOf(h, r)
        BY <1>1, <2>1, <4>1 DEF ActivesOf, Actives, Of
      <4> QED
        BY <4>2
    <3> QED
      BY <3>2, <3>3
  <2>5. DOMAIN f # {}
    <3>1. \A n \in Staging(g) : g[n].rid \in StagedRids(g)
      BY DEF StagedRids
    <3> QED
      BY <1>3, <3>1 DEF Covers
  <2>6. OthersShown(h, f)
    <3> SUFFICES ASSUME NEW r \in Rids \ DOMAIN f
                 PROVE  Shows(h, r, LastChanges(rows, r, pointer))
      BY DEF OthersShown, ShowsPointer
    <3>1. Shows(g, r, LastChanges(rows, r, pointer))
      BY DEF OthersShown, ShowsPointer
    <3>2. ActivesOf(h, r) = ActivesOf(g, r)
      BY <1>3, <2>2, <2>3 DEF Covers
    <3> QED
      BY <2>3, <3>1, <3>2, ShowsKept
  <2> QED
    BY <1>1, <2>4, <2>5, <2>6 DEF h, ChangesShown
<1> QED
  BY <1>2, <1>3

LEMMA CleanupProgress ==
  ASSUME NEW g, NEW f, NEW s, OthersShown(g, f), ChangesShown(g, f, s)
  PROVE  OthersShown(Cleanup(g, s), f) /\ ChangesShown(Cleanup(g, s), f, s)
<1> DEFINE h == Cleanup(g, s)
<1>1. Staging(h) \subseteq Staging(g) /\ ActivesKept(g, h)
  BY CleanupShows
<1>2. Staging(h) = {}
  BY <1>1 DEF ChangesShown
<1> HIDE DEF h
<1> QED
  BY <1>1, <1>2, ShownKept DEF h

\* A promotion takes away published versions of its own snapshot only.
LEMMA StatementKeeps ==
  ASSUME NEW g, SoundGraph(g), NEW s \in Snaps,
         NEW h \in {g, Deactivate(g), Promote(g, s), Cleanup(g, s)}
  PROVE  \A n \in Published(g) :
           g[n].snapshot_id # s => n \in Published(h) /\ h[n].snapshot_id = g[n].snapshot_id
<1>1. CASE h = g
  BY <1>1
<1>2. CASE h = Deactivate(g)
  BY <1>2, DeactivateShows
<1>3. CASE h = Promote(g, s)
  BY <1>3, PromoteShows
<1>4. CASE h = Cleanup(g, s)
  BY <1>4, CleanupShows
<1> QED
  BY <1>1, <1>2, <1>3, <1>4

\* While one request publishes the others do not.
LEMMA OthersIdle ==
  ASSUME Orderly, SoundInv, LockInv, HistoryInv, NEW c \in Committers,
         PublishArrival(c) \/ PublishCall(c)
  PROVE  \A d \in Committers \ {c} : pub[d].pc = "idle"
<1>1. RollbacksAlone
  BY DEF Orderly, RollbacksAlone
<1>2. CASE pub[c].pc # "idle"
  BY <1>1, <1>2, OneBusy
<1>3. CASE \E s \in Snaps : RollbackCheck(c, s)
  BY <1>3 DEF RollbackCheck, Orderly
<1>4. ASSUME NEW s \in Snaps, CommitAcquireLock(c, s), "rollback" \notin PublishOps
      PROVE  \A d \in Committers \ {c} : pub[d].pc = "idle"
  <2>1. \A d \in Committers : pub[d] \in PubRequest /\ ~Committing(d)
                              /\ pub[d].pc \notin RollbackCalls
    BY <1>4, PublishAssumption DEF SoundInv, SoundPub, PubTypeOK, CommitAcquireLock, LockInv,
       HistoryInv, Informed
  <2> QED
    BY <2>1 DEF PubRequest, Committing
<1>5. CASE PublishCall(c)
  <2>1. CommitClassify(c) => PubAt(c, "classify")
    BY Zenon DEF CommitClassify
  <2>2. pub[c].pc # "idle"
    BY <1>5, <2>1 DEF PublishCall, CommitReadStaging, CommitCreateSnapshot, CommitPromote,
       CommitRetry, CommitPoint, CommitFails, CommitUnlock, RollbackFindTarget,
       RollbackSwitchOff, RollbackSwitchOn, RollbackPoint, PubAt, CommitCalls, GraphCalls
  <2> QED
    BY <1>2, <2>2
<1>6. CASE "rollback" \in PublishOps
  BY <1>6 DEF Orderly
<1> QED
  BY <1>3, <1>4, <1>5, <1>6 DEF PublishArrival

\* A call of c is judged by c's record, the graph and the rows.
LEMMA ShowSlot ==
  ASSUME NEW c \in Committers, EditorsIdle, UNCHANGED editVars,
         \A d \in Committers \ {c} : pub[d].pc = "idle" /\ pub'[d] = pub[d],
         VersionsKnown', Progress(pub[c])', RowsRestorable',
         pub'[c].pc \in Quiet => \A r \in Rids : ShowsPointer(graph, r)'
  PROVE  ShowInv'
<1>1. DiscardsUnpublished'
  BY DEF DiscardsUnpublished, Discarding, EditorsIdle, Idle, editVars
<1>2. \A d \in Committers : Progress(pub[d])'
  <2> SUFFICES ASSUME NEW d \in Committers, d # c PROVE Progress(pub[d])'
    OBVIOUS
  <2>1. pub'[d].pc = "idle"
    OBVIOUS
  <2> QED
    BY <2>1 DEF Progress
<1> QED
  BY <1>1, <1>2 DEF ShowInv

\* What a commit classifies is what is staged.
LEMMA ClassifyCovers ==
  ASSUME SoundInv, NEW c \in Committers, CommitClassify(c), Progress(pub[c])
  PROVE  pub'[c].pc = "snapshot" /\ Covers(graph, pub'[c].changes)
<1> DEFINE S == pub[c].staged
<1>1. pub \in [Committers -> PubRequest] /\ S = StagedIn(graph) /\ Staging(graph) # {}
  BY DEF SoundInv, SoundPub, PubTypeOK, CommitClassify, PubAt, Progress
<1> PICK f \in [{x.rid : x \in S} -> Kinds] :
      /\ \A r \in DOMAIN f : \E x \in S : x.rid = r /\ f[r] = ChangeOf(x)
      /\ pub' = [pub EXCEPT ![c].pc = "snapshot", ![c].changes = f, ![c].staged = {}]
  BY Zenon DEF CommitClassify
<1>2. pub'[c].pc = "snapshot" /\ pub'[c].changes = f
  BY <1>1 DEF PubRequest
<1>3. {x.rid : x \in S} = StagedRids(graph)
  <2> DEFINE e(n) == [rid |-> graph[n].rid, is_active |-> graph[n].is_active]
  <2>1. S = {e(n) : n \in Staging(graph)} /\ \A n : e(n).rid = graph[n].rid
    BY <1>1 DEF StagedIn
  <2> HIDE DEF e, S
  <2> QED
    BY <2>1 DEF StagedRids
<1>4. DOMAIN f = StagedRids(graph)
  BY <1>3
<1>5. ASSUME NEW r \in StagedRids(graph), f[r] # "delete"
      PROVE  \E n \in StagingOf(graph, r) : graph[n].is_active
  <2> PICK x \in S : x.rid = r /\ f[r] = ChangeOf(x)
    BY <1>4
  <2>1. x.is_active
    BY <1>5 DEF ChangeOf
  <2>2. PICK n \in Staging(graph) : x = [rid |-> graph[n].rid, is_active |-> graph[n].is_active]
    BY <1>1 DEF StagedIn
  <2>3. graph[n].rid = r /\ graph[n].is_active
    BY <2>1, <2>2
  <2> QED
    BY <2>3 DEF StagingOf, Of, Staging
<1> QED
  BY <1>1, <1>2, <1>4, <1>5 DEF Covers

\* The calls that change neither the graph nor what is committed.
LEMMA ShowRead ==
  ASSUME Orderly, SoundInv, LockInv, HistoryInv, ShowInv, NEW c \in Committers,
         EditorsIdle, UNCHANGED editVars,
         \/ PublishArrival(c)
         \/ CommitReadStaging(c)
         \/ CommitClassify(c)
         \/ CommitCreateSnapshot(c)
         \/ CommitUnlock(c)
         \/ RollbackFindTarget(c)
  PROVE  ShowInv'
<1>1. /\ pub \in [Committers -> PubRequest] /\ pub[c] \in PubRequest
      /\ Progress(pub[c])
  BY DEF SoundInv, SoundPub, PubTypeOK, ShowInv
<1>2. \A d \in Committers \ {c} : pub[d].pc = "idle" /\ pub'[d] = pub[d]
  BY <1>1, OthersIdle, OwnSlot DEF PublishCall
<1>3. UNCHANGED <<graph, rows, pointer>>
  BY Zenon DEF PublishArrival, CommitAcquireLock, RollbackCheck, CommitReadStaging,
     CommitClassify, CommitCreateSnapshot, CommitUnlock, RollbackFindTarget
<1>4. VersionsKnown' /\ RowsRestorable'
      /\ \A r \in Rids : ShowsPointer(graph, r) => ShowsPointer(graph, r)'
  BY <1>3 DEF ShowInv, VersionsKnown, RowsRestorable, Committed, ShowsPointer
<1>5. \A r \in Rids : ShowsPointer(graph, r)
  <2>1. pub[c].pc \in Quiet
    <3>1. CommitClassify(c) => PubAt(c, "classify")
      BY Zenon DEF CommitClassify
    <3> QED
      BY <3>1 DEF PublishArrival, CommitAcquireLock, RollbackCheck, CommitReadStaging,
         CommitCreateSnapshot, CommitUnlock, RollbackFindTarget, NoRequest, PubAt, Quiet
  <2>2. \A d \in Committers : pub[d].pc \in Quiet
    BY <1>2, <2>1 DEF Quiet
  <2> QED
    BY <2>2 DEF ShowInv
<1>6. Progress(pub[c])'
  <2>1. CASE PublishArrival(c) \/ CommitUnlock(c) \/ RollbackFindTarget(c)
    <3>1. pub'[c].pc \in {"idle", "read", "find_target", "switch_off"}
      BY <1>1, <2>1 DEF PublishArrival, CommitAcquireLock, RollbackCheck, CommitUnlock,
         RollbackFindTarget, PubFinish, NoRequest, PubRequest
    <3> QED
      BY <3>1 DEF Progress
  <2>2. CASE CommitReadStaging(c)
    <3>1. CASE Staging(graph) = {}
      <4>1. pub'[c].pc = "unlock"
        BY <1>1, <2>2, <3>1 DEF CommitReadStaging, PubGoto, PubRequest
      <4> QED
        BY <4>1 DEF Progress
    <3>2. CASE Staging(graph) # {}
      <4>1. pub'[c].pc = "classify" /\ pub'[c].staged = StagedIn(graph)
        BY <1>1, <2>2, <3>2 DEF CommitReadStaging, StagedIn, PubRequest
      <4> QED
        BY <1>3, <3>2, <4>1 DEF Progress, StagedIn
    <3> QED
      BY <3>1, <3>2
  <2>3. CASE CommitClassify(c)
    <3>1. pub'[c].pc = "snapshot" /\ Covers(graph, pub'[c].changes)
      BY <1>1, <2>3, ClassifyCovers
    <3> QED
      BY <1>3, <3>1 DEF Progress, Covers
  <2>4. CASE CommitCreateSnapshot(c)
    <3>1. /\ pub[c].pc = "snapshot" /\ pub'[c].pc = "deactivate"
          /\ pub'[c].changes = pub[c].changes
      BY <1>1, <2>4 DEF CommitCreateSnapshot, PubAt, PubRequest
    <3>2. Covers(graph, pub[c].changes) /\ OthersShown(graph, pub[c].changes)
      BY <1>1, <1>5, <3>1 DEF Progress, OthersShown
    <3> QED
      BY <1>3, <3>1, <3>2 DEF Progress, Covers, OthersShown, ShowsPointer
  <2> QED
    BY <2>1, <2>2, <2>3, <2>4
<1> QED
  BY <1>2, <1>4, <1>5, <1>6, ShowSlot

\* The statements of a promotion and their retries.
LEMMA ShowPromote ==
  ASSUME Orderly, SoundInv, LockInv, HistoryInv, ShowInv, NEW c \in Committers,
         EditorsIdle, UNCHANGED editVars, CommitPromote(c) \/ CommitRetry(c)
  PROVE  ShowInv'
<1> DEFINE f == pub[c].changes
           s == pub[c].snap
<1>1. /\ pub \in [Committers -> PubRequest] /\ pub[c] \in PubRequest
      /\ Progress(pub[c]) /\ SoundGraph(graph)
      /\ pub[c].pc \in {"deactivate", "promote", "cleanup"}
      /\ s \in Snaps /\ s \notin Committed
  BY DEF SoundInv, SoundPub, PubTypeOK, ShowInv, CommitPromote, CommitRetry, GraphCalls,
         HistoryInv, Informed, Committing, CommitCalls
<1>2. \A d \in Committers \ {c} : pub[d].pc = "idle" /\ pub'[d] = pub[d]
  BY <1>1, OthersIdle, OwnSlot DEF PublishCall
<1>3. /\ UNCHANGED <<rows, pointer>> /\ Committed' = Committed
      /\ pub'[c].changes = f /\ pub'[c].snap = s
      /\ \/ pub'[c].pc = AfterStatement(c) /\ graph' = PromoteStatement(c)
         \/ pub'[c].pc = "deactivate" /\ graph' \in {graph, PromoteStatement(c)}
  BY <1>1 DEF CommitPromote, CommitRetry, PubGoto, PubRequest, Committed
<1>4. graph' \in {graph, Deactivate(graph), Promote(graph, s), Cleanup(graph, s)}
  BY <1>1, <1>3 DEF PromoteStatement, PubAt
<1> HIDE DEF f, s
<1>5. Progress(pub[c])' /\ pub'[c].pc \notin Quiet
  <2>1. /\ OthersShown(graph, f)
        /\ \/ ChangesShown(graph, f, s)
           \/ pub[c].pc = "deactivate" /\ Covers(graph, f)
           \/ pub[c].pc = "promote" /\ Covers(graph, f) /\ Cleared(graph, f)
    BY <1>1 DEF Progress, f, s
  <2>2. /\ OthersShown(graph', f)
        /\ \/ pub'[c].pc = "deactivate" /\ (ChangesShown(graph', f, s) \/ Covers(graph', f))
           \/ pub'[c].pc = "promote"
              /\ (ChangesShown(graph', f, s) \/ (Covers(graph', f) /\ Cleared(graph', f)))
           \/ pub'[c].pc \in {"cleanup", "point"} /\ ChangesShown(graph', f, s)
    <3>1. CASE graph' = graph /\ pub'[c].pc = "deactivate"
      BY <2>1, <3>1
    <3>2. CASE /\ pub[c].pc = "deactivate" /\ graph' = Deactivate(graph)
               /\ pub'[c].pc \in {"deactivate", "promote"}
      BY <1>1, <2>1, <3>2, DeactivateProgress
    <3>3. CASE /\ pub[c].pc = "promote" /\ graph' = Promote(graph, s)
               /\ pub'[c].pc \in {"deactivate", "cleanup"}
      BY <1>1, <2>1, <3>3, PromoteProgress
    <3>4. CASE /\ pub[c].pc = "cleanup" /\ graph' = Cleanup(graph, s)
               /\ pub'[c].pc \in {"deactivate", "point"}
      BY <1>1, <2>1, <3>4, CleanupProgress
    <3> QED
      BY <1>1, <1>3, <3>1, <3>2, <3>3, <3>4 DEF PromoteStatement, AfterStatement, PubAt, s
  <2>3. /\ OthersShown(graph, f)' /\ (ChangesShown(graph, f, s)' <=> ChangesShown(graph', f, s))
        /\ (Covers(graph, f)' <=> Covers(graph', f))
        /\ (Cleared(graph, f)' <=> Cleared(graph', f))
    BY <1>3, <2>2 DEF OthersShown, ShowsPointer, ChangesShown, Covers, Cleared, f, s
  <2>4. Progress(pub[c])'
    BY <1>3, <2>2, <2>3 DEF Progress, f, s
  <2> QED
    BY <2>2, <2>4 DEF Quiet
<1>6. RowsRestorable'
  <2> SUFFICES ASSUME "rollback" \in PublishOps, NEW row \in rows,
                      NEW n \in Published(graph), graph[n].snapshot_id = row.snap
               PROVE  \E m \in Published(graph') : graph'[m].snapshot_id = row.snap
    BY <1>3 DEF ShowInv, RowsRestorable
  <2>1. row.snap # s
    BY <1>1 DEF Committed
  <2> QED
    BY <1>1, <1>4, <2>1, StatementKeeps
<1>7. VersionsKnown'
  BY <1>3 DEF ShowInv, VersionsKnown
<1> QED
  BY <1>2, <1>5, <1>6, <1>7, ShowSlot

\* Row and pointer appear, and with them what the graph already shows.
LEMMA ShowPoint ==
  ASSUME Orderly, SoundInv, LockInv, HistoryInv, ShowInv, NEW c \in Committers,
         EditorsIdle, UNCHANGED editVars, CommitPoint(c)
  PROVE  ShowInv'
<1> DEFINE f == pub[c].changes
           s == pub[c].snap
           x == [snap |-> s, parent |-> pub[c].parent, changes |-> f]
<1>1. /\ pub \in [Committers -> PubRequest] /\ pub[c] \in PubRequest /\ rows \in SUBSET Row
      /\ Progress(pub[c]) /\ pub[c].pc = "point"
      /\ s \in Snaps /\ s \notin Committed /\ pub[c].parent = pointer
  BY DEF SoundInv, SoundPub, PubTypeOK, ShowInv, CommitPoint, PubAt, HistoryInv, Informed,
         Committing, CommitCalls
<1>2. \A d \in Committers \ {c} : pub[d].pc = "idle" /\ pub'[d] = pub[d]
  BY <1>1, OthersIdle, OwnSlot DEF PublishCall
<1>3. /\ UNCHANGED graph /\ rows' = rows \cup {x} /\ pointer' = s /\ pub'[c].pc = "unlock"
  BY <1>1 DEF CommitPoint, PubGoto, PubRequest
<1>4. /\ x \in Row /\ x.snap = s /\ x.parent = pointer /\ x.changes = f
      /\ DOMAIN f \subseteq Rids
  BY <1>1 DEF PubRequest, Row, Changes
<1> HIDE DEF f, s, x
<1>5. /\ SnapsOf(rows) = Committed /\ x.snap \notin SnapsOf(rows) /\ Closed(rows)
      /\ x.parent \in SnapsOf(rows) \cup {None}
  BY <1>1, <1>4 DEF SnapsOf, Committed, Closed, ShowInv, VersionsKnown
<1>6. /\ Staging(graph) = {} /\ DOMAIN f # {}
      /\ \A r \in Rids \ DOMAIN f : Shows(graph, r, LastChanges(rows, r, pointer))
      /\ \A r \in DOMAIN f : /\ \A n \in ActivesOf(graph, r) : graph[n].snapshot_id = s
                             /\ f[r] # "delete" => ActivesOf(graph, r) # {}
  BY <1>1 DEF Progress, OthersShown, ShowsPointer, ChangesShown, f, s
<1>7. ASSUME NEW r
      PROVE  LastChanges(rows', r, s) =
               IF r \in DOMAIN f THEN {x} ELSE LastChanges(rows, r, pointer)
  BY <1>1, <1>3, <1>4, <1>5, LastNew
<1>8. \A r \in Rids : ShowsPointer(graph, r)'
  <2> SUFFICES ASSUME NEW r \in Rids PROVE Shows(graph, r, LastChanges(rows', r, s))
    BY <1>3 DEF ShowsPointer
  <2>1. CASE r \in DOMAIN f
    <3>1. Shows(graph, r, {x})
      <4>1. {row.snap : row \in {x}} = {s}
        BY <1>4
      <4> QED
        BY <1>4, <1>6, <2>1, <4>1 DEF Shows
    <3> QED
      BY <1>7, <2>1, <3>1
  <2>2. CASE r \notin DOMAIN f
    BY <1>6, <1>7, <2>2
  <2> QED
    BY <2>1, <2>2
<1>9. VersionsKnown'
  <2>1. Committed' = Committed \cup {s}
    BY <1>3, <1>4 DEF Committed
  <2> QED
    BY <1>3, <1>4, <2>1 DEF ShowInv, VersionsKnown
<1>10. RowsRestorable'
  <2> SUFFICES ASSUME "rollback" \in PublishOps, NEW row \in rows \cup {x}, NEW r \in Rids
               PROVE  /\ r \in DOMAIN row.changes
                      /\ LastChanges(rows', r, row.snap) = {row}
                      /\ row.changes[r] # "delete" =>
                           \E n \in Published(graph) : graph[n].snapshot_id = row.snap
    BY <1>3 DEF RowsRestorable
  <2>1. CASE row = x
    <3>1. r \in DOMAIN f
      BY <1>4, <1>6 DEF Orderly
    <3>2. ActivesOf(graph, r) \subseteq Published(graph)
      BY DEF ActivesOf, Actives
    <3> QED
      BY <1>4, <1>6, <1>7, <2>1, <3>1, <3>2
  <2>2. CASE row \in rows
    <3>1. row.snap \in SnapsOf(rows) \cup {None}
      BY <2>2 DEF SnapsOf
    <3>2. LastChanges(rows', r, row.snap) = LastChanges(rows, r, row.snap)
      BY <1>1, <1>3, <1>4, <1>5, <3>1, LastOld
    <3> QED
      BY <2>2, <3>2 DEF ShowInv, RowsRestorable
  <2> QED
    BY <2>1, <2>2
<1>11. Progress(pub[c])'
  BY <1>3 DEF Progress
<1> QED
  BY <1>2, <1>8, <1>9, <1>10, <1>11, ShowSlot

\* The writes of a rollback.
LEMMA ShowRollback ==
  ASSUME Orderly, SoundInv, LockInv, HistoryInv, ShowInv, NEW c \in Committers,
         EditorsIdle, UNCHANGED editVars,
         RollbackSwitchOff(c) \/ RollbackSwitchOn(c) \/ RollbackPoint(c)
  PROVE  ShowInv'
<1> DEFINE s == pub[c].snap
<1>1. /\ pub \in [Committers -> PubRequest] /\ pub[c] \in PubRequest
      /\ pub[c].pc \in {"switch_off", "switch_on", "repoint"}
      /\ Progress(pub[c]) /\ Informed(c) /\ SoundGraph(graph)
      /\ s \in Snaps /\ s # None /\ s \in Committed
      /\ "rollback" \in PublishOps
  BY NoneAssumption DEF SoundInv, SoundPub, PubTypeOK, ShowInv, RollbackSwitchOff,
     RollbackSwitchOn, RollbackPoint, PubAt, HistoryInv, Informed, RollbackCalls, Orderly
<1>2. \A d \in Committers \ {c} : pub[d].pc = "idle" /\ pub'[d] = pub[d]
  BY <1>1, OthersIdle, OwnSlot DEF PublishCall
<1>3. UNCHANGED rows /\ Committed' = Committed
  BY DEF RollbackSwitchOff, RollbackSwitchOn, RollbackPoint, Committed
<1>4. /\ \A row \in rows, r \in Rids :
           /\ r \in DOMAIN row.changes /\ LastChanges(rows, r, row.snap) = {row}
           /\ row.changes[r] # "delete" =>
                \E n \in Published(graph) : graph[n].snapshot_id = row.snap
      /\ \A q, r \in Rids : q = r
  BY <1>1 DEF ShowInv, RowsRestorable, Orderly
<1>5. ASSUME NEW r \in Rids PROVE ActivesOf(graph, r) = Actives(graph)
  <2>1. \A n \in Actives(graph) : n \in NodeIds /\ Has(graph, n) /\ graph[n].rid \in Rids
    BY <1>1 DEF Actives, Published, SoundGraph, Graph, Has, Node
  <2> QED
    BY <1>4, <2>1 DEF ActivesOf, Of
<1>6. CASE RollbackSwitchOff(c) \/ RollbackSwitchOn(c)
  <2>1. UNCHANGED pointer /\ pub'[c].snap = s
    BY <1>1, <1>6 DEF RollbackSwitchOff, RollbackSwitchOn, PubGoto, PubRequest
  <2>2. /\ Published(graph') = Published(graph)
        /\ \A n \in Published(graph) : graph'[n].snapshot_id = graph[n].snapshot_id
    <3> PICK x : graph' \in {SwitchOff(graph, x), SwitchOn(graph, x)}
      BY <1>6 DEF RollbackSwitchOff, RollbackSwitchOn
    <3> QED
      BY <1>1, SwitchShows
  <2>3. VersionsKnown' /\ RowsRestorable'
    BY <1>3, <2>1, <2>2 DEF ShowInv, VersionsKnown, RowsRestorable
  <2>4. Progress(pub[c])' /\ pub'[c].pc \notin Quiet
    <3>1. CASE RollbackSwitchOff(c)
      <4>1. /\ pub[c].pc = "switch_off" /\ pub'[c].pc = "switch_on"
            /\ graph' = SwitchOff(graph, pub[c].parent) /\ pub[c].parent = pointer
        BY <1>1, <3>1 DEF RollbackSwitchOff, PubAt, PubGoto, PubRequest, Informed
      <4>2. \A r \in Rids : Shows(graph, r, LastChanges(rows, r, pointer))
        <5>1. \A d \in Committers : pub[d].pc \in Quiet
          BY <1>2, <4>1 DEF Quiet
        <5> QED
          BY <5>1 DEF ShowInv, ShowsPointer
      <4>3. \A n \in Actives(graph) : graph[n].snapshot_id = pointer /\ pointer # None
        <5> SUFFICES ASSUME NEW n \in Actives(graph)
                     PROVE  graph[n].snapshot_id = pointer /\ pointer # None
          OBVIOUS
        <5> DEFINE r == graph[n].rid
        <5>1. r \in Rids
          BY <1>1 DEF Actives, Published, SoundGraph, Graph, Has, Node
        <5>2. {graph[n].snapshot_id} = {row.snap : row \in LastChanges(rows, r, pointer)}
          BY <1>5, <4>2, <5>1 DEF Shows
        <5>3. PICK row \in LastChanges(rows, r, pointer) : row.snap = graph[n].snapshot_id
          <6> HIDE DEF r
          <6> QED
            BY <5>2
        <5>4. row \in rows /\ row.snap \in Line(rows, pointer)
          BY <5>3 DEF LastChanges, ChangesOf
        <5>5. CASE pointer = None
          <6>1. \A y \in rows : y.snap # None
            BY NoneAssumption DEF SoundInv, SoundPub, PubTypeOK, Row
          <6>2. HasParents(rows, {None})
            BY <6>1 DEF HasParents
          <6>3. row.snap \in {None}
            BY <5>4, <5>5, <6>2 DEF Line
          <6> QED
            BY <5>4, <6>1, <6>3
        <5>6. CASE pointer \in Committed
          <6> PICK y \in rows : y.snap = pointer
            BY <5>6 DEF Committed
          <6>1. LastChanges(rows, r, pointer) = {y}
            BY <1>4, <5>1
          <6>2. pointer # None
            BY NoneAssumption DEF SoundInv, SoundPub, PubTypeOK, Row
          <6> QED
            BY <5>3, <6>1, <6>2
        <5> QED
          BY <5>5, <5>6 DEF ShowInv, VersionsKnown
      <4>4. Actives(graph') = {}
        BY <1>1, <4>1, <4>3, SwitchShows
      <4> QED
        BY <4>1, <4>4 DEF Progress, Quiet
    <3>2. CASE RollbackSwitchOn(c)
      <4>1. /\ pub[c].pc = "switch_on" /\ pub'[c].pc = "repoint"
            /\ graph' = SwitchOn(graph, s) /\ Actives(graph) = {}
        BY <1>1, <3>2 DEF RollbackSwitchOn, PubAt, PubGoto, PubRequest, Progress
      <4>2. Actives(graph')
              = Actives(graph) \cup {n \in Published(graph) : graph[n].snapshot_id = s}
        <5>1. graph' \in {SwitchOff(graph, s), SwitchOn(graph, s)}
          BY <4>1
        <5> HIDE DEF s
        <5> QED
          BY <1>1, <4>1, <5>1, SwitchShows
      <4>3. Actives(graph') = {n \in Published(graph) : graph[n].snapshot_id = s}
        BY <4>1, <4>2
      <4> QED
        BY <2>1, <2>2, <4>1, <4>3 DEF Progress, Quiet
    <3> QED
      BY <1>6, <3>1, <3>2
  <2> QED
    BY <1>2, <2>3, <2>4, ShowSlot
<1>7. CASE RollbackPoint(c)
  <2>1. /\ pub[c].pc = "repoint" /\ UNCHANGED graph /\ pointer' = s /\ pub'[c].pc = "idle"
    BY <1>1, <1>7 DEF RollbackPoint, PubAt, PubFinish, NoRequest
  <2>2. /\ \A n \in Actives(graph) : graph[n].snapshot_id = s
        /\ (\E n \in Published(graph) : graph[n].snapshot_id = s) => Actives(graph) # {}
    BY <1>1, <2>1 DEF Progress
  <2>3. ASSUME NEW r \in Rids PROVE ShowsPointer(graph, r)'
    <3> PICK row \in rows : row.snap = s
      BY <1>1 DEF Committed
    <3>1. LastChanges(rows, r, s) = {row} /\ {y.snap : y \in {row}} = {s}
      BY <1>4
    <3>2. row.changes[r] # "delete" => Actives(graph) # {}
      BY <1>4, <2>2
    <3>3. Shows(graph, r, {row})
      BY <1>5, <2>2, <3>1, <3>2 DEF Shows
    <3> QED
      BY <1>3, <2>1, <3>1, <3>3 DEF ShowsPointer
  <2>4. VersionsKnown' /\ RowsRestorable' /\ Progress(pub[c])'
    BY <1>1, <1>3, <2>1 DEF ShowInv, VersionsKnown, RowsRestorable, Progress
  <2> QED
    BY <1>2, <2>3, <2>4, ShowSlot
<1> QED
  BY <1>6, <1>7

LEMMA ShowStep ==
  ASSUME Orderly, SoundInv, LockInv, HistoryInv, ShowInv, [Next]_vars
  PROVE  ShowInv'
<1>1. CASE UNCHANGED vars \/ (CommitLockExpires /\ UNCHANGED editVars)
  <2>1. UNCHANGED <<graph, edit, pub, rows, pointer>>
    BY <1>1 DEF vars, editVars, pubVars, CommitLockExpires
  <2> QED
    BY <2>1 DEF ShowInv, VersionsKnown, Committed, DiscardsUnpublished, Discarding,
       ShowsPointer, Progress, OthersShown, RowsRestorable
<1>2. CASE EditStep
  BY <1>2, ShowEdit
<1>3. ASSUME NEW c \in Committers, EditorsIdle, UNCHANGED editVars,
             PublishArrival(c) \/ PublishCall(c)
      PROVE  ShowInv'
  <2>1. ~CommitFails(c)
    BY DEF CommitFails, Orderly
  <2> QED
    BY <1>3, <2>1, ShowRead, ShowPromote, ShowPoint, ShowRollback DEF PublishCall
<1>4. ASSUME NEW c \in Committers PROVE ~PublisherDies(c)
  BY DEF PublisherDies, Orderly
<1> QED
  BY <1>1, <1>2, <1>3, <1>4 DEF Next, PublishStep, PublishNext, Orderly

\* With requests one at a time and no commit that fails or dies, the graph
\* shows the version the active pointer names whenever no publication is in
\* flight, whatever was edited, staged, discarded, committed and retried:
\* nothing older was left current and nothing current was lost.  A rollback
\* restores only what its own row changed, so with rollbacks this holds of a
\* tenant of one entity; and a discarded staged version may take the
\* superseded ones with it, so that is not among what editors then do, nor
\* are there rows of other tenants to roll back to.
THEOREM GraphShowsPointer ==
  ASSUME Serial, CommitsFitLease, Faults \subseteq {"transient"},
         "rollback" \in PublishOps =>
           /\ \A c, d \in Committers : c = d
           /\ \A q, r \in Rids : q = r
           /\ "discard_staging" \notin EditOps
           /\ ForeignSnaps = {}
  PROVE  Spec => []GraphMatchesPointer
<1>1. Orderly /\ RollbacksAlone
  BY DEF Orderly, RollbacksAlone
<1>2. Init => ShowInv
  BY <1>1, ShowInit
<1>3. SoundInv /\ LockInv /\ [Next]_vars => LockInv'
  BY LockInvStep
<1>4. SoundInv /\ LockInv /\ HistoryInv /\ [Next]_vars => HistoryInv'
  BY <1>1, HistoryInvStep
<1>5. SoundInv /\ LockInv /\ HistoryInv /\ ShowInv /\ [Next]_vars => ShowInv'
  BY <1>1, ShowStep
<1>6. ShowInv => GraphMatchesPointer
  <2> SUFFICES ASSUME ShowInv, PublishersIdle, NEW r \in Rids
               PROVE  Shows(graph, r, LastChanges(rows, r, pointer))
    BY DEF GraphMatchesPointer
  <2>1. \A c \in Committers : pub[c].pc \in Quiet
    BY DEF PublishersIdle, NoRequest, Quiet
  <2> QED
    BY <2>1 DEF ShowInv, ShowsPointer
<1> QED
  BY <1>2, <1>3, <1>4, <1>5, <1>6, LockInvInit, HistoryInvInit, SoundInvariant, PTL DEF Spec

----------------------------------------------------------------------------
(* What editing leaves alone.                                              *)

\* Without discard_staging no request comes to turn versions into drafts.
NoDiscards == \A e \in Editors : ~Discarding(e)

\* discard_staging is the one operation that rewrites published versions:
\* where clients do not call it, editing leaves the current and all the
\* superseded versions as they are, next to commits and rollbacks that
\* retry, fail or die.
THEOREM OnlyDiscardsRewrite ==
  ASSUME "discard_staging" \notin EditOps
  PROVE  Spec => HistoricalKept
<1>1. Init => NoDiscards
  BY DEF Init, EditStart, Idle, NoDiscards, Discarding
<1>2. ASSUME SoundInv, NoDiscards, [Next]_vars PROVE NoDiscards'
  <2>1. CASE EditStep
    BY <1>2, <2>1, DiscardsBegin DEF SoundInv, EditStep, NoDiscards
  <2>2. CASE UNCHANGED edit
    BY <1>2, <2>2 DEF NoDiscards, Discarding
  <2> QED
    BY <1>2, <2>1, <2>2 DEF Next, PublishStep, vars, editVars
<1>3. SoundInv /\ NoDiscards /\ [Next]_vars
        => [EditStep => \A n \in Published(graph) : graph'[n] = graph[n]]_vars
  <2> SUFFICES ASSUME SoundInv, NoDiscards, EditStep
               PROVE  \A n \in Published(graph) : graph'[n] = graph[n]
    OBVIOUS
  <2>1. PublishedKept(graph, graph')
    BY EditKept DEF SoundInv, EditStep, NoDiscards, Discarding, At
  <2> QED
    BY <2>1 DEF PublishedKept
<1> QED
  BY <1>1, <1>2, <1>3, SoundInvariant, PTL DEF Spec, HistoricalKept

----------------------------------------------------------------------------
(* One current version.  A commit switches off what the staged nodes       *)
(* replace and then publishes all of them, so an entity gets two current   *)
(* versions only if it was staged twice.                                   *)

OneStaged == \A n, m \in Staging(graph) : graph[n].rid = graph[m].rid => n = m

OneActiveIn(g) == \A n, m \in Actives(g) : g[n].rid = g[m].rid => n = m

\* What is staged replaces no version that is still current.
Replaced(g) == \A n \in Actives(g) : g[n].rid \notin StagedRids(g)

OneInv == /\ OneActiveIn(graph)
          /\ \A c \in Committers : /\ pub[c].pc = "promote" => Replaced(graph)
                                   /\ pub[c].pc \notin RollbackCalls

\* Editing makes no version current.
LEMMA EditActives ==
  ASSUME SoundGraph(graph), SoundEdit, EditNext
  PROVE  \A n \in Actives(graph') : n \in Actives(graph) /\ graph'[n].rid = graph[n].rid
<1>1. CASE PublishedKept(graph, graph')
  BY <1>1, PublishedKeepsActives DEF ActivesKept
<1>2. ASSUME NEW r, NEW u, graph' = AllToDraft(graph, r, u)
      PROVE  \A n \in Actives(graph') : n \in Actives(graph) /\ graph'[n].rid = graph[n].rid
  <2>1. \A n \in NodeIds : n \in Of(graph, r) => ~IsPublished(graph'[n])
    BY <1>2 DEF AllToDraft, Of, Has, IsPublished, SoundGraph, Graph, Node
  <2>2. \A n \in NodeIds : n \notin Of(graph, r) => graph'[n] = graph[n]
    BY <1>2 DEF AllToDraft
  <2> QED
    BY <2>1, <2>2 DEF Actives, Published, Has
<1> QED
  BY <1>1, <1>2, EditKept

LEMMA StatementsKeepOne ==
  ASSUME NEW g, SoundGraph(g), OneActiveIn(g), NEW s \in Snaps,
         NEW h,
         \/ h \in {g, Deactivate(g), Cleanup(g, s)}
         \/ /\ h = Promote(g, s) /\ Replaced(g)
            /\ \A n, m \in Staging(g) : g[n].rid = g[m].rid => n = m
  PROVE  /\ OneActiveIn(h)
         /\ Replaced(g) => Replaced(h)
         /\ h = Deactivate(g) => Replaced(h)
<1>1. CASE h = g /\ h # Deactivate(g)
  BY <1>1
<1>2. CASE h = Deactivate(g)
  <2>1. /\ StagedRids(h) = StagedRids(g)
        /\ \A n \in Actives(h) : /\ n \in Actives(g) /\ h[n].rid = g[n].rid
                                 /\ g[n].rid \notin StagedRids(g)
    BY <1>2, DeactivateShows DEF StagedRids, Actives
  <2> QED
    BY <2>1 DEF OneActiveIn, Replaced
<1>3. CASE /\ h = Promote(g, s) /\ Replaced(g)
           /\ \A n, m \in Staging(g) : g[n].rid = g[m].rid => n = m
  <2>1. /\ Staging(h) = {}
        /\ \A n \in Actives(h) : /\ h[n].rid = g[n].rid
                                 /\ n \in Actives(g) \/ n \in Staging(g)
    BY <1>3, PromoteShows DEF Actives
  <2>2. \A n \in Staging(g) : g[n].rid \in StagedRids(g)
    BY DEF StagedRids
  <2>3. OneActiveIn(h)
    BY <1>3, <2>1, <2>2 DEF OneActiveIn, Replaced
  <2>4. Replaced(h)
    BY <2>1 DEF Replaced, StagedRids
  <2> QED
    BY <1>3, <2>3, <2>4
<1>4. CASE h = Cleanup(g, s) /\ h # Deactivate(g)
  <2>1. ActivesKept(g, h) /\ Staging(h) \subseteq Staging(g)
    BY <1>4, CleanupShows
  <2>2. \A n \in Staging(h) : h[n].rid = g[n].rid
    BY <1>4 DEF Cleanup, DeleteNodes, Staging, Has
  <2>3. StagedRids(h) \subseteq StagedRids(g)
    BY <2>1, <2>2 DEF StagedRids
  <2> QED
    BY <1>4, <2>1, <2>3 DEF ActivesKept, OneActiveIn, Replaced
<1> QED
  BY <1>1, <1>2, <1>3, <1>4

LEMMA OneInit == Init => OneInv
<1> SUFFICES ASSUME Init PROVE OneInv
  OBVIOUS
<1> PICK at \in Placements, s \in Snaps : graph = FirstVersion(at, s)
  BY DEF Init
<1>1. ASSUME NEW n \in Actives(graph)
      PROVE  n \in NodeIds /\ at[n] # None /\ graph[n].rid = at[n]
  BY DEF Actives, Published, Has, FirstVersion, ActiveNode
<1>2. OneActiveIn(graph)
  BY <1>1 DEF OneActiveIn, Placements
<1>3. \A c \in Committers : pub[c].pc = "idle"
  BY DEF Init, PublishStart, NoRequest
<1> QED
  BY <1>2, <1>3 DEF OneInv, RollbackCalls

LEMMA OneStep ==
  ASSUME Serial, "rollback" \notin PublishOps, SoundInv, OneInv, OneStaged, [Next]_vars
  PROVE  OneInv'
<1>1. /\ pub \in [Committers -> PubRequest] /\ SoundGraph(graph) /\ SoundEdit
  BY DEF SoundInv, SoundPub, PubTypeOK
<1>2. CASE UNCHANGED <<graph, pub>>
  BY <1>2 DEF OneInv, OneActiveIn, Replaced
<1>3. CASE EditStep
  <2>1. EditNext /\ UNCHANGED pub /\ \A c \in Committers : pub[c].pc = "idle"
    BY <1>3 DEF EditStep, PublishersIdle, NoRequest, pubVars
  <2>2. OneActiveIn(graph')
    BY <1>1, <2>1, EditActives DEF OneInv, OneActiveIn
  <2> QED
    BY <2>1, <2>2 DEF OneInv, OneActiveIn, RollbackCalls
<1>4. ASSUME NEW c \in Committers, PublishArrival(c) \/ PublishCall(c) \/ PublisherDies(c)
      PROVE  OneInv'
  <2>1. \A d \in Committers \ {c} : pub'[d] = pub[d]
    BY <1>1, <1>4, OwnSlot
  <2>2. ~RollbackFindTarget(c) /\ ~RollbackSwitchOff(c) /\ ~RollbackSwitchOn(c)
        /\ ~RollbackPoint(c) /\ \A s \in Snaps : ~RollbackCheck(c, s)
    BY DEF OneInv, RollbackCalls, RollbackFindTarget, RollbackSwitchOff, RollbackSwitchOn,
       RollbackPoint, RollbackCheck, PubAt
  <2>3. CASE CommitPromote(c) \/ CommitRetry(c)
    <3> DEFINE s == pub[c].snap
    <3>1. pub[c] \in PubRequest /\ pub[c].pc \in GraphCalls /\ s \in Snaps
      BY <1>1, <2>3 DEF CommitPromote, CommitRetry, SoundInv, SoundPub, GraphCalls, CommitCalls
    <3>2. /\ \/ pub'[c].pc = AfterStatement(c) /\ graph' = PromoteStatement(c)
             \/ pub'[c].pc = "deactivate" /\ graph' \in {graph, PromoteStatement(c)}
      BY <1>1, <2>3 DEF CommitPromote, CommitRetry, PubGoto, PubRequest
    <3>3. /\ pub[c].pc = "deactivate" => PromoteStatement(c) = Deactivate(graph)
          /\ pub[c].pc = "promote" => PromoteStatement(c) = Promote(graph, s)
          /\ pub[c].pc = "cleanup" => PromoteStatement(c) = Cleanup(graph, s)
          /\ AfterStatement(c) \in {"promote", "cleanup", "point"}
          /\ AfterStatement(c) = "promote" => pub[c].pc = "deactivate"
      BY <3>1 DEF PromoteStatement, AfterStatement, PubAt, GraphCalls
    <3> HIDE DEF s
    <3>4. /\ OneActiveIn(graph') /\ (Replaced(graph) => Replaced(graph'))
          /\ graph' = Deactivate(graph) => Replaced(graph')
      <4>1. \/ graph' \in {graph, Deactivate(graph), Cleanup(graph, s)}
            \/ graph' = Promote(graph, s) /\ pub[c].pc = "promote"
        BY <3>1, <3>2, <3>3 DEF GraphCalls
      <4> QED
        BY <1>1, <3>1, <4>1, StatementsKeepOne DEF OneInv, OneStaged
    <3>5. /\ pub'[c].pc \notin RollbackCalls
          /\ pub'[c].pc = "promote" => graph' = Deactivate(graph)
      BY <3>2, <3>3 DEF RollbackCalls
    <3> QED
      BY <2>1, <3>4, <3>5 DEF OneInv, OneActiveIn, Replaced
  <2>4. CASE ~(CommitPromote(c) \/ CommitRetry(c))
    <3>1. UNCHANGED graph /\ pub'[c].pc \notin RollbackCalls \cup {"promote"}
      <4>1. CASE CommitClassify(c)
        <5>1. UNCHANGED graph /\ \E f : pub' = [pub EXCEPT ![c].pc = "snapshot",
                                                           ![c].changes = f, ![c].staged = {}]
          BY <4>1, Zenon DEF CommitClassify
        <5> PICK f : pub' = [pub EXCEPT ![c].pc = "snapshot", ![c].changes = f,
                                        ![c].staged = {}]
          BY <5>1
        <5>2. pub'[c].pc = "snapshot"
          BY <1>1 DEF PubRequest
        <5> QED
          BY <5>1, <5>2 DEF RollbackCalls
      <4> QED
        BY <1>1, <1>4, <2>2, <2>4, <4>1 DEF PublishArrival, CommitAcquireLock, PublishCall,
           CommitReadStaging, CommitCreateSnapshot, CommitPoint, CommitFails, CommitUnlock,
           PublisherDies, PubGoto, PubFinish, PubRequest, NoRequest, RollbackCalls
    <3> QED
      BY <2>1, <3>1 DEF OneInv, OneActiveIn, Replaced
  <2> QED
    BY <2>3, <2>4
<1>5. CASE CommitLockExpires
  BY <1>2, <1>5 DEF CommitLockExpires
<1> QED
  BY <1>2, <1>3, <1>4, <1>5 DEF Next, PublishStep, PublishNext, vars, pubVars

\* Where no entity is ever staged twice and editors keep out while a commit
\* runs, an entity has at most one current version, whatever number of
\* commits interleave, outlast the lease of their lock, retry, fail or die
\* between their statements.  So a second staged node (which submit_to_staging
\* lets happen) and an edit during a commit are all that could make two.
THEOREM OneCurrentVersion ==
  ASSUME Serial, "rollback" \notin PublishOps
  PROVE  Spec /\ []OneStaged => []OneActivePerEntity
<1>1. SoundInv /\ OneInv /\ OneStaged /\ [Next]_vars => OneInv'
  BY OneStep
<1>2. OneInv => OneActivePerEntity
  BY DEF OneInv, OneActiveIn, OneActivePerEntity
<1> QED
  BY <1>1, <1>2, OneInit, SoundInvariant, PTL DEF Spec
=============================================================================
