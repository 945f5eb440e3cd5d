--------------------------- MODULE OntologySystem --------------------------
(***************************************************************************)
(* OntologyServiceImpl as a whole: editing and publishing requests of one  *)
(* tenant on the same graph.  With Serial every request runs alone; the    *)
(* properties that need this say so, and those that do not are checked     *)
(* with requests interleaved.                                              *)
(***************************************************************************)
EXTENDS OntologyEditing, OntologyPublishing

CONSTANT Serial

ASSUME SerialAssumption == Serial \in BOOLEAN

vars == <<graph, editVars, pubVars>>

TypeOK == EditTypeOK /\ PubTypeOK

EditorsIdle == \A e \in Editors : edit[e] = Idle

PublishersIdle == \A c \in Committers : pub[c] = NoRequest

\* An empty tenant, or one after its first publication.
Init ==
  /\ EditStart
  /\ PublishStart
  /\ \E at \in Placements, s \in Snaps \ ForeignSnaps :
       LET created == {at[n] : n \in NodeIds} \ {None} IN
       /\ graph = FirstVersion(at, s)
       /\ IF created = {}
            THEN rows = {} /\ pointer = None
            ELSE /\ rows = {[snap |-> s, parent |-> None,
                             changes |-> [r \in created |-> "create"]]}
                 /\ pointer = s

EditStep ==
  /\ Serial => PublishersIdle
  /\ EditNext
  /\ UNCHANGED pubVars

PublishStep ==
  /\ Serial => EditorsIdle
  /\ PublishNext
  /\ UNCHANGED editVars

Next == EditStep \/ PublishStep

Spec == Init /\ [][Next]_vars

\* A request that was started gets its answers, and Redis counts down.
FairSpec ==
  /\ Spec
  /\ \A c \in Committers : WF_vars(PublishCall(c) /\ UNCHANGED editVars)
  /\ WF_vars(CommitLockExpires /\ UNCHANGED editVars)

----------------------------------------------------------------------------
(* Commit lock.                                                            *)

\* Publications exclude each other: between SET NX and the DEL in finally
\* no second commit reads staging, promotes or writes a snapshot row.
CommitExclusion ==
  \A c, d \in Committers : Committing(c) /\ Committing(d) => c = d

\* No commit, whether it ends, fails or dies with its worker, locks the
\* tenant out of publishing for good.
CommitLockFreed == (commitLock # None) ~> (commitLock = None)

----------------------------------------------------------------------------
(* Version history.                                                        *)

\* The rows that commits and rollbacks leave in PostgreSQL implement the
\* promised history: each commit's parent is the version current when it
\* commits, not one read earlier that has since been replaced, and a version
\* that becomes current is a row of the table, though another tenant's will do.
History == INSTANCE SnapshotHistory
             WITH rows <- {[snap |-> row.snap, parent |-> row.parent] : row \in rows}

LinearHistory == History!Spec

\* What readers see was published: every published version carries a
\* snapshot that PostgreSQL has, or that a commit still in flight will write.
PublishedHasRow ==
  \A n \in Published(graph) :
    \/ graph[n].snapshot_id \in Committed
    \/ \E c \in Committers : Committing(c) /\ pub[c].snap = graph[n].snapshot_id

----------------------------------------------------------------------------
(* The graph against the history.                                          *)

\* The line of history of version s in the table R: s, its parent and so on.
\* It is the smallest set that has s and with a version its parent.
HasParents(R, T) == \A row \in R : row.snap \in T => row.parent \in T

Line(R, s) == {t \in Snaps \cup {None} :
                 \A T \in SUBSET (Snaps \cup {None}) : s \in T /\ HasParents(R, T) => t \in T}

ChangesOf(R, r, s) == {row \in R : row.snap \in Line(R, s) /\ r \in DOMAIN row.changes}

\* The row among s and its ancestors that changed entity r last, if any did:
\* the others are among its own ancestors.
LastChanges(R, r, s) == {row \in ChangesOf(R, r, s) :
                           \A other \in ChangesOf(R, r, s) : other.snap \in Line(R, row.snap)}

\* Entity r is current exactly in the snapshot of its last change.
Shows(g, r, last) ==
  /\ \A n \in ActivesOf(g, r) : {g[n].snapshot_id} = {row.snap : row \in last}
  /\ \A row \in last : row.changes[r] # "delete" => ActivesOf(g, r) # {}

\* The graph shows the version the active pointer names.  With no
\* publication in flight an entity is current exactly in the snapshot of
\* its last change on the pointer's line of history: nothing older was left
\* current, nothing that should be current was lost.  (An entity staged
\* both as changed and as deleted may keep its changed version.)
GraphMatchesPointer ==
  PublishersIdle => \A r \in Rids : Shows(graph, r, LastChanges(rows, r, pointer))

\* Editing leaves alone what was published: superseded and deleted versions
\* stay in the graph as rollbacks need them.
HistoricalKept ==
  [][EditStep => \A n \in Published(graph) : graph'[n] = graph[n]]_vars

\* An entity has one current version.
OneActivePerEntity ==
  \A n, m \in Actives(graph) : graph[n].rid = graph[m].rid => n = m

=============================================================================
