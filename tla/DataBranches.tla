---------------------------- MODULE DataBranches ----------------------------
(***************************************************************************)
(* DataServiceImpl and NessieClient: branches of the data catalogue.       *)
(* Nessie is external: it compares the hash that a request expects with    *)
(* the branch's head, one request at a time.  The service keeps nothing;   *)
(* it asks for a hash and then sends it, in a second request.  A hash      *)
(* stands for the commits that it names.                                   *)
(***************************************************************************)
EXTENDS NoValue, FiniteSets

CONSTANTS Branches,
          Main,
          Commits,
          BranchCalls   \* requests at work at once

VARIABLES head,       \* Nessie: the commits of each branch, or None
          written,    \* what was ever committed
          readBefore, \* what deletions had read of the branches they removed
          branchCall

branchVars == <<head, written, readBefore, branchCall>>

ASSUME BranchAssumption ==
  /\ Main \in Branches
  /\ None \notin Branches

Hash == SUBSET Commits

ASSUME NoneIsNoHash == \A hash \in Hash : hash # None

BranchCall == [pc     : {"idle", "create", "delete", "target", "merge"},
               name   : Branches \cup {None},
               target : Branches \cup {None},
               hash   : {None} \cup Hash,
               onto   : {None} \cup Hash]

NoBranchCall == [pc |-> "idle", name |-> None, target |-> None, hash |-> None,
                 onto |-> None]

BranchTypeOK ==
  /\ head \in [Branches -> {None} \cup Hash]
  /\ written \subseteq Commits
  /\ readBefore \subseteq Commits
  /\ branchCall \in [BranchCalls -> BranchCall]

----------------------------------------------------------------------------

Exists(b) == head[b] # None

Asks(pc, b, target, hash) ==
  [pc |-> pc, name |-> b, target |-> target, hash |-> hash, onto |-> None]

BeginsBranch(h, q) ==
  /\ branchCall[h] = NoBranchCall
  /\ branchCall' = [branchCall EXCEPT ![h] = q]

EndsBranch(h) == branchCall' = [branchCall EXCEPT ![h] = NoBranchCall]

\* The source must be there; its hash is read and not sent.
CreateBranch(h, b, from) ==
  /\ Exists(from)
  /\ BeginsBranch(h, Asks("create", b, None, None))
  /\ UNCHANGED <<head, written, readBefore>>

\* Nessie is told no hash: it starts the branch where it likes.  The answer
\* is 409 when the name is taken.
PostBranch(h, start) ==
  LET b == branchCall[h].name
  IN /\ branchCall[h].pc = "create"
     /\ head' = IF Exists(b) THEN head ELSE [head EXCEPT ![b] = start]
     /\ EndsBranch(h)
     /\ UNCHANGED <<written, readBefore>>

\* Variant: main is deleted like any branch.
DeleteAnyBranch(h, b) ==
  /\ Exists(b)
  /\ BeginsBranch(h, Asks("delete", b, None, head[b]))
  /\ UNCHANGED <<head, written, readBefore>>

\* The hash that a deletion expects is the one of a moment before, whatever
\* the user saw; main is refused.
DeleteBranch(h, b) ==
  /\ Exists(b)
  /\ b # Main
  /\ BeginsBranch(h, Asks("delete", b, None, head[b]))
  /\ UNCHANGED <<head, written, readBefore>>

\* Variant: If-Match is not sent.
SendDeletionUnmatched(h) ==
  LET q == branchCall[h]
  IN /\ q.pc = "delete"
     /\ head' = [head EXCEPT ![q.name] = None]
     /\ readBefore' = readBefore \cup q.hash
     /\ EndsBranch(h)
     /\ UNCHANGED written

\* If-Match: another head is a conflict, no branch a 404.
SendDeletion(h) ==
  LET q == branchCall[h]
  IN /\ q.pc = "delete"
     /\ IF head[q.name] = q.hash
        THEN /\ head' = [head EXCEPT ![q.name] = None]
             /\ readBefore' = readBefore \cup q.hash
        ELSE UNCHANGED <<head, readBefore>>
     /\ EndsBranch(h)
     /\ UNCHANGED written

MergeBranch(h, source, target) ==
  /\ Exists(source)
  /\ BeginsBranch(h, Asks("target", source, target, head[source]))
  /\ UNCHANGED <<head, written, readBefore>>

ReadTarget(h) ==
  LET q == branchCall[h]
  IN /\ q.pc = "target"
     /\ IF Exists(q.target)
        THEN branchCall' = [branchCall EXCEPT ![h] =
               [pc |-> "merge", name |-> q.name, target |-> q.target, hash |-> q.hash,
                onto |-> head[q.target]]]
        ELSE EndsBranch(h)
     /\ UNCHANGED <<head, written, readBefore>>

\* Nessie merges what was read of the source onto the head that was read of
\* the target; it may also find the contents in conflict.
SendMerge(h, agreed) ==
  LET q == branchCall[h]
  IN /\ q.pc = "merge"
     /\ head' = IF agreed /\ head[q.target] = q.onto /\ Exists(q.name)
                     /\ q.hash \subseteq head[q.name]
                THEN [head EXCEPT ![q.target] = q.onto \cup q.hash]
                ELSE head
     /\ EndsBranch(h)
     /\ UNCHANGED <<written, readBefore>>

\* A time-out before Nessie acts; after it, the lost answer changes nothing.
BranchCallDies(h) ==
  /\ branchCall[h] # NoBranchCall
  /\ EndsBranch(h)
  /\ UNCHANGED <<head, written, readBefore>>

\* Jobs outside this program commit to branches.
CommitTo(b, c) ==
  /\ Exists(b)
  /\ c \notin written
  /\ head' = [head EXCEPT ![b] = @ \cup {c}]
  /\ written' = written \cup {c}
  /\ UNCHANGED <<readBefore, branchCall>>

BranchInit ==
  /\ head = [b \in Branches |-> IF b = Main THEN {} ELSE None]
  /\ written = {}
  /\ readBefore = {}
  /\ branchCall = [h \in BranchCalls |-> NoBranchCall]

BranchNext ==
  \/ \E h \in BranchCalls :
       \/ \E b, other \in Branches : CreateBranch(h, b, other) \/ MergeBranch(h, b, other)
       \/ \E b \in Branches : DeleteBranch(h, b)
       \/ \E start \in {head[b] : b \in {x \in Branches : Exists(x)}} \cup {{}} :
            PostBranch(h, start)
       \/ SendDeletion(h)
       \/ ReadTarget(h)
       \/ \E agreed \in BOOLEAN : SendMerge(h, agreed)
       \/ BranchCallDies(h)
  \/ \E b \in Branches, c \in Commits : CommitTo(b, c)

BranchSpec == BranchInit /\ [][BranchNext]_branchVars

----------------------------------------------------------------------------

\* A commit is in no branch any more only if a deletion had read it: commits
\* and merges that arrive between the two requests of a deletion are kept,
\* through branches that are deleted and created again (expected_hash).
NothingLostUnread ==
  \A c \in written :
    (\E b \in Branches : Exists(b) /\ c \in head[b]) \/ c \in readBefore

\* What main holds it keeps, whatever is merged, deleted or created under
\* other names at the same time (delete_branch refuses main).
MainKeeps ==
  [][head[Main] # None /\ head[Main]' # None /\ head[Main] \subseteq head[Main]']_branchVars
=============================================================================
