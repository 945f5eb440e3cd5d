------------------------- MODULE DataServices_proofs -------------------------
(***************************************************************************)
(* Proofs about DataBranches, DataConnections, SchemaCache, InstanceQuery  *)
(* and EditLog for any number of branches, commits, connections, queries,  *)
(* requests, properties, columns, edits and readers of a row.              *)
(***************************************************************************)
EXTENDS DataBranches, DataConnections, SchemaCache, InstanceQuery, EditLog,
        FiniteSetTheorems, TLAPS

(* DataBranches.  A request knows a branch's commits only if they were     *)
(* committed, and a deletion is never about main.                          *)

AskedOK(h) ==
  LET q == branchCall[h]
  IN q.pc # "idle" =>
       /\ q.name \in Branches
       /\ q.pc = "delete" => q.name # Main
       /\ q.pc \in {"delete", "target", "merge"} => q.hash # None /\ q.hash \subseteq written
       /\ q.pc \in {"target", "merge"} => q.target \in Branches
       /\ q.pc = "merge" => q.onto # None

HeadsWritten == \A b \in Branches : Exists(b) => head[b] \subseteq written

BranchInv == /\ BranchTypeOK /\ HeadsWritten /\ (\A h \in BranchCalls : AskedOK(h))
             /\ Exists(Main) /\ NothingLostUnread

LEMMA NoBranchCallOK == NoBranchCall \in BranchCall
BY DEF NoBranchCall, BranchCall

LEMMA AsksKinds ==
  ASSUME NEW pc \in {"create", "delete", "target"}, NEW b \in Branches,
         NEW target \in Branches \cup {None}, NEW hash \in {None} \cup Hash
  PROVE  Asks(pc, b, target, hash) \in BranchCall
BY DEF Asks, BranchCall

LEMMA BranchInvInit == BranchInit => BranchInv
<1> SUFFICES ASSUME BranchInit PROVE BranchInv
  OBVIOUS
<1>1. {} \in Hash
  BY DEF Hash
<1>2. BranchTypeOK
  BY <1>1, NoBranchCallOK DEF BranchInit, BranchTypeOK
<1>3. Exists(Main) /\ HeadsWritten
  BY <1>1, BranchAssumption, NoneIsNoHash DEF BranchInit, Exists, HeadsWritten
<1>4. (\A h \in BranchCalls : AskedOK(h)) /\ NothingLostUnread
  BY DEF BranchInit, AskedOK, NoBranchCall, NothingLostUnread
<1> QED BY <1>2, <1>3, <1>4 DEF BranchInv

\* A request begins, goes on or ends, and Nessie does nothing.
LEMMA OnlyAsks ==
  ASSUME BranchInv, NEW h \in BranchCalls, NEW q \in BranchCall,
         branchCall' = [branchCall EXCEPT ![h] = q],
         UNCHANGED <<head, written, readBefore>>,
         q.pc # "idle" =>
           /\ q.name \in Branches
           /\ q.pc = "delete" => q.name # Main
           /\ q.pc \in {"delete", "target", "merge"} => q.hash # None /\ q.hash \subseteq written
           /\ q.pc \in {"target", "merge"} => q.target \in Branches
           /\ q.pc = "merge" => q.onto # None
  PROVE  BranchInv'
<1>1. /\ branchCall' \in [BranchCalls -> BranchCall] /\ branchCall'[h] = q
      /\ \A g \in BranchCalls \ {h} : branchCall'[g] = branchCall[g]
  BY DEF BranchInv, BranchTypeOK
<1>2. \A g \in BranchCalls : AskedOK(g)'
  BY <1>1 DEF BranchInv, AskedOK
<1> QED BY <1>1, <1>2 DEF BranchInv, BranchTypeOK, HeadsWritten, Exists, NothingLostUnread

\* Nessie acts on the request in slot h, which ends.
LEMMA Acts ==
  ASSUME BranchInv, NEW h \in BranchCalls, EndsBranch(h),
         head' \in [Branches -> {None} \cup Hash], HeadsWritten', Exists(Main)',
         written' = written, readBefore' \subseteq Commits, NothingLostUnread'
  PROVE  BranchInv'
<1>1. /\ branchCall' \in [BranchCalls -> BranchCall] /\ branchCall'[h].pc = "idle"
      /\ \A g \in BranchCalls \ {h} : branchCall'[g] = branchCall[g]
  BY NoBranchCallOK DEF BranchInv, BranchTypeOK, EndsBranch, NoBranchCall
<1>2. \A g \in BranchCalls : AskedOK(g)'
  BY <1>1 DEF BranchInv, AskedOK
<1>3. BranchTypeOK'
  BY <1>1 DEF BranchInv, BranchTypeOK
<1> QED BY <1>2, <1>3 DEF BranchInv

LEMMA BranchInvStep == BranchInv /\ [BranchNext]_branchVars => BranchInv'
<1> SUFFICES ASSUME BranchInv, [BranchNext]_branchVars PROVE BranchInv'
  OBVIOUS
<1>0. BranchTypeOK /\ HeadsWritten /\ Exists(Main) /\ NothingLostUnread
  BY DEF BranchInv
<1>1. CASE UNCHANGED branchVars
  BY <1>1 DEF branchVars, BranchInv, BranchTypeOK, HeadsWritten, AskedOK, Exists,
              NothingLostUnread
<1>2. ASSUME NEW h \in BranchCalls, NEW b \in Branches, NEW from \in Branches,
             CreateBranch(h, b, from)
      PROVE  BranchInv'
  <2>1. PICK q \in BranchCall : q = Asks("create", b, None, None)
    BY AsksKinds
  <2>2. q.pc = "create" /\ q.name = b
    BY <2>1 DEF Asks
  <2> QED BY <1>2, <2>1, <2>2, OnlyAsks DEF CreateBranch, BeginsBranch
<1>3. ASSUME NEW h \in BranchCalls, NEW b \in Branches, DeleteBranch(h, b) PROVE BranchInv'
  <2>1. head[b] \in Hash /\ head[b] # None /\ head[b] \subseteq written
    BY <1>0, <1>3 DEF DeleteBranch, Exists, BranchTypeOK, HeadsWritten
  <2>2. PICK q \in BranchCall : q = Asks("delete", b, None, head[b])
    BY <2>1, AsksKinds
  <2>3. q.pc = "delete" /\ q.name = b /\ q.hash = head[b]
    BY <2>2 DEF Asks
  <2> QED BY <1>3, <2>1, <2>2, <2>3, OnlyAsks DEF DeleteBranch, BeginsBranch
<1>4. ASSUME NEW h \in BranchCalls, NEW b \in Branches, NEW target \in Branches,
             MergeBranch(h, b, target)
      PROVE  BranchInv'
  <2>1. head[b] \in Hash /\ head[b] # None /\ head[b] \subseteq written
    BY <1>0, <1>4 DEF MergeBranch, Exists, BranchTypeOK, HeadsWritten
  <2>2. PICK q \in BranchCall : q = Asks("target", b, target, head[b])
    BY <2>1, AsksKinds
  <2>3. q.pc = "target" /\ q.name = b /\ q.target = target /\ q.hash = head[b]
    BY <2>2 DEF Asks
  <2> QED BY <1>4, <2>1, <2>2, <2>3, OnlyAsks DEF MergeBranch, BeginsBranch
<1>5. ASSUME NEW h \in BranchCalls, ReadTarget(h) PROVE BranchInv'
  <2>1. branchCall[h] \in BranchCall /\ branchCall[h].pc = "target" /\ AskedOK(h)
    BY <1>0, <1>5 DEF ReadTarget, BranchTypeOK, BranchInv
  <2>2. CASE ~Exists(branchCall[h].target)
    BY <1>5, <2>2, OnlyAsks, NoBranchCallOK DEF ReadTarget, EndsBranch, NoBranchCall
  <2>3. CASE Exists(branchCall[h].target)
    <3>1. head[branchCall[h].target] \in Hash
      BY <1>0, <2>1, <2>3 DEF AskedOK, Exists, BranchTypeOK
    <3>2. [pc |-> "merge", name |-> branchCall[h].name, target |-> branchCall[h].target,
           hash |-> branchCall[h].hash, onto |-> head[branchCall[h].target]] \in BranchCall
      BY <2>1, <3>1 DEF BranchCall
    <3>3. PICK q \in BranchCall :
            q = [pc |-> "merge", name |-> branchCall[h].name, target |-> branchCall[h].target,
                 hash |-> branchCall[h].hash, onto |-> head[branchCall[h].target]]
      BY <3>2
    <3>4. q.name = branchCall[h].name /\ q.target = branchCall[h].target
          /\ q.hash = branchCall[h].hash /\ q.onto # None /\ q.pc = "merge"
      BY <2>3, <3>3 DEF Exists
    <3>5. branchCall' = [branchCall EXCEPT ![h] = q] /\ UNCHANGED <<head, written, readBefore>>
      BY <1>5, <2>3, <3>3 DEF ReadTarget
    <3> QED BY <2>1, <3>4, <3>5, OnlyAsks DEF AskedOK
  <2> QED BY <2>2, <2>3
<1>6. ASSUME NEW h \in BranchCalls, BranchCallDies(h) PROVE BranchInv'
  BY <1>6, OnlyAsks, NoBranchCallOK DEF BranchCallDies, EndsBranch, NoBranchCall
<1>7. ASSUME NEW h \in BranchCalls,
             NEW start \in {head[b] : b \in {x \in Branches : Exists(x)}} \cup {{}},
             PostBranch(h, start)
      PROVE  BranchInv'
  <2>1. start \in Hash /\ start \subseteq written /\ start # None
    BY <1>0, NoneIsNoHash DEF BranchTypeOK, Exists, HeadsWritten, Hash
  <2>2. branchCall[h].name \in Branches
    BY <1>7 DEF PostBranch, BranchInv, AskedOK
  <2>3. /\ head' \in [Branches -> {None} \cup Hash]
        /\ \A b \in Branches : head'[b] = head[b] \/ (~Exists(b) /\ head'[b] = start)
    BY <1>0, <1>7, <2>1 DEF PostBranch, BranchTypeOK
  <2>4. UNCHANGED <<written, readBefore>> /\ EndsBranch(h)
    BY <1>7 DEF PostBranch
  <2>5. HeadsWritten' /\ Exists(Main)' /\ NothingLostUnread'
    BY <1>0, <2>1, <2>3, <2>4, BranchAssumption
       DEF HeadsWritten, Exists, NothingLostUnread
  <2> QED BY <1>0, <2>3, <2>4, <2>5, Acts DEF BranchTypeOK
<1>8. ASSUME NEW h \in BranchCalls, SendDeletion(h) PROVE BranchInv'
  <2>1. EndsBranch(h) /\ written' = written
    BY <1>8 DEF SendDeletion
  <2>2. /\ branchCall[h].name \in Branches /\ branchCall[h].name # Main
        /\ branchCall[h].hash # None /\ branchCall[h].hash \subseteq written
    BY <1>8 DEF SendDeletion, BranchInv, AskedOK
  <2>3. CASE head[branchCall[h].name] = branchCall[h].hash
    <3>1. PICK b \in Branches : b = branchCall[h].name /\ head[b] = branchCall[h].hash
      BY <2>2, <2>3
    <3>2. /\ head' = [head EXCEPT ![b] = None]
          /\ readBefore' = readBefore \cup head[b]
      BY <1>8, <2>3, <3>1 DEF SendDeletion
    <3>3. /\ head' \in [Branches -> {None} \cup Hash] /\ head'[b] = None
          /\ \A c \in Branches \ {b} : head'[c] = head[c]
      BY <1>0, <3>2 DEF BranchTypeOK
    <3>4. HeadsWritten' /\ Exists(Main)'
      BY <1>0, <2>1, <2>2, <3>1, <3>3, BranchAssumption DEF HeadsWritten, Exists
    <3>5. NothingLostUnread'
      BY <1>0, <2>1, <3>2, <3>3 DEF NothingLostUnread, Exists
    <3>6. readBefore' \subseteq Commits
      BY <1>0, <2>2, <3>1, <3>2 DEF BranchTypeOK
    <3> QED BY <2>1, <3>3, <3>4, <3>5, <3>6, Acts
  <2>4. CASE head[branchCall[h].name] # branchCall[h].hash
    <3>1. UNCHANGED <<head, readBefore>>
      BY <1>8, <2>4 DEF SendDeletion
    <3>2. HeadsWritten' /\ Exists(Main)' /\ NothingLostUnread'
      BY <1>0, <2>1, <3>1 DEF HeadsWritten, Exists, NothingLostUnread
    <3> QED BY <1>0, <2>1, <3>1, <3>2, Acts DEF BranchTypeOK
  <2> QED BY <2>3, <2>4
<1>9. ASSUME NEW h \in BranchCalls, NEW agreed \in BOOLEAN, SendMerge(h, agreed)
      PROVE  BranchInv'
  <2>1. EndsBranch(h) /\ UNCHANGED <<written, readBefore>>
    BY <1>9 DEF SendMerge
  <2>2. /\ branchCall[h].target \in Branches /\ branchCall[h].onto # None
        /\ branchCall[h].hash # None /\ branchCall[h].hash \subseteq written
    BY <1>9 DEF SendMerge, BranchInv, AskedOK
  <2>3. CASE head' = head
    <3>1. HeadsWritten' /\ Exists(Main)' /\ NothingLostUnread'
      BY <1>0, <2>1, <2>3 DEF HeadsWritten, Exists, NothingLostUnread
    <3> QED BY <1>0, <2>1, <2>3, <3>1, Acts DEF BranchTypeOK
  <2>4. CASE head' # head
    <3>1. PICK b \in Branches : b = branchCall[h].target /\ head[b] = branchCall[h].onto
      BY <1>9, <2>2, <2>4 DEF SendMerge
    <3>2. head' = [head EXCEPT ![b] = head[b] \cup branchCall[h].hash]
      BY <1>9, <2>4, <3>1 DEF SendMerge
    <3>3. head[b] \in Hash /\ head[b] \subseteq written
      BY <1>0, <2>2, <3>1 DEF BranchTypeOK, HeadsWritten, Exists
    <3>4. head[b] \cup branchCall[h].hash \in Hash
      BY <1>0, <2>2, <3>3 DEF BranchTypeOK, Hash
    <3>5. /\ head' \in [Branches -> {None} \cup Hash]
          /\ head'[b] = head[b] \cup branchCall[h].hash /\ head'[b] # None
          /\ \A c \in Branches \ {b} : head'[c] = head[c]
      BY <1>0, <3>2, <3>4, NoneIsNoHash DEF BranchTypeOK
    <3>6. HeadsWritten' /\ Exists(Main)'
      BY <1>0, <2>1, <2>2, <3>3, <3>5, BranchAssumption DEF HeadsWritten, Exists
    <3>7. NothingLostUnread'
      BY <1>0, <2>1, <3>5 DEF NothingLostUnread, Exists
    <3> QED BY <1>0, <2>1, <3>5, <3>6, <3>7, Acts DEF BranchTypeOK
  <2> QED BY <2>3, <2>4
<1>10. ASSUME NEW b \in Branches, NEW c \in Commits, CommitTo(b, c) PROVE BranchInv'
  <2>1. /\ head[b] \in Hash /\ head' = [head EXCEPT ![b] = head[b] \cup {c}]
        /\ written' = written \cup {c} /\ UNCHANGED <<readBefore, branchCall>>
    BY <1>0, <1>10 DEF CommitTo, Exists, BranchTypeOK
  <2>2. head[b] \cup {c} \in Hash
    BY <2>1 DEF Hash
  <2>3. /\ head' \in [Branches -> {None} \cup Hash]
        /\ head'[b] = head[b] \cup {c} /\ head'[b] # None
        /\ \A d \in Branches \ {b} : head'[d] = head[d]
    BY <1>0, <2>1, <2>2, NoneIsNoHash DEF BranchTypeOK
  <2>4. BranchTypeOK'
    BY <1>0, <2>1, <2>3 DEF BranchTypeOK
  <2>5. HeadsWritten' /\ Exists(Main)'
    BY <1>0, <1>10, <2>1, <2>3, BranchAssumption DEF HeadsWritten, Exists, CommitTo
  <2>6. NothingLostUnread'
    BY <1>0, <1>10, <2>1, <2>3 DEF NothingLostUnread, Exists, CommitTo
  <2>7. \A h \in BranchCalls : AskedOK(h)'
    BY <2>1 DEF BranchInv, AskedOK
  <2> QED BY <2>4, <2>5, <2>6, <2>7 DEF BranchInv
<1> QED
  BY <1>1, <1>2, <1>3, <1>4, <1>5, <1>6, <1>7, <1>8, <1>9, <1>10 DEF BranchNext

\* Requests and branches stay in order whatever overlaps.
THEOREM BranchInvariance == BranchSpec => []BranchInv
BY BranchInvInit, BranchInvStep, PTL DEF BranchSpec

\* No commit is lost that no deletion had read.
THEOREM NothingIsLostUnread == BranchSpec => []NothingLostUnread
<1>1. BranchInv => NothingLostUnread
  BY DEF BranchInv
<1> QED BY <1>1, BranchInvariance, PTL

\* Main only grows.
THEOREM MainIsKept == BranchSpec => MainKeeps
<1>1. BranchInv /\ BranchInv' /\ [BranchNext]_branchVars =>
        [head[Main] # None /\ head[Main]' # None /\ head[Main] \subseteq head[Main]']_branchVars
  <2> SUFFICES ASSUME BranchInv, BranchInv', BranchNext
               PROVE  head[Main] \subseteq head'[Main]
    BY DEF BranchInv, Exists
  <2>0. BranchTypeOK /\ Exists(Main) /\ Main \in Branches
    BY BranchAssumption DEF BranchInv
  <2>1. CASE head' = head
    BY <2>1
  <2>2. ASSUME NEW h \in BranchCalls, NEW start, PostBranch(h, start)
        PROVE  head[Main] \subseteq head'[Main]
    BY <2>0, <2>2 DEF PostBranch, Exists, BranchTypeOK
  <2>3. ASSUME NEW h \in BranchCalls, SendDeletion(h)
        PROVE  head[Main] \subseteq head'[Main]
    <3>1. branchCall[h].name # Main
      BY <2>3 DEF SendDeletion, BranchInv, AskedOK
    <3> QED BY <2>0, <2>3, <3>1 DEF SendDeletion, BranchTypeOK
  <2>4. ASSUME NEW h \in BranchCalls, NEW agreed \in BOOLEAN, SendMerge(h, agreed)
        PROVE  head[Main] \subseteq head'[Main]
    BY <2>0, <2>4 DEF SendMerge, BranchTypeOK
  <2>5. ASSUME NEW b \in Branches, NEW c \in Commits, CommitTo(b, c)
        PROVE  head[Main] \subseteq head'[Main]
    BY <2>0, <2>5 DEF CommitTo, BranchTypeOK
  <2> QED BY <2>1, <2>2, <2>3, <2>4, <2>5
          DEF BranchNext, CreateBranch, MergeBranch, DeleteBranch, ReadTarget, BranchCallDies
<1> QED BY <1>1, BranchInvariance, PTL DEF BranchSpec, MainKeeps
----------------------------------------------------------------------------

(* DataConnections.  Tests put connectors back at any time; what is proved  *)
(* is that rows, connectors and requests keep their types.                  *)

\* What a call is after each of the steps.
LEMMA ConnCallKinds ==
  ASSUME NEW pc \in {"commit", "use", "pop", "test"}, NEW op \in {"update", "delete", "test"},
         NEW c \in ConnIds, NEW config \in Configs \cup {None}
  PROVE  /\ [pc |-> pc, op |-> op, rid |-> c, config |-> config] \in ConnCall
         /\ NoConnCall \in ConnCall
BY DEF ConnCall, NoConnCall

LEMMA NoConnCallOK == NoConnCall \in ConnCall
BY DEF ConnCall, NoConnCall

\* What a request holds when it commits or uses what it read.
ConnTyped ==
  /\ ConnTypeOK
  /\ \A h \in ConnCalls :
       LET q == connCall[h]
       IN /\ q.pc # "idle" => q.rid \in ConnIds
          /\ q.pc = "commit" /\ q.op # "delete" => q.config \in Configs
          /\ q.pc = "use" => q.config \in Configs

LEMMA ConnTypedCall ==
  ASSUME ConnTyped, NEW h \in ConnCalls, NEW q \in ConnCall,
         connCall' = [connCall EXCEPT ![h] = q],
         conn' \in [ConnIds -> ConnRow \cup {None}],
         connector' \in [ConnIds -> Configs \cup {None}],
         q.pc # "idle" => q.rid \in ConnIds,
         q.pc = "commit" /\ q.op # "delete" => q.config \in Configs,
         q.pc = "use" => q.config \in Configs
  PROVE  ConnTyped'
<1>1. /\ connCall' \in [ConnCalls -> ConnCall] /\ connCall'[h] = q
      /\ \A g \in ConnCalls \ {h} : connCall'[g] = connCall[g]
  BY DEF ConnTyped, ConnTypeOK
<1> QED BY <1>1 DEF ConnTyped, ConnTypeOK

LEMMA ConnTypedStep == ConnTyped /\ [ConnNext]_connVars => ConnTyped'
<1> SUFFICES ASSUME ConnTyped, [ConnNext]_connVars PROVE ConnTyped'
  OBVIOUS
<1>0. ConnTypeOK /\ NoConnCall \in ConnCall /\ NoConnCall.pc = "idle"
  BY NoConnCallOK DEF ConnTyped, NoConnCall
<1>1. CASE UNCHANGED connVars
  BY <1>1 DEF connVars, ConnTyped, ConnTypeOK
<1>2. ASSUME NEW c \in ConnIds, NEW config \in Configs, CreateConnection(c, config)
      PROVE  ConnTyped'
  <2>1. [config |-> config, status |-> "disconnected"] \in ConnRow
    BY DEF ConnRow
  <2> QED BY <1>2, <2>1 DEF CreateConnection, ConnTyped, ConnTypeOK
<1>3. ASSUME NEW c \in ConnIds, NEW config \in Configs, NEW h \in ConnCalls,
             UpdateConnection(h, c, config)
      PROVE  ConnTyped'
  <2>1. PICK q \in ConnCall : q = [pc |-> "commit", op |-> "update", rid |-> c, config |-> config]
    BY ConnCallKinds
  <2> QED BY <1>0, <1>3, <2>1, ConnTypedCall DEF UpdateConnection, BeginConn, ConnTypeOK
<1>4. ASSUME NEW c \in ConnIds, NEW h \in ConnCalls, DeleteConnection(h, c) PROVE ConnTyped'
  <2>1. PICK q \in ConnCall : q = [pc |-> "commit", op |-> "delete", rid |-> c, config |-> None]
    BY ConnCallKinds
  <2> QED BY <1>0, <1>4, <2>1, ConnTypedCall DEF DeleteConnection, BeginConn, ConnTypeOK
<1>5. ASSUME NEW c \in ConnIds, NEW h \in ConnCalls, TestRead(h, c) PROVE ConnTyped'
  <2>1. conn[c].config \in Configs
    BY <1>0, <1>5 DEF TestRead, ConnTypeOK, ConnRow
  <2>2. PICK q \in ConnCall : q = [pc |-> "use", op |-> "test", rid |-> c, config |-> conn[c].config]
    BY <2>1, ConnCallKinds
  <2> QED BY <1>0, <1>5, <2>1, <2>2, ConnTypedCall DEF TestRead, BeginConn, ConnTypeOK
<1>6. ASSUME NEW h \in ConnCalls, CommitConnection(h) PROVE ConnTyped'
  <2>1. PICK c \in ConnIds : c = connCall[h].rid
    BY <1>6 DEF ConnTyped, CommitConnection, ConnAt
  <2>2. CASE conn[c] = None
    BY <1>0, <1>6, <2>1, <2>2, ConnTypedCall DEF CommitConnection, EndsConn, ConnTypeOK
  <2>3. CASE conn[c] # None
    <3>1. PICK q \in ConnCall : q = [connCall[h] EXCEPT !.pc = "pop"]
      BY <1>0 DEF ConnTypeOK, ConnCall
    <3>2. q.pc = "pop" /\ q.rid = c
      BY <1>0, <2>1, <3>1 DEF ConnTypeOK, ConnCall
    <3>3. connCall[h].op # "delete" => [conn[c] EXCEPT !.config = connCall[h].config] \in ConnRow
      BY <1>0, <1>6, <2>3 DEF ConnTyped, ConnTypeOK, ConnRow, CommitConnection, ConnAt
    <3>4. conn' \in [ConnIds -> ConnRow \cup {None}]
      BY <1>0, <1>6, <2>1, <2>3, <3>3 DEF CommitConnection, ConnTypeOK
    <3>5. connCall' = [connCall EXCEPT ![h] = q] /\ connector' = connector
      BY <1>6, <2>1, <2>3, <3>1 DEF CommitConnection
    <3> QED BY <1>0, <3>2, <3>4, <3>5, ConnTypedCall DEF ConnTypeOK
  <2> QED BY <2>2, <2>3
<1>7. ASSUME NEW h \in ConnCalls, PopConnector(h) PROVE ConnTyped'
  BY <1>0, <1>7, ConnTypedCall DEF PopConnector, EndsConn, ConnTypeOK
<1>8. ASSUME NEW h \in ConnCalls, TestUse(h) PROVE ConnTyped'
  <2>1. PICK c \in ConnIds : c = connCall[h].rid
    BY <1>8 DEF ConnTyped, TestUse, ConnAt
  <2>2. PICK used \in Configs : used = ConnectorFor(c, connCall[h].config)
    BY <1>0, <1>8 DEF ConnTyped, TestUse, ConnAt, ConnectorFor, ConnTypeOK
  <2>3. PICK q \in ConnCall : q = [connCall[h] EXCEPT !.pc = "test", !.config = used]
    BY <1>0 DEF ConnTypeOK, ConnCall
  <2>4. q.pc = "test" /\ q.rid = c
    BY <1>0, <2>1, <2>3 DEF ConnTypeOK, ConnCall
  <2> QED BY <1>0, <1>8, <2>1, <2>2, <2>3, <2>4, ConnTypedCall DEF TestUse, ConnTypeOK
<1>9. ASSUME NEW h \in ConnCalls, NEW result \in {"connected", "error"}, TestDone(h, result)
      PROVE  ConnTyped'
  <2>1. PICK c \in ConnIds : c = connCall[h].rid
    BY <1>9 DEF ConnTyped, TestDone, ConnAt
  <2>2. conn[c] # None => [conn[c] EXCEPT !.status = result] \in ConnRow
    BY <1>0 DEF ConnTypeOK, ConnRow
  <2>3. conn' \in [ConnIds -> ConnRow \cup {None}]
    BY <1>0, <1>9, <2>1, <2>2 DEF TestDone, ConnTypeOK
  <2> QED BY <1>0, <1>9, <2>3, ConnTypedCall DEF TestDone, EndsConn, ConnTypeOK
<1>10. ASSUME NEW h \in ConnCalls, ConnCallDies(h) PROVE ConnTyped'
  BY <1>0, <1>10, ConnTypedCall DEF ConnCallDies, EndsConn, ConnTypeOK
<1>11. CASE ServerRestarts
  BY <1>0, <1>11 DEF ServerRestarts, ConnTyped, ConnTypeOK
<1> QED
  BY <1>1, <1>2, <1>3, <1>4, <1>5, <1>6, <1>7, <1>8, <1>9, <1>10, <1>11 DEF ConnNext

\* Connections, cached connectors and requests keep their types.
THEOREM ConnTyping == ConnSpec => []ConnTypeOK
<1>1. ConnInit => ConnTyped
  BY NoConnCallOK DEF ConnInit, ConnTyped, ConnTypeOK, NoConnCall
<1>2. ConnTyped => ConnTypeOK
  BY DEF ConnTyped
<1> QED BY <1>1, <1>2, ConnTypedStep, PTL DEF ConnSpec

----------------------------------------------------------------------------

(* SchemaCache.  What a load has read was current when the load began or    *)
(* later; an entry expires at most the cache's time after that.             *)

OutBy(v, at) == replaced[v] # None => at <= replaced[v]

LoadOK(h) ==
  LET q == load[h]
  IN q.pc # "idle" =>
       /\ q.started <= now
       /\ q.pc \in {"mapping", "store"} => q.props \in Versions /\ OutBy(q.props, q.started)
       /\ q.pc = "store" => q.mapping \in Versions /\ OutBy(q.mapping, q.started)

Expires == entry # None => \A v \in {entry.props, entry.mapping} :
                             replaced[v] # None => entry.expires <= replaced[v] + CacheTtl

\* The definitions from the current one on have not been replaced.
Ahead == \A v \in Versions : v >= version => replaced[v] = None

SoonOver == entry # None => entry.expires <= now + CacheTtl

CacheInv == /\ CacheTypeOK /\ Ahead /\ SoonOver /\ Expires
            /\ \A h \in Loads : LoadOK(h)

LEMMA NoLoadOK == NoLoad \in Load
BY DEF NoLoad, Load

LEMMA CacheInvInit == CacheInit => CacheInv
<1> SUFFICES ASSUME CacheInit PROVE CacheInv
  OBVIOUS
<1>1. 1 \in Versions
  BY CacheAssumption DEF Versions
<1>2. CacheTypeOK
  BY <1>1, NoLoadOK DEF CacheInit, CacheTypeOK
<1> QED BY <1>1, <1>2
        DEF CacheInit, CacheInv, Ahead, SoonOver, Expires, LoadOK, NoLoad

\* A query begins, reads or ends: nothing else changes.
LEMMA OnlyLoads ==
  ASSUME CacheInv, NEW h \in Loads, NEW q \in Load,
         load' = [load EXCEPT ![h] = q],
         UNCHANGED <<now, version, replaced, entry>>,
         q.pc # "idle" =>
           /\ q.started <= now
           /\ q.pc \in {"mapping", "store"} => q.props \in Versions /\ OutBy(q.props, q.started)
           /\ q.pc = "store" => q.mapping \in Versions /\ OutBy(q.mapping, q.started)
  PROVE  CacheInv'
<1>1. /\ load' \in [Loads -> Load] /\ load'[h] = q
      /\ \A g \in Loads \ {h} : load'[g] = load[g]
  BY DEF CacheInv, CacheTypeOK
<1>2. \A g \in Loads : LoadOK(g)'
  BY <1>1 DEF CacheInv, LoadOK, OutBy
<1> QED BY <1>1, <1>2 DEF CacheInv, CacheTypeOK, Ahead, SoonOver, Expires

LEMMA CacheInvStep == CacheInv /\ [CacheNext]_cacheVars => CacheInv'
<1> SUFFICES ASSUME CacheInv, [CacheNext]_cacheVars PROVE CacheInv'
  OBVIOUS
<1>0. /\ CacheTypeOK /\ Ahead /\ SoonOver /\ Expires
      /\ CacheTtl \in Nat /\ MaxVersion \in Nat /\ Versions \subseteq Nat
      /\ now \in Nat /\ version \in Versions /\ None \notin Nat
  BY CacheAssumption DEF CacheInv, CacheTypeOK, Versions
<1>1. CASE UNCHANGED cacheVars
  BY <1>1 DEF cacheVars, CacheInv, CacheTypeOK, Ahead, SoonOver, Expires, LoadOK, OutBy
<1>2. ASSUME NEW h \in Loads, GetSchema(h) PROVE CacheInv'
  <2>1. [load[h] EXCEPT !.pc = "props", !.started = now] \in Load
    BY <1>0 DEF CacheTypeOK, Load
  <2>2. PICK q \in Load : q = [load[h] EXCEPT !.pc = "props", !.started = now]
    BY <2>1
  <2>3. q.pc = "props" /\ q.started = now
    BY <1>0, <2>2 DEF CacheTypeOK, Load
  <2>4. load' = [load EXCEPT ![h] = q]
    BY <1>2, <2>2 DEF GetSchema
  <2>5. q.started <= now /\ q.pc \notin {"mapping", "store"}
    BY <1>0, <2>3
  <2>6. UNCHANGED <<now, version, replaced, entry>>
    BY <1>2 DEF GetSchema
  <2> QED BY <2>4, <2>5, <2>6, OnlyLoads
<1>3. ASSUME NEW h \in Loads, LoadPropertyTypes(h) PROVE CacheInv'
  <2>0. /\ load[h] \in Load /\ load[h].started <= now /\ OutBy(version, load[h].started)
    BY <1>0, <1>3 DEF LoadPropertyTypes, CacheInv, CacheTypeOK, LoadOK, OutBy, Ahead
  <2>1. [load[h] EXCEPT !.pc = "mapping", !.props = version] \in Load
    BY <1>0, <2>0 DEF Load
  <2>2. PICK q \in Load : q = [load[h] EXCEPT !.pc = "mapping", !.props = version]
    BY <2>1
  <2>3. q.pc = "mapping" /\ q.started = load[h].started /\ q.props = version
    BY <2>0, <2>2 DEF Load
  <2>4. load' = [load EXCEPT ![h] = q]
    BY <1>3, <2>2 DEF LoadPropertyTypes
  <2> QED BY <1>0, <1>3, <2>0, <2>3, <2>4, OnlyLoads DEF LoadPropertyTypes
<1>4. ASSUME NEW h \in Loads, LoadAssetMapping(h) PROVE CacheInv'
  <2>0. /\ load[h] \in Load /\ load[h].started <= now /\ OutBy(version, load[h].started)
        /\ load[h].props \in Versions /\ OutBy(load[h].props, load[h].started)
    BY <1>0, <1>4 DEF LoadAssetMapping, CacheInv, CacheTypeOK, LoadOK, OutBy, Ahead
  <2>1. [load[h] EXCEPT !.pc = "store", !.mapping = version] \in Load
    BY <1>0, <2>0 DEF Load
  <2>2. PICK q \in Load : q = [load[h] EXCEPT !.pc = "store", !.mapping = version]
    BY <2>1
  <2>3. /\ q.pc = "store" /\ q.started = load[h].started /\ q.mapping = version
        /\ q.props = load[h].props
    BY <2>0, <2>2 DEF Load
  <2>4. load' = [load EXCEPT ![h] = q]
    BY <1>4, <2>2 DEF LoadAssetMapping
  <2> QED BY <1>0, <1>4, <2>0, <2>3, <2>4, OnlyLoads DEF LoadAssetMapping
<1>5. ASSUME NEW h \in Loads, Store(h) PROVE CacheInv'
  <2>0. /\ load[h] \in Load /\ load[h].started <= now /\ load[h].started \in Nat
        /\ load[h].props \in Versions /\ OutBy(load[h].props, load[h].started)
        /\ load[h].mapping \in Versions /\ OutBy(load[h].mapping, load[h].started)
    BY <1>0, <1>5 DEF Store, CacheInv, CacheTypeOK, LoadOK, Load
  <2>1. /\ [props |-> load[h].props, mapping |-> load[h].mapping,
            expires |-> load[h].started + CacheTtl] \in CacheEntry
    BY <1>0, <2>0 DEF CacheEntry
  <2>2. PICK e \in CacheEntry :
          e = [props |-> load[h].props, mapping |-> load[h].mapping,
               expires |-> load[h].started + CacheTtl]
    BY <2>1
  <2>3. /\ e.props = load[h].props /\ e.mapping = load[h].mapping
        /\ e.expires = load[h].started + CacheTtl
    BY <2>2
  <2>4. /\ entry' = e /\ load' = [load EXCEPT ![h] = NoLoad]
        /\ UNCHANGED <<now, version, replaced>>
    BY <1>5, <2>2 DEF Store
  <2>5. /\ load' \in [Loads -> Load] /\ load'[h].pc = "idle"
        /\ \A g \in Loads \ {h} : load'[g] = load[g]
    BY <1>0, <2>4, NoLoadOK DEF CacheTypeOK, NoLoad
  <2>6. \A g \in Loads : LoadOK(g)'
    BY <2>4, <2>5 DEF CacheInv, LoadOK, OutBy
  <2>7. CacheTypeOK' /\ Ahead' /\ SoonOver'
    BY <1>0, <2>0, <2>3, <2>4, <2>5 DEF CacheTypeOK, Ahead, SoonOver
  <2>8. Expires'
    <3> SUFFICES ASSUME NEW v \in {load[h].props, load[h].mapping}, replaced[v] # None
                 PROVE  e.expires <= replaced[v] + CacheTtl
      BY <2>3, <2>4 DEF Expires
    <3>1. replaced[v] \in Nat /\ load[h].started <= replaced[v]
      BY <1>0, <2>0 DEF OutBy, CacheTypeOK
    <3> QED BY <1>0, <2>0, <2>3, <3>1
  <2> QED BY <2>6, <2>7, <2>8 DEF CacheInv
<1>6. ASSUME NEW h \in Loads, LoadFails(h) PROVE CacheInv'
  BY <1>6, OnlyLoads, NoLoadOK DEF LoadFails, NoLoad
<1>7. ASSUME Invalidate PROVE CacheInv'
  BY <1>0, <1>7 DEF Invalidate, CacheInv, CacheTypeOK, Ahead, SoonOver, Expires, LoadOK, OutBy
<1>8. ASSUME Publish PROVE CacheInv'
  <2>1. /\ version' = version + 1 /\ version' \in Versions
        /\ replaced' = [replaced EXCEPT ![version] = now] /\ UNCHANGED <<now, entry, load>>
    BY <1>0, <1>8 DEF Publish, Versions
  <2>2. /\ replaced' \in [Versions -> Nat \cup {None}] /\ replaced'[version] = now
        /\ \A v \in Versions \ {version} : replaced'[v] = replaced[v]
    BY <1>0, <2>1 DEF CacheTypeOK
  <2>3. CacheTypeOK'
    BY <1>0, <2>1, <2>2 DEF CacheTypeOK
  <2>4. Ahead'
    BY <1>0, <2>1, <2>2 DEF Ahead
  <2>5. \A v \in Versions, at \in Nat : at <= now /\ OutBy(v, at) => OutBy(v, at)'
    BY <2>2 DEF OutBy
  <2>6. \A h \in Loads : LoadOK(h)'
    BY <1>0, <2>1, <2>5 DEF CacheInv, LoadOK, CacheTypeOK, Load
  <2>7. Expires'
    <3> SUFFICES ASSUME entry # None, NEW v \in {entry.props, entry.mapping},
                        replaced'[v] # None
                 PROVE  entry.expires <= replaced'[v] + CacheTtl
      BY <2>1 DEF Expires
    <3>1. v \in Versions
      BY <1>0 DEF CacheTypeOK, CacheEntry
    <3>2. CASE v = version
      BY <1>0, <2>2, <3>2 DEF SoonOver
    <3>3. CASE v # version
      BY <1>0, <2>2, <3>1, <3>3 DEF Expires
    <3> QED BY <3>2, <3>3
  <2>8. SoonOver'
    BY <1>0, <2>1 DEF SoonOver
  <2> QED BY <2>3, <2>4, <2>6, <2>7, <2>8 DEF CacheInv
<1>9. ASSUME TimePasses PROVE CacheInv'
  <2>1. now' = now + 1 /\ UNCHANGED <<version, replaced, entry, load>>
    BY <1>9 DEF TimePasses
  <2>2. CacheTypeOK' /\ Ahead' /\ Expires'
    BY <1>0, <2>1 DEF CacheTypeOK, Ahead, Expires
  <2>3. SoonOver'
    BY <1>0, <2>1 DEF SoonOver, CacheTypeOK, CacheEntry
  <2>4. \A h \in Loads : LoadOK(h)'
    BY <1>0, <2>1 DEF CacheInv, LoadOK, OutBy, CacheTypeOK, Load
  <2> QED BY <2>2, <2>3, <2>4 DEF CacheInv
<1> QED
  BY <1>1, <1>2, <1>3, <1>4, <1>5, <1>6, <1>7, <1>8, <1>9 DEF CacheNext

\* Loads and the cached entry stay in order whatever overlaps.
THEOREM CacheInvariance == CacheSpec => []CacheInv
BY CacheInvInit, CacheInvStep, PTL DEF CacheSpec

\* A hit is never out of date for the cache's time or longer.
THEOREM StalenessIsBounded == CacheSpec => []StalenessBounded
<1>1. CacheInv => StalenessBounded
  <2> SUFFICES ASSUME CacheInv, Hit, NEW v \in {entry.props, entry.mapping},
                      replaced[v] # None
               PROVE  now < replaced[v] + CacheTtl
    BY DEF StalenessBounded
  <2>1. entry # None /\ entry \in CacheEntry /\ entry.expires > now /\ v \in Versions
    BY DEF CacheInv, CacheTypeOK, Hit, CacheEntry
  <2>2. replaced[v] \in Nat /\ entry.expires \in Nat /\ now \in Nat /\ CacheTtl \in Nat
    BY <2>1, CacheAssumption DEF CacheInv, CacheTypeOK, CacheEntry
  <2>3. entry.expires <= replaced[v] + CacheTtl
    BY <2>1 DEF CacheInv, Expires
  <2> QED BY <2>1, <2>2, <2>3
<1> QED BY <1>1, CacheInvariance, PTL
----------------------------------------------------------------------------

(* InstanceQuery.                                                           *)

\* Only virtual fields are computed, and a computation reads a key of the row.
QueryInv == QueryTypeOK /\ todo \subseteq Virtual /\ MaskedHidden

LEMMA QueryInvStep == QueryInv /\ [QueryNext]_queryVars => QueryInv'
<1> SUFFICES ASSUME QueryInv, [QueryNext]_queryVars PROVE QueryInv'
  OBVIOUS
<1>0. QueryTypeOK /\ MaskedHidden /\ todo \subseteq Virtual
  BY DEF QueryInv
<1>1. CASE UNCHANGED queryVars
  BY <1>0, <1>1 DEF QueryInv, queryVars, QueryTypeOK, MaskedHidden, Masked, Virtual, Mapped
<1>2. ASSUME NEW asked \in SUBSET Props, Translate(asked) PROVE QueryInv'
  BY <1>0, <1>2 DEF QueryInv, Translate, QueryTypeOK, MaskedHidden, Virtual, Mapped
<1>3. ASSUME ExecuteQuery PROVE QueryInv'
  <2>1. cells' \in [Keys -> {"none", "raw", "hidden"}]
    BY <1>3 DEF ExecuteQuery
  <2> QED BY <1>0, <1>3, <2>1 DEF QueryInv, ExecuteQuery, QueryTypeOK, MaskedHidden,
        Virtual, Mapped
<1>4. ASSUME NEW name \in [Columns -> Props \cup {None}], MapBack(name) PROVE QueryInv'
  <2>1. cells' \in [Keys -> {"none", "raw", "hidden"}]
    BY <1>0, <1>4 DEF MapBack, QueryTypeOK
  <2>2. todo' \subseteq Props /\ (todo \subseteq Virtual)'
    BY <1>4 DEF MapBack, Virtual, Mapped
  <2> QED BY <1>0, <1>4, <2>1, <2>2 DEF QueryInv, MapBack, QueryTypeOK, MaskedHidden
<1>5. ASSUME NEW p \in Props, Compute(p) PROVE QueryInv'
  <2>1. PICK value \in {cells[property[p].from], "none"} : cells' = [cells EXCEPT ![p] = value]
    BY <1>5 DEF Compute
  <2>2. cells' \in [Keys -> {"none", "raw", "hidden"}]
    <3>1. CASE value = "none"
      BY <1>0, <2>1, <3>1 DEF QueryTypeOK
    <3>2. CASE value = cells[property[p].from]
      <4>1. p \in Virtual
        BY <1>5 DEF Compute, QueryInv
      <4> QED BY <1>0, <2>1, <3>2, <4>1 DEF QueryTypeOK, Virtual, Property, Keys
    <3> QED BY <2>1, <3>1, <3>2
  <2> QED BY <1>0, <1>5, <2>2 DEF QueryInv, Compute, QueryTypeOK, MaskedHidden,
        Virtual, Mapped
<1>6. ASSUME Mask PROVE QueryInv'
  <2>1. /\ cells' = [k \in Keys |-> IF k \in Masked /\ cells[k] = "raw" THEN "hidden"
                                    ELSE cells[k]]
        /\ stage' = "done" /\ UNCHANGED <<property, todo>>
    BY <1>6 DEF Mask
  <2>2. cells' \in [Keys -> {"none", "raw", "hidden"}]
    BY <1>0, <2>1 DEF QueryTypeOK
  <2>3. \A p \in Masked : p \in Keys /\ cells'[p] # "raw"
    BY <2>1 DEF Masked, Keys
  <2> QED BY <1>0, <2>1, <2>2, <2>3 DEF QueryInv, QueryTypeOK, MaskedHidden, Masked,
        Virtual, Mapped
<1> QED BY <1>1, <1>2, <1>3, <1>4, <1>5, <1>6 DEF QueryNext

\* Properties, cells and the names still to be read stay in order.
THEOREM QueryInvariance == QuerySpec => []QueryInv
<1>1. QueryInit => QueryInv
  BY DEF QueryInit, QueryInv, QueryTypeOK, MaskedHidden
<1> QED BY <1>1, QueryInvStep, PTL DEF QuerySpec

\* What is answered under the name of a masked property does not tell what
\* the table holds, for every schema and every computation.
THEOREM MasksHide == QuerySpec => []MaskedHidden
<1>1. QueryInv => MaskedHidden
  BY DEF QueryInv
<1> QED BY <1>1, QueryInvariance, PTL

----------------------------------------------------------------------------
(* EditLog.  What merge_row returns depends on the whole sequence it read: *)
(* the last entry that writes a field decides what the field shows.        *)

LEMMA SmallestOf ==
  ASSUME NEW S, S \subseteq Nat, S # {}
  PROVE  \E m \in S : \A k \in S : m <= k
<1> DEFINE Below == {p \in Nat \X Nat : p[1] < p[2]}
<1>1. IsWellFoundedOn(Below, Nat)
  BY NatLessThanWellFounded, Zenon DEF OpToRel
<1>2. \E m \in S : \A k \in S : <<k, m>> \notin Below
  <2> HIDE DEF Below
  <2> QED
    BY <1>1, WFMin
<1>3. \A m, k \in Nat : <<k, m>> \notin Below => m <= k
  OBVIOUS
<1> HIDE DEF Below
<1> QED
  BY <1>2, <1>3

LEMMA MaxOf ==
  ASSUME NEW n \in Nat, NEW T, T \subseteq 1..n, T # {}
  PROVE  Max(T) \in T /\ \A k \in T : k <= Max(T)
<1> DEFINE S == {m \in Nat : n - m \in T}
<1>1. PICK k \in T : k \in 1..n
  OBVIOUS
<1>2. n - k \in S
  BY <1>1
<1>3. PICK m \in S : \A j \in S : m <= j
  <2> HIDE DEF S
  <2> QED
    BY <1>2, SmallestOf DEF S
<1>4. \A j \in T : n - j \in S
  OBVIOUS
<1>5. n - m \in T /\ \A j \in T : n - m >= j
  BY <1>3, <1>4
<1>6. Max(T) \in T /\ \A j \in T : Max(T) >= j
  <2> HIDE DEF S
  <2> QED
    BY <1>5 DEF Max
<1> QED
  BY <1>6

\* The equation that the fold over the first n entries solves.
Folds(s, base, n, f) ==
  f = [T \in SUBSET (1..n) |->
         IF T = {} THEN base ELSE Replay(f[T \ {Max(T)}], s[Max(T)])]

LEMMA FoldExists ==
  ASSUME NEW s, NEW base, NEW n \in Nat
  PROVE  \E f : Folds(s, base, n, f)
<1> DEFINE Without == {m \in Nat : ~\E f : Folds(s, base, m, f)}
<1> SUFFICES ASSUME Without # {} PROVE FALSE
  OBVIOUS
<1>1. PICK m \in Without : \A k \in Without : m <= k
  <2> HIDE DEF Without
  <2> QED
    BY SmallestOf DEF Without
<1>2. m \in Nat /\ ~\E f : Folds(s, base, m, f)
  BY <1>1
<1>3. CASE m = 0
  <2> DEFINE f == [T \in SUBSET (1..m) |-> base]
  <2>1. \A T \in SUBSET (1..m) : T = {}
    BY <1>3
  <2>2. f = [T \in SUBSET (1..m) |->
               IF T = {} THEN base ELSE Replay(f[T \ {Max(T)}], s[Max(T)])]
    BY <2>1
  <2> QED
    BY <1>2, <2>2 DEF Folds
<1>4. CASE m > 0
  <2>1. m - 1 \in Nat /\ m - 1 \notin Without
    BY <1>1, <1>2, <1>4
  <2>2. PICK g : Folds(s, base, m - 1, g)
    BY <2>1
  <2> DEFINE f == [T \in SUBSET (1..m) |->
                     IF T = {} THEN base ELSE Replay(g[T \ {Max(T)}], s[Max(T)])]
  <2>3. \A T \in SUBSET (1..(m - 1)) : f[T] = g[T]
    <3>1. \A T \in SUBSET (1..(m - 1)) : T \in SUBSET (1..m)
      BY <1>2
    <3>2. \A T \in SUBSET (1..(m - 1)) :
             g[T] = IF T = {} THEN base ELSE Replay(g[T \ {Max(T)}], s[Max(T)])
      BY <2>2 DEF Folds
    <3> QED
      BY <3>1, <3>2
  <2>4. \A T \in SUBSET (1..m) : T # {} => f[T \ {Max(T)}] = g[T \ {Max(T)}]
    <3> SUFFICES ASSUME NEW T \in SUBSET (1..m), T # {}
                 PROVE  T \ {Max(T)} \in SUBSET (1..(m - 1))
      BY <2>3
    <3>1. Max(T) \in T /\ \A k \in T : k <= Max(T)
      BY <1>2, MaxOf
    <3>2. \A j, k \in 1..m : k <= j /\ k # j => k \in 1..(m - 1)
      BY <1>2
    <3> QED
      BY <3>1, <3>2
  <2>5. Folds(s, base, m, f)
    BY <2>4 DEF Folds
  <2> QED
    BY <1>2, <2>5
<1> QED
  BY <1>2, <1>3, <1>4

\* merge_row takes the entries it read one after the other.
LEMMA MergeSteps ==
  ASSUME NEW s, Len(s) \in Nat, DOMAIN s = 1..Len(s)
  PROVE  \E row : /\ row[0] = baseRow /\ row[Len(s)] = MergeRow(s)
                  /\ \A k \in 1..Len(s) : row[k] = Replay(row[k - 1], s[k])
<1> DEFINE n == Len(s)
           f == CHOOSE g : Folds(s, baseRow, n, g)
           row == [k \in 0..n |-> f[1..k]]
<1>1. Folds(s, baseRow, n, f)
  BY FoldExists
<1>2. MergeRow(s) = f[1..n]
  BY DEF MergeRow, FoldLeft, MapThenFoldSet, Folds
<1>3. f[{}] = baseRow
  BY <1>1 DEF Folds
<1>4. ASSUME NEW k \in 1..n PROVE f[1..k] = Replay(f[1..(k - 1)], s[k])
  <2>1. k \in Nat /\ k \in 1..k /\ \A i \in 1..k : i \in 1..n /\ i <= k
    OBVIOUS
  <2>2. Max(1..k) = k
    <3>1. Max(1..k) \in 1..k /\ \A i \in 1..k : i <= Max(1..k)
      BY <2>1, MaxOf
    <3>2. Max(1..k) <= k /\ k <= Max(1..k) /\ Max(1..k) \in Nat
      BY <2>1, <3>1
    <3> QED
      BY <2>1, <3>2
  <2>3. (1..k) \ {k} = 1..(k - 1)
    OBVIOUS
  <2>4. \A T \in SUBSET (1..n) :
          T # {} => f[T] = Replay(f[T \ {Max(T)}], s[Max(T)])
    <3> HIDE DEF f
    <3> QED
      BY <1>1 DEF Folds
  <2> HIDE DEF f
  <2> QED
    BY <2>1, <2>2, <2>3, <2>4
<1> HIDE DEF f
<1>5. row[0] = baseRow /\ row[n] = MergeRow(s)
  <2>1. 1..0 = {}
    OBVIOUS
  <2> QED
    BY <1>2, <1>3, <2>1
<1>6. \A k \in 1..n : row[k] = Replay(row[k - 1], s[k])
  BY <1>4
<1> QED
  BY <1>5, <1>6

\* What was committed, and when; a transaction in flight has an identifier of
\* its own, so an entry is known by its identifier.
Logged == {d.entry : d \in edits}

SeenOnceMade ==
  /\ \A d \in edits : d.entry.createdAt <= d.seenAt
  /\ \A w \in Writers : writing[w] # None => writing[w].createdAt <= time

OneEntryPerId ==
  /\ \A d, e \in edits : d.entry.id = e.entry.id => d = e
  /\ \A w \in Writers, d \in edits : writing[w] # None => writing[w].id # d.entry.id
  /\ \A v, w \in Writers : v # w /\ writing[v] # None /\ writing[w] # None
                             => writing[v].id # writing[w].id

EditLogInv == /\ EditTypeOK /\ IsFiniteSet(Logged) /\ SeenOnceMade /\ OneEntryPerId
              /\ baseRow \in {None, [f \in Fields |-> Base]}

\* A read returns every committed entry once, the older before the younger.
LEMMA ReadsAll ==
  ASSUME EditLogInv, NEW s \in ReadByKey
  PROVE  /\ Len(s) \in Nat /\ DOMAIN s = 1..Len(s)
         /\ \A i \in 1..Len(s) : s[i] \in Logged /\ s[i] \in EditEntry
         /\ \A x \in Logged : \E i \in 1..Len(s) : s[i] = x
         /\ \A i, j \in 1..Len(s) : i < j => s[i].createdAt <= s[j].createdAt
<1> DEFINE n == Cardinality(Logged)
<1>1. n \in Nat
  BY FS_CardinalityType DEF EditLogInv
<1>2. s \in [1..n -> Logged] /\ \A i, j \in 1..n : i # j => s[i] # s[j]
  BY DEF ReadByKey, SetToSeqs, Logged
<1>3. Len(s) = n /\ DOMAIN s = 1..n
  <2> HIDE DEF n
  <2> QED
    BY <1>1, <1>2
<1>4. s \in Injection(1..n, Logged)
  <2> HIDE DEF n
  <2> QED
    BY <1>2 DEF Injection, IsInjective
<1>5. Cardinality(1..n) = n
  <2> HIDE DEF n
  <2>1. 1 \in Int /\ n \in Int
    BY <1>1
  <2> QED
    BY <1>1, <2>1, FS_Interval
<1>6. s \in Surjection(1..n, Logged)
  BY <1>4, <1>5, FS_Injection DEF EditLogInv
<1>7. \A x \in Logged : \E i \in 1..n : s[i] = x
  BY <1>6 DEF Surjection
<1>8. Logged \subseteq EditEntry
  BY DEF EditLogInv, EditTypeOK, Logged
<1>9. \A i, j \in 1..Len(s) : i < j => s[i].createdAt <= s[j].createdAt
  BY DEF ReadByKey
<1> HIDE DEF n
<1> QED
  BY <1>1, <1>2, <1>3, <1>7, <1>8, <1>9

Overwrites(e, f) == e.op \in {"create", "delete"} \/ f \in e.fields

\* What the first k entries decide: nothing left the row as it was, or the
\* last of them that writes a field gave it its value.
Decided(s, row, k) ==
  /\ row[k] \in Rows \cup {None}
  /\ row[k] = None => (k = 0 /\ baseRow = None) \/ (k > 0 /\ s[k].op = "delete")
  /\ row[k] # None =>
       \A f \in Fields :
         \/ row[k][f] = Base /\ \A i \in 1..k : ~Overwrites(s[i], f)
         \/ row[k][f] = Absent
         \/ \E j \in 1..k : /\ row[k][f] = s[j].id
                            /\ \A i \in (j + 1)..k : ~Overwrites(s[i], f)

LEMMA LastWriteDecides ==
  ASSUME EditLogInv, NEW s, Len(s) \in Nat, \A i \in 1..Len(s) : s[i] \in EditEntry,
         NEW row, row[0] = baseRow,
         \A k \in 1..Len(s) : row[k] = Replay(row[k - 1], s[k])
  PROVE  Decided(s, row, Len(s))
<1> DEFINE Undecided == {k \in 0..Len(s) : ~Decided(s, row, k)}
<1> SUFFICES ASSUME Undecided # {} PROVE FALSE
  OBVIOUS
<1>1. PICK k \in Undecided : \A i \in Undecided : k <= i
  <2>1. Undecided \subseteq Nat
    OBVIOUS
  <2> HIDE DEF Undecided
  <2> QED
    BY <2>1, SmallestOf
<1>2. k \in 0..Len(s) /\ ~Decided(s, row, k)
  BY <1>1
<1>3. CASE k = 0
  <2>1. row[k] \in Rows \cup {None}
    BY <1>3 DEF EditLogInv, Rows
  <2>2. row[k] # None => \A f \in Fields : row[k][f] = Base
    BY <1>3 DEF EditLogInv
  <2> QED
    BY <1>2, <1>3, <2>1, <2>2 DEF Decided
<1>4. CASE k > 0
  <2> DEFINE old == row[k - 1]
             e == s[k]
  <2>1. Decided(s, row, k - 1) /\ k \in 1..Len(s) /\ k - 1 \in Nat
    BY <1>1, <1>2, <1>4
  <2>2. e \in EditEntry /\ row[k] = Replay(old, e) /\ old \in Rows \cup {None}
    BY <2>1 DEF Decided
  <2>3. e.id \in EntryIds /\ e.fields \subseteq Fields
        /\ e.op \in {"create", "update", "delete"}
    BY <2>2 DEF EditEntry
  <2>4. CASE e.op = "delete"
    <3>1. row[k] = None /\ k > 0 /\ s[k].op = "delete"
      BY <1>4, <2>2, <2>4 DEF Replay
    <3> QED
      BY <1>2, <3>1 DEF Decided
  <2>5. CASE e.op = "create" \/ (e.op = "update" /\ old = None)
    <3>1. row[k] = FieldValues(e)
      BY <2>2, <2>5 DEF Replay
    <3>2. row[k] \in Rows
      BY <2>3, <3>1 DEF FieldValues, Rows
    <3>3. \A f \in Fields : row[k][f] \in {e.id, Absent}
      BY <3>1 DEF FieldValues
    <3>4. row[k] # None
      BY <3>2, EditAssumption
    <3>5. \A i \in (k + 1)..k : FALSE
      BY <2>1
    <3> QED
      BY <1>2, <2>1, <3>2, <3>3, <3>4, <3>5 DEF Decided
  <2>6. CASE e.op = "update" /\ old # None
    <3>1. row[k] = [f \in Fields |-> IF f \in e.fields THEN e.id ELSE old[f]]
      BY <2>2, <2>6 DEF Replay
    <3>2. row[k] \in Rows
      BY <2>2, <2>3, <2>6, <3>1 DEF Rows
    <3>3. row[k] # None
      BY <3>2, EditAssumption
    <3>4. ASSUME NEW f \in Fields
          PROVE  \/ row[k][f] = Base /\ \A i \in 1..k : ~Overwrites(s[i], f)
                 \/ row[k][f] = Absent
                 \/ \E j \in 1..k : /\ row[k][f] = s[j].id
                                    /\ \A i \in (j + 1)..k : ~Overwrites(s[i], f)
      <4>1. CASE f \in e.fields
        <5>1. row[k][f] = s[k].id /\ \A i \in (k + 1)..k : FALSE
          BY <2>1, <3>1, <4>1
        <5> QED
          BY <2>1, <5>1
      <4>2. CASE f \notin e.fields
        <5>1. row[k][f] = old[f] /\ ~Overwrites(s[k], f)
          BY <2>6, <3>1, <4>2 DEF Overwrites
        <5>2. \/ old[f] = Base /\ \A i \in 1..(k - 1) : ~Overwrites(s[i], f)
              \/ old[f] = Absent
              \/ \E j \in 1..(k - 1) : /\ old[f] = s[j].id
                                       /\ \A i \in (j + 1)..(k - 1) : ~Overwrites(s[i], f)
          BY <2>1, <2>6 DEF Decided
        <5>3. \A j \in 1..k : \A i \in j..k : i = k \/ i \in j..(k - 1)
          BY <2>1
        <5>4. CASE old[f] = Base /\ \A i \in 1..(k - 1) : ~Overwrites(s[i], f)
          BY <2>1, <5>1, <5>3, <5>4
        <5>5. ASSUME NEW j \in 1..(k - 1), old[f] = s[j].id,
                     \A i \in (j + 1)..(k - 1) : ~Overwrites(s[i], f)
              PROVE  /\ j \in 1..k /\ row[k][f] = s[j].id
                     /\ \A i \in (j + 1)..k : ~Overwrites(s[i], f)
          <6>1. j \in 1..k /\ j + 1 \in 1..k
            BY <2>1
          <6> QED
            BY <5>1, <5>3, <5>5, <6>1
        <5> QED
          BY <5>1, <5>2, <5>4, <5>5
      <4> QED
        BY <4>1, <4>2
    <3> QED
      BY <1>2, <3>2, <3>3, <3>4 DEF Decided
  <2> QED
    BY <2>3, <2>4, <2>5, <2>6
<1> QED
  BY <1>2, <1>3, <1>4

LEMMA EditLogInvInit == EditLogInit => EditLogInv
<1> SUFFICES ASSUME EditLogInit PROVE EditLogInv
  OBVIOUS
<1>1. [f \in Fields |-> Base] \in Rows
  BY DEF Rows
<1>2. EditTypeOK /\ SeenOnceMade /\ OneEntryPerId /\ Logged = {}
  BY <1>1 DEF EditLogInit, EditTypeOK, SeenOnceMade, OneEntryPerId, Logged
<1> QED
  BY <1>2, FS_EmptySet DEF EditLogInit, EditLogInv

LEMMA EditLogInvStep == EditLogInv /\ [EditLogNext]_editVars => EditLogInv'
<1> SUFFICES ASSUME EditLogInv, [EditLogNext]_editVars PROVE EditLogInv'
  OBVIOUS
<1>1. CASE UNCHANGED editVars
  BY <1>1 DEF editVars, EditLogInv, EditTypeOK, Logged, SeenOnceMade, OneEntryPerId
<1>2. /\ edits \subseteq [entry : EditEntry, seenAt : Nat] /\ time \in Nat
      /\ writing \in [Writers -> EditEntry \cup {None}]
  BY DEF EditLogInv, EditTypeOK
<1>3. ASSUME NEW w \in Writers, NEW x \in EntryIds,
             NEW op \in {"create", "update", "delete"}, NEW fields \in SUBSET Fields,
             WriteEntry(w, x, op, fields)
      PROVE  EditLogInv'
  <2> DEFINE new == [id |-> x, op |-> op, fields |-> fields, createdAt |-> time]
  <2>1. /\ writing' = [writing EXCEPT ![w] = new] /\ x \notin UsedIds
        /\ UNCHANGED <<edits, baseRow, time>>
    BY <1>3 DEF WriteEntry
  <2>2. new \in EditEntry /\ new.id = x /\ new.createdAt = time
    BY <1>2 DEF EditEntry
  <2>3. /\ \A d \in edits : d.entry.id # x
        /\ \A v \in Writers : writing[v] # None => writing[v].id # x
    BY <2>1 DEF UsedIds
  <2> HIDE DEF new
  <2>4. \A v \in Writers : writing'[v] = IF v = w THEN new ELSE writing[v]
    BY <1>2, <2>1
  <2>5. EditTypeOK' /\ UNCHANGED Logged
    BY <1>2, <2>1, <2>2 DEF EditLogInv, EditTypeOK, Logged
  <2>6. SeenOnceMade'
    BY <1>2, <2>1, <2>2, <2>4 DEF EditLogInv, SeenOnceMade
  <2>7. OneEntryPerId'
    BY <2>1, <2>2, <2>3, <2>4 DEF EditLogInv, OneEntryPerId
  <2> QED
    BY <2>1, <2>5, <2>6, <2>7 DEF EditLogInv
<1>4. ASSUME NEW w \in Writers, CommitEntry(w) \/ WriteFails(w)
      PROVE  EditLogInv'
  <2> DEFINE d == [entry |-> writing[w], seenAt |-> time]
  <2>1. /\ writing[w] # None /\ writing' = [writing EXCEPT ![w] = None]
        /\ UNCHANGED baseRow /\ time' \in Nat /\ time <= time'
        /\ edits' \in {edits, edits \cup {d}}
    BY <1>2, <1>4 DEF CommitEntry, WriteFails
  <2>2. /\ writing[w] \in EditEntry /\ d \in [entry : EditEntry, seenAt : Nat]
        /\ d.entry = writing[w] /\ d.seenAt = time
    BY <1>2, <2>1
  <2> HIDE DEF d
  <2>3. \A v \in Writers : writing'[v] = IF v = w THEN None ELSE writing[v]
    BY <1>2, <2>1
  <2>4. Logged' \in {Logged, Logged \cup {writing[w]}}
    BY <2>1, <2>2 DEF Logged
  <2>5. EditTypeOK'
    BY <1>2, <2>1, <2>2 DEF EditLogInv, EditTypeOK
  <2>6. IsFiniteSet(Logged')
    BY <2>4, FS_AddElement DEF EditLogInv
  <2>7. SeenOnceMade'
    <3>1. \A v \in Writers : writing[v] # None =>
             writing[v].createdAt \in Nat /\ writing[v].createdAt <= time
      BY <1>2 DEF EditLogInv, SeenOnceMade, EditEntry
    <3> QED
      BY <1>2, <2>1, <2>2, <2>3, <3>1 DEF EditLogInv, SeenOnceMade
  <2>8. OneEntryPerId'
    BY <2>1, <2>2, <2>3 DEF EditLogInv, OneEntryPerId
  <2> QED
    BY <2>1, <2>5, <2>6, <2>7, <2>8 DEF EditLogInv
<1> QED
  BY <1>1, <1>3, <1>4 DEF EditLogNext

LEMMA ReadShowsLast ==
  ASSUME EditLogInv
  PROVE  LaterEditWins
<1> SUFFICES ASSUME NEW s \in ReadByKey
             PROVE  LET row == MergeRow(s)
                    IN IF row = None
                       THEN \/ baseRow = None /\ edits = {}
                            \/ \E d \in edits : /\ d.entry.op = "delete"
                                                /\ \A e \in Later(d) : e.entry.op = "delete"
                       ELSE \A f \in Fields :
                              /\ row[f] = Base => \A d \in edits : ~Writes(d, f)
                              /\ \A d \in edits :
                                   row[f] = d.entry.id => \A e \in Later(d) : ~Writes(e, f)
  BY DEF LaterEditWins
<1> DEFINE n == Len(s)
           row == MergeRow(s)
<1>1. /\ n \in Nat /\ DOMAIN s = 1..n
      /\ \A i \in 1..n : s[i] \in Logged /\ s[i] \in EditEntry
      /\ \A i, j \in 1..n : i < j => s[i].createdAt <= s[j].createdAt
  BY ReadsAll
<1>2. \A d \in edits : \E i \in 1..n : s[i] = d.entry
  BY ReadsAll DEF Logged
<1>3. PICK r : r[n] = row /\ Decided(s, r, n)
  BY <1>1, MergeSteps, LastWriteDecides
<1> HIDE DEF row
\* What was made after an entry was seen is read after it.
<1>4. ASSUME NEW d \in edits, NEW e \in Later(d),
             NEW i \in 1..n, NEW j \in 1..n, s[i] = d.entry, s[j] = e.entry
      PROVE  i < j
  <2>1. e \in edits /\ e.entry.createdAt > d.seenAt
    BY DEF Later
  <2>2. /\ d.entry.createdAt <= d.seenAt /\ d.seenAt \in Nat
        /\ d.entry.createdAt \in Nat /\ e.entry.createdAt \in Nat
    BY <2>1 DEF EditLogInv, EditTypeOK, SeenOnceMade, EditEntry
  <2>3. ~(s[j].createdAt <= s[i].createdAt) /\ s[i] # s[j]
    BY <1>4, <2>1, <2>2
  <2>4. ~(j < i) /\ i # j /\ i \in Nat /\ j \in Nat
    BY <1>1, <2>3
  <2> QED
    BY <2>4
<1>5. \A d \in edits, f \in Fields : Writes(d, f) <=> Overwrites(d.entry, f)
  BY DEF Writes, Overwrites
<1>6. ASSUME row = None
      PROVE  \/ baseRow = None /\ edits = {}
             \/ \E d \in edits : /\ d.entry.op = "delete"
                                 /\ \A e \in Later(d) : e.entry.op = "delete"
  <2>1. CASE n = 0 /\ baseRow = None
    BY <1>2, <2>1
  <2>2. CASE n > 0 /\ s[n].op = "delete"
    <3>1. PICK d \in edits : d.entry = s[n]
      BY <1>1, <2>2 DEF Logged
    <3>2. ASSUME NEW e \in Later(d) PROVE FALSE
      <4>1. PICK j \in 1..n : s[j] = e.entry
        BY <1>2 DEF Later
      <4>2. n \in 1..n
        BY <1>1, <2>2
      <4>3. n < j
        BY <1>4, <3>1, <4>1, <4>2
      <4> QED
        BY <1>1, <4>3
    <3> QED
      BY <2>2, <3>1, <3>2
  <2> QED
    BY <1>3, <1>6, <2>1, <2>2 DEF Decided
<1>7. ASSUME row # None, NEW f \in Fields
      PROVE  /\ row[f] = Base => \A d \in edits : ~Writes(d, f)
             /\ \A d \in edits : row[f] = d.entry.id => \A e \in Later(d) : ~Writes(e, f)
  <2>1. \A i \in 1..n : s[i].id # Base /\ s[i].id # Absent
    BY <1>1, EditAssumption DEF EditEntry
  <2>2. \/ row[f] = Base /\ \A i \in 1..n : ~Overwrites(s[i], f)
        \/ row[f] = Absent
        \/ \E j \in 1..n : /\ row[f] = s[j].id
                           /\ \A i \in (j + 1)..n : ~Overwrites(s[i], f)
    BY <1>3, <1>7 DEF Decided
  <2>3. ASSUME row[f] = Base, NEW d \in edits PROVE ~Writes(d, f)
    <3>1. PICK i \in 1..n : s[i] = d.entry
      BY <1>2
    <3> QED
      BY <1>5, <2>1, <2>2, <2>3, <3>1, EditAssumption
  <2>4. ASSUME NEW d \in edits, row[f] = d.entry.id, NEW e \in Later(d)
        PROVE  ~Writes(e, f)
    <3>1. e \in edits
      BY DEF Later
    <3>2. PICK i \in 1..n : s[i] = d.entry
      BY <1>2
    <3>3. PICK k \in 1..n : s[k] = e.entry
      BY <1>2, <3>1
    <3>4. PICK j \in 1..n : /\ row[f] = s[j].id
                            /\ \A m \in (j + 1)..n : ~Overwrites(s[m], f)
      BY <2>1, <2>2, <2>4, <3>2, EditAssumption
    <3>5. s[j] = d.entry
      <4>1. PICK c \in edits : c.entry = s[j]
        BY <1>1 DEF Logged
      <4> QED
        BY <2>4, <3>4, <4>1 DEF EditLogInv, OneEntryPerId
    <3>6. j < k
      BY <1>4, <3>3, <3>5
    <3> QED
      BY <1>1, <1>5, <3>1, <3>3, <3>4, <3>6
  <2> QED
    BY <2>3, <2>4
<1> QED
  BY <1>6, <1>7 DEF row

\* What was read, written and committed stays in order.
THEOREM EditLogInvariance == EditLogSpec => []EditLogInv
BY EditLogInvInit, EditLogInvStep, PTL DEF EditLogSpec

\* Whoever reads a row sees no value, base value or deletion that an edit made
\* after it was seen has replaced, for any number of writers, entries and
\* fields, whatever the order in which their transactions commit or fail.
THEOREM LaterEditsWin == EditLogSpec => []LaterEditWins
<1>1. EditLogInv => LaterEditWins
  BY ReadShowsLast
<1> QED
  BY <1>1, EditLogInvariance, PTL
=============================================================================
