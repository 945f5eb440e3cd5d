-------------------------- MODULE DataConnections --------------------------
(***************************************************************************)
(* DataServiceImpl's connections: the connections table, and the connector *)
(* that the process keeps for each connection it has tested.  A handler    *)
(* commits its own session; what it does after an await it does later.     *)
(***************************************************************************)
EXTENDS NoValue, FiniteSets

CONSTANTS ConnIds,
          Configs,    \* what a connector is made from: config, credentials
          ConnCalls   \* requests at work at once

VARIABLES conn,       \* connections table: the row of each connection, or None
          connector,  \* _connectors: the config of the cached one, or None
          connCall

connVars == <<conn, connector, connCall>>

ConnRow == [config : Configs, status : {"disconnected", "connected", "error"}]

ASSUME ConnectionsAssumption ==
  None \notin ConnIds \cup Configs \cup ConnRow

ConnCall == [pc     : {"idle", "commit", "pop", "use", "test"},
             op     : {"none", "update", "delete", "test"},
             rid    : ConnIds \cup {None},
             config : Configs \cup {None}]  \* what it writes, read or uses

NoConnCall == [pc |-> "idle", op |-> "none", rid |-> None, config |-> None]

ConnTypeOK ==
  /\ conn \in [ConnIds -> ConnRow \cup {None}]
  /\ connector \in [ConnIds -> Configs \cup {None}]
  /\ connCall \in [ConnCalls -> ConnCall]

----------------------------------------------------------------------------

BeginConn(h, pc, op, c, config) ==
  /\ connCall[h] = NoConnCall
  /\ connCall' = [connCall EXCEPT ![h] = [pc |-> pc, op |-> op, rid |-> c,
                                          config |-> config]]

EndsConn(h) == connCall' = [connCall EXCEPT ![h] = NoConnCall]

ConnAt(h, pc) == connCall[h].pc = pc

CreateConnection(c, config) ==
  /\ conn[c] = None
  /\ \A h \in ConnCalls : connCall[h].rid # c
  /\ conn' = [conn EXCEPT ![c] = [config |-> config, status |-> "disconnected"]]
  /\ UNCHANGED <<connector, connCall>>

\* update_fields writes whatever the row is by then; its status stays.
UpdateConnection(h, c, config) ==
  /\ conn[c] # None
  /\ BeginConn(h, "commit", "update", c, config)
  /\ UNCHANGED <<conn, connector>>

DeleteConnection(h, c) ==
  /\ conn[c] # None
  /\ BeginConn(h, "commit", "delete", c, None)
  /\ UNCHANGED <<conn, connector>>

\* Variant: a deletion is written like an update.
CommitDeletionAsUpdate(h) ==
  /\ ConnAt(h, "commit")
  /\ conn[connCall[h].rid] # None
  /\ conn' = [conn EXCEPT ![connCall[h].rid].config = connCall[h].config]
  /\ connCall' = [connCall EXCEPT ![h].pc = "pop"]
  /\ UNCHANGED connector

\* The row may be gone by the time of the write: then nothing is written,
\* the request fails and the cache is left alone.
CommitConnection(h) ==
  /\ ConnAt(h, "commit")
  /\ LET c == connCall[h].rid
     IN IF conn[c] = None
        THEN EndsConn(h) /\ UNCHANGED conn
        ELSE /\ conn' = [conn EXCEPT ![c] =
                          IF connCall[h].op = "delete" THEN None
                          ELSE [@ EXCEPT !.config = connCall[h].config]]
             /\ connCall' = [connCall EXCEPT ![h].pc = "pop"]
  /\ UNCHANGED connector

PopConnector(h) ==
  /\ ConnAt(h, "pop")
  /\ connector' = [connector EXCEPT ![connCall[h].rid] = None]
  /\ EndsConn(h)
  /\ UNCHANGED conn

----------------------------------------------------------------------------

\* _get_or_create_connector: the cached one, whatever it was made from.
ConnectorFor(c, config) == IF connector[c] = None THEN config ELSE connector[c]

TestRead(h, c) ==
  /\ conn[c] # None
  /\ BeginConn(h, "use", "test", c, conn[c].config)
  /\ UNCHANGED <<conn, connector>>

TestUse(h) ==
  LET c == connCall[h].rid
      used == ConnectorFor(c, connCall[h].config)
  IN /\ ConnAt(h, "use")
     /\ connector' = [connector EXCEPT ![c] = used]
     /\ connCall' = [connCall EXCEPT ![h].pc = "test", ![h].config = used]
     /\ UNCHANGED conn

\* The result is written to the row there is now.
TestDone(h, result) ==
  /\ ConnAt(h, "test")
  /\ LET c == connCall[h].rid
     IN conn' = IF conn[c] = None THEN conn ELSE [conn EXCEPT ![c].status = result]
  /\ EndsConn(h)
  /\ UNCHANGED connector

\* A call of the request raises: what it has not committed is rolled back.
\* The call of the commit raises, or is cancelled, after PostgreSQL has
\* committed too: then the cache is left alone.
ConnCallDies(h) ==
  /\ connCall[h] # NoConnCall
  /\ EndsConn(h)
  /\ UNCHANGED <<conn, connector>>

ServerRestarts ==
  /\ connector' = [c \in ConnIds |-> None]
  /\ connCall' = [h \in ConnCalls |-> NoConnCall]
  /\ UNCHANGED conn

ConnInit ==
  /\ conn = [c \in ConnIds |-> None]
  /\ connector = [c \in ConnIds |-> None]
  /\ connCall = [h \in ConnCalls |-> NoConnCall]

ConnNext ==
  \/ \E c \in ConnIds, config \in Configs :
       \/ CreateConnection(c, config)
       \/ \E h \in ConnCalls : UpdateConnection(h, c, config)
  \/ \E h \in ConnCalls :
       \/ \E c \in ConnIds : DeleteConnection(h, c) \/ TestRead(h, c)
       \/ CommitConnection(h)
       \/ PopConnector(h)
       \/ TestUse(h)
       \/ \E result \in {"connected", "error"} : TestDone(h, result)
       \/ ConnCallDies(h)
  \/ ServerRestarts

ConnSpec == ConnInit /\ [][ConnNext]_connVars

=============================================================================
