-------------------------- MODULE ExecutionLedger --------------------------
(***************************************************************************)
(* What the executions table promises its users, whatever overlaps or      *)
(* fails.  A handler that works for an execution holds it, and runs it at  *)
(* most once.  A new execution is held by one handler; others may take it  *)
(* only while it waits for its confirmation, so one that never did is run  *)
(* at most once.  Only a run makes a success, nothing reopens a decided    *)
(* execution, and a decided one that nobody holds any more stays as it is, *)
(* in what a user reads and in what was run.                               *)
(***************************************************************************)
CONSTANTS ExecIds, Handlers

VARIABLES status,   \* what a user reads of each execution
          runs,     \* the complete runs of each execution
          holders,  \* the handlers at work for it
          ready     \* the handlers that may still run

Open == {"pending_confirmation", "running"}

Init ==
  /\ status = [x \in ExecIds |-> "none"]
  /\ runs = [x \in ExecIds |-> {}]
  /\ holders = [x \in ExecIds |-> {}]
  /\ ready = {}

Take(h, x) ==
  /\ \A z \in ExecIds : h \notin holders[z]
  /\ \/ status[x] = "pending_confirmation"
     \/ status[x] = "none" /\ runs[x] = {} /\ holders[x] = {}
  /\ holders' = [holders EXCEPT ![x] = @ \cup {h}]
  /\ ready' \in {ready, ready \cup {h}}
  /\ UNCHANGED <<status, runs>>

Run(h, x, y) ==
  /\ h \in holders[x] \cap ready
  /\ \A z \in ExecIds : y \notin runs[z]
  /\ runs' = [runs EXCEPT ![x] = @ \cup {y}]
  /\ ready' = ready \ {h}
  /\ UNCHANGED <<status, holders>>

\* A handler writes what it decided, and may be done with it.
Write(h, x, s) ==
  /\ h \in holders[x]
  /\ \/ s \in Open /\ status[x] = "none"
     \/ s = "success" /\ runs[x] # {}
     \/ s \in {"failed", "cancelled", "expired"} /\ status[x] # "none"
  /\ status' = [status EXCEPT ![x] = s]
  /\ holders' \in {holders, [holders EXCEPT ![x] = @ \ {h}]}
  /\ UNCHANGED <<runs, ready>>

\* A handler that raises no longer runs; one that is lost leaves.
GiveUp(h, x) ==
  /\ h \in holders[x]
  /\ holders' \in {holders, [holders EXCEPT ![x] = @ \ {h}]}
  /\ ready' = ready \ {h}
  /\ UNCHANGED <<status, runs>>

Next ==
  \E h \in Handlers, x \in ExecIds :
    \/ Take(h, x)
    \/ GiveUp(h, x)
    \/ \E y \in ExecIds : Run(h, x, y)
    \/ \E s \in Open \cup {"success", "failed", "cancelled", "expired"} : Write(h, x, s)

Spec == Init /\ [][Next]_<<status, runs, holders, ready>>

=============================================================================
