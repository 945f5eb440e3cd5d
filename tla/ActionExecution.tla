-------------------------- MODULE ActionExecution --------------------------
(***************************************************************************)
(* FunctionServiceImpl: actions that run at once, wait for a confirmation  *)
(* or run in the background.  The executions table and what a run does to  *)
(* the data (the engine's work, then one edit log entry for each output)   *)
(* are committed separately, so a handler is a record whose pc names the   *)
(* commit it makes next.  A confirmed or background execution is run under *)
(* a second identifier: its own record is updated afterwards.  A batch is  *)
(* a sequence of requests in one slot.                                     *)
(***************************************************************************)
EXTENDS Naturals, FiniteSets

CONSTANTS ExecIds,         \* execution identifiers
          Handlers,        \* requests and background tasks at work at once
          Outputs,         \* how many outputs a run writes back
          Faults,          \* which failures the instance exhibits
          None

VARIABLES record,   \* executions table: the row of each identifier, or None
          effects,  \* what runs did: step 0 is the engine's, k the k-th output's,
                    \* and the execution they were for
          late,     \* executions whose confirmation window is over
          call      \* the handler in each slot

execVars == <<record, effects, late, call>>

ASSUME ExecutionAssumption ==
  /\ Outputs \in Nat
  /\ Faults \subseteq {"error", "stop"}
  /\ None \notin ExecIds

Statuses == {"pending_confirmation", "running", "success", "failed",
             "cancelled", "expired"}

\* target is the execution that a row answers for: its own, or the one
\* whose confirmed or background run it records.
Execution == [status : Statuses, target : ExecIds]

ASSUME NoneIsNoExecution == None \notin Execution

Steps == 0..Outputs

Levels == {"SAFETY_READ_ONLY", "SAFETY_IDEMPOTENT_WRITE",
           "SAFETY_NON_IDEMPOTENT", "SAFETY_CRITICAL"}

DirectExecuteLevels == {"SAFETY_READ_ONLY", "SAFETY_IDEMPOTENT_WRITE"}

Call == [pc     : {"idle", "pend", "start", "act", "log", "settle", "cancel",
                   "expire", "fail"},
         op     : {"none", "execute", "async", "confirm", "cancel"},
         target : ExecIds \cup {None},
         run    : ExecIds \cup {None},   \* the identifier it runs under
         step   : 0..(Outputs + 1)]      \* the step it takes next

NoCall == [pc |-> "idle", op |-> "none", target |-> None, run |-> None, step |-> 0]

ExecTypeOK ==
  /\ record \in [ExecIds -> Execution \cup {None}]
  /\ effects \subseteq [target : ExecIds, run : ExecIds, step : Steps]
  /\ late \subseteq ExecIds
  /\ call \in [Handlers -> Call]

----------------------------------------------------------------------------

Recorded(x) == record[x] # None

StatusIs(x, s) == Recorded(x) /\ record[x].status = s

\* uuid4 never repeats an identifier.
FreshIds ==
  {x \in ExecIds : /\ ~Recorded(x)
                   /\ \A h \in Handlers : call[h].target # x /\ call[h].run # x
                   /\ \A e \in effects : e.run # x}

Becomes(h, pc) == call' = [call EXCEPT ![h].pc = pc]

Ends(h) == call' = [call EXCEPT ![h] = NoCall]

CallAt(h, pc) == call[h].pc = pc

SetStatus(x, s) ==
  record' = [record EXCEPT ![x] = [@ EXCEPT !.status = s]]

\* The safety check: skip_confirmation overrides the level.
RequiresConfirmation(level, skip) == ~skip /\ level \notin DirectExecuteLevels

----------------------------------------------------------------------------
(* execute_action.                                                         *)

ExecuteBegin(h, x) ==
  /\ call[h] = NoCall
  /\ x \in FreshIds
  /\ \E level \in Levels, skip \in BOOLEAN :
       call' = [call EXCEPT ![h] =
                 [pc |-> IF RequiresConfirmation(level, skip) THEN "pend" ELSE "act",
                  op |-> "execute", target |-> x, run |-> x, step |-> 0]]
  /\ UNCHANGED <<record, effects, late>>

LogPending(h) ==
  /\ CallAt(h, "pend")
  /\ record' = [record EXCEPT ![call[h].target] =
                 [status |-> "pending_confirmation", target |-> call[h].target]]
  /\ Ends(h)
  /\ UNCHANGED <<effects, late>>

\* What a handler at "act" does next.
StepOf(h) == [target |-> call[h].target, run |-> call[h].run, step |-> call[h].step]

\* Variants: the run is recorded after its first step; one step too many.
ActLogFirst(h) ==
  /\ CallAt(h, "act")
  /\ effects' = effects \cup {StepOf(h)}
  /\ call' = [call EXCEPT ![h].pc = "log"]
  /\ UNCHANGED <<record, late>>

ActOnceMore(h) ==
  /\ CallAt(h, "act")
  /\ effects' = effects \cup {StepOf(h)}
  /\ call' = [call EXCEPT ![h].step = @ + 1,
                          ![h].pc = IF call[h].step > Outputs THEN "log" ELSE "act"]
  /\ UNCHANGED <<record, late>>

\* The engine, and then _process_writeback output by output: write_editlog
\* commits each entry.
Act(h) ==
  /\ CallAt(h, "act")
  /\ effects' = effects \cup {StepOf(h)}
  /\ call' = [call EXCEPT ![h].step = @ + 1,
                          ![h].pc = IF call[h].step = Outputs THEN "log" ELSE "act"]
  /\ UNCHANGED <<record, late>>

\* log_start and log_complete of the run, in one transaction.
LogSuccess(h) ==
  /\ CallAt(h, "log")
  /\ record' = [record EXCEPT ![call[h].run] =
                 [status |-> "success", target |-> call[h].target]]
  /\ IF call[h].op = "execute" THEN Ends(h) ELSE Becomes(h, "settle")
  /\ UNCHANGED <<effects, late>>

----------------------------------------------------------------------------
(* execute_action_async and its background task, which takes the slot over. *)

AsyncBegin(h, x) ==
  /\ call[h] = NoCall
  /\ x \in FreshIds
  /\ call' = [call EXCEPT ![h] = [NoCall EXCEPT !.pc = "start", !.op = "async",
                                                !.target = x]]
  /\ UNCHANGED <<record, effects, late>>

AsyncLogRunning(h, y) ==
  /\ CallAt(h, "start")
  /\ y \in FreshIds
  /\ record' = [record EXCEPT ![call[h].target] =
                 [status |-> "running", target |-> call[h].target]]
  /\ call' = [call EXCEPT ![h].pc = "act", ![h].run = y]
  /\ UNCHANGED <<effects, late>>

\* The second update of confirm_execution and of the background task.
Settle(h) ==
  /\ CallAt(h, "settle")
  /\ SetStatus(call[h].target, "success")
  /\ Ends(h)
  /\ UNCHANGED <<effects, late>>

\* The commit of that update is made, but the background task sees it fail.
AsyncSettleUnanswered(h) ==
  /\ "error" \in Faults
  /\ CallAt(h, "settle")
  /\ call[h].op = "async"
  /\ SetStatus(call[h].target, "success")
  /\ call' = [call EXCEPT ![h].pc = "fail", ![h].run = None]
  /\ UNCHANGED <<effects, late>>

AsyncLogFailed(h) ==
  /\ CallAt(h, "fail")
  /\ SetStatus(call[h].target, "failed")
  /\ Ends(h)
  /\ UNCHANGED <<effects, late>>

----------------------------------------------------------------------------
(* confirm_execution and cancel_execution: read, then act on what was read. *)

\* A variant that runs an execution whatever its status.
ConfirmReadAny(h, x, y) ==
  /\ call[h] = NoCall
  /\ Recorded(x)
  /\ y \in FreshIds
  /\ call' = [call EXCEPT ![h] = [pc |-> "act", op |-> "confirm", target |-> x,
                                  run |-> y, step |-> 0]]
  /\ UNCHANGED <<record, effects, late>>

ConfirmRead(h, x, y) ==
  /\ call[h] = NoCall
  /\ StatusIs(x, "pending_confirmation")
  /\ x \notin late
  /\ y \in FreshIds
  /\ call' = [call EXCEPT ![h] = [pc |-> "act", op |-> "confirm", target |-> x,
                                  run |-> y, step |-> 0]]
  /\ UNCHANGED <<record, effects, late>>

ConfirmReadLate(h, x) ==
  /\ call[h] = NoCall
  /\ StatusIs(x, "pending_confirmation")
  /\ x \in late
  /\ call' = [call EXCEPT ![h] = [NoCall EXCEPT !.pc = "expire", !.op = "confirm",
                                                !.target = x]]
  /\ UNCHANGED <<record, effects, late>>

LogExpired(h) ==
  /\ CallAt(h, "expire")
  /\ SetStatus(call[h].target, "expired")
  /\ Ends(h)
  /\ UNCHANGED <<effects, late>>

CancelRead(h, x) ==
  /\ call[h] = NoCall
  /\ StatusIs(x, "pending_confirmation")
  /\ call' = [call EXCEPT ![h] = [NoCall EXCEPT !.pc = "cancel", !.op = "cancel",
                                                !.target = x]]
  /\ UNCHANGED <<record, effects, late>>

LogCancelled(h) ==
  /\ CallAt(h, "cancel")
  /\ SetStatus(call[h].target, "cancelled")
  /\ Ends(h)
  /\ UNCHANGED <<effects, late>>

\* Ten minutes after it was recorded.
WindowCloses(x) ==
  /\ StatusIs(x, "pending_confirmation")
  /\ x \notin late
  /\ late' = late \cup {x}
  /\ UNCHANGED <<record, effects, call>>

----------------------------------------------------------------------------

\* The worker dies, or a call of a request raises: its transaction is
\* rolled back and nothing else happens.
HandlerStops(h) ==
  /\ "stop" \in Faults
  /\ call[h] # NoCall
  /\ Ends(h)
  /\ UNCHANGED <<record, effects, late>>

\* A call of a background task raises, and is caught.
AsyncFails(h) ==
  /\ "error" \in Faults
  /\ call[h].op = "async"
  /\ call[h].pc \in {"act", "log", "settle"}
  /\ call' = [call EXCEPT ![h].pc = "fail", ![h].run = None]
  /\ UNCHANGED <<record, effects, late>>

Request(h) ==
  \E x \in ExecIds :
    \/ ExecuteBegin(h, x)
    \/ AsyncBegin(h, x)
    \/ ConfirmReadLate(h, x)
    \/ CancelRead(h, x)
    \/ \E y \in ExecIds : ConfirmRead(h, x, y)

Continue(h) ==
  \/ LogPending(h)
  \/ Act(h)
  \/ LogSuccess(h)
  \/ \E y \in ExecIds : AsyncLogRunning(h, y)
  \/ Settle(h)
  \/ AsyncLogFailed(h)
  \/ LogExpired(h)
  \/ LogCancelled(h)

ExecNext ==
  \/ \E h \in Handlers : Request(h) \/ Continue(h) \/ HandlerStops(h)
                            \/ AsyncFails(h) \/ AsyncSettleUnanswered(h)
  \/ \E x \in ExecIds : WindowCloses(x)

ExecInit ==
  /\ record = [x \in ExecIds |-> None]
  /\ effects = {}
  /\ late = {}
  /\ call = [h \in Handlers |-> NoCall]

ExecSpec == ExecInit /\ [][ExecNext]_execVars

----------------------------------------------------------------------------

\* The runs that did all their work for x, recorded or not.
RunsOf(x) ==
  {y \in ExecIds : \A k \in Steps : [target |-> x, run |-> y, step |-> k] \in effects}

\* Success is never reported too early: behind every record of a success is
\* a recorded run for that execution that did all its steps, however
\* decisions, failures and restarts interleave.
SuccessComplete ==
  \A x \in ExecIds :
    StatusIs(x, "success") =>
      \E y \in RunsOf(record[x].target) : /\ StatusIs(y, "success")
                                          /\ record[y].target = record[x].target

\* What a user reads of an execution.
StatusOf(x) ==
  IF Recorded(x) /\ record[x].target = x THEN record[x].status ELSE "none"

HoldersOf(x) == {h \in Handlers : call[h].target = x}

ReadyHandlers == {h \in Handlers : call[h].pc \in {"start", "act"}}

\* The executions table keeps the promise of ExecutionLedger, whatever
\* overlaps and fails: what nobody may run any more is not run again.
Ledger == INSTANCE ExecutionLedger
            WITH status <- [x \in ExecIds |-> StatusOf(x)],
                 runs <- [x \in ExecIds |-> RunsOf(x)],
                 holders <- [x \in ExecIds |-> HoldersOf(x)],
                 ready <- ReadyHandlers

LedgerKept == Ledger!Spec

\* A cancelled execution is not run.
CancelledNotRun ==
  \A x \in ExecIds : StatusIs(x, "cancelled") => RunsOf(x) = {}

=============================================================================
