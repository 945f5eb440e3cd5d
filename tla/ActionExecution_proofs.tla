----------------------- MODULE ActionExecution_proofs ----------------------
(***************************************************************************)
(* Proofs about ActionExecution for any number of executions, handlers and *)
(* outputs.                                                                *)
(*                                                                         *)
(* ExecInv holds whatever fails and however decisions overlap: identifiers *)
(* in use are told apart, the rows that a handler read are still there,    *)
(* and a handler that is about to record a run has done its steps.         *)
(* EffectInv adds whom each run was for, which the refinement of           *)
(* ExecutionLedger needs to tell that a run counts once.                   *)
(***************************************************************************)
EXTENDS ActionExecution, TLAPS

NoEffects(x) == \A e \in effects : e.run # x

Complete(m, y) == \A k \in Steps : [target |-> m, run |-> y, step |-> k] \in effects

IsMain(x) == Recorded(x) /\ record[x].target = x

RowOK(x) ==
  /\ IsMain(record[x].target)
  /\ record[x].target # x => record[x].status = "success"
  /\ record[x].status = "pending_confirmation" => NoEffects(x)

RecordInv == \A x \in ExecIds : Recorded(x) => RowOK(x)

Indirect == {"async", "confirm", "cancel"}

CallOK(h) ==
  /\ call[h].pc = "idle" => call[h] = NoCall
  /\ call[h].pc # "idle" => call[h].target \in ExecIds
  /\ call[h].pc \in {"act", "log", "settle"} => call[h].run \in ExecIds
  /\ call[h].pc \in {"pend", "act", "log"} =>
       call[h].op \in Indirect \/ (call[h].op = "execute" /\ call[h].run = call[h].target)
  /\ call[h].pc \in {"start", "settle", "cancel", "expire", "fail"} => call[h].op \in Indirect
  /\ call[h].pc = "pend" => call[h].run = call[h].target
  /\ call[h].pc \in {"pend", "start"} => ~Recorded(call[h].target)
  /\ call[h].pc \in {"pend", "start"} => NoEffects(call[h].target)
  /\ call[h].pc \in {"act", "log"} => ~Recorded(call[h].run)
  /\ call[h].pc = "start" => call[h].op = "async" /\ call[h].step = 0
  /\ call[h].pc \in {"start", "cancel", "expire", "fail"} => call[h].run = None
  /\ call[h].pc = "act" =>
       call[h].step \in Steps /\
       \A k \in Steps : k < call[h].step =>
         [target |-> call[h].target, run |-> call[h].run, step |-> k] \in effects
  /\ call[h].pc \in {"log", "settle"} => Complete(call[h].target, call[h].run)
  /\ call[h].pc = "settle" =>
       StatusIs(call[h].run, "success") /\ record[call[h].run].target = call[h].target
  /\ call[h].op \in Indirect => call[h].run # call[h].target /\ NoEffects(call[h].target)
  /\ call[h].op \in Indirect /\ call[h].pc # "start" => IsMain(call[h].target)

CallInv == \A h \in Handlers : CallOK(h)

Distinct ==
  \A g, h \in Handlers : g # h =>
    /\ call[g].run # None => call[g].run # call[h].run /\ call[g].run # call[h].target
    /\ call[g].pc = "start" => call[g].target # call[h].target

ExecInv == ExecTypeOK /\ RecordInv /\ CallInv /\ Distinct /\ SuccessComplete

----------------------------------------------------------------------------
(* Types.                                                                  *)

LEMMA NoCallIsCall == NoCall \in Call
BY ExecutionAssumption DEF NoCall, Call

LEMMA NewExecution ==
  ASSUME NEW x \in ExecIds, NEW s \in Statuses
  PROVE  [status |-> s, target |-> x] \in Execution
BY DEF Execution

\* An identifier's row changes its status and nothing else.
LEMMA StatusChange ==
  ASSUME ExecTypeOK, NEW x \in ExecIds, NEW s \in Statuses, SetStatus(x, s)
  PROVE  /\ Recorded(x) => record' \in [ExecIds -> Execution \cup {None}]
         /\ Recorded(x) => record'[x] = [status |-> s, target |-> record[x].target]
         /\ \A y \in ExecIds \ {x} : record'[y] = record[y]
<1>1. record' = [record EXCEPT ![x] = [record[x] EXCEPT !.status = s]]
  BY DEF SetStatus
<1>2. Recorded(x) => record[x] \in Execution
  BY DEF ExecTypeOK, Recorded
<1>3. Recorded(x) => [record[x] EXCEPT !.status = s] = [status |-> s, target |-> record[x].target]
  BY <1>2 DEF Execution
<1>4. Recorded(x) => [record[x] EXCEPT !.status = s] \in Execution
  BY <1>2 DEF Execution
<1> QED BY <1>1, <1>3, <1>4 DEF ExecTypeOK

\* What each action makes of the slot it works in.
LEMMA CallKinds ==
  ASSUME NEW h \in Handlers, NEW x \in ExecIds, NEW y \in ExecIds, ExecTypeOK
  PROVE  /\ [NoCall EXCEPT !.pc = "start", !.op = "async", !.target = x] \in Call
         /\ [NoCall EXCEPT !.pc = "expire", !.op = "confirm", !.target = x] \in Call
         /\ [NoCall EXCEPT !.pc = "cancel", !.op = "cancel", !.target = x] \in Call
         /\ [pc |-> "act", op |-> "confirm", target |-> x, run |-> y, step |-> 0] \in Call
         /\ \A p \in {"pend", "act"} :
              [pc |-> p, op |-> "execute", target |-> x, run |-> x, step |-> 0] \in Call
         /\ \A p \in {"act", "log", "settle", "fail"} :
              /\ [call[h] EXCEPT !.pc = p] \in Call
              /\ [call[h] EXCEPT !.pc = p, !.run = y] \in Call
         /\ \A p \in {"act", "log"} :
              call[h].step \in Steps => [call[h] EXCEPT !.step = @ + 1, !.pc = p] \in Call
<1>1. call[h] \in Call /\ Outputs \in Nat
  BY ExecutionAssumption DEF ExecTypeOK
<1>2. 0 \in 0..(Outputs + 1) /\ \A k \in Steps : k + 1 \in 0..(Outputs + 1)
  BY <1>1 DEF Steps
<1>3. /\ [NoCall EXCEPT !.pc = "start", !.op = "async", !.target = x] \in Call
      /\ [NoCall EXCEPT !.pc = "expire", !.op = "confirm", !.target = x] \in Call
      /\ [NoCall EXCEPT !.pc = "cancel", !.op = "cancel", !.target = x] \in Call
  BY <1>2 DEF Call, NoCall
<1>4. /\ [pc |-> "act", op |-> "confirm", target |-> x, run |-> y, step |-> 0] \in Call
      /\ \A p \in {"pend", "act"} :
              [pc |-> p, op |-> "execute", target |-> x, run |-> x, step |-> 0] \in Call
  BY <1>2 DEF Call
<1>5. \A p \in {"act", "log", "settle", "fail"} :
              /\ [call[h] EXCEPT !.pc = p] \in Call
              /\ [call[h] EXCEPT !.pc = p, !.run = y] \in Call
  BY <1>1 DEF Call
<1>6. \A p \in {"act", "log"} :
              call[h].step \in Steps => [call[h] EXCEPT !.step = @ + 1, !.pc = p] \in Call
  BY <1>1, <1>2 DEF Call
<1> QED BY <1>3, <1>4, <1>5, <1>6

----------------------------------------------------------------------------
(* Lemmas about one slot and one row.                                      *)

LEMMA Slot ==
  ASSUME ExecTypeOK, NEW h \in Handlers, NEW c \in Call,
         call' = [call EXCEPT ![h] = c]
  PROVE  /\ call' \in [Handlers -> Call]
         /\ call'[h] = c
         /\ \A g \in Handlers \ {h} : call'[g] = call[g]
BY DEF ExecTypeOK

LEMMA StepZero == 0 \in Steps /\ \A k \in Steps : k \in Nat /\ k <= Outputs
BY ExecutionAssumption DEF Steps

\* The execution that an indirect handler serves has done nothing itself, so
\* it is not the run behind any success.
LEMMA CompleteActs ==
  ASSUME NEW m, NEW y, Complete(m, y)
  PROVE  ~NoEffects(y)
<1>1. [target |-> m, run |-> y, step |-> 0] \in effects
  BY StepZero DEF Complete
<1>2. [target |-> m, run |-> y, step |-> 0].run = y
  OBVIOUS
<1> QED BY <1>1, <1>2 DEF NoEffects

\* A handler is as it was after a step of another that keeps every row's
\* target, and what this handler is about to write untouched.
LEMMA OtherCall ==
  ASSUME NEW g \in Handlers, CallOK(g), call'[g] = call[g],
         effects \subseteq effects',
         \A z \in ExecIds : Recorded(z) => Recorded(z)' /\ record'[z].target = record[z].target,
         call[g].pc \in {"pend", "start"} =>
           ~Recorded(call[g].target)' /\ NoEffects(call[g].target)',
         call[g].pc \in {"act", "log"} => ~Recorded(call[g].run)',
         call[g].pc = "settle" => StatusIs(call[g].run, "success")',
         call[g].op \in Indirect => NoEffects(call[g].target)'
  PROVE  CallOK(g)'
<1>1. /\ call[g].pc = "idle" => call[g] = NoCall
      /\ call[g].pc # "idle" => call[g].target \in ExecIds
      /\ call[g].pc \in {"act", "log", "settle"} => call[g].run \in ExecIds
      /\ call[g].pc \in {"pend", "act", "log"} =>
           call[g].op \in Indirect \/ (call[g].op = "execute" /\ call[g].run = call[g].target)
      /\ call[g].pc \in {"start", "settle", "cancel", "expire", "fail"} => call[g].op \in Indirect
      /\ call[g].pc = "pend" => call[g].run = call[g].target
      /\ call[g].pc = "start" => call[g].op = "async" /\ call[g].step = 0
      /\ call[g].pc \in {"start", "cancel", "expire", "fail"} => call[g].run = None
      /\ call[g].op \in Indirect => call[g].run # call[g].target
  BY DEF CallOK
<1>2. call[g].pc = "act" =>
        call[g].step \in Steps /\
        \A k \in Steps : k < call[g].step =>
          [target |-> call[g].target, run |-> call[g].run, step |-> k] \in effects'
  BY DEF CallOK
<1>3. call[g].pc \in {"log", "settle"} =>
        \A k \in Steps : [target |-> call[g].target, run |-> call[g].run, step |-> k] \in effects'
  BY DEF CallOK, Complete
<1>4. call[g].pc = "settle" => record'[call[g].run].target = call[g].target
  BY <1>1 DEF CallOK, StatusIs
<1>5. call[g].op \in Indirect /\ call[g].pc # "start" =>
        Recorded(call[g].target)' /\ record'[call[g].target].target = call[g].target
  <2> SUFFICES ASSUME call[g].op \in Indirect, call[g].pc # "start"
               PROVE  Recorded(call[g].target)' /\ record'[call[g].target].target = call[g].target
    OBVIOUS
  <2>1. IsMain(call[g].target) /\ call[g].pc # "idle"
    BY <1>1 DEF CallOK, NoCall, Indirect
  <2> QED BY <1>1, <2>1 DEF IsMain
<1> QED BY <1>1, <1>2, <1>3, <1>4, <1>5 DEF CallOK, Complete, IsMain, NoEffects

\* A step that leaves the executions table and the effects as they are.
LEMMA QuietStep ==
  ASSUME ExecInv, UNCHANGED <<record, effects>>, late' \subseteq ExecIds,
         NEW h \in Handlers, NEW c \in Call, call' = [call EXCEPT ![h] = c],
         CallOK(h)',
         \A g \in Handlers \ {h} :
           /\ c.run # None => c.run # call[g].run /\ c.run # call[g].target
           /\ call[g].run # None => call[g].run # c.run /\ call[g].run # c.target
           /\ c.pc = "start" => c.target # call[g].target
           /\ call[g].pc = "start" => call[g].target # c.target
  PROVE  ExecInv'
<1>1. /\ call' \in [Handlers -> Call]
      /\ call'[h] = c
      /\ \A g \in Handlers \ {h} : call'[g] = call[g]
  BY Slot DEF ExecInv
<1>2. ExecTypeOK'
  BY <1>1 DEF ExecInv, ExecTypeOK
<1>3. RecordInv' /\ SuccessComplete'
  BY DEF ExecInv, RecordInv, RowOK, IsMain, Recorded, NoEffects, SuccessComplete, StatusIs, RunsOf
<1>4. ASSUME NEW g \in Handlers \ {h}
      PROVE  CallOK(g)'
  <2>1. call'[g] = call[g] /\ CallOK(g)
    BY <1>1 DEF ExecInv, CallInv
  <2> QED BY <2>1 DEF CallOK, Complete, IsMain, NoEffects, Recorded, StatusIs
<1>5. CallInv'
  BY <1>4 DEF CallInv
<1>6. Distinct'
  BY <1>1 DEF ExecInv, Distinct
<1> QED BY <1>2, <1>3, <1>5, <1>6 DEF ExecInv

\* The same for a handler that ends.
LEMMA NoCallOK ==
  ASSUME NEW h, call'[h] = NoCall
  PROVE  CallOK(h)'
BY DEF CallOK, NoCall, Indirect

LEMMA Fresh ==
  ASSUME NEW x \in FreshIds
  PROVE  /\ x \in ExecIds /\ x # None /\ ~Recorded(x) /\ NoEffects(x)
         /\ \A g \in Handlers : call[g].target # x /\ call[g].run # x
BY ExecutionAssumption DEF FreshIds, NoEffects

----------------------------------------------------------------------------
(* Actions that only begin, fail or end a handler.                         *)

LEMMA ExecuteBeginStep ==
  ASSUME ExecInv, NEW h \in Handlers, NEW x \in ExecIds, ExecuteBegin(h, x)
  PROVE  ExecInv'
<1>1. PICK p \in {"pend", "act"} :
        call' = [call EXCEPT ![h] = [pc |-> p, op |-> "execute", target |-> x,
                                     run |-> x, step |-> 0]]
  BY DEF ExecuteBegin
<1> DEFINE c == [pc |-> p, op |-> "execute", target |-> x, run |-> x, step |-> 0]
<1>2. c \in Call
  BY CallKinds DEF ExecInv
<1>3. call'[h] = c
  BY <1>1, <1>2, Slot DEF ExecInv
<1>4. UNCHANGED <<record, effects, late>> /\ x \in FreshIds
  BY DEF ExecuteBegin
<1>5. CallOK(h)'
  BY <1>3, <1>4, Fresh, StepZero DEF CallOK, NoCall, Indirect, Recorded, NoEffects, IsMain
<1>6. \A g \in Handlers \ {h} :
        /\ c.run # None => c.run # call[g].run /\ c.run # call[g].target
        /\ call[g].run # None => call[g].run # c.run /\ call[g].run # c.target
        /\ c.pc = "start" => c.target # call[g].target
        /\ call[g].pc = "start" => call[g].target # c.target
  BY <1>4, Fresh
<1>7. late' \subseteq ExecIds
  BY <1>4 DEF ExecInv, ExecTypeOK
<1> HIDE DEF c
<1> QED BY <1>1, <1>2, <1>4, <1>5, <1>6, <1>7, QuietStep DEF c

LEMMA AsyncBeginStep ==
  ASSUME ExecInv, NEW h \in Handlers, NEW x \in ExecIds, AsyncBegin(h, x)
  PROVE  ExecInv'
<1> DEFINE c == [NoCall EXCEPT !.pc = "start", !.op = "async", !.target = x]
<1>1. call' = [call EXCEPT ![h] = c] /\ UNCHANGED <<record, effects, late>> /\ x \in FreshIds
  BY DEF AsyncBegin
<1>2. c \in Call
  BY CallKinds DEF ExecInv
<1>3. /\ c.pc = "start" /\ c.op = "async" /\ c.target = x /\ c.run = None /\ c.step = 0
      /\ call'[h] = c
  BY <1>1, <1>2, Slot DEF ExecInv, NoCall
<1> HIDE DEF c
<1>4. CallOK(h)'
  BY <1>1, <1>3, Fresh DEF CallOK, Indirect, Recorded, NoEffects
<1>5. \A g \in Handlers \ {h} :
        /\ c.run # None => c.run # call[g].run /\ c.run # call[g].target
        /\ call[g].run # None => call[g].run # c.run /\ call[g].run # c.target
        /\ c.pc = "start" => c.target # call[g].target
        /\ call[g].pc = "start" => call[g].target # c.target
  BY <1>1, <1>3, Fresh
<1>6. late' \subseteq ExecIds
  BY <1>1 DEF ExecInv, ExecTypeOK
<1> QED BY <1>1, <1>2, <1>4, <1>5, <1>6, QuietStep

\* What reading a pending execution says of it, and of the handlers at work.
LEMMA PendingRow ==
  ASSUME ExecInv, NEW x \in ExecIds, StatusIs(x, "pending_confirmation")
  PROVE  /\ IsMain(x) /\ NoEffects(x) /\ x # None
         /\ \A g \in Handlers : call[g].pc = "start" => call[g].target # x
         /\ \A g \in Handlers : call[g].run # x
<1>1. IsMain(x) /\ NoEffects(x) /\ Recorded(x)
  BY DEF ExecInv, RecordInv, RowOK, StatusIs, IsMain, Recorded
<1>2. ASSUME NEW g \in Handlers
      PROVE  (call[g].pc = "start" => call[g].target # x) /\ call[g].run # x
  <2>1. CallOK(g) /\ call[g] \in Call
    BY DEF ExecInv, CallInv, ExecTypeOK
  <2>2. call[g].pc \in {"pend", "act", "log"} => call[g].run # x
    BY <1>1, <2>1 DEF CallOK
  <2>3. call[g].pc \in {"idle", "start", "cancel", "expire", "fail"} => call[g].run # x
    BY <2>1, ExecutionAssumption DEF CallOK, NoCall
  <2>4. call[g].pc = "settle" => call[g].run # x
    BY <2>1, ExecutionAssumption DEF CallOK, StatusIs
  <2> QED BY <1>1, <2>1, <2>2, <2>3, <2>4 DEF CallOK, Call
<1> QED BY <1>1, <1>2, ExecutionAssumption

LEMMA ConfirmReadStep ==
  ASSUME ExecInv, NEW h \in Handlers, NEW x \in ExecIds, NEW y \in ExecIds,
         ConfirmRead(h, x, y)
  PROVE  ExecInv'
<1> DEFINE c == [pc |-> "act", op |-> "confirm", target |-> x, run |-> y, step |-> 0]
<1>1. /\ call' = [call EXCEPT ![h] = c] /\ UNCHANGED <<record, effects, late>>
      /\ y \in FreshIds /\ StatusIs(x, "pending_confirmation")
  BY DEF ConfirmRead
<1>2. c \in Call /\ call'[h] = c
  BY <1>1, CallKinds, Slot DEF ExecInv
<1>3. y # x
  BY <1>1, Fresh DEF StatusIs
<1>4. CallOK(h)'
  BY <1>1, <1>2, <1>3, Fresh, PendingRow, StepZero
  DEF CallOK, Indirect, Recorded, NoEffects, IsMain
<1>5. \A g \in Handlers \ {h} :
        /\ c.run # None => c.run # call[g].run /\ c.run # call[g].target
        /\ call[g].run # None => call[g].run # c.run /\ call[g].run # c.target
        /\ c.pc = "start" => c.target # call[g].target
        /\ call[g].pc = "start" => call[g].target # c.target
  BY <1>1, Fresh, PendingRow
<1>6. late' \subseteq ExecIds
  BY <1>1 DEF ExecInv, ExecTypeOK
<1> HIDE DEF c
<1> QED BY <1>1, <1>2, <1>4, <1>5, <1>6, QuietStep

\* The handlers that read a pending execution to close it.
LEMMA ClosingReadStep ==
  ASSUME ExecInv, NEW h \in Handlers, NEW x \in ExecIds,
         ConfirmReadLate(h, x) \/ CancelRead(h, x)
  PROVE  ExecInv'
<1>1. PICK c \in Call :
        /\ call' = [call EXCEPT ![h] = c]
        /\ c.pc \in {"expire", "cancel"} /\ c.op \in Indirect
        /\ c.target = x /\ c.run = None
  <2>1. CASE ConfirmReadLate(h, x)
    <3> DEFINE c == [NoCall EXCEPT !.pc = "expire", !.op = "confirm", !.target = x]
    <3>1. c \in Call
      BY CallKinds DEF ExecInv
    <3>2. c.pc = "expire" /\ c.op \in Indirect /\ c.target = x /\ c.run = None
      BY DEF NoCall, Indirect
    <3>3. call' = [call EXCEPT ![h] = c]
      BY <2>1 DEF ConfirmReadLate
    <3> HIDE DEF c
    <3> QED BY <3>1, <3>2, <3>3
  <2>2. CASE CancelRead(h, x)
    <3> DEFINE c == [NoCall EXCEPT !.pc = "cancel", !.op = "cancel", !.target = x]
    <3>1. c \in Call
      BY CallKinds DEF ExecInv
    <3>2. c.pc = "cancel" /\ c.op \in Indirect /\ c.target = x /\ c.run = None
      BY DEF NoCall, Indirect
    <3>3. call' = [call EXCEPT ![h] = c]
      BY <2>2 DEF CancelRead
    <3> HIDE DEF c
    <3> QED BY <3>1, <3>2, <3>3
  <2> QED BY <2>1, <2>2
<1>2. UNCHANGED <<record, effects, late>> /\ StatusIs(x, "pending_confirmation")
  BY DEF ConfirmReadLate, CancelRead
<1>3. call'[h] = c
  BY <1>1, Slot DEF ExecInv
<1>4. CallOK(h)'
  BY <1>1, <1>2, <1>3, PendingRow DEF CallOK, Recorded, NoEffects, IsMain
<1>5. \A g \in Handlers \ {h} :
        /\ c.run # None => c.run # call[g].run /\ c.run # call[g].target
        /\ call[g].run # None => call[g].run # c.run /\ call[g].run # c.target
        /\ c.pc = "start" => c.target # call[g].target
        /\ call[g].pc = "start" => call[g].target # c.target
  BY <1>1, <1>2, PendingRow
<1>6. late' \subseteq ExecIds
  BY <1>2 DEF ExecInv, ExecTypeOK
<1> QED BY <1>1, <1>2, <1>4, <1>5, <1>6, QuietStep

LEMMA HandlerStopsStep ==
  ASSUME ExecInv, NEW h \in Handlers, UNCHANGED <<record, effects, late>>, Ends(h)
  PROVE  ExecInv'
<1>1. call' = [call EXCEPT ![h] = NoCall] /\ late' \subseteq ExecIds
  BY DEF Ends, ExecInv, ExecTypeOK
<1>2. CallOK(h)'
  BY <1>1, NoCallIsCall, Slot, NoCallOK DEF ExecInv
<1>3. \A g \in Handlers \ {h} :
        /\ call[g].run # None => call[g].run # NoCall.run /\ call[g].run # NoCall.target
        /\ call[g].pc = "start" => call[g].target # NoCall.target
  <2> SUFFICES ASSUME NEW g \in Handlers \ {h}, call[g].pc = "start"
               PROVE  call[g].target # None
    BY DEF NoCall
  <2>1. CallOK(g)
    BY DEF ExecInv, CallInv
  <2> QED BY <2>1, ExecutionAssumption DEF CallOK
<1>4. NoCall.run = None /\ NoCall.pc # "start"
  BY DEF NoCall
<1> QED BY <1>1, <1>2, <1>3, <1>4, NoCallIsCall, QuietStep

LEMMA AsyncFailsStep ==
  ASSUME ExecInv, NEW h \in Handlers, AsyncFails(h)
  PROVE  ExecInv'
<1> DEFINE c == [call[h] EXCEPT !.pc = "fail", !.run = None]
<1>1. /\ call' = [call EXCEPT ![h] = c] /\ UNCHANGED <<record, effects, late>>
      /\ call[h].op = "async" /\ call[h].pc \in {"act", "log", "settle"}
  BY DEF AsyncFails
<1>2. call[h] \in Call /\ CallOK(h)
  BY DEF ExecInv, ExecTypeOK, CallInv
<1>3. /\ c \in Call
      /\ c.pc = "fail" /\ c.op = "async" /\ c.target = call[h].target /\ c.run = None
  BY <1>1, <1>2 DEF Call
<1> HIDE DEF c
<1>4. call'[h] = c
  BY <1>1, <1>3, Slot DEF ExecInv
<1>5. CallOK(h)'
  <2>1. /\ call[h].target \in ExecIds /\ call[h].target # None
        /\ NoEffects(call[h].target) /\ IsMain(call[h].target)
    BY <1>1, <1>2, ExecutionAssumption DEF CallOK, Indirect
  <2> QED BY <1>1, <1>3, <1>4, <2>1 DEF CallOK, Indirect, Recorded, NoEffects, IsMain
<1>6. \A g \in Handlers \ {h} :
        /\ call[g].run # None => call[g].run # c.run /\ call[g].run # c.target
        /\ call[g].pc = "start" => call[g].target # c.target
  BY <1>3 DEF ExecInv, Distinct
<1>7. late' \subseteq ExecIds
  BY <1>1 DEF ExecInv, ExecTypeOK
<1> QED BY <1>1, <1>3, <1>5, <1>6, <1>7, QuietStep

LEMMA WindowClosesStep ==
  ASSUME ExecInv, NEW x \in ExecIds, WindowCloses(x)
  PROVE  ExecInv'
<1>1. UNCHANGED <<record, effects, call>> /\ late' \subseteq ExecIds
  BY DEF WindowCloses, ExecInv, ExecTypeOK
<1> QED
  BY <1>1 DEF ExecInv, ExecTypeOK, RecordInv, RowOK, IsMain, Recorded, NoEffects, CallInv,
              CallOK, Complete, StatusIs, Distinct, SuccessComplete, RunsOf

----------------------------------------------------------------------------
(* Actions that add effects or rows.                                       *)

LEMMA ActStep ==
  ASSUME ExecInv, NEW h \in Handlers, Act(h)
  PROVE  ExecInv'
<1> DEFINE e == [target |-> call[h].target, run |-> call[h].run, step |-> call[h].step]
           p == IF call[h].step = Outputs THEN "log" ELSE "act"
           c == [call[h] EXCEPT !.step = @ + 1, !.pc = p]
<1>1. /\ call' = [call EXCEPT ![h] = c] /\ UNCHANGED <<record, late>>
      /\ effects' = effects \cup {e} /\ call[h].pc = "act"
  BY DEF Act, CallAt, StepOf
<1>2. call[h] \in Call /\ CallOK(h) /\ Outputs \in Nat
  BY ExecutionAssumption DEF ExecInv, ExecTypeOK, CallInv
<1>3. /\ call[h].run \in ExecIds /\ call[h].run # None /\ ~Recorded(call[h].run)
      /\ call[h].step \in Steps /\ call[h].target \in ExecIds
  BY <1>1, <1>2, ExecutionAssumption DEF CallOK
<1>4. /\ c \in Call
      /\ c.pc = p /\ c.op = call[h].op /\ c.target = call[h].target /\ c.run = call[h].run
      /\ c.step = call[h].step + 1
  <2>1. p \in {"act", "log"} /\ call[h].step + 1 \in 0..(Outputs + 1)
    BY <1>2, <1>3 DEF Steps
  <2> HIDE DEF p
  <2> QED BY <1>2, <2>1 DEF Call
<1>5. e \in [target : ExecIds, run : ExecIds, step : Steps] /\ e.run = call[h].run
  BY <1>3
<1> HIDE DEF c
<1>6. /\ call' \in [Handlers -> Call]
      /\ call'[h] = c
      /\ \A g \in Handlers \ {h} : call'[g] = call[g]
  BY <1>1, <1>4, Slot DEF ExecInv
<1>7. ExecTypeOK'
  BY <1>1, <1>5, <1>6 DEF ExecInv, ExecTypeOK
<1>8. \A z \in ExecIds : z # call[h].run => NoEffects(z)' = NoEffects(z)
  BY <1>1, <1>5 DEF NoEffects
<1>9. RecordInv'
  <2> SUFFICES ASSUME NEW x \in ExecIds, Recorded(x)
               PROVE  RowOK(x)'
    BY <1>1 DEF RecordInv, Recorded
  <2>1. RowOK(x) /\ x # call[h].run
    BY <1>3 DEF ExecInv, RecordInv
  <2> QED BY <1>1, <1>8, <2>1 DEF RowOK, IsMain, Recorded
<1>10. ASSUME NEW g \in Handlers \ {h}
       PROVE  CallOK(g)'
  <2>1. /\ CallOK(g) /\ call'[g] = call[g] /\ call[g] \in Call
        /\ call[g].target # call[h].run
    BY <1>3, <1>6 DEF ExecInv, CallInv, Distinct, ExecTypeOK
  <2>2. call[g].pc \in {"pend", "start"} =>
           ~Recorded(call[g].target)' /\ NoEffects(call[g].target)'
    BY <1>1, <1>8, <2>1 DEF CallOK, Recorded
  <2>3. call[g].pc \in {"act", "log"} => ~Recorded(call[g].run)'
    BY <1>1, <2>1 DEF CallOK, Recorded
  <2>4. call[g].pc = "settle" => StatusIs(call[g].run, "success")'
    BY <1>1, <2>1 DEF CallOK, StatusIs, Recorded
  <2>5. call[g].op \in Indirect => NoEffects(call[g].target)'
    BY <1>8, <2>1 DEF CallOK, NoCall, Indirect
  <2>6. \A z \in ExecIds : Recorded(z) => Recorded(z)' /\ record'[z].target = record[z].target
    BY <1>1 DEF Recorded
  <2> QED BY <1>1, <2>1, <2>2, <2>3, <2>4, <2>5, <2>6, OtherCall
<1>11. CallOK(h)'
  <2>1. \A k \in Steps : k <= call[h].step =>
          [target |-> call[h].target, run |-> call[h].run, step |-> k] \in effects'
    <3> SUFFICES ASSUME NEW k \in Steps, k <= call[h].step
                 PROVE  [target |-> call[h].target, run |-> call[h].run, step |-> k] \in effects'
      OBVIOUS
    <3>1. CASE k = call[h].step
      BY <1>1, <3>1
    <3>2. CASE k # call[h].step
      <4>1. k < call[h].step
        BY <1>3, <3>2, StepZero
      <4> QED BY <1>1, <1>2, <4>1 DEF CallOK
    <3> QED BY <3>1, <3>2
  <2>2. CASE call[h].step = Outputs
    <3>1. \A k \in Steps : [target |-> call[h].target, run |-> call[h].run, step |-> k] \in effects'
      BY <2>1, <2>2, StepZero
    <3>2. c.pc = "log"
      BY <1>4, <2>2
    <3> HIDE DEF p, e
    <3> QED BY <1>1, <1>2, <1>3, <1>4, <1>6, <1>8, <3>1, <3>2
            DEF CallOK, Complete, Recorded, IsMain, Indirect
  <2>3. CASE call[h].step # Outputs
    <3>1. call[h].step + 1 \in Steps /\ \A k \in Steps : k < call[h].step + 1 => k <= call[h].step
      BY <1>2, <1>3, <2>3 DEF Steps
    <3>2. c.pc = "act"
      BY <1>4, <2>3
    <3> HIDE DEF p, e
    <3> QED BY <1>1, <1>2, <1>3, <1>4, <1>6, <1>8, <2>1, <3>1, <3>2
            DEF CallOK, Recorded, IsMain, Indirect
  <2> QED BY <2>2, <2>3
<1>12. CallInv'
  BY <1>10, <1>11 DEF CallInv
<1>13. Distinct'
  <2>1. c.pc # "start" /\ call[h].pc # "start"
    BY <1>1, <1>4
  <2> QED BY <1>4, <1>6, <2>1 DEF ExecInv, Distinct
<1>14. SuccessComplete'
  BY <1>1 DEF ExecInv, SuccessComplete, StatusIs, Recorded, RunsOf
<1> QED BY <1>7, <1>9, <1>12, <1>13, <1>14 DEF ExecInv

\* A step that adds the row of an identifier no other handler is using.
LEMMA NewRow ==
  ASSUME ExecInv, UNCHANGED effects, NEW x \in ExecIds, ~Recorded(x),
         NEW r \in Execution, record' = [record EXCEPT ![x] = r],
         r.status = "success" => Complete(r.target, x),
         r.target = x /\ r.status = "pending_confirmation" => NoEffects(x),
         r.target # x => r.status = "success" /\ IsMain(r.target)
  PROVE  /\ record' \in [ExecIds -> Execution \cup {None}]
         /\ record'[x] = r /\ Recorded(x)'
         /\ \A z \in ExecIds \ {x} : record'[z] = record[z]
         /\ \A z \in ExecIds : Recorded(z) => Recorded(z)' /\ record'[z].target = record[z].target
         /\ RecordInv'
         /\ SuccessComplete'
<1>1. /\ record' \in [ExecIds -> Execution \cup {None}]
      /\ record'[x] = r
      /\ \A z \in ExecIds \ {x} : record'[z] = record[z]
  BY DEF ExecInv, ExecTypeOK
<1>2. Recorded(x)' /\ \A z \in ExecIds \ {x} : Recorded(z)' = Recorded(z)
  BY <1>1, NoneIsNoExecution DEF Recorded
<1>3. \A z \in ExecIds : Recorded(z) => Recorded(z)' /\ record'[z].target = record[z].target
  BY <1>1, <1>2
<1>4. \A z \in ExecIds : IsMain(z) => IsMain(z)'
  BY <1>3 DEF IsMain
<1>5. RecordInv'
  <2> SUFFICES ASSUME NEW z \in ExecIds, Recorded(z)'
               PROVE  RowOK(z)'
    BY DEF RecordInv
  <2>1. CASE z # x
    <3>1. RowOK(z) /\ record'[z] = record[z] /\ Recorded(z)
      BY <1>1, <1>2, <2>1 DEF ExecInv, RecordInv
    <3>2. record[z].target \in ExecIds
      BY <3>1 DEF ExecInv, ExecTypeOK, Recorded, Execution
    <3> QED BY <1>4, <3>1, <3>2 DEF RowOK, NoEffects
  <2>2. CASE z = x /\ r.target = x
    BY <1>1, <1>2, <2>2 DEF RowOK, NoEffects, IsMain
  <2>3. CASE z = x /\ r.target # x
    <3>1. r.target \in ExecIds
      BY DEF Execution
    <3> QED BY <1>1, <1>4, <2>3, <3>1 DEF RowOK
  <2> QED BY <2>1, <2>2, <2>3
<1>6. SuccessComplete'
  <2> SUFFICES ASSUME NEW z \in ExecIds, StatusIs(z, "success")'
               PROVE  \E y \in ExecIds : /\ StatusIs(y, "success")'
                                         /\ record'[y].target = record'[z].target
                                         /\ \A k \in Steps : [target |-> record'[z].target, run |-> y, step |-> k]
                                                               \in effects'
    BY DEF SuccessComplete, RunsOf, Complete
  <2>1. CASE z = x
    BY <1>1, <2>1 DEF Complete, StatusIs
  <2>2. CASE z # x
    <3>1. StatusIs(z, "success") /\ record'[z] = record[z]
      BY <1>1, <1>2, <2>2 DEF StatusIs
    <3>2. PICK y \in ExecIds : /\ StatusIs(y, "success")
                               /\ record[y].target = record[z].target
                               /\ Complete(record[z].target, y)
      BY <3>1 DEF ExecInv, SuccessComplete, RunsOf, Complete
    <3>3. y # x
      BY <3>2 DEF StatusIs
    <3> QED BY <1>1, <1>2, <3>1, <3>2, <3>3 DEF StatusIs, Complete
  <2> QED BY <2>1, <2>2
<1> QED BY <1>1, <1>2, <1>3, <1>5, <1>6

\* The other handlers do not see a row that they are not about to write.
LEMMA OtherRow ==
  ASSUME ExecInv, UNCHANGED effects, NEW x \in ExecIds,
         \A z \in ExecIds \ {x} : record'[z] = record[z],
         \A z \in ExecIds : Recorded(z) => Recorded(z)' /\ record'[z].target = record[z].target,
         NEW g \in Handlers, call'[g] = call[g],
         call[g].pc \in {"pend", "start"} => call[g].target # x,
         call[g].pc \in {"act", "log"} => call[g].run # x,
         StatusIs(x, "success") => StatusIs(x, "success")'
  PROVE  CallOK(g)'
<1>1. CallOK(g)
  BY DEF ExecInv, CallInv
<1>2. call[g].pc \in {"pend", "start"} =>
        ~Recorded(call[g].target)' /\ NoEffects(call[g].target)'
  BY <1>1 DEF CallOK, Recorded, NoEffects
<1>3. call[g].pc \in {"act", "log"} => ~Recorded(call[g].run)'
  BY <1>1 DEF CallOK, Recorded
<1>4. call[g].pc = "settle" => StatusIs(call[g].run, "success")'
  BY <1>1 DEF CallOK, StatusIs, Recorded
<1>5. call[g].op \in Indirect => NoEffects(call[g].target)'
  BY <1>1 DEF CallOK, NoEffects
<1> QED BY <1>1, <1>2, <1>3, <1>4, <1>5, OtherCall

\* A handler that ends takes no identifier with it.
LEMMA EndsDistinct ==
  ASSUME ExecInv, NEW h \in Handlers, call'[h] = NoCall,
         \A g \in Handlers \ {h} : call'[g] = call[g]
  PROVE  Distinct'
<1>1. NoCall.run = None /\ NoCall.target = None /\ NoCall.pc = "idle"
  BY DEF NoCall
<1>2. \A g \in Handlers : call[g].pc = "start" => call[g].target # None
  BY ExecutionAssumption DEF ExecInv, CallInv, CallOK
<1> QED BY <1>1, <1>2 DEF ExecInv, Distinct

LEMMA LogPendingStep ==
  ASSUME ExecInv, NEW h \in Handlers, LogPending(h)
  PROVE  ExecInv'
<1> DEFINE x == call[h].target
           r == [status |-> "pending_confirmation", target |-> x]
<1>1. /\ record' = [record EXCEPT ![x] = r] /\ call[h].pc = "pend"
      /\ call' = [call EXCEPT ![h] = NoCall] /\ UNCHANGED <<effects, late>>
  BY DEF LogPending, CallAt, Ends
<1>2. CallOK(h)
  BY DEF ExecInv, CallInv
<1>3. x \in ExecIds /\ x # None /\ ~Recorded(x) /\ NoEffects(x) /\ call[h].run = x
  BY <1>1, <1>2, ExecutionAssumption DEF CallOK
<1>4. r \in Execution /\ r.target = x /\ r.status = "pending_confirmation"
  BY <1>3, NewExecution DEF Statuses
<1>5. /\ call' \in [Handlers -> Call] /\ call'[h] = NoCall
      /\ \A g \in Handlers \ {h} : call'[g] = call[g]
  BY <1>1, NoCallIsCall, Slot DEF ExecInv
<1>6. /\ record' \in [ExecIds -> Execution \cup {None}]
      /\ \A z \in ExecIds \ {x} : record'[z] = record[z]
      /\ \A z \in ExecIds : Recorded(z) => Recorded(z)' /\ record'[z].target = record[z].target
      /\ RecordInv'
      /\ SuccessComplete'
  <2> HIDE DEF x, r
  <2> QED BY <1>1, <1>3, <1>4, NewRow
<1>7. ExecTypeOK'
  BY <1>1, <1>5, <1>6 DEF ExecInv, ExecTypeOK
<1>8. ASSUME NEW g \in Handlers
      PROVE  CallOK(g)'
  <2>1. CASE g = h
    BY <1>5, <2>1, NoCallOK
  <2>2. CASE g # h
    <3>1. call[g].target # x /\ call[g].run # x
      BY <1>3, <2>2 DEF ExecInv, Distinct
    <3>2. call'[g] = call[g] /\ ~StatusIs(x, "success")
      BY <1>3, <1>5, <2>2 DEF StatusIs
    <3> HIDE DEF x, r
    <3> QED BY <1>1, <1>3, <1>6, <3>1, <3>2, OtherRow
  <2> QED BY <2>1, <2>2
<1>9. Distinct'
  BY <1>5, EndsDistinct
<1> QED BY <1>6, <1>7, <1>8, <1>9 DEF ExecInv, CallInv

LEMMA LogSuccessStep ==
  ASSUME ExecInv, NEW h \in Handlers, LogSuccess(h)
  PROVE  ExecInv'
<1>0. PICK x, m : x = call[h].run /\ m = call[h].target
  OBVIOUS
<1> DEFINE r == [status |-> "success", target |-> m]
           c == [call[h] EXCEPT !.pc = "settle"]
<1>1. /\ record' = [record EXCEPT ![x] = r] /\ call[h].pc = "log"
      /\ UNCHANGED <<effects, late>>
  BY <1>0 DEF LogSuccess, CallAt
<1>2. CallOK(h) /\ call[h] \in Call
  BY DEF ExecInv, CallInv, ExecTypeOK
<1>3. /\ x \in ExecIds /\ x # None /\ ~Recorded(x) /\ Complete(m, x)
      /\ m \in ExecIds
  BY <1>0, <1>1, <1>2, ExecutionAssumption DEF CallOK
<1>4. r \in Execution /\ r.target = m /\ r.status = "success"
  BY <1>3, NewExecution DEF Statuses
<1>5. \/ call[h].op = "execute" /\ x = m
      \/ call[h].op \in Indirect /\ IsMain(m) /\ x # m
  BY <1>0, <1>1, <1>2 DEF CallOK
<1>6. /\ c \in Call /\ c.pc = "settle" /\ c.op = call[h].op
      /\ c.target = m /\ c.run = x
  BY <1>0, <1>2 DEF Call
<1>7. \/ call[h].op = "execute" /\ call' = [call EXCEPT ![h] = NoCall]
      \/ call[h].op \in Indirect /\ call' = [call EXCEPT ![h] = c]
  BY <1>5 DEF LogSuccess, Ends, Becomes, Indirect
<1> HIDE DEF c
<1>8. /\ call' \in [Handlers -> Call]
      /\ call'[h] = IF call[h].op = "execute" THEN NoCall ELSE c
      /\ \A g \in Handlers \ {h} : call'[g] = call[g]
  BY <1>6, <1>7, NoCallIsCall DEF ExecInv, ExecTypeOK, Indirect
<1>9. /\ record' \in [ExecIds -> Execution \cup {None}]
      /\ record'[x] = r /\ Recorded(x)'
      /\ \A z \in ExecIds \ {x} : record'[z] = record[z]
      /\ \A z \in ExecIds : Recorded(z) => Recorded(z)' /\ record'[z].target = record[z].target
      /\ RecordInv'
      /\ SuccessComplete'
  <2> HIDE DEF r
  <2>1. r.target = x /\ r.status = "pending_confirmation" => NoEffects(x)
    BY <1>4
  <2>2. r.target # x => r.status = "success" /\ IsMain(r.target)
    BY <1>4, <1>5
  <2> QED BY <1>1, <1>3, <1>4, <2>1, <2>2, NewRow
<1>10. ExecTypeOK'
  BY <1>1, <1>8, <1>9 DEF ExecInv, ExecTypeOK
<1>11. ASSUME NEW g \in Handlers \ {h}
       PROVE  CallOK(g)'
  <2>1. call[g].target # x /\ call[g].run # x
    BY <1>0, <1>3 DEF ExecInv, Distinct
  <2>2. call'[g] = call[g] /\ ~StatusIs(x, "success")
    BY <1>3, <1>8 DEF StatusIs
  <2> HIDE DEF r
  <2> QED BY <1>1, <1>3, <1>9, <2>1, <2>2, OtherRow
<1>12. CallOK(h)'
  <2>1. CASE call[h].op = "execute"
    BY <1>8, <2>1, NoCallOK
  <2>2. CASE call[h].op \in Indirect
    <3>1. call'[h] = c
      BY <1>8, <2>2 DEF Indirect
    <3>2. IsMain(m)' /\ NoEffects(m)'
      BY <1>0, <1>1, <1>2, <1>3, <1>5, <1>9, <2>2 DEF IsMain, NoEffects, CallOK, Indirect
    <3>3. StatusIs(x, "success")' /\ record'[x].target = m /\ Complete(m, x)'
      BY <1>1, <1>3, <1>4, <1>9 DEF StatusIs, Complete
    <3>4. x # m
      BY <1>5, <2>2 DEF Indirect
    <3> HIDE DEF r
    <3> QED BY <1>3, <1>6, <2>2, <3>1, <3>2, <3>3, <3>4
            DEF CallOK, Recorded, IsMain, NoEffects, Complete, StatusIs
  <2> QED BY <1>5, <2>1, <2>2
<1>13. Distinct'
  <2>1. CASE call[h].op = "execute"
    BY <1>8, <2>1, EndsDistinct
  <2>2. CASE call[h].op \in Indirect
    <3>1. call'[h] = c
      BY <1>8, <2>2 DEF Indirect
    <3> QED BY <1>0, <1>1, <1>6, <1>8, <3>1 DEF ExecInv, Distinct
  <2> QED BY <1>5, <2>1, <2>2
<1> QED BY <1>9, <1>10, <1>11, <1>12, <1>13 DEF ExecInv, CallInv

LEMMA AsyncLogRunningStep ==
  ASSUME ExecInv, NEW h \in Handlers, NEW y \in ExecIds, AsyncLogRunning(h, y)
  PROVE  ExecInv'
<1>0. PICK x : x = call[h].target
  OBVIOUS
<1> DEFINE r == [status |-> "running", target |-> x]
           c == [call[h] EXCEPT !.pc = "act", !.run = y]
<1>1. /\ record' = [record EXCEPT ![x] = r] /\ call[h].pc = "start" /\ y \in FreshIds
      /\ call' = [call EXCEPT ![h] = c] /\ UNCHANGED <<effects, late>>
  BY <1>0 DEF AsyncLogRunning, CallAt
<1>2. CallOK(h) /\ call[h] \in Call
  BY DEF ExecInv, CallInv, ExecTypeOK
<1>3. /\ x \in ExecIds /\ x # None /\ ~Recorded(x) /\ NoEffects(x) /\ y # x
      /\ call[h].op = "async"
  BY <1>0, <1>1, <1>2, Fresh, ExecutionAssumption DEF CallOK
<1>4. r \in Execution /\ r.target = x /\ r.status = "running"
  BY <1>3, NewExecution DEF Statuses
<1>5. /\ c \in Call /\ c.pc = "act" /\ c.op = "async" /\ c.target = x /\ c.run = y
      /\ c.step = call[h].step
  BY <1>0, <1>2, <1>3 DEF Call
<1> HIDE DEF c
<1>6. /\ call' \in [Handlers -> Call] /\ call'[h] = c
      /\ \A g \in Handlers \ {h} : call'[g] = call[g]
  BY <1>1, <1>5, Slot DEF ExecInv
<1>7. /\ record' \in [ExecIds -> Execution \cup {None}]
      /\ record'[x] = r /\ Recorded(x)'
      /\ \A z \in ExecIds \ {x} : record'[z] = record[z]
      /\ \A z \in ExecIds : Recorded(z) => Recorded(z)' /\ record'[z].target = record[z].target
      /\ RecordInv'
      /\ SuccessComplete'
  <2> HIDE DEF r
  <2> QED BY <1>1, <1>3, <1>4, NewRow
<1>8. ExecTypeOK'
  BY <1>1, <1>6, <1>7 DEF ExecInv, ExecTypeOK
<1>9. ASSUME NEW g \in Handlers \ {h}
      PROVE  CallOK(g)'
  <2>1. call[g].target # x /\ (call[g].run # None => call[g].run # x)
    BY <1>0, <1>1 DEF ExecInv, Distinct
  <2>2. call'[g] = call[g] /\ ~StatusIs(x, "success") /\ call[g].run # x
    BY <1>3, <1>6, <2>1 DEF StatusIs
  <2> HIDE DEF r
  <2> QED BY <1>1, <1>3, <1>7, <2>1, <2>2, OtherRow
<1>10. CallOK(h)'
  <2>1. ~Recorded(y)' /\ y \in ExecIds
    BY <1>1, <1>3, <1>7, Fresh DEF Recorded
  <2>2. IsMain(x)' /\ NoEffects(x)'
    BY <1>1, <1>3, <1>4, <1>7 DEF IsMain, NoEffects
  <2>3. \A k \in Steps : ~(k < 0)
    BY StepZero
  <2>4. call[h].step = 0
    BY <1>0, <1>1, <1>2 DEF CallOK
  <2> HIDE DEF r
  <2> QED BY <1>3, <1>5, <1>6, <2>1, <2>2, <2>3, <2>4, StepZero
          DEF CallOK, Recorded, IsMain, NoEffects, Complete, Indirect
<1>11. Distinct'
  <2>1. \A g \in Handlers \ {h} : call[g].target # y /\ call[g].run # y
    BY <1>1, Fresh
  <2> QED BY <1>0, <1>1, <1>5, <1>6, <2>1 DEF ExecInv, Distinct
<1> QED BY <1>7, <1>8, <1>9, <1>10, <1>11 DEF ExecInv, CallInv

\* The last update of a handler: of a row it knows to be there, whose run it
\* recorded before if the row is to say success.
LEMMA ClosingStep ==
  ASSUME ExecInv, NEW h \in Handlers, NEW s \in Statuses \ {"pending_confirmation"},
         call[h].pc \in {"settle", "fail", "expire", "cancel"},
         s = "success" <=> call[h].pc = "settle",
         SetStatus(call[h].target, s), UNCHANGED <<effects, late>>,
         \/ Ends(h)
         \/ call' = [call EXCEPT ![h] = [@ EXCEPT !.pc = "fail", !.run = None]]
  PROVE  ExecInv'
<1>0. PICK x : x = call[h].target
  OBVIOUS
<1>1. CallOK(h) /\ call[h] \in Call
  BY DEF ExecInv, CallInv, ExecTypeOK
<1>2. x \in ExecIds /\ IsMain(x) /\ NoEffects(x) /\ Recorded(x)
  BY <1>0, <1>1 DEF CallOK, IsMain
<1>3. /\ record' \in [ExecIds -> Execution \cup {None}]
      /\ record'[x] = [status |-> s, target |-> x]
      /\ \A y \in ExecIds \ {x} : record'[y] = record[y]
  BY <1>0, <1>2, StatusChange DEF ExecInv, IsMain
<1>4. Recorded(x)'
  BY <1>2, <1>3, NewExecution, NoneIsNoExecution DEF Recorded
<1>5. \A z \in ExecIds : Recorded(z)' = Recorded(z)
                        /\ (Recorded(z) => record'[z].target = record[z].target)
  BY <1>2, <1>3, <1>4 DEF Recorded, IsMain
<1> DEFINE f == [call[h] EXCEPT !.pc = "fail", !.run = None]
<1>12. /\ f \in Call /\ f.pc = "fail" /\ f.op = call[h].op /\ f.run = None
       /\ f.target = x
  BY <1>0, <1>1 DEF Call
<1>13. call[h].op \in Indirect
  BY <1>1 DEF CallOK
<1>14. call' = [call EXCEPT ![h] = NoCall] \/ call' = [call EXCEPT ![h] = f]
  BY DEF Ends
<1> HIDE DEF f
<1>6. /\ call' \in [Handlers -> Call] /\ call'[h] \in {NoCall, f}
      /\ \A g \in Handlers \ {h} : call'[g] = call[g]
  BY <1>12, <1>14, NoCallIsCall DEF ExecInv, ExecTypeOK
<1>7. ExecTypeOK'
  BY <1>3, <1>6 DEF ExecInv, ExecTypeOK
<1>8. RecordInv'
  <2> SUFFICES ASSUME NEW z \in ExecIds, Recorded(z)
               PROVE  RowOK(z)'
    BY <1>5 DEF RecordInv
  <2>1. RowOK(z) /\ record[z].target \in ExecIds
    BY DEF ExecInv, RecordInv, ExecTypeOK, Recorded, Execution
  <2>2. IsMain(record[z].target)' /\ Recorded(z)'
    BY <1>5, <2>1 DEF RowOK, IsMain
  <2>3. CASE z = x
    BY <1>3, <2>2, <2>3 DEF RowOK
  <2>4. CASE z # x
    BY <1>3, <2>1, <2>2, <2>4 DEF RowOK, NoEffects
  <2> QED BY <2>3, <2>4
<1>9. ASSUME NEW g \in Handlers
      PROVE  CallOK(g)'
  <2>1. CASE g = h
    <3>1. CASE call'[h] = NoCall
      BY <2>1, <3>1, NoCallOK
    <3>2. CASE call'[h] = f
      BY <1>2, <1>3, <1>4, <1>12, <1>13, <2>1, <3>2, ExecutionAssumption
      DEF CallOK, Indirect, IsMain, Recorded, NoEffects
    <3> QED BY <1>6, <2>1, <3>1, <3>2
  <2>2. CASE g # h
    <3>1. CallOK(g) /\ call'[g] = call[g]
      BY <1>6, <2>2 DEF ExecInv, CallInv
    <3>2. \A z \in ExecIds \ {x} : StatusIs(z, "success")' = StatusIs(z, "success")
      BY <1>3 DEF StatusIs, Recorded
    <3>3. call[g].pc = "settle" => StatusIs(call[g].run, "success")'
      BY <1>2, <3>1, <3>2 DEF CallOK, IsMain
    <3> QED BY <1>5, <3>1, <3>3, OtherCall DEF CallOK, Recorded, NoEffects
  <2> QED BY <2>1, <2>2
<1>10. Distinct'
  <2>1. NoCall.run = None /\ NoCall.target = None /\ NoCall.pc = "idle"
    BY DEF NoCall
  <2>2. \A g \in Handlers : call[g].pc = "start" => call[g].target # None
    BY ExecutionAssumption DEF ExecInv, CallInv, CallOK
  <2> QED BY <1>0, <1>6, <1>12, <2>1, <2>2 DEF ExecInv, Distinct
<1>11. SuccessComplete'
  <2> SUFFICES ASSUME NEW z \in ExecIds, StatusIs(z, "success")'
               PROVE  \E y \in ExecIds : /\ StatusIs(y, "success")'
                                         /\ record'[y].target = record'[z].target
                                         /\ \A k \in Steps : [target |-> record'[z].target, run |-> y, step |-> k]
                                                               \in effects'
    BY DEF SuccessComplete, RunsOf, Complete
  <2>1. PICK y \in ExecIds : /\ StatusIs(y, "success")
                             /\ record[y].target = record'[z].target
                             /\ Complete(record'[z].target, y)
    <3>1. CASE z = x
      <4>1. call[h].pc = "settle"
        BY <1>3, <3>1 DEF StatusIs
      <4> QED BY <1>0, <1>1, <1>3, <3>1, <4>1 DEF CallOK
    <3>2. CASE z # x
      BY <1>3, <3>2 DEF ExecInv, SuccessComplete, StatusIs, Recorded, RunsOf, Complete
    <3> QED BY <3>1, <3>2
  <2>2. y # x
    BY <1>2, <2>1, CompleteActs
  <2> QED BY <1>3, <2>1, <2>2 DEF StatusIs, Recorded, Complete
<1> QED BY <1>7, <1>8, <1>9, <1>10, <1>11 DEF ExecInv, CallInv

----------------------------------------------------------------------------
(* The invariant.                                                          *)

LEMMA ExecInvInit == ExecInit => ExecInv
<1> SUFFICES ASSUME ExecInit
             PROVE  ExecInv
  OBVIOUS
<1>1. ExecTypeOK
  BY NoCallIsCall DEF ExecInit, ExecTypeOK
<1>2. RecordInv /\ SuccessComplete
  BY DEF ExecInit, RecordInv, SuccessComplete, StatusIs, Recorded
<1>3. CallInv
  BY DEF ExecInit, CallInv, CallOK, NoCall, Indirect
<1>4. Distinct
  BY DEF ExecInit, Distinct, NoCall
<1> QED BY <1>1, <1>2, <1>3, <1>4 DEF ExecInv

LEMMA ExecInvStep == ExecInv /\ [ExecNext]_execVars => ExecInv'
<1> SUFFICES ASSUME ExecInv, [ExecNext]_execVars
             PROVE  ExecInv'
  OBVIOUS
<1>1. ASSUME NEW h \in Handlers, Request(h)
      PROVE  ExecInv'
  BY <1>1, ExecuteBeginStep, AsyncBeginStep, ClosingReadStep, ConfirmReadStep DEF Request
<1>2. ASSUME NEW h \in Handlers, Continue(h)
      PROVE  ExecInv'
  <2>1. CASE LogPending(h)
    BY <2>1, LogPendingStep
  <2>2. CASE Act(h)
    BY <2>2, ActStep
  <2>3. CASE LogSuccess(h)
    BY <2>3, LogSuccessStep
  <2>4. CASE \E y \in ExecIds : AsyncLogRunning(h, y)
    BY <2>4, AsyncLogRunningStep
  <2>5. CASE Settle(h)
    BY <2>5, ClosingStep DEF Settle, CallAt, Statuses
  <2>6. CASE AsyncLogFailed(h)
    BY <2>6, ClosingStep DEF AsyncLogFailed, CallAt, Statuses
  <2>7. CASE LogExpired(h)
    BY <2>7, ClosingStep DEF LogExpired, CallAt, Statuses
  <2>8. CASE LogCancelled(h)
    BY <2>8, ClosingStep DEF LogCancelled, CallAt, Statuses
  <2> QED BY <1>2, <2>1, <2>2, <2>3, <2>4, <2>5, <2>6, <2>7, <2>8 DEF Continue
<1>3. ASSUME NEW h \in Handlers, HandlerStops(h)
      PROVE  ExecInv'
  BY <1>3, HandlerStopsStep DEF HandlerStops
<1>4. ASSUME NEW h \in Handlers, AsyncFails(h)
      PROVE  ExecInv'
  BY <1>4, AsyncFailsStep
<1>5. ASSUME NEW h \in Handlers, AsyncSettleUnanswered(h)
      PROVE  ExecInv'
  BY <1>5, ClosingStep DEF AsyncSettleUnanswered, CallAt, Statuses
<1>6. ASSUME NEW x \in ExecIds, WindowCloses(x)
      PROVE  ExecInv'
  BY <1>6, WindowClosesStep
<1>7. CASE UNCHANGED execVars
  BY <1>7 DEF execVars, ExecInv, ExecTypeOK, RecordInv, RowOK, IsMain, Recorded, NoEffects,
              CallInv, CallOK, Complete, StatusIs, Distinct, SuccessComplete, RunsOf
<1> QED BY <1>1, <1>2, <1>3, <1>4, <1>5, <1>6, <1>7 DEF ExecNext

\* Every reachable state satisfies the invariant, whatever the number of
\* handlers, executions and outputs, and whatever fails.
THEOREM Invariance == ExecSpec => []ExecInv
BY ExecInvInit, ExecInvStep, PTL DEF ExecSpec

\* The variables keep their types.
THEOREM ExecTyping == ExecSpec => []ExecTypeOK
<1>1. ExecInv => ExecTypeOK
  BY DEF ExecInv
<1> QED BY <1>1, Invariance, PTL

\* A record of success stands for a run that did every step: confirmations,
\* background tasks and direct actions record it only after the last write.
THEOREM SuccessIsComplete == ExecSpec => []SuccessComplete
<1>1. ExecInv => SuccessComplete
  BY DEF ExecInv
<1> QED BY <1>1, Invariance, PTL
----------------------------------------------------------------------------
(* The ledger.                                                             *)

\* Whom a run is for: the identifier it runs under, or a recorded execution;
\* and a handler at work has not yet taken the step it takes next.
EffectInv ==
  /\ \A e \in effects : e.run = e.target \/ IsMain(e.target)
  /\ \A h \in Handlers : call[h].pc = "act" =>
       \A e \in effects : e.run = call[h].run =>
         e.target = call[h].target /\ e.step < call[h].step

statusBar == [x \in ExecIds |-> StatusOf(x)]

runsBar == [x \in ExecIds |-> RunsOf(x)]

holdersBar == [x \in ExecIds |-> HoldersOf(x)]

bars == <<statusBar, runsBar, holdersBar, ReadyHandlers>>

LEMMA LedgerInit == ExecInit => EffectInv /\ Ledger!Init
<1> SUFFICES ASSUME ExecInit
             PROVE  EffectInv /\ Ledger!Init
  OBVIOUS
<1>1. \A x \in ExecIds : StatusOf(x) = "none"
  BY DEF ExecInit, StatusOf, Recorded
<1>2. \A x \in ExecIds : RunsOf(x) = {}
  BY StepZero DEF ExecInit, RunsOf
<1>3. \A x \in ExecIds : HoldersOf(x) = {}
  BY ExecutionAssumption DEF ExecInit, HoldersOf, NoCall
<1>4. ReadyHandlers = {} /\ EffectInv
  BY DEF ExecInit, ReadyHandlers, EffectInv, NoCall
<1> QED BY <1>1, <1>2, <1>3, <1>4 DEF Ledger!Init

\* Who holds an execution, and who may still run, after a step of one slot.
LEMMA Holding ==
  ASSUME ExecInv, NEW h \in Handlers, NEW c \in Call, call' = [call EXCEPT ![h] = c]
  PROVE  /\ \A z \in ExecIds : HoldersOf(z)' = IF c.target = z THEN HoldersOf(z) \cup {h}
                                                               ELSE HoldersOf(z) \ {h}
         /\ ReadyHandlers' = IF c.pc \in {"start", "act"} THEN ReadyHandlers \cup {h}
                                                          ELSE ReadyHandlers \ {h}
<1>1. call'[h] = c /\ \A g \in Handlers \ {h} : call'[g] = call[g]
  BY Slot DEF ExecInv
<1> QED BY <1>1 DEF HoldersOf, ReadyHandlers

\* The same for a handler that goes on with its execution, and one that ends.
LEMMA HoldingOn ==
  ASSUME ExecInv, NEW h \in Handlers, NEW c \in Call, call' = [call EXCEPT ![h] = c],
         c.target = call[h].target
  PROVE  holdersBar' = holdersBar
<1>1. \A z \in ExecIds : HoldersOf(z)' = HoldersOf(z)
  BY Holding DEF HoldersOf
<1> QED BY <1>1 DEF holdersBar

LEMMA LettingGo ==
  ASSUME ExecInv, NEW h \in Handlers, call' = [call EXCEPT ![h] = NoCall],
         NEW x \in ExecIds, call[h].target = x
  PROVE  /\ holdersBar' = [holdersBar EXCEPT ![x] = @ \ {h}]
         /\ ReadyHandlers' = ReadyHandlers \ {h}
<1>1. NoCall.target = None /\ NoCall.pc = "idle" /\ NoCall \in Call
  BY NoCallIsCall DEF NoCall
<1>2. /\ \A z \in ExecIds : HoldersOf(z)' = HoldersOf(z) \ {h}
      /\ ReadyHandlers' = ReadyHandlers \ {h}
  BY <1>1, ExecutionAssumption, Holding
<1>3. \A z \in ExecIds \ {x} : HoldersOf(z)' = HoldersOf(z)
  BY <1>2 DEF HoldersOf
<1> QED BY <1>2, <1>3 DEF holdersBar

\* A step that adds no effect and lets no handler start on a run that has some.
LEMMA EffectsStay ==
  ASSUME ExecInv, EffectInv, UNCHANGED effects,
         \A z : z \in ExecIds /\ IsMain(z) => IsMain(z)',
         NEW h \in Handlers, NEW c \in Call, call' = [call EXCEPT ![h] = c],
         c.pc = "act" => NoEffects(c.run)
  PROVE  EffectInv' /\ runsBar' = runsBar
<1>1. call'[h] = c /\ \A g \in Handlers \ {h} : call'[g] = call[g]
  BY Slot DEF ExecInv
<1>2. \A e \in effects : e.target \in ExecIds
  BY DEF ExecInv, ExecTypeOK
<1>3. EffectInv'
  BY <1>1, <1>2 DEF EffectInv, NoEffects
<1> QED BY <1>3 DEF runsBar, RunsOf

\* Nothing was done for an identifier that is not in use.
LEMMA UnusedRuns ==
  ASSUME ExecInv, EffectInv, NEW x \in FreshIds
  PROVE  RunsOf(x) = {} /\ StatusOf(x) = "none" /\ HoldersOf(x) = {}
<1>1. ~Recorded(x) /\ NoEffects(x) /\ \A g \in Handlers : call[g].target # x
  BY Fresh
<1>2. ASSUME NEW y \in RunsOf(x)
      PROVE  FALSE
  <2> DEFINE e == [target |-> x, run |-> y, step |-> 0]
  <2>1. e \in effects /\ e.target = x
    BY <1>2, StepZero DEF RunsOf
  <2>2. e.run = x \/ IsMain(x)
    BY <2>1 DEF EffectInv
  <2> QED BY <1>1, <2>1, <2>2 DEF IsMain, NoEffects
<1> QED BY <1>1, <1>2 DEF StatusOf, HoldersOf

LEMMA BeginLedger ==
  ASSUME ExecInv, EffectInv, NEW h \in Handlers, Request(h)
  PROVE  EffectInv' /\ Ledger!Next
<1>1. PICK x \in ExecIds, c \in Call :
        /\ call' = [call EXCEPT ![h] = c] /\ c.target = x
        /\ UNCHANGED <<record, effects>> /\ call[h] = NoCall
        /\ x \in FreshIds \/ StatusIs(x, "pending_confirmation")
        /\ c.pc = "act" => c.run \in FreshIds
  <2>1. PICK x \in ExecIds :
          \/ ExecuteBegin(h, x)
          \/ AsyncBegin(h, x)
          \/ ConfirmReadLate(h, x)
          \/ CancelRead(h, x)
          \/ \E y \in ExecIds : ConfirmRead(h, x, y)
    BY DEF Request
  <2>2. CASE ExecuteBegin(h, x)
    <3>1. PICK p \in {"pend", "act"} :
            call' = [call EXCEPT ![h] = [pc |-> p, op |-> "execute", target |-> x,
                                         run |-> x, step |-> 0]]
      BY <2>2 DEF ExecuteBegin
    <3>2. [pc |-> p, op |-> "execute", target |-> x, run |-> x, step |-> 0] \in Call
      BY CallKinds DEF ExecInv
    <3> QED BY <2>2, <3>1, <3>2 DEF ExecuteBegin
  <2>3. CASE AsyncBegin(h, x)
    <3> DEFINE c == [NoCall EXCEPT !.pc = "start", !.op = "async", !.target = x]
    <3>1. c \in Call
      BY CallKinds DEF ExecInv
    <3>2. c.pc = "start" /\ c.target = x
      BY DEF NoCall
    <3>3. call' = [call EXCEPT ![h] = c]
      BY <2>3 DEF AsyncBegin
    <3> HIDE DEF c
    <3> QED BY <2>3, <3>1, <3>2, <3>3 DEF AsyncBegin
  <2>4. CASE ConfirmReadLate(h, x)
    <3> DEFINE c == [NoCall EXCEPT !.pc = "expire", !.op = "confirm", !.target = x]
    <3>1. c \in Call
      BY CallKinds DEF ExecInv
    <3>2. c.pc = "expire" /\ c.target = x
      BY DEF NoCall
    <3>3. call' = [call EXCEPT ![h] = c]
      BY <2>4 DEF ConfirmReadLate
    <3> HIDE DEF c
    <3> QED BY <2>4, <3>1, <3>2, <3>3 DEF ConfirmReadLate
  <2>5. CASE CancelRead(h, x)
    <3> DEFINE c == [NoCall EXCEPT !.pc = "cancel", !.op = "cancel", !.target = x]
    <3>1. c \in Call
      BY CallKinds DEF ExecInv
    <3>2. c.pc = "cancel" /\ c.target = x
      BY DEF NoCall
    <3>3. call' = [call EXCEPT ![h] = c]
      BY <2>5 DEF CancelRead
    <3> HIDE DEF c
    <3> QED BY <2>5, <3>1, <3>2, <3>3 DEF CancelRead
  <2>6. ASSUME NEW y \in ExecIds, ConfirmRead(h, x, y)
        PROVE  \E c \in Call :
                 /\ call' = [call EXCEPT ![h] = c] /\ c.target = x
                 /\ UNCHANGED <<record, effects>> /\ call[h] = NoCall
                 /\ StatusIs(x, "pending_confirmation") /\ c.run \in FreshIds
    <3> DEFINE c == [pc |-> "act", op |-> "confirm", target |-> x, run |-> y, step |-> 0]
    <3>1. c \in Call
      BY CallKinds DEF ExecInv
    <3>2. c.run = y /\ c.target = x
      OBVIOUS
    <3>3. call' = [call EXCEPT ![h] = c]
      BY <2>6 DEF ConfirmRead
    <3> HIDE DEF c
    <3> QED BY <2>6, <3>1, <3>2, <3>3 DEF ConfirmRead
  <2>7. CASE \E y \in ExecIds : ConfirmRead(h, x, y)
    BY <2>6, <2>7
  <2> QED BY <2>1, <2>2, <2>3, <2>4, <2>5, <2>7
<1>2. EffectInv' /\ runsBar' = runsBar
  <2>1. \A z : IsMain(z) => IsMain(z)'
    BY <1>1 DEF IsMain, Recorded
  <2>2. c.pc = "act" => NoEffects(c.run)
    BY <1>1, Fresh
  <2> QED BY <1>1, <2>1, <2>2, EffectsStay
<1>3. statusBar' = statusBar
  BY <1>1 DEF statusBar, StatusOf, Recorded
<1>8. /\ \A z \in ExecIds : HoldersOf(z)' = IF x = z THEN HoldersOf(z) \cup {h}
                                                       ELSE HoldersOf(z) \ {h}
      /\ ReadyHandlers' = IF c.pc \in {"start", "act"} THEN ReadyHandlers \cup {h}
                                                       ELSE ReadyHandlers \ {h}
  <2>1. call' = [call EXCEPT ![h] = c] /\ c.target = x
    BY <1>1
  <2> QED BY <2>1, Holding
<1>4. /\ holdersBar' = [holdersBar EXCEPT ![x] = @ \cup {h}]
      /\ \A z \in ExecIds : h \notin holdersBar[z]
  <2>1. \A z \in ExecIds : h \notin HoldersOf(z)
    BY <1>1, ExecutionAssumption DEF HoldersOf, NoCall
  <2>2. \A z \in ExecIds : HoldersOf(z)' = IF z = x THEN HoldersOf(z) \cup {h} ELSE HoldersOf(z)
    BY <1>8, <2>1
  <2> QED BY <2>1, <2>2 DEF holdersBar
<1>5. ReadyHandlers' \in {ReadyHandlers, ReadyHandlers \cup {h}}
  <2>1. h \notin ReadyHandlers
    BY <1>1 DEF ReadyHandlers, NoCall
  <2> QED BY <1>8, <2>1
<1>6. \/ statusBar[x] = "pending_confirmation"
      \/ statusBar[x] = "none" /\ runsBar[x] = {} /\ holdersBar[x] = {}
  <2>1. CASE x \in FreshIds
    BY <2>1, UnusedRuns DEF statusBar, runsBar, holdersBar
  <2>2. CASE StatusIs(x, "pending_confirmation")
    BY <2>2, PendingRow DEF statusBar, StatusOf, StatusIs, IsMain
  <2> QED BY <1>1, <2>1, <2>2
<1>7. Ledger!Take(h, x)
  BY <1>2, <1>3, <1>4, <1>5, <1>6 DEF Ledger!Take, statusBar, runsBar, holdersBar
<1> QED BY <1>2, <1>7 DEF Ledger!Next

\* A handler that is lost, and a background task whose call raised.
LEMMA StopLedger ==
  ASSUME ExecInv, EffectInv, NEW h \in Handlers, call[h] # NoCall,
         UNCHANGED <<record, effects>>,
         Ends(h) \/ call' = [call EXCEPT ![h] = [@ EXCEPT !.pc = "fail", !.run = None]]
  PROVE  EffectInv' /\ Ledger!Next
<1> DEFINE f == [call[h] EXCEPT !.pc = "fail", !.run = None]
<1>1. PICK x : x = call[h].target
  OBVIOUS
<1>2. CallOK(h) /\ call[h] \in Call
  BY DEF ExecInv, CallInv, ExecTypeOK
<1>3. x \in ExecIds
  BY <1>1, <1>2 DEF CallOK
<1>4. f \in Call /\ f.pc = "fail" /\ f.target = x
  BY <1>1, <1>2 DEF Call
<1>5. call' = [call EXCEPT ![h] = NoCall] \/ call' = [call EXCEPT ![h] = f]
  BY DEF Ends
<1> HIDE DEF f
<1>6. \A z : IsMain(z) => IsMain(z)'
  BY DEF IsMain, Recorded
<1>7. NoCall.pc = "idle" /\ NoCall \in Call
  BY NoCallIsCall DEF NoCall
<1>8. EffectInv' /\ runsBar' = runsBar
  <2>1. CASE call' = [call EXCEPT ![h] = NoCall]
    BY <1>6, <1>7, <2>1, EffectsStay
  <2>2. CASE call' = [call EXCEPT ![h] = f]
    BY <1>4, <1>6, <2>2, EffectsStay
  <2> QED BY <1>5, <2>1, <2>2
<1>9. statusBar' = statusBar
  BY DEF statusBar, StatusOf, Recorded
<1>10. /\ holdersBar' \in {holdersBar, [holdersBar EXCEPT ![x] = @ \ {h}]}
       /\ ReadyHandlers' = ReadyHandlers \ {h}
  <2>1. CASE call' = [call EXCEPT ![h] = NoCall]
    BY <1>1, <1>3, <2>1, LettingGo
  <2>2. CASE call' = [call EXCEPT ![h] = f]
    BY <1>1, <1>4, <2>2, HoldingOn, Holding
  <2> QED BY <1>5, <2>1, <2>2
<1>11. h \in holdersBar[x]
  BY <1>1, <1>3 DEF holdersBar, HoldersOf
<1>12. Ledger!GiveUp(h, x)
  BY <1>8, <1>9, <1>10, <1>11 DEF Ledger!GiveUp, statusBar, runsBar, holdersBar
<1> QED BY <1>3, <1>8, <1>12 DEF Ledger!Next

\* The step of a run that is not its last stutters; its last makes the run
\* complete, for the execution of its handler and no other.
LEMMA ActLedger ==
  ASSUME ExecInv, EffectInv, NEW h \in Handlers, Act(h)
  PROVE  EffectInv' /\ (Ledger!Next \/ UNCHANGED bars)
<1>0. PICK x, y, n : x = call[h].target /\ y = call[h].run /\ n = call[h].step
  OBVIOUS
<1> DEFINE e == [target |-> x, run |-> y, step |-> n]
           p == IF n = Outputs THEN "log" ELSE "act"
           c == [call[h] EXCEPT !.step = @ + 1, !.pc = p]
<1>1. /\ call' = [call EXCEPT ![h] = c] /\ UNCHANGED <<record, late>>
      /\ effects' = effects \cup {e} /\ call[h].pc = "act"
  BY <1>0 DEF Act, CallAt, StepOf
<1>2. CallOK(h) /\ call[h] \in Call /\ Outputs \in Nat
  BY ExecutionAssumption DEF ExecInv, CallInv, ExecTypeOK
<1>3. /\ x \in ExecIds /\ y \in ExecIds /\ y # None /\ n \in Steps /\ n \in Nat
      /\ y = x \/ IsMain(x)
  BY <1>0, <1>1, <1>2, ExecutionAssumption, StepZero DEF CallOK, Indirect
<1>4. c \in Call /\ c.pc = p /\ c.target = x /\ c.run = y /\ c.step = n + 1
  <2>1. p \in {"act", "log"} /\ n + 1 \in 0..(Outputs + 1)
    BY <1>2, <1>3 DEF Steps
  <2> HIDE DEF p
  <2> QED BY <1>0, <1>2, <2>1 DEF Call
<1> HIDE DEF c
<1>5. call'[h] = c /\ \A g \in Handlers \ {h} : call'[g] = call[g]
  BY <1>1, <1>4, Slot DEF ExecInv
<1>6. e.target = x /\ e.run = y /\ e.step = n
  OBVIOUS
<1>7. \A d \in effects : d.run = y => d.target = x /\ d.step < n
  BY <1>0, <1>1 DEF EffectInv
<1>8. EffectInv'
  <2> HIDE DEF e
  <2>1. \A d \in effects' : d.run = d.target \/ IsMain(d.target)'
    BY <1>1, <1>3, <1>6 DEF EffectInv, IsMain, Recorded
  <2>2. ASSUME NEW d \in effects', d.run = y
        PROVE  d.target = x /\ d.step < n + 1
    <3>1. CASE d \in effects
      <4>1. d.target = x /\ d.step < n /\ d.step \in Nat
        BY <1>7, <2>2, <3>1, StepZero DEF ExecInv, ExecTypeOK
      <4> QED BY <1>3, <4>1
    <3>2. CASE d = e
      BY <1>3, <1>6, <3>2
    <3> QED BY <1>1, <3>1, <3>2
  <2>3. ASSUME NEW g \in Handlers \ {h}, call[g].pc = "act",
               NEW d \in effects', d.run = call[g].run
        PROVE  d.target = call[g].target /\ d.step < call[g].step
    <3>1. call[g].run # y
      BY <1>0, <1>3 DEF ExecInv, Distinct
    <3> QED BY <1>1, <1>6, <2>3, <3>1 DEF EffectInv
  <2> QED BY <1>4, <1>5, <2>1, <2>2, <2>3 DEF EffectInv
<1>9. statusBar' = statusBar /\ holdersBar' = holdersBar
  BY <1>0, <1>1, <1>4, HoldingOn DEF statusBar, StatusOf, Recorded
<1>10. \A z \in ExecIds : y \notin RunsOf(z)
  <2> SUFFICES ASSUME NEW z \in ExecIds, y \in RunsOf(z)
               PROVE  FALSE
    OBVIOUS
  <2> DEFINE d == [target |-> z, run |-> y, step |-> n]
  <2>1. d \in effects /\ d.run = y /\ d.step = n
    BY <1>3 DEF RunsOf
  <2> HIDE DEF d
  <2> QED BY <1>3, <1>7, <2>1
<1>11. \A z, u \in ExecIds : z # x \/ u # y => (u \in RunsOf(z)' <=> u \in RunsOf(z))
  BY <1>1 DEF RunsOf
<1>12. CASE n = Outputs
  <2>1. c.pc = "log"
    BY <1>4, <1>12
  <2>2. ReadyHandlers' = ReadyHandlers \ {h} /\ h \in ReadyHandlers
    BY <1>1, <1>4, <2>1, Holding DEF ReadyHandlers
  <2>3. y \in RunsOf(x)'
    <3> SUFFICES ASSUME NEW k \in Steps
                 PROVE  [target |-> x, run |-> y, step |-> k] \in effects'
      BY <1>3 DEF RunsOf
    <3>1. CASE k = n
      BY <1>1, <3>1
    <3>2. CASE k # n
      <4>1. k < n
        BY <1>2, <1>3, <1>12, <3>2, StepZero
      <4> QED BY <1>0, <1>1, <1>2, <4>1 DEF CallOK
    <3> QED BY <3>1, <3>2
  <2>4. /\ RunsOf(x)' = RunsOf(x) \cup {y}
        /\ \A z \in ExecIds \ {x} : RunsOf(z)' = RunsOf(z)
    <3>1. \A z \in ExecIds : RunsOf(z) \subseteq ExecIds /\ RunsOf(z)' \subseteq ExecIds
      BY DEF RunsOf
    <3>2. \A z \in ExecIds \ {x} : RunsOf(z)' = RunsOf(z)
      BY <1>11, <3>1
    <3> QED BY <1>3, <1>11, <2>3, <3>1, <3>2
  <2>5. runsBar' = [runsBar EXCEPT ![x] = @ \cup {y}]
    BY <1>3, <2>4 DEF runsBar
  <2>6. h \in holdersBar[x] /\ \A z \in ExecIds : y \notin runsBar[z]
    BY <1>0, <1>3, <1>10 DEF holdersBar, HoldersOf, runsBar
  <2>7. Ledger!Run(h, x, y)
    BY <1>9, <2>2, <2>5, <2>6 DEF Ledger!Run, statusBar, runsBar, holdersBar
  <2> QED BY <1>3, <1>8, <2>7 DEF Ledger!Next
<1>13. CASE n # Outputs
  <2>1. c.pc = "act"
    BY <1>4, <1>13
  <2>2. ReadyHandlers' = ReadyHandlers
    BY <1>1, <1>4, <2>1, Holding DEF ReadyHandlers
  <2>3. y \notin RunsOf(x)'
    <3> DEFINE d == [target |-> x, run |-> y, step |-> Outputs]
    <3>1. d.run = y /\ d.step = Outputs /\ Outputs \in Steps
      BY <1>2 DEF Steps
    <3>2. d # e
      BY <1>6, <1>13, <3>1
    <3>3. d \notin effects
      <4> HIDE DEF d
      <4> QED BY <1>2, <1>3, <1>7, <3>1, StepZero
    <3> HIDE DEF e
    <3> QED BY <1>1, <3>1, <3>2, <3>3 DEF RunsOf
  <2>4. \A z \in ExecIds : RunsOf(z)' = RunsOf(z)
    <3>1. \A z \in ExecIds : RunsOf(z) \subseteq ExecIds /\ RunsOf(z)' \subseteq ExecIds
      BY DEF RunsOf
    <3>2. y \notin RunsOf(x)
      BY <1>3, <1>10
    <3> QED BY <1>11, <2>3, <3>1, <3>2
  <2> QED BY <1>8, <1>9, <2>2, <2>4 DEF bars, runsBar
<1> QED BY <1>12, <1>13

\* A handler that writes its execution's row, and goes on or ends.
LEMMA WriteLedger ==
  ASSUME ExecInv, EffectInv, UNCHANGED effects,
         \A z : z \in ExecIds /\ IsMain(z) => IsMain(z)',
         NEW h \in Handlers, NEW x \in ExecIds, call[h].target = x,
         \/ call' = [call EXCEPT ![h] = NoCall] /\ call[h].pc \notin {"start", "act"}
         \/ \E c \in Call : /\ call' = [call EXCEPT ![h] = c] /\ c.target = x
                            /\ c.pc \in {"start", "act"} <=> call[h].pc \in {"start", "act"}
                            /\ c.pc = "act" => NoEffects(c.run),
         NEW s \in Statuses, statusBar' = [statusBar EXCEPT ![x] = s],
         \/ s \in Ledger!Open /\ StatusOf(x) = "none"
         \/ s = "success" /\ RunsOf(x) # {}
         \/ s \in {"failed", "cancelled", "expired"} /\ StatusOf(x) # "none"
  PROVE  EffectInv' /\ Ledger!Next
<1>1. /\ EffectInv' /\ runsBar' = runsBar
      /\ holdersBar' \in {holdersBar, [holdersBar EXCEPT ![x] = @ \ {h}]}
      /\ ReadyHandlers' = ReadyHandlers
  <2>1. CASE call' = [call EXCEPT ![h] = NoCall] /\ call[h].pc \notin {"start", "act"}
    <3>1. NoCall.pc = "idle" /\ NoCall \in Call
      BY NoCallIsCall DEF NoCall
    <3>2. EffectInv' /\ runsBar' = runsBar
      BY <2>1, <3>1, EffectsStay
    <3>3. holdersBar' = [holdersBar EXCEPT ![x] = @ \ {h}] /\ ReadyHandlers' = ReadyHandlers \ {h}
      BY <2>1, LettingGo
    <3>4. h \notin ReadyHandlers
      BY <2>1 DEF ReadyHandlers
    <3> QED BY <3>2, <3>3, <3>4
  <2>2. ASSUME NEW c \in Call, call' = [call EXCEPT ![h] = c], c.target = x,
               c.pc \in {"start", "act"} <=> call[h].pc \in {"start", "act"},
               c.pc = "act" => NoEffects(c.run)
        PROVE  EffectInv' /\ runsBar' = runsBar /\ holdersBar' = holdersBar
               /\ ReadyHandlers' = ReadyHandlers
    <3>1. EffectInv' /\ runsBar' = runsBar
      BY <2>2, EffectsStay
    <3>2. holdersBar' = holdersBar
      BY <2>2, HoldingOn
    <3>3. ReadyHandlers' = ReadyHandlers
      BY <2>2, Holding DEF ReadyHandlers
    <3> QED BY <3>1, <3>2, <3>3
  <2> QED BY <2>1, <2>2
<1>2. h \in holdersBar[x] /\ statusBar[x] = StatusOf(x) /\ runsBar[x] = RunsOf(x)
  BY DEF holdersBar, HoldersOf, statusBar, runsBar
<1>3. Ledger!Write(h, x, s)
  BY <1>1, <1>2 DEF Ledger!Write, statusBar, runsBar, holdersBar
<1>4. s \in Ledger!Open \cup {"success", "failed", "cancelled", "expired"}
  OBVIOUS
<1> QED BY <1>1, <1>3, <1>4 DEF Ledger!Next

\* What a user reads once a row is added, and once one is updated.
LEMMA NewRowStatus ==
  ASSUME ExecInv, NEW x \in ExecIds, ~Recorded(x), NEW r \in Execution,
         record' = [record EXCEPT ![x] = r]
  PROVE  /\ r.target = x => statusBar' = [statusBar EXCEPT ![x] = r.status]
         /\ r.target # x => statusBar' = statusBar
         /\ \A z : z \in ExecIds /\ IsMain(z) => IsMain(z)'
         /\ StatusOf(x) = "none"
<1>1. record'[x] = r /\ \A z \in ExecIds \ {x} : record'[z] = record[z]
  BY DEF ExecInv, ExecTypeOK
<1>2. Recorded(x)' /\ \A z \in ExecIds \ {x} : Recorded(z)' = Recorded(z)
  BY <1>1, NoneIsNoExecution DEF Recorded
<1>3. StatusOf(x) = "none" /\ \A z \in ExecIds \ {x} : StatusOf(z)' = StatusOf(z)
  BY <1>1, <1>2 DEF StatusOf
<1>4. StatusOf(x)' = IF r.target = x THEN r.status ELSE "none"
  BY <1>1, <1>2 DEF StatusOf
<1>5. \A z : z \in ExecIds /\ IsMain(z) => IsMain(z)'
  BY <1>1, <1>2 DEF IsMain
<1> QED BY <1>3, <1>4, <1>5 DEF statusBar

LEMMA UpdatedStatus ==
  ASSUME ExecInv, NEW x \in ExecIds, IsMain(x), NEW s \in Statuses, SetStatus(x, s)
  PROVE  /\ statusBar' = [statusBar EXCEPT ![x] = s]
         /\ \A z : z \in ExecIds /\ IsMain(z) => IsMain(z)'
         /\ StatusOf(x) # "none"
<1>1. /\ record'[x] = [status |-> s, target |-> x]
      /\ \A z \in ExecIds \ {x} : record'[z] = record[z]
  BY StatusChange DEF ExecInv, IsMain
<1>2. Recorded(x)' /\ \A z \in ExecIds \ {x} : Recorded(z)' = Recorded(z)
  BY <1>1, NewExecution, NoneIsNoExecution DEF Recorded
<1>3. StatusOf(x)' = s /\ \A z \in ExecIds \ {x} : StatusOf(z)' = StatusOf(z)
  BY <1>1, <1>2 DEF StatusOf
<1>4. \A z : z \in ExecIds /\ IsMain(z) => IsMain(z)'
  BY <1>1, <1>2 DEF IsMain
<1>5. StatusOf(x) # "none"
  BY DEF ExecInv, ExecTypeOK, IsMain, Recorded, StatusOf, Execution, Statuses
<1> QED BY <1>3, <1>4, <1>5 DEF statusBar

LEMMA LogPendingLedger ==
  ASSUME ExecInv, EffectInv, NEW h \in Handlers, LogPending(h)
  PROVE  EffectInv' /\ Ledger!Next
<1>0. PICK x : x = call[h].target
  OBVIOUS
<1> DEFINE r == [status |-> "pending_confirmation", target |-> x]
<1>1. /\ record' = [record EXCEPT ![x] = r] /\ call[h].pc = "pend"
      /\ call' = [call EXCEPT ![h] = NoCall] /\ UNCHANGED <<effects, late>>
  BY <1>0 DEF LogPending, CallAt, Ends
<1>2. x \in ExecIds /\ ~Recorded(x)
  BY <1>0, <1>1 DEF ExecInv, CallInv, CallOK
<1>3. r \in Execution /\ r.target = x /\ r.status = "pending_confirmation"
  BY <1>2, NewExecution DEF Statuses
<1> HIDE DEF r
<1>4. /\ statusBar' = [statusBar EXCEPT ![x] = "pending_confirmation"]
      /\ \A z : z \in ExecIds /\ IsMain(z) => IsMain(z)'
      /\ StatusOf(x) = "none"
  BY <1>1, <1>2, <1>3, NewRowStatus
<1>5. "pending_confirmation" \in Statuses /\ "pending_confirmation" \in Ledger!Open
  BY DEF Statuses, Ledger!Open
<1> QED BY <1>0, <1>1, <1>2, <1>4, <1>5, WriteLedger

LEMMA AsyncLogRunningLedger ==
  ASSUME ExecInv, EffectInv, NEW h \in Handlers, NEW y \in ExecIds, AsyncLogRunning(h, y)
  PROVE  EffectInv' /\ Ledger!Next
<1>0. PICK x : x = call[h].target
  OBVIOUS
<1> DEFINE r == [status |-> "running", target |-> x]
           c == [call[h] EXCEPT !.pc = "act", !.run = y]
<1>1. /\ record' = [record EXCEPT ![x] = r] /\ call[h].pc = "start" /\ y \in FreshIds
      /\ call' = [call EXCEPT ![h] = c] /\ UNCHANGED <<effects, late>>
  BY <1>0 DEF AsyncLogRunning, CallAt
<1>2. x \in ExecIds /\ ~Recorded(x) /\ call[h] \in Call
  BY <1>0, <1>1 DEF ExecInv, ExecTypeOK, CallInv, CallOK
<1>3. r \in Execution /\ r.target = x /\ r.status = "running"
  BY <1>2, NewExecution DEF Statuses
<1>4. c \in Call /\ c.pc = "act" /\ c.target = x /\ c.run = y
  BY <1>0, <1>2 DEF Call
<1> HIDE DEF r, c
<1>5. /\ statusBar' = [statusBar EXCEPT ![x] = "running"]
      /\ \A z : z \in ExecIds /\ IsMain(z) => IsMain(z)'
      /\ StatusOf(x) = "none"
  BY <1>1, <1>2, <1>3, NewRowStatus
<1>6. "running" \in Statuses /\ "running" \in Ledger!Open
  BY DEF Statuses, Ledger!Open
<1>7. NoEffects(y)
  BY <1>1, Fresh
<1>8. \E d \in Call : /\ call' = [call EXCEPT ![h] = d] /\ d.target = x
                      /\ d.pc \in {"start", "act"} <=> call[h].pc \in {"start", "act"}
                      /\ d.pc = "act" => NoEffects(d.run)
  BY <1>1, <1>4, <1>7
<1> QED BY <1>0, <1>1, <1>2, <1>5, <1>6, <1>8, WriteLedger

\* The row of a direct run is what its user reads; that of another run is not.
LEMMA LogSuccessLedger ==
  ASSUME ExecInv, EffectInv, NEW h \in Handlers, LogSuccess(h)
  PROVE  EffectInv' /\ (Ledger!Next \/ UNCHANGED bars)
<1>0. PICK y, x : y = call[h].run /\ x = call[h].target
  OBVIOUS
<1> DEFINE r == [status |-> "success", target |-> x]
           c == [call[h] EXCEPT !.pc = "settle"]
<1>1. /\ record' = [record EXCEPT ![y] = r] /\ call[h].pc = "log"
      /\ UNCHANGED <<effects, late>>
  BY <1>0 DEF LogSuccess, CallAt
<1>2. CallOK(h) /\ call[h] \in Call
  BY DEF ExecInv, CallInv, ExecTypeOK
<1>3. x \in ExecIds /\ y \in ExecIds /\ ~Recorded(y) /\ Complete(x, y)
  BY <1>0, <1>1, <1>2 DEF CallOK
<1>4. r \in Execution /\ r.target = x /\ r.status = "success"
  BY <1>3, NewExecution DEF Statuses
<1>5. c \in Call /\ c.pc = "settle" /\ c.target = x
  BY <1>0, <1>2 DEF Call
<1> HIDE DEF r, c
<1>6. /\ x = y => statusBar' = [statusBar EXCEPT ![y] = "success"]
      /\ x # y => statusBar' = statusBar
      /\ \A z : z \in ExecIds /\ IsMain(z) => IsMain(z)'
  BY <1>1, <1>3, <1>4, NewRowStatus
<1>7. CASE call[h].op = "execute"
  <2>1. y = x /\ call' = [call EXCEPT ![h] = NoCall]
    BY <1>0, <1>1, <1>2, <1>7 DEF CallOK, LogSuccess, Ends, Indirect
  <2>2. RunsOf(x) # {} /\ "success" \in Statuses
    BY <1>3 DEF RunsOf, Complete, Statuses
  <2> QED BY <1>0, <1>1, <1>3, <1>6, <2>1, <2>2, WriteLedger
<1>8. CASE call[h].op \in Indirect
  <2>1. x # y /\ call' = [call EXCEPT ![h] = c]
    BY <1>0, <1>2, <1>8 DEF CallOK, LogSuccess, Becomes, Indirect, c
  <2>2. EffectInv' /\ runsBar' = runsBar
    BY <1>1, <1>5, <1>6, <2>1, EffectsStay
  <2>3. holdersBar' = holdersBar
    BY <1>0, <1>5, <2>1, HoldingOn
  <2>4. ReadyHandlers' = ReadyHandlers
    BY <1>1, <1>5, <2>1, Holding DEF ReadyHandlers
  <2> QED BY <1>6, <2>1, <2>2, <2>3, <2>4 DEF bars
<1> QED BY <1>1, <1>2, <1>7, <1>8 DEF CallOK

\* The last update of a handler.
LEMMA ClosingLedger ==
  ASSUME ExecInv, EffectInv, NEW h \in Handlers,
         NEW s \in {"success", "failed", "expired", "cancelled"},
         call[h].pc \in {"settle", "fail", "expire", "cancel"},
         s = "success" <=> call[h].pc = "settle",
         SetStatus(call[h].target, s), UNCHANGED <<effects, late>>,
         \/ Ends(h)
         \/ call' = [call EXCEPT ![h] = [@ EXCEPT !.pc = "fail", !.run = None]]
  PROVE  EffectInv' /\ Ledger!Next
<1>0. PICK x : x = call[h].target
  OBVIOUS
<1> DEFINE f == [call[h] EXCEPT !.pc = "fail", !.run = None]
<1>1. CallOK(h) /\ call[h] \in Call /\ s \in Statuses
  BY DEF ExecInv, CallInv, ExecTypeOK, Statuses
<1>2. x \in ExecIds /\ IsMain(x)
  BY <1>0, <1>1 DEF CallOK
<1>3. f \in Call /\ f.pc = "fail" /\ f.target = x
  BY <1>0, <1>1 DEF Call
<1>4. \/ call' = [call EXCEPT ![h] = NoCall]
      \/ call' = [call EXCEPT ![h] = f]
  BY DEF Ends
<1> HIDE DEF f
<1>5. /\ statusBar' = [statusBar EXCEPT ![x] = s]
      /\ \A z : z \in ExecIds /\ IsMain(z) => IsMain(z)'
      /\ StatusOf(x) # "none"
  BY <1>0, <1>1, <1>2, UpdatedStatus
<1>6. s = "success" => RunsOf(x) # {}
  BY <1>0, <1>1 DEF CallOK, RunsOf, Complete
<1>7. \/ call' = [call EXCEPT ![h] = NoCall] /\ call[h].pc \notin {"start", "act"}
      \/ \E c \in Call : /\ call' = [call EXCEPT ![h] = c] /\ c.target = x
                         /\ c.pc \in {"start", "act"} <=> call[h].pc \in {"start", "act"}
                         /\ c.pc = "act" => NoEffects(c.run)
  BY <1>3, <1>4
<1>8. \/ s = "success" /\ RunsOf(x) # {}
      \/ s \in {"failed", "cancelled", "expired"} /\ StatusOf(x) # "none"
  BY <1>5, <1>6
<1> QED BY <1>0, <1>1, <1>2, <1>5, <1>7, <1>8, WriteLedger

LEMMA LedgerStep ==
  ExecInv /\ EffectInv /\ [ExecNext]_execVars => EffectInv' /\ [Ledger!Next]_bars
<1> SUFFICES ASSUME ExecInv, EffectInv, [ExecNext]_execVars
             PROVE  EffectInv' /\ (Ledger!Next \/ UNCHANGED bars)
  OBVIOUS
<1>1. ASSUME NEW h \in Handlers, Request(h)
      PROVE  EffectInv' /\ Ledger!Next
  BY <1>1, BeginLedger
<1>2. ASSUME NEW h \in Handlers, Continue(h)
      PROVE  EffectInv' /\ (Ledger!Next \/ UNCHANGED bars)
  <2>1. CASE LogPending(h)
    BY <2>1, LogPendingLedger
  <2>2. CASE Act(h)
    BY <2>2, ActLedger
  <2>3. CASE LogSuccess(h)
    BY <2>3, LogSuccessLedger
  <2>4. CASE \E y \in ExecIds : AsyncLogRunning(h, y)
    BY <2>4, AsyncLogRunningLedger
  <2>5. CASE Settle(h)
    BY <2>5, ClosingLedger DEF Settle, CallAt
  <2>6. CASE AsyncLogFailed(h)
    BY <2>6, ClosingLedger DEF AsyncLogFailed, CallAt
  <2>7. CASE LogExpired(h)
    BY <2>7, ClosingLedger DEF LogExpired, CallAt
  <2>8. CASE LogCancelled(h)
    BY <2>8, ClosingLedger DEF LogCancelled, CallAt
  <2> QED BY <1>2, <2>1, <2>2, <2>3, <2>4, <2>5, <2>6, <2>7, <2>8 DEF Continue
<1>3. ASSUME NEW h \in Handlers, HandlerStops(h)
      PROVE  EffectInv' /\ Ledger!Next
  BY <1>3, StopLedger DEF HandlerStops
<1>4. ASSUME NEW h \in Handlers, AsyncFails(h)
      PROVE  EffectInv' /\ Ledger!Next
  <2>1. /\ call[h].pc # "idle" /\ UNCHANGED <<record, effects>>
        /\ call' = [call EXCEPT ![h] = [@ EXCEPT !.pc = "fail", !.run = None]]
    BY <1>4 DEF AsyncFails
  <2>2. call[h] # NoCall
    BY <2>1 DEF NoCall
  <2> QED BY <2>1, <2>2, StopLedger
<1>5. ASSUME NEW h \in Handlers, AsyncSettleUnanswered(h)
      PROVE  EffectInv' /\ Ledger!Next
  <2>1. /\ call[h].pc = "settle" /\ SetStatus(call[h].target, "success")
        /\ UNCHANGED <<effects, late>>
        /\ call' = [call EXCEPT ![h] = [@ EXCEPT !.pc = "fail", !.run = None]]
    BY <1>5 DEF AsyncSettleUnanswered, CallAt
  <2> QED BY <2>1, ClosingLedger
<1>6. CASE (\E x \in ExecIds : WindowCloses(x)) \/ UNCHANGED execVars
  BY <1>6 DEF WindowCloses, execVars, EffectInv, IsMain, Recorded, bars, statusBar, runsBar,
              holdersBar, StatusOf, RunsOf, HoldersOf, ReadyHandlers
<1> QED BY <1>1, <1>2, <1>3, <1>4, <1>5, <1>6 DEF ExecNext

\* The executions table keeps the promise of ExecutionLedger however requests
\* overlap and whatever fails: a handler that read an execution as pending may
\* still run it, once; nobody else runs it, and what is decided and at rest
\* stays so.
THEOREM LedgerImplemented == ExecSpec => LedgerKept
<1>1. ExecInit => EffectInv /\ Ledger!Init
  BY LedgerInit
<1>2. ExecInv /\ EffectInv /\ [ExecNext]_execVars => EffectInv' /\ [Ledger!Next]_bars
  BY LedgerStep
<1>3. ExecSpec => []ExecInv
  BY Invariance
<1> QED
  BY <1>1, <1>2, <1>3, PTL
  DEF ExecSpec, LedgerKept, Ledger!Spec, bars, statusBar, runsBar, holdersBar

=============================================================================
