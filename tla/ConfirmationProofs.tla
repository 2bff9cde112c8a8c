------------------------- MODULE ConfirmationProofs -------------------------
(***************************************************************************)
(* The provider is called only on behalf of a plan whose confirmation the  *)
(* calling handler has written and locked, and what plan and run report of *)
(* an execution is what the ledger says.                                   *)
(***************************************************************************)
EXTENDS SagaProofs

ExecutionLabel == {"touch_run", "load_ledger", "execute"}

\* What an ending or a selection may not bring in.
NotConfirmed(row) == row.status # "confirmed"

LEMMA SelectionNotConfirmed ==
  ASSUME NEW row \in PlanRow, NEW loaded \in PlanRow, NEW isTarget \in BOOLEAN,
         NotConfirmed(row), NotConfirmed(loaded)
  PROVE  NotConfirmed(FlushSelection(row, loaded, isTarget))
<1>1. SelectedRow(loaded, isTarget).status # "confirmed"
  BY DEF SelectedRow, PlanRow, NotConfirmed
<1>2. SelectedRow(loaded, isTarget) \in PlanRow
  BY SelectedRowType
<1> QED
  BY <1>1, <1>2 DEF FlushSelection, PlanRow, NotConfirmed

LEMMA DecisionRows ==
  ASSUME NEW row \in PlanRow, NEW loaded \in PlanRow
  PROVE  /\ ConfirmedRow(row, loaded).status = "confirmed"
         /\ ConfirmedRow(row, loaded).decision = "confirmed"
         /\ DeclinedRow(row, loaded).status = "declined"
BY DEF ConfirmedRow, DeclinedRow, FlushDocument, PlanRow

LEMMA OutcomeNotConfirmed ==
  ASSUME NEW row \in PlanRow, NEW outcome \in Seq(ActionStatus)
  PROVE  NotConfirmed(FeedbackRow(ExecutedRow(row, outcome)))
<1>1. PlanStatusOf(ExecutionOf(outcome)) # "confirmed"
  BY DEF ExecutionOf, PlanStatusOf
<1> QED
  BY <1>1 DEF NotConfirmed, FeedbackRow, ExecutedRow, PlanRow

----------------------------------------------------------------------------
(* A session that is not executing a confirmed plan holds none *)

LEMMA NothingConfirmed ==
  ASSUME ConfirmationLocked, NEW r \in Request,
         pc[r] \notin ExecutionLabel \/ kind[r] # "confirm",
         NEW p \in Plan
  PROVE  NotConfirmed(seen[r][p])
BY DEF ConfirmationLocked, ExecutionLabel, NotConfirmed

\* A step of r whose session holds no confirmed row, before and after, and
\* that takes no row another holds.
Harmless(r) ==
  /\ pc'[r] \notin ExecutionLabel \/ kind'[r] # "confirm"
  /\ pc'[r] \notin {"load_ledger", "execute"}
  /\ \A p \in Plan : NotConfirmed(plan'[p]) /\ NotConfirmed(seen'[r][p])
  /\ \A o \in Request \ {r} :
       /\ pc'[o] = pc[o] /\ kind'[o] = kind[o]
       /\ target'[o] = target[o] /\ seen'[o] = seen[o]
       /\ \A p \in Plan : lock[p] = o => lock'[p] = o

LEMMA HarmlessKeeps ==
  ASSUME ConfirmationLocked, NEW r \in Request, Harmless(r)
  PROVE  ConfirmationLocked'
<1>1. \A p \in Plan : plan'[p].status # "confirmed"
  BY DEF Harmless, NotConfirmed
<1>2. ASSUME NEW o \in Request, NEW p \in Plan, seen'[o][p].status = "confirmed"
      PROVE  /\ p = target'[o]
             /\ lock'[p] = o
             /\ kind'[o] = "confirm"
             /\ seen'[o][p].decision = "confirmed"
             /\ pc'[o] \in {"touch_run", "load_ledger", "execute"}
  BY <1>2 DEF Harmless, NotConfirmed, ConfirmationLocked
<1>3. ASSUME NEW o \in Request, kind'[o] = "confirm",
             pc'[o] \in {"touch_run", "load_ledger", "execute"}
      PROVE  seen'[o][target'[o]].status = "confirmed"
  BY <1>3 DEF Harmless, ExecutionLabel, ConfirmationLocked
<1>4. ASSUME NEW o \in Request, pc'[o] = "execute"
      PROVE  kind'[o] = "confirm" /\ seen'[o][target'[o]].selected
  BY <1>4 DEF Harmless, ConfirmationLocked
<1>5. ASSUME NEW o \in Request, pc'[o] = "load_ledger"
      PROVE  kind'[o] = "confirm"
  BY <1>5 DEF Harmless, ConfirmationLocked
<1> QED
  BY <1>1, <1>2, <1>3, <1>4, <1>5 DEF ConfirmationLocked

LEMMA SelectionHarmless ==
  ASSUME TypeOK, Targeted, ConfirmationLocked, NEW r \in Request
  PROVE  /\ \A k \in Kinds, p \in Plan : OpenRequest(r, k, p) => Harmless(r)
         /\ ListPlans(r) => Harmless(r)
         /\ \A p \in Plan : SelectRow(r, p) => Harmless(r)
         /\ SelectionDone(r) => Harmless(r)
<1>1. ASSUME NEW k \in Kinds, NEW p \in Plan, OpenRequest(r, k, p)
      PROVE  Harmless(r)
  <2>1. \A q \in Plan : NotConfirmed(seen[r][q]) /\ NotConfirmed(plan[q])
    BY <1>1, NothingConfirmed
       DEF OpenRequest, ExecutionLabel, ConfirmationLocked, NotConfirmed
  <2>2. \A q \in Plan : NotConfirmed(seen'[r][q])
    BY <1>1, <2>1 DEF OpenRequest, TypeOK
  <2> QED
    BY <1>1, <2>1, <2>2
       DEF OpenRequest, Goto, Harmless, ExecutionLabel, TypeOK, durable, locks
<1>2. ASSUME ListPlans(r)
      PROVE  Harmless(r)
  <2>1. \A q \in Plan : NotConfirmed(seen[r][q]) /\ NotConfirmed(plan[q])
    BY <1>2, NothingConfirmed
       DEF ListPlans, ExecutionLabel, ConfirmationLocked, NotConfirmed
  <2>2. \A q \in Plan : NotConfirmed(seen'[r][q])
    BY <1>2, <2>1 DEF ListPlans, Listed, TypeOK
  <2> QED
    BY <1>2, <2>1, <2>2
       DEF ListPlans, Goto, Harmless, ExecutionLabel, TypeOK, durable, locks
<1>3. ASSUME NEW p \in Plan, SelectRow(r, p)
      PROVE  Harmless(r)
  <2>1. \A q \in Plan : NotConfirmed(seen[r][q]) /\ NotConfirmed(plan[q])
    BY <1>3, NothingConfirmed
       DEF SelectRow, ExecutionLabel, ConfirmationLocked, NotConfirmed
  <2>2. NotConfirmed(FlushSelection(plan[p], seen[r][p], p = target[r]))
    <3>1. plan[p] \in PlanRow /\ seen[r][p] \in PlanRow
      BY DEF TypeOK
    <3>2. (p = target[r]) \in BOOLEAN
      OBVIOUS
    <3> QED
      BY <2>1, <3>1, <3>2, SelectionNotConfirmed, Zenon
  <2>3. \A q \in Plan : NotConfirmed(seen'[r][q])
    BY <1>3, <2>1, <2>2 DEF SelectRow, TypeOK
  <2>4. lock[p] = None /\ lock' = [lock EXCEPT ![p] = r]
    BY <1>3 DEF SelectRow
  <2>5. ASSUME NEW o \in Request \ {r}, NEW q \in Plan, lock[q] = o
        PROVE  lock'[q] = o
    BY <2>4, <2>5, RequestAssumption DEF TypeOK
  <2> QED
    BY <1>3, <2>1, <2>3, <2>5
       DEF SelectRow, Harmless, ExecutionLabel, TypeOK, durable
<1>4. ASSUME SelectionDone(r)
      PROVE  Harmless(r)
  <2>1. \A q \in Plan : NotConfirmed(seen[r][q]) /\ NotConfirmed(plan[q])
    BY <1>4, NothingConfirmed
       DEF SelectionDone, ExecutionLabel, ConfirmationLocked, NotConfirmed
  <2> QED
    BY <1>4, <2>1 DEF SelectionDone, Goto, Harmless, ExecutionLabel, TypeOK,
                      durable, locks, session
<1> QED
  BY <1>1, <1>2, <1>3, <1>4

----------------------------------------------------------------------------
(* The decision and what follows *)

LEMMA DecidePlanKeeps ==
  ASSUME TypeOK, Targeted, ConfirmationLocked, NEW r \in Request, DecidePlan(r)
  PROVE  ConfirmationLocked'
<1> DEFINE p == target[r]
<1>1. p \in Plan /\ kind[r] \in Kinds
  BY DEF DecidePlan, Targeted
<1>2. \A q \in Plan : NotConfirmed(seen[r][q])
  BY NothingConfirmed DEF DecidePlan, ExecutionLabel
<1>3. Stored(r, p) \in PlanRow /\ Loaded(r) \in PlanRow
  BY <1>1 DEF Stored, Loaded, TypeOK
<1>4. /\ UNCHANGED <<plan, kind, target>>
      /\ pc'[r] = "touch_run"
      /\ \A o \in Request \ {r} : pc'[o] = pc[o]
  BY DEF DecidePlan, Goto, durable, TypeOK
<1>5. CASE kind[r] = "confirm"
  <2>1. PICK row \in {ConfirmedRow(Stored(r, p), Loaded(r))} :
          /\ lock[p] \in {None, r}
          /\ lock' = [lock EXCEPT ![p] = r]
          /\ seen' = [seen EXCEPT ![r][p] = row]
    BY <1>1, <1>2, <1>5 DEF DecidePlan, Loaded, NotConfirmed
  <2>2. row.status = "confirmed" /\ row.decision = "confirmed"
    BY <1>3, <2>1, DecisionRows
  <2>3. /\ seen'[r][p] = row /\ lock'[p] = r
        /\ \A q \in Plan : q # p => seen'[r][q] = seen[r][q]
        /\ \A o \in Request \ {r} : seen'[o] = seen[o]
    BY <1>1, <2>1 DEF TypeOK
  <2>4. \A o \in Request \ {r} : \A q \in Plan : lock[q] = o => lock'[q] = o
    BY <1>1, <2>1, RequestAssumption DEF TypeOK
  <2> QED
    BY <1>1, <1>2, <1>4, <1>5, <2>2, <2>3, <2>4
       DEF ConfirmationLocked, NotConfirmed
<1>6. CASE kind[r] # "confirm"
  <2>1. \/ UNCHANGED <<lock, seen>>
        \/ \E row \in {DeclinedRow(Stored(r, p), Loaded(r))} :
             /\ lock[p] \in {None, r}
             /\ lock' = [lock EXCEPT ![p] = r]
             /\ seen' = [seen EXCEPT ![r][p] = row]
    BY <1>6 DEF DecidePlan
  <2>2. \A q \in Plan : NotConfirmed(seen'[r][q])
    <3>1. CASE UNCHANGED <<lock, seen>>
      BY <1>2, <3>1
    <3>2. ASSUME NEW row \in {DeclinedRow(Stored(r, p), Loaded(r))},
                 seen' = [seen EXCEPT ![r][p] = row]
          PROVE  \A q \in Plan : NotConfirmed(seen'[r][q])
      <4>1. row.status = "declined"
        BY <1>3, DecisionRows
      <4> QED
        BY <1>1, <1>2, <3>2, <4>1 DEF NotConfirmed, TypeOK
    <3> QED
      BY <2>1, <3>1, <3>2
  <2>3. \A o \in Request \ {r} :
          /\ seen'[o] = seen[o]
          /\ \A q \in Plan : lock[q] = o => lock'[q] = o
    BY <1>1, <2>1, RequestAssumption DEF TypeOK
  <2>4. \A q \in Plan : NotConfirmed(plan'[q])
    BY <1>4 DEF ConfirmationLocked, NotConfirmed
  <2>5. Harmless(r)
    BY <1>4, <1>6, <2>2, <2>3, <2>4 DEF Harmless
  <2> QED
    BY <2>5, HarmlessKeeps
<1> QED
  BY <1>5, <1>6

LEMMA ExecutionKeeps ==
  ASSUME TypeOK, ConfirmationLocked, NEW r \in Request,
         LockRun(r) \/ LoadLedger(r) \/ ReplayAction(r) \/ LimitAction(r)
           \/ InvokeAction(r)
  PROVE  ConfirmationLocked'
<1>1. UNCHANGED <<plan, kind, target, seen, lock>>
  BY DEF LockRun, LoadLedger, ReplayAction, LimitAction, InvokeAction,
         durable, locks
<1>2. \A o \in Request :
        \/ pc'[o] = pc[o]
        \/ /\ pc[o] = "touch_run" /\ pc'[o] = "load_ledger"
           /\ kind[o] = "confirm"
        \/ /\ pc[o] = "load_ledger" /\ pc'[o] = "execute"
           /\ seen[o][target[o]].selected
  BY DEF LockRun, LoadLedger, ReplayAction, LimitAction, InvokeAction, Goto,
         Loaded, TypeOK
<1> QED
  BY <1>1, <1>2 DEF ConfirmationLocked

----------------------------------------------------------------------------
(* The end of a transaction *)

LEMMA EndingHarmless ==
  ASSUME TypeOK, ConfirmationLocked, NEW r \in Request,
         Unlock(r), CloseSession(r),
         \A p \in Plan : NotConfirmed(plan'[p])
  PROVE  ConfirmationLocked'
<1>1. pc'[r] = "done" /\ seen'[r] = NoSession
  BY DEF CloseSession, Goto, TypeOK
<1>2. \A p \in Plan : NotConfirmed(seen'[r][p])
  BY <1>1 DEF NoSession, ReviewedPlan, NotConfirmed
<1>3. \A o \in Request \ {r} :
        /\ pc'[o] = pc[o] /\ kind'[o] = kind[o]
        /\ target'[o] = target[o] /\ seen'[o] = seen[o]
        /\ \A p \in Plan : lock[p] = o => lock'[p] = o
  BY DEF CloseSession, Goto, Unlock, TypeOK
<1>4. Harmless(r)
  BY <1>1, <1>2, <1>3 DEF Harmless, ExecutionLabel
<1> QED
  BY <1>4, HarmlessKeeps

LEMMA RollbackConfirmation ==
  ASSUME TypeOK, ConfirmationLocked, NEW r \in Request, Rollback(r)
  PROVE  ConfirmationLocked'
<1>1. \A p \in Plan : NotConfirmed(plan'[p])
  BY DEF Rollback, ConfirmationLocked, NotConfirmed
<1> QED
  BY <1>1, EndingHarmless DEF Rollback

LEMMA CommitConfirmation ==
  ASSUME TypeOK, ConfirmationLocked, NEW r \in Request,
         NEW rows, NEW status, Commit(r, rows, status),
         \A p \in Plan : NotConfirmed(rows[p])
  PROVE  ConfirmationLocked'
<1>1. \A p \in Plan : NotConfirmed(plan'[p])
  BY DEF Commit, ConfirmationLocked, NotConfirmed
<1> QED
  BY <1>1, EndingHarmless DEF Commit

LEMMA FinishConfirmation ==
  ASSUME TypeOK, Targeted, ConfirmationLocked, NEW r \in Request,
         FinishReplan(r) \/ FinishDecline(r) \/ FinishConfirm(r)
  PROVE  ConfirmationLocked'
<1>1. CASE FinishReplan(r) \/ FinishDecline(r)
  <2>1. \A p \in Plan : NotConfirmed(seen[r][p])
    BY <1>1, NothingConfirmed DEF FinishReplan, FinishDecline, ExecutionLabel
  <2>2. \E status : Commit(r, seen[r], status)
    BY <1>1 DEF FinishReplan, FinishDecline
  <2> QED
    BY <2>1, <2>2, CommitConfirmation
<1>2. CASE FinishConfirm(r)
  <2>1. target[r] \in Plan
    BY <1>2 DEF FinishConfirm, Ends, Targeted
  <2>2. Loaded(r) \in PlanRow /\ Outcome(r) \in Seq(ActionStatus)
    BY <2>1, ActionAssumption, SummaryType DEF Loaded, Outcome, TypeOK
  <2>3. PICK row \in {FeedbackRow(ExecutedRow(Loaded(r), Outcome(r)))} :
          Commit(r, [seen[r] EXCEPT ![target[r]] = row], row.feedback)
    BY <1>2 DEF FinishConfirm
  <2>4. NotConfirmed(row)
    BY <2>2, OutcomeNotConfirmed
  <2>5. \A p \in Plan : p # target[r] => NotConfirmed(seen[r][p])
    BY DEF ConfirmationLocked, NotConfirmed
  <2>6. \A p \in Plan : NotConfirmed([seen[r] EXCEPT ![target[r]] = row][p])
    BY <2>1, <2>4, <2>5 DEF TypeOK
  <2> QED
    BY <2>3, <2>6, CommitConfirmation
<1> QED
  BY <1>1, <1>2

----------------------------------------------------------------------------
(* The invariant and the action property *)

LEMMA ConfirmationInit == Init => ConfirmationLocked
<1> SUFFICES ASSUME Init PROVE ConfirmationLocked
  OBVIOUS
<1>1. \A p \in Plan, t \in BOOLEAN :
        SelectedRow(ReviewedPlan, t).status # "confirmed"
  BY DEF SelectedRow, ReviewedPlan
<1>2. \A p \in Plan : plan[p].status # "confirmed"
  <2>1. CASE plan \in AwaitingPlans(Plan)
    <3>1. PICK p \in Plan :
            plan = [q \in Plan |-> SelectedRow(ReviewedPlan, q = p)]
      BY <2>1 DEF AwaitingPlans
    <3> QED
      BY <1>1, <3>1
  <2>2. CASE plan = UnselectedPlans(Plan)
    BY <2>2 DEF UnselectedPlans, ReviewedPlan
  <2> QED
    BY <2>1, <2>2 DEF Init
<1> QED
  BY <1>2 DEF Init, ConfirmationLocked, NoSession, ReviewedPlan

LEMMA ConfirmationStep ==
  TypeOK /\ Targeted /\ ConfirmationLocked /\ [Next]_vars => ConfirmationLocked'
<1> SUFFICES ASSUME TypeOK, Targeted, ConfirmationLocked, [Next]_vars
             PROVE  ConfirmationLocked'
  OBVIOUS
<1>1. ASSUME NEW r \in Request, NEW k \in Kinds, NEW p \in Plan,
             OpenRequest(r, k, p)
      PROVE  ConfirmationLocked'
  BY <1>1, SelectionHarmless, HarmlessKeeps
<1>2. ASSUME NEW r \in Request, Handle(r)
      PROVE  ConfirmationLocked'
  <2>1. CASE ListPlans(r) \/ SelectionDone(r)
               \/ \E p \in Plan : SelectRow(r, p)
    BY <2>1, SelectionHarmless, HarmlessKeeps
  <2>2. CASE DecidePlan(r)
    BY <2>2, DecidePlanKeeps
  <2>3. CASE LockRun(r) \/ LoadLedger(r) \/ ReplayAction(r) \/ LimitAction(r)
               \/ InvokeAction(r)
    BY <2>3, ExecutionKeeps
  <2>4. CASE RefuseSelection(r) \/ FailReplan(r) \/ EndWithoutDecision(r)
               \/ RefuseExecution(r) \/ RejectFeedback(r)
    <3>1. Rollback(r)
      BY <2>4 DEF RefuseSelection, FailReplan, EndWithoutDecision,
                  RefuseExecution, RejectFeedback
    <3> QED
      BY <3>1, RollbackConfirmation
  <2>5. CASE FinishReplan(r) \/ FinishDecline(r) \/ FinishConfirm(r)
    BY <2>5, FinishConfirmation
  <2> QED
    BY <1>2, <2>1, <2>2, <2>3, <2>4, <2>5 DEF Handle
<1>3. ASSUME NEW r \in Request, Crash(r)
      PROVE  ConfirmationLocked'
  BY <1>3, RollbackConfirmation DEF Crash
<1>4. CASE WindowExpires \/ UNCHANGED vars
  BY <1>4 DEF WindowExpires, vars, durable, locks, session, ConfirmationLocked
<1> QED
  BY <1>1, <1>2, <1>3, <1>4 DEF Next

\* A write at the provider is the work of one handler, which holds the rows
\* of the plan and the run and has the plan confirmed.
WrittenConfirmed ==
  \A k \in Key : effects'[k] # effects[k] =>
    \E r \in Request :
      /\ lock[k[1]] = r
      /\ runLock = r
      /\ seen[r][k[1]].selected
      /\ seen[r][k[1]].status = "confirmed"
      /\ seen[r][k[1]].decision = "confirmed"

LEMMA OnlyInvokeWrites ==
  ASSUME TypeOK, [Next]_vars, effects' # effects
  PROVE  \E r \in Request : InvokeAction(r)
<1> SUFFICES ASSUME ~ \E r \in Request : InvokeAction(r)
             PROVE  UNCHANGED effects
  OBVIOUS
<1>1. ASSUME NEW r \in Request, Handle(r)
      PROVE  UNCHANGED effects
  BY <1>1
     DEF Handle, RefuseSelection, ListPlans, SelectionDone, SelectRow,
         FinishReplan, FailReplan, EndWithoutDecision, DecidePlan,
         FinishDecline, LockRun, RefuseExecution, LoadLedger, ReplayAction,
         LimitAction, FinishConfirm, RejectFeedback, Commit, Rollback, durable
<1>2. ASSUME NEW r \in Request, Crash(r)
      PROVE  UNCHANGED effects
  BY <1>2 DEF Crash, Rollback
<1>3. ASSUME NEW r \in Request, NEW k \in Kinds, NEW p \in Plan,
             OpenRequest(r, k, p)
      PROVE  UNCHANGED effects
  BY <1>3 DEF OpenRequest, durable
<1>4. CASE WindowExpires \/ UNCHANGED vars
  BY <1>4 DEF WindowExpires, vars, durable
<1> QED
  BY <1>1, <1>2, <1>3, <1>4 DEF Next

LEMMA StepWritesConfirmed ==
  TypeOK /\ Targeted /\ SagaInv /\ ConfirmationLocked /\ [Next]_vars
    => WrittenConfirmed
<1> SUFFICES ASSUME TypeOK, Targeted, SagaInv, ConfirmationLocked, [Next]_vars,
                    NEW k \in Key, effects'[k] # effects[k]
             PROVE  \E r \in Request :
                      /\ lock[k[1]] = r
                      /\ runLock = r
                      /\ seen[r][k[1]].selected
                      /\ seen[r][k[1]].status = "confirmed"
                      /\ seen[r][k[1]].decision = "confirmed"
  BY DEF WrittenConfirmed
<1>1. PICK r \in Request : InvokeAction(r)
  BY OnlyInvokeWrites
<1>2. pc[r] = "execute" /\ target[r] \in Plan
  BY <1>1 DEF InvokeAction, Continues, Targeted
<1>3. k = Current(r)
  BY <1>1 DEF InvokeAction, TypeOK
<1>4. k[1] = target[r]
  BY <1>3 DEF Current
<1>5. kind[r] = "confirm" /\ seen[r][target[r]].selected
      /\ seen[r][target[r]].status = "confirmed"
  BY <1>2 DEF ConfirmationLocked
<1>6. lock[target[r]] = r /\ seen[r][target[r]].decision = "confirmed"
  BY <1>2, <1>5 DEF ConfirmationLocked
<1>7. runLock = r
  BY <1>2 DEF SagaInv, RunLockHeld
<1> QED
  BY <1>4, <1>5, <1>6, <1>7

\* The invariant TLC checks holds for every instance.
THEOREM ExclusiveExecution == Spec => []ExecutionIsExclusive
<1>1. Spec => []ConfirmationLocked
  BY ConfirmationInit, ConfirmationStep, SagaInvariant, PTL DEF Spec
<1>2. Targeted /\ SagaInv /\ ConfirmationLocked => ExecutionIsExclusive
  BY DEF SagaInv, ExecutionIsExclusive
<1> QED
  BY <1>1, <1>2, SagaInvariant, PTL

\* The provider writes only for a handler that holds the plan's row with
\* the user's confirmation in it, and the run's row.
THEOREM OnlyConfirmedWrites == Spec => WritesAreConfirmed
<1>1. Spec => [](TypeOK /\ Targeted /\ SagaInv /\ ConfirmationLocked)
  BY ConfirmationInit, ConfirmationStep, SagaInvariant, PTL DEF Spec
<1>2. Spec => [][WrittenConfirmed]_vars
  BY <1>1, StepWritesConfirmed, PTL DEF Spec
<1> QED
  BY <1>2 DEF WritesAreConfirmed, WrittenConfirmed

----------------------------------------------------------------------------
(* Summaries agree with the ledger *)

\* What the row of plan p says of its execution agrees with itself and with
\* the ledger `book'.
SummarySound(row, p, book) ==
  /\ row.execution # "none" <=> row.feedback # "none"
  /\ row.status \in TerminalPlanStatus =>
       row.status = PlanStatusOf(row.execution)
  /\ Len(row.results) <= ActionCount[p]
  /\ \A i \in 1 .. Len(row.results) :
       row.results[i] \in {"succeeded", "failed"} =>
         book[<<p, i>>] = row.results[i]

\* It holds of the stored rows and of those a session has loaded, which may
\* be old and will be written back whole.
RowsSound(book) ==
  /\ \A p \in Plan : SummarySound(plan[p], p, book)
  /\ \A r \in Request, p \in Plan : SummarySound(seen[r][p], p, book)

\* A failure is taken from the ledger, or will be in it.
FailuresRecorded ==
  \A r \in Request : pc[r] = "execute" =>
    \A i \in 1 .. Len(results[r]) :
      results[r][i] = "failed" => Visible(r, <<target[r], i>>) = "failed"

CompletedRecorded ==
  runStatus = "completed" =>
    \E p \in Plan : \A i \in 1 .. ActionCount[p] :
      ledger[<<p, i>>] = "succeeded"

SummaryInv == RowsSound(ledger) /\ FailuresRecorded /\ CompletedRecorded

\* `next' has every row of `book'.
Extends(next, book) ==
  \A k \in Key : book[k] # "none" => next[k] = book[k]

LEMMA SelectionSound ==
  ASSUME NEW p \in Plan, NEW row \in PlanRow, NEW loaded \in PlanRow,
         NEW isTarget \in BOOLEAN, NEW book, SummarySound(row, p, book)
  PROVE  SummarySound(FlushSelection(row, loaded, isTarget), p, book)
<1> DEFINE new == FlushSelection(row, loaded, isTarget)
<1>1. SelectedRow(loaded, isTarget).status
        \in {"selected", "reviewed", loaded.status}
  BY DEF SelectedRow, PlanRow
<1>2. /\ new.execution = row.execution /\ new.feedback = row.feedback
      /\ new.results = row.results
      /\ new.status = row.status
         \/ /\ new.status = SelectedRow(loaded, isTarget).status
            /\ new.status # loaded.status
  BY DEF FlushSelection, PlanRow
<1>3. new.status \in TerminalPlanStatus => new.status = row.status
  BY <1>1, <1>2 DEF TerminalPlanStatus
<1> QED
  BY <1>2, <1>3 DEF SummarySound

LEMMA DecisionSound ==
  ASSUME NEW p \in Plan, NEW row \in PlanRow, NEW loaded \in PlanRow,
         NEW book, SummarySound(loaded, p, book)
  PROVE  /\ SummarySound(ConfirmedRow(row, loaded), p, book)
         /\ SummarySound(DeclinedRow(row, loaded), p, book)
<1>1. ASSUME NEW new \in {ConfirmedRow(row, loaded), DeclinedRow(row, loaded)}
      PROVE  SummarySound(new, p, book)
  <2>1. /\ new.execution = loaded.execution /\ new.feedback = loaded.feedback
        /\ new.results = loaded.results
        /\ new.status \in {"confirmed", "declined"}
    BY DEF ConfirmedRow, DeclinedRow, FlushDocument, PlanRow
  <2> QED
    BY <2>1 DEF SummarySound, TerminalPlanStatus
<1> QED
  BY <1>1

LEMMA ReviewedSound ==
  ASSUME NEW p \in Plan, NEW book, NEW isTarget \in BOOLEAN
  PROVE  /\ SummarySound(ReviewedPlan, p, book)
         /\ SummarySound(SelectedRow(ReviewedPlan, isTarget), p, book)
<1>1. ActionCount[p] \in Nat
  BY ActionAssumption
<1>2. ASSUME NEW row \in {ReviewedPlan, SelectedRow(ReviewedPlan, isTarget)}
      PROVE  SummarySound(row, p, book)
  <2>1. /\ row.execution = "none" /\ row.feedback = "none"
        /\ row.results = <<>>
        /\ row.status \in {"selected", "reviewed"}
    <3>1. CASE row = ReviewedPlan
      BY <3>1 DEF ReviewedPlan
    <3>2. CASE row = SelectedRow(ReviewedPlan, isTarget)
      <4>1. CASE isTarget
        BY <3>2, <4>1 DEF ReviewedPlan, SelectedRow
      <4>2. CASE ~ isTarget
        BY <3>2, <4>2 DEF ReviewedPlan, SelectedRow
      <4> QED
        BY <4>1, <4>2
    <3> QED
      BY <3>1, <3>2
  <2>2. Len(row.results) = 0
    BY <2>1
  <2>3. row.status \notin TerminalPlanStatus
    BY <2>1 DEF TerminalPlanStatus
  <2> QED
    BY <1>1, <2>1, <2>2, <2>3 DEF SummarySound
<1> QED
  BY <1>2

\* Ledger rows are only added: what a row says stays true.
LEMMA SoundStays ==
  ASSUME NEW p \in Plan, NEW row \in PlanRow, NEW book, NEW next,
         Extends(next, book), SummarySound(row, p, book)
  PROVE  SummarySound(row, p, next)
<1> SUFFICES ASSUME NEW i \in 1 .. Len(row.results),
                    row.results[i] \in {"succeeded", "failed"}
             PROVE  next[<<p, i>>] = row.results[i]
  BY DEF SummarySound
<1>1. Len(row.results) \in Nat /\ ActionCount[p] \in Nat
  BY ActionAssumption DEF PlanRow
<1>2. <<p, i>> \in Key
  BY <1>1, KeyMember DEF SummarySound
<1>3. book[<<p, i>>] = row.results[i]
  BY DEF SummarySound
<1> QED
  BY <1>2, <1>3 DEF Extends

LEMMA LedgerIsExtended ==
  ASSUME TypeOK, Targeted, SagaInv, [Next]_vars
  PROVE  Extends(ledger', ledger)
<1>1. ASSUME NEW r \in Request, NEW rows, NEW status, Commit(r, rows, status)
      PROVE  Extends(ledger', ledger)
  BY <1>1 DEF Commit, SagaInv, OwnRows, Extends
<1>2. ASSUME NEW r \in Request, Handle(r)
      PROVE  UNCHANGED ledger \/ \E rows, status : Commit(r, rows, status)
  BY <1>2
     DEF Handle, RefuseSelection, ListPlans, SelectionDone, SelectRow,
         FinishReplan, FailReplan, EndWithoutDecision, DecidePlan,
         FinishDecline, LockRun, RefuseExecution, LoadLedger, ReplayAction,
         LimitAction, InvokeAction, FinishConfirm, RejectFeedback, Rollback,
         durable
<1>3. ASSUME \/ \E r \in Request, k \in Kinds, p \in Plan :
                  OpenRequest(r, k, p)
             \/ \E r \in Request : Crash(r)
             \/ WindowExpires
             \/ UNCHANGED vars
      PROVE  UNCHANGED ledger
  BY <1>3 DEF OpenRequest, Crash, Rollback, WindowExpires, vars, durable
<1>4. UNCHANGED ledger => Extends(ledger', ledger)
  BY DEF Extends
<1> QED
  BY <1>1, <1>2, <1>3, <1>4 DEF Next

LEMMA DecisionKeepsRows ==
  ASSUME TypeOK, Targeted, RowsSound(ledger), NEW r \in Request, DecidePlan(r)
  PROVE  RowsSound(ledger)'
<1> DEFINE p == target[r]
<1>1. p \in Plan /\ UNCHANGED <<plan, ledger>>
  BY DEF DecidePlan, Targeted, durable
<1>2. Stored(r, p) \in PlanRow /\ Loaded(r) \in PlanRow
  BY <1>1 DEF Stored, Loaded, TypeOK
<1>3. SummarySound(Loaded(r), p, ledger)
  BY <1>1 DEF Loaded, RowsSound
<1>4. \/ UNCHANGED seen
      \/ \E row \in {ConfirmedRow(Stored(r, p), Loaded(r)),
                     DeclinedRow(Stored(r, p), Loaded(r))} :
           seen' = [seen EXCEPT ![r][p] = row]
  BY DEF DecidePlan
<1>5. CASE UNCHANGED seen
  BY <1>1, <1>5 DEF RowsSound
<1>6. ASSUME NEW row \in {ConfirmedRow(Stored(r, p), Loaded(r)),
                          DeclinedRow(Stored(r, p), Loaded(r))},
             seen' = [seen EXCEPT ![r][p] = row]
      PROVE  RowsSound(ledger)'
  <2>1. SummarySound(row, p, ledger)
    BY <1>1, <1>2, <1>3, DecisionSound
  <2>2. \A o \in Request, q \in Plan :
          seen'[o][q] = IF o = r /\ q = p THEN row ELSE seen[o][q]
    BY <1>1, <1>6 DEF TypeOK
  <2> QED
    BY <1>1, <2>1, <2>2 DEF RowsSound
<1> QED
  BY <1>4, <1>5, <1>6

LEMMA SelectionKeepsRows ==
  ASSUME TypeOK, Targeted, RowsSound(ledger), NEW r \in Request,
         \/ \E k \in Kinds, p \in Plan : OpenRequest(r, k, p)
         \/ ListPlans(r)
         \/ \E p \in Plan : SelectRow(r, p)
  PROVE  RowsSound(ledger)'
<1>1. UNCHANGED <<plan, ledger>>
  BY DEF OpenRequest, ListPlans, SelectRow, durable
<1>2. ASSUME NEW o \in Request, NEW q \in Plan
      PROVE  \/ seen'[o][q] = seen[o][q]
             \/ seen'[o][q] = plan[q]
             \/ \E isTarget \in BOOLEAN :
                  seen'[o][q] = FlushSelection(plan[q], seen[o][q], isTarget)
  <2>1. CASE \E k \in Kinds, p \in Plan : OpenRequest(r, k, p)
    BY <2>1 DEF OpenRequest, TypeOK
  <2>2. CASE ListPlans(r)
    BY <2>2 DEF ListPlans, Listed, TypeOK
  <2>3. CASE \E p \in Plan : SelectRow(r, p)
    <3>1. PICK p \in Plan : SelectRow(r, p)
      BY <2>3
    <3>2. seen' = [seen EXCEPT ![r][p] = FlushSelection(plan[p], seen[r][p],
                                                        p = target[r])]
      BY <3>1 DEF SelectRow
    <3>3. CASE o = r /\ q = p
      <4>1. seen'[o][q] = FlushSelection(plan[q], seen[o][q], p = target[r])
        BY <3>2, <3>3 DEF TypeOK
      <4> QED
        BY <4>1
    <3>4. CASE ~ (o = r /\ q = p)
      BY <3>2, <3>4 DEF TypeOK
    <3> QED
      BY <3>3, <3>4
  <2> QED
    BY <2>1, <2>2, <2>3
<1>3. ASSUME NEW o \in Request, NEW q \in Plan
      PROVE  SummarySound(seen'[o][q], q, ledger)
  <2>1. /\ SummarySound(seen[o][q], q, ledger)
        /\ SummarySound(plan[q], q, ledger)
        /\ plan[q] \in PlanRow /\ seen[o][q] \in PlanRow
    BY DEF RowsSound, TypeOK
  <2>2. \A isTarget \in BOOLEAN :
          SummarySound(FlushSelection(plan[q], seen[o][q], isTarget), q, ledger)
    BY <2>1, SelectionSound
  <2> QED
    BY <1>2, <2>1, <2>2
<1> QED
  BY <1>1, <1>3 DEF RowsSound

\* The end of a transaction that leaves sound rows.
LEMMA EndingKeepsRows ==
  ASSUME TypeOK, TypeOK', RowsSound(ledger), NEW r \in Request,
         CloseSession(r), Extends(ledger', ledger),
         \A p \in Plan : \/ plan'[p] = plan[p]
                         \/ plan'[p] = seen[r][p]
                         \/ SummarySound(plan'[p], p, ledger')
  PROVE  RowsSound(ledger)'
<1>1. ASSUME NEW p \in Plan
      PROVE  SummarySound(plan'[p], p, ledger')
  BY SoundStays DEF RowsSound, TypeOK
<1>2. ASSUME NEW o \in Request, NEW p \in Plan
      PROVE  SummarySound(seen'[o][p], p, ledger')
  <2>1. seen'[o][p] = seen[o][p] \/ seen'[o][p] = ReviewedPlan
    BY DEF CloseSession, NoSession, TypeOK
  <2>2. SummarySound(seen[o][p], p, ledger')
    BY SoundStays DEF RowsSound, TypeOK
  <2>3. SummarySound(ReviewedPlan, p, ledger')
    BY ReviewedSound
  <2> QED
    BY <2>1, <2>2, <2>3
<1> QED
  BY <1>1, <1>2 DEF RowsSound

\* What the outcome of an execution says is in the ledger once the handler
\* commits.
LEMMA OutcomeIsRecorded ==
  ASSUME TypeOK, Targeted, SagaInv, FailuresRecorded, NEW r \in Request,
         NEW rows, NEW status, Ends(r), Commit(r, rows, status)
  PROVE  /\ target[r] \in Plan
         /\ Outcome(r) \in Seq(ActionStatus)
         /\ Len(Outcome(r)) = ActionCount[target[r]]
         /\ \A i \in 1 .. ActionCount[target[r]] :
              /\ <<target[r], i>> \in Key
              /\ Outcome(r)[i] \in SuccessStatus =>
                   ledger'[<<target[r], i>>] = "succeeded"
              /\ Outcome(r)[i] \in {"succeeded", "failed"} =>
                   ledger'[<<target[r], i>>] = Outcome(r)[i]
<1>1. pc[r] = "execute" /\ target[r] \in Plan
  BY DEF Ends, Targeted
<1>2. ActionCount[target[r]] \in Nat
  BY <1>1, ActionAssumption
<1>3. results[r] \in Seq(ActionStatus) /\ Len(results[r]) \in Nat
  BY DEF TypeOK
<1>4. Outcome(r) \in Seq(ActionStatus)
  BY <1>2, <1>3, SummaryType DEF Outcome
<1>5. Len(Outcome(r)) = ActionCount[target[r]]
  BY <1>2 DEF Outcome, Summary
<1>6. ASSUME NEW i \in 1 .. ActionCount[target[r]]
      PROVE  /\ <<target[r], i>> \in Key
             /\ Outcome(r)[i] \in SuccessStatus =>
                  ledger'[<<target[r], i>>] = "succeeded"
             /\ Outcome(r)[i] \in {"succeeded", "failed"} =>
                  ledger'[<<target[r], i>>] = Outcome(r)[i]
  <2>1. <<target[r], i>> \in Key
    BY <1>1, KeyMember
  <2>2. ledger'[<<target[r], i>>] = Visible(r, <<target[r], i>>)
    BY <2>1 DEF Commit, Visible
  <2>3. CASE i \in 1 .. Len(results[r])
    <3>1. Outcome(r)[i] = results[r][i]
      BY <1>2, <1>3, <2>3 DEF Outcome, Summary
    <3>2. results[r][i] \in SuccessStatus =>
            Visible(r, <<target[r], i>>) = "succeeded"
      BY <1>1, <2>3 DEF SagaInv, ResultsBacked
    <3>3. results[r][i] = "failed" =>
            Visible(r, <<target[r], i>>) = "failed"
      BY <1>1, <2>3 DEF FailuresRecorded
    <3> QED
      BY <2>1, <2>2, <3>1, <3>2, <3>3 DEF SuccessStatus
  <2>4. CASE i \notin 1 .. Len(results[r])
    <3>1. ~ (i <= Len(results[r]))
      BY <1>2, <1>3, <2>4
    <3>2. Outcome(r)[i] = "skipped_due_to_prior_failure"
      BY <3>1 DEF Outcome, Summary
    <3> QED
      BY <2>1, <3>2 DEF SuccessStatus
  <2> QED
    BY <2>3, <2>4
<1> QED
  BY <1>1, <1>4, <1>5, <1>6

LEMMA FinishKeepsRows ==
  ASSUME TypeOK, TypeOK', Targeted, SagaInv, SummaryInv, [Next]_vars,
         NEW r \in Request, FinishConfirm(r)
  PROVE  RowsSound(ledger)'
<1>1. PICK row \in {FeedbackRow(ExecutedRow(Loaded(r), Outcome(r)))} :
        Commit(r, [seen[r] EXCEPT ![target[r]] = row], row.feedback)
  BY DEF FinishConfirm
<1> DEFINE p == target[r]
<1>2. /\ Ends(r) /\ p \in Plan
      /\ Outcome(r) \in Seq(ActionStatus)
      /\ Len(Outcome(r)) = ActionCount[p]
      /\ \A i \in 1 .. ActionCount[p] :
           Outcome(r)[i] \in {"succeeded", "failed"} =>
             ledger'[<<p, i>>] = Outcome(r)[i]
  BY <1>1, OutcomeIsRecorded DEF FinishConfirm, SummaryInv
<1>3. Loaded(r) \in PlanRow
  BY <1>2 DEF Loaded, TypeOK
<1>4. /\ row.execution = ExecutionOf(Outcome(r))
      /\ row.status = PlanStatusOf(ExecutionOf(Outcome(r)))
      /\ row.results = Outcome(r)
      /\ row.feedback \in FeedbackStatus
  <2>1. row.feedback \in FeedbackStatus
    BY <1>2, <1>3, OutcomeType
  <2> QED
    BY <1>3, <2>1 DEF FeedbackRow, ExecutedRow, PlanRow
<1>5. ActionCount[p] \in Nat /\ row.execution # "none" /\ row.feedback # "none"
  BY <1>2, <1>4, ActionAssumption DEF ExecutionOf, FeedbackStatus
<1>6. SummarySound(row, p, ledger')
  BY <1>2, <1>4, <1>5 DEF SummarySound
<1>7. \A q \in Plan : \/ plan'[q] = plan[q]
                      \/ plan'[q] = seen[r][q]
                      \/ SummarySound(plan'[q], q, ledger')
  BY <1>1, <1>6 DEF Commit, TypeOK
<1>8. Extends(ledger', ledger)
  BY LedgerIsExtended
<1> QED
  BY <1>1, <1>7, <1>8, EndingKeepsRows DEF Commit, SummaryInv

LEMMA RowsStep ==
  ASSUME TypeOK, TypeOK', Targeted, SagaInv, SummaryInv, [Next]_vars
  PROVE  RowsSound(ledger)'
<1>1. Extends(ledger', ledger) /\ RowsSound(ledger)
  BY LedgerIsExtended DEF SummaryInv
<1>2. ASSUME NEW r \in Request, Rollback(r)
      PROVE  RowsSound(ledger)'
  BY <1>1, <1>2, EndingKeepsRows DEF Rollback
<1>3. ASSUME NEW r \in Request, Handle(r)
      PROVE  RowsSound(ledger)'
  <2>1. CASE ListPlans(r) \/ \E p \in Plan : SelectRow(r, p)
    BY <1>1, <2>1, SelectionKeepsRows
  <2>2. CASE DecidePlan(r)
    BY <1>1, <2>2, DecisionKeepsRows
  <2>3. CASE \/ SelectionDone(r) \/ LockRun(r) \/ LoadLedger(r)
             \/ ReplayAction(r) \/ LimitAction(r) \/ InvokeAction(r)
    <3>1. UNCHANGED <<plan, seen, ledger>>
      BY <2>3 DEF SelectionDone, LockRun, LoadLedger, ReplayAction,
                  LimitAction, InvokeAction, durable, session
    <3> QED
      BY <1>1, <3>1 DEF RowsSound
  <2>4. CASE RefuseSelection(r) \/ FailReplan(r) \/ EndWithoutDecision(r)
               \/ RefuseExecution(r) \/ RejectFeedback(r)
    BY <1>2, <2>4 DEF RefuseSelection, FailReplan, EndWithoutDecision,
                      RefuseExecution, RejectFeedback
  <2>5. CASE FinishReplan(r) \/ FinishDecline(r)
    <3>1. \E status : Commit(r, seen[r], status)
      BY <2>5 DEF FinishReplan, FinishDecline
    <3>2. CloseSession(r)
          /\ \A p \in Plan : plan'[p] = plan[p] \/ plan'[p] = seen[r][p]
      BY <3>1 DEF Commit
    <3> QED
      BY <1>1, <3>2, EndingKeepsRows
  <2>6. CASE FinishConfirm(r)
    BY <2>6, FinishKeepsRows
  <2> QED
    BY <1>3, <2>1, <2>2, <2>3, <2>4, <2>5, <2>6 DEF Handle
<1>4. ASSUME NEW r \in Request, Crash(r)
      PROVE  RowsSound(ledger)'
  BY <1>2, <1>4 DEF Crash
<1>5. ASSUME NEW r \in Request, NEW k \in Kinds, NEW p \in Plan,
             OpenRequest(r, k, p)
      PROVE  RowsSound(ledger)'
  BY <1>1, <1>5, SelectionKeepsRows
<1>6. CASE WindowExpires \/ UNCHANGED vars
  BY <1>1, <1>6 DEF WindowExpires, vars, durable, session, RowsSound
<1> QED
  BY <1>3, <1>4, <1>5, <1>6 DEF Next

\* A step on another handler's session, or none, keeps what a handler sees
\* as failed.
LEMMA FailuresKept ==
  ASSUME TypeOK, Targeted, SagaInv, FailuresRecorded, [Next]_vars,
         NEW o \in Request, pc[o] = "execute",
         mine'[o] = mine[o], results'[o] = results[o],
         target'[o] = target[o],
         NEW i \in 1 .. Len(results[o]), results[o][i] = "failed"
  PROVE  Visible(o, <<target[o], i>>)' = "failed"
<1>1. Visible(o, <<target[o], i>>) = "failed"
  BY DEF FailuresRecorded
<1>2. target[o] \in Plan /\ ActionCount[target[o]] \in Nat
  BY ActionAssumption DEF Targeted
<1>3. Len(results[o]) <= ActionCount[target[o]] /\ Len(results[o]) \in Nat
  BY DEF SagaInv, ResultsBacked, TypeOK
<1>4. <<target[o], i>> \in Key
  BY <1>2, <1>3, KeyMember
<1>5. Extends(ledger', ledger)
  BY LedgerIsExtended
<1> QED
  BY <1>1, <1>4, <1>5 DEF Visible, Extends

\* The result a handler adds; those before it are no failures.
LEMMA FailureAdded ==
  ASSUME TypeOK, Targeted, SagaInv, NEW r \in Request, Continues(r),
         NEW status \in ActionStatus, Record(r, status), UNCHANGED target,
         NEW key \in Key, key = Current(r),
         status = "failed" => Visible(r, key)' = "failed",
         NEW i \in 1 .. Len(results'[r]), results'[r][i] = "failed"
  PROVE  Visible(r, <<target[r], i>>)' = "failed"
<1>1. results[r] \in Seq(ActionStatus) /\ Len(results[r]) \in Nat
  BY DEF TypeOK
<1>2. results'[r] = Append(results[r], status)
  BY DEF Record, TypeOK
<1>3. /\ Len(results'[r]) = Len(results[r]) + 1
      /\ results'[r][Len(results[r]) + 1] = status
      /\ \A j \in 1 .. Len(results[r]) : results'[r][j] = results[r][j]
  BY <1>1, <1>2
<1>4. \A j \in 1 .. Len(results[r]) : results[r][j] # "failed"
  BY <1>1 DEF Continues, HasFailure, FailureStatus
<1>5. i \in 1 .. Len(results[r]) \/ i = Len(results[r]) + 1
  BY <1>1, <1>3
<1>6. i = Len(results[r]) + 1
  BY <1>3, <1>4, <1>5
<1>7. status = "failed" /\ key = <<target[r], i>>
  BY <1>3, <1>6 DEF Current
<1> QED
  BY <1>7 DEF Visible

LEMMA ExecutionAddsFailures ==
  ASSUME TypeOK, Targeted, SagaInv, NEW r \in Request,
         ReplayAction(r) \/ LimitAction(r) \/ InvokeAction(r),
         NEW i \in 1 .. Len(results'[r]), results'[r][i] = "failed"
  PROVE  Visible(r, <<target[r], i>>)' = "failed"
<1>1. /\ Continues(r) /\ UNCHANGED <<target, ledger>>
      /\ Current(r) \in Key /\ known[r] = ledger
      /\ mine[r][Current(r)] = "none"
      /\ Visible(r, Current(r)) = ledger[Current(r)]
  BY CurrentIsNew DEF ReplayAction, LimitAction, InvokeAction, durable
<1>2. PICK key \in Key : key = Current(r)
  BY <1>1
<1>3. CASE ReplayAction(r)
  <2>1. ledger[key] \in {"succeeded", "failed"} /\ Record(r, ledger[key])
    BY <1>1, <1>2, <1>3 DEF ReplayAction, TypeOK, LedgerStatus
  <2>2. ledger[key] \in ActionStatus
    BY <2>1 DEF ActionStatus, SuccessStatus, FailureStatus
  <2>3. UNCHANGED <<mine, ledger>>
    BY <1>1, <1>3 DEF ReplayAction
  <2>4. ledger[key] = "failed" => Visible(r, key)' = "failed"
    BY <1>1, <1>2, <2>3 DEF Visible
  <2> QED
    BY <1>1, <1>2, <2>1, <2>2, <2>4, FailureAdded
<1>4. CASE LimitAction(r)
  <2>1. Record(r, "rate_limited") /\ "rate_limited" \in ActionStatus
    BY <1>4 DEF LimitAction, ActionStatus, FailureStatus
  <2> QED
    BY <1>1, <1>2, <2>1, FailureAdded
<1>5. CASE InvokeAction(r)
  <2>1. PICK outcome \in {"failed", "succeeded"} :
          /\ mine' = [mine EXCEPT ![r][Current(r)] = outcome]
          /\ Record(r, outcome)
    BY <1>5 DEF InvokeAction
  <2>2. mine'[r][key] = outcome
    BY <1>2, <2>1 DEF TypeOK
  <2>3. outcome = "failed" => Visible(r, key)' = "failed"
    BY <2>2 DEF Visible
  <2>4. outcome \in ActionStatus
    BY DEF ActionStatus, SuccessStatus, FailureStatus
  <2> QED
    BY <1>1, <1>2, <2>1, <2>3, <2>4, FailureAdded
<1> QED
  BY <1>3, <1>4, <1>5

LEMMA FailuresStep ==
  ASSUME TypeOK, TypeOK', Targeted, SagaInv, FailuresRecorded, [Next]_vars
  PROVE  FailuresRecorded'
<1>1. SUFFICES ASSUME NEW o \in Request, pc'[o] = "execute",
                      NEW i \in 1 .. Len(results'[o]),
                      results'[o][i] = "failed"
               PROVE  \A k : k = <<target'[o], i>> => Visible(o, k)' = "failed"
  BY DEF FailuresRecorded, Visible
<1> DEFINE Undisturbed ==
      /\ pc[o] = "execute"
      /\ mine'[o] = mine[o] /\ results'[o] = results[o]
      /\ target'[o] = target[o]
<1>2. CASE Undisturbed
  BY <1>1, <1>2, FailuresKept DEF Visible
<1>3. CASE results'[o] = <<>>
  BY <1>1, <1>3
<1>4. CASE /\ UNCHANGED target
           /\ ReplayAction(o) \/ LimitAction(o) \/ InvokeAction(o)
  BY <1>1, <1>4, ExecutionAddsFailures DEF Visible
<1>5. ASSUME NEW r \in Request,
             \/ \E k \in Kinds, p \in Plan : OpenRequest(r, k, p)
             \/ Handle(r)
             \/ Crash(r)
      PROVE  \/ Undisturbed
             \/ results'[o] = <<>>
             \/ /\ UNCHANGED target
                /\ ReplayAction(o) \/ LimitAction(o) \/ InvokeAction(o)
  <2>1. CASE \/ \E k \in Kinds, p \in Plan : OpenRequest(r, k, p)
             \/ ListPlans(r) \/ \E p \in Plan : SelectRow(r, p)
             \/ SelectionDone(r) \/ DecidePlan(r)
    <3>1. Quiet(r)
      BY <2>1, QuietSteps
    <3>2. o # r /\ pc[o] = "execute"
      BY <1>1, <3>1 DEF Quiet
    <3> QED
      BY <3>1, <3>2 DEF Quiet
  <2>2. CASE LockRun(r)
    BY <1>1, <2>2 DEF LockRun, Goto, TypeOK
  <2>3. CASE LoadLedger(r)
    <3>1. CASE o = r
      <4>1. results'[o] = <<>>
        BY <2>3, <3>1 DEF LoadLedger, SagaInv, NoTrace
      <4> QED
        BY <4>1
    <3>2. CASE o # r
      BY <1>1, <2>3, <3>2 DEF LoadLedger, Goto, TypeOK
    <3> QED
      BY <3>1, <3>2
  <2>4. CASE ReplayAction(r) \/ LimitAction(r) \/ InvokeAction(r)
    <3>1. CASE o = r
      BY <2>4, <3>1 DEF ReplayAction, LimitAction, InvokeAction
    <3>2. CASE o # r
      BY <1>1, <2>4, <3>2
         DEF ReplayAction, LimitAction, InvokeAction, Record, TypeOK
    <3> QED
      BY <3>1, <3>2
  <2>5. CASE Unlock(r) /\ CloseSession(r)
    <3>1. pc'[r] = "done"
      BY <2>5 DEF CloseSession, Goto, TypeOK
    <3>2. o # r
      BY <1>1, <3>1
    <3> QED
      BY <1>1, <2>5, <3>2 DEF CloseSession, Goto, TypeOK
  <2>6. CASE RefuseSelection(r) \/ FailReplan(r) \/ EndWithoutDecision(r)
               \/ RefuseExecution(r) \/ RejectFeedback(r) \/ Crash(r)
               \/ FinishReplan(r) \/ FinishDecline(r) \/ FinishConfirm(r)
    <3>1. Unlock(r) /\ CloseSession(r)
      BY <2>6 DEF RefuseSelection, FailReplan, EndWithoutDecision,
                  RefuseExecution, RejectFeedback, Crash, Rollback,
                  FinishReplan, FinishDecline, FinishConfirm, Commit
    <3> QED
      BY <2>5, <3>1
  <2> QED
    BY <1>5, <2>1, <2>2, <2>3, <2>4, <2>6 DEF Handle
<1>6. ASSUME WindowExpires \/ UNCHANGED vars
      PROVE  Undisturbed
  BY <1>1, <1>6 DEF WindowExpires, vars, durable, session
<1> QED
  BY <1>2, <1>3, <1>4, <1>5, <1>6 DEF Next

\* A run is completed by an outcome in which every action has succeeded.
LEMMA CompletedOutcome ==
  ASSUME NEW row \in PlanRow, NEW list \in Seq(ActionStatus),
         FeedbackAccepts(list),
         FeedbackRow(ExecutedRow(row, list)).feedback = "completed"
  PROVE  \A i \in 1 .. Len(list) : list[i] \in SuccessStatus
<1>1. FeedbackRow(ExecutedRow(row, list)).feedback
        = FeedbackOf(ExecutionOf(list))
  BY DEF FeedbackRow, ExecutedRow, PlanRow
<1>2. ExecutionOf(list) = "succeeded"
  BY <1>1 DEF ExecutionOf, FeedbackOf
<1>3. ~ HasFailure(list)
  BY <1>2 DEF ExecutionOf
<1> QED
  BY <1>3 DEF HasFailure, FeedbackAccepts, SummarisableStatus

LEMMA CompletedStep ==
  ASSUME TypeOK, Targeted, SagaInv, FailuresRecorded, CompletedRecorded,
         [Next]_vars
  PROVE  CompletedRecorded'
<1>1. Extends(ledger', ledger)
  BY LedgerIsExtended
<1>2. CASE runStatus' = runStatus
  <2> SUFFICES ASSUME runStatus = "completed"
               PROVE  \E p \in Plan : \A i \in 1 .. ActionCount[p] :
                        ledger'[<<p, i>>] = "succeeded"
    BY <1>2 DEF CompletedRecorded
  <2>1. PICK p \in Plan :
          \A i \in 1 .. ActionCount[p] : ledger[<<p, i>>] = "succeeded"
    BY DEF CompletedRecorded
  <2>2. \A i \in 1 .. ActionCount[p] : ledger'[<<p, i>>] = "succeeded"
    BY <1>1, <2>1, KeyMember DEF Extends
  <2> QED
    BY <2>2
<1>3. CASE runStatus' = "declined"
  BY <1>3 DEF CompletedRecorded
<1>4. ASSUME NEW r \in Request, FinishConfirm(r)
      PROVE  CompletedRecorded'
  <2>1. PICK row \in {FeedbackRow(ExecutedRow(Loaded(r), Outcome(r)))} :
          Commit(r, [seen[r] EXCEPT ![target[r]] = row], row.feedback)
    BY <1>4 DEF FinishConfirm
  <2>2. /\ Ends(r) /\ target[r] \in Plan /\ FeedbackAccepts(Outcome(r))
        /\ Outcome(r) \in Seq(ActionStatus)
        /\ Len(Outcome(r)) = ActionCount[target[r]]
        /\ \A i \in 1 .. ActionCount[target[r]] :
             Outcome(r)[i] \in SuccessStatus =>
               ledger'[<<target[r], i>>] = "succeeded"
    BY <1>4, <2>1, OutcomeIsRecorded DEF FinishConfirm
  <2>3. Loaded(r) \in PlanRow
    BY <2>2 DEF Loaded, TypeOK
  <2> SUFFICES ASSUME runStatus' = "completed"
               PROVE  \A i \in 1 .. ActionCount[target[r]] :
                        ledger'[<<target[r], i>>] = "succeeded"
    BY <2>2 DEF CompletedRecorded
  <2>4. row.feedback = "completed"
    BY <2>1 DEF Commit
  <2>5. \A i \in 1 .. Len(Outcome(r)) : Outcome(r)[i] \in SuccessStatus
    BY <2>2, <2>3, <2>4, CompletedOutcome
  <2> QED
    BY <2>2, <2>5
<1>5. ASSUME NEW r \in Request, Handle(r), ~ FinishConfirm(r)
      PROVE  runStatus' = runStatus \/ runStatus' = "declined"
  BY <1>5
     DEF Handle, RefuseSelection, ListPlans, SelectionDone, SelectRow,
         FinishReplan, FailReplan, EndWithoutDecision, DecidePlan,
         FinishDecline, LockRun, RefuseExecution, LoadLedger, ReplayAction,
         LimitAction, InvokeAction, RejectFeedback, Commit, Rollback, durable
<1>6. ASSUME \/ \E r \in Request, k \in Kinds, p \in Plan :
                  OpenRequest(r, k, p)
             \/ \E r \in Request : Crash(r)
             \/ WindowExpires
             \/ UNCHANGED vars
      PROVE  runStatus' = runStatus
  BY <1>6 DEF OpenRequest, Crash, Rollback, WindowExpires, vars, durable
<1> QED
  BY <1>2, <1>3, <1>4, <1>5, <1>6 DEF Next

LEMMA SummaryInit == Init => SummaryInv
<1> SUFFICES ASSUME Init PROVE SummaryInv
  OBVIOUS
<1>1. ASSUME NEW p \in Plan
      PROVE  SummarySound(plan[p], p, ledger)
  <2>1. CASE plan \in AwaitingPlans(Plan)
    <3>1. PICK q \in Plan :
            plan = [o \in Plan |-> SelectedRow(ReviewedPlan, o = q)]
      BY <2>1 DEF AwaitingPlans
    <3>2. \A t \in BOOLEAN :
            SummarySound(SelectedRow(ReviewedPlan, t), p, ledger)
      BY ReviewedSound
    <3>3. plan[p] = SelectedRow(ReviewedPlan, p = q) /\ (p = q) \in BOOLEAN
      BY <3>1
    <3> QED
      BY <3>2, <3>3
  <2>2. CASE plan = UnselectedPlans(Plan)
    BY <2>2, ReviewedSound DEF UnselectedPlans
  <2> QED
    BY <2>1, <2>2 DEF Init
<1>2. \A r \in Request, p \in Plan : SummarySound(seen[r][p], p, ledger)
  BY ReviewedSound DEF Init, NoSession
<1>3. FailuresRecorded /\ CompletedRecorded
  BY DEF Init, FailuresRecorded, CompletedRecorded
<1> QED
  BY <1>1, <1>2, <1>3 DEF SummaryInv, RowsSound

LEMMA SummaryInvariant == Spec => []SummaryInv
<1>1. TypeOK /\ TypeOK' /\ Targeted /\ SagaInv /\ SummaryInv /\ [Next]_vars
        => SummaryInv'
  BY RowsStep, FailuresStep, CompletedStep DEF SummaryInv
<1> QED
  BY <1>1, SummaryInit, SagaInvariant, PTL DEF Spec

\* What a committed summary says of an action the ledger says too; a
\* summary comes with its feedback and gives the plan its status.
THEOREM SummariesAreBacked == Spec => []SummaryBacked
<1>1. ASSUME TypeOK, SummaryInv, ConfirmationLocked, NEW p \in Plan
      PROVE  /\ plan[p].status # "confirmed"
             /\ plan[p].execution # "none" <=> plan[p].feedback # "none"
             /\ plan[p].status \in TerminalPlanStatus =>
                  plan[p].status = PlanStatusOf(plan[p].execution)
             /\ \A i \in DOMAIN plan[p].results :
                  plan[p].results[i] \in {"succeeded", "failed"} =>
                    ledger[<<p, i>>] = plan[p].results[i]
  <2>1. SummarySound(plan[p], p, ledger)
    BY <1>1 DEF SummaryInv, RowsSound
  <2>2. plan[p].results \in Seq(ActionStatus)
    BY <1>1 DEF TypeOK, PlanRow
  <2>3. DOMAIN plan[p].results = 1 .. Len(plan[p].results)
    BY <2>2
  <2>4. plan[p].status # "confirmed"
    BY <1>1 DEF ConfirmationLocked
  <2> QED
    BY <2>1, <2>3, <2>4 DEF SummarySound
<1>2. TypeOK /\ SummaryInv /\ ConfirmationLocked => SummaryBacked
  BY <1>1 DEF SummaryBacked
<1> QED
  BY <1>2, SummaryInvariant, SagaInvariant, ConfirmationInit,
     ConfirmationStep, PTL DEF Spec

\* A run is reported completed only when every action of a plan of it is in
\* the ledger and has happened at the provider.
THEOREM CompletedRunsAreBacked == Spec => []CompletedRunBacked
<1>1. ASSUME TypeOK, EffectsAccounted, CompletedRecorded,
             runStatus = "completed"
      PROVE  \E p \in Plan : \A i \in 1 .. ActionCount[p] :
               ledger[<<p, i>>] = "succeeded" /\ effects[<<p, i>>] > 0
  <2>1. PICK p \in Plan :
          \A i \in 1 .. ActionCount[p] : ledger[<<p, i>>] = "succeeded"
    BY <1>1 DEF CompletedRecorded
  <2>2. ASSUME NEW i \in 1 .. ActionCount[p]
        PROVE  effects[<<p, i>>] > 0
    <3>1. <<p, i>> \in Key
      BY KeyMember
    <3>2. effects[<<p, i>>] \in Nat /\ lost[<<p, i>>] \in Nat
      BY <1>1, <3>1 DEF TypeOK
    <3>3. effects[<<p, i>>] # 0
      BY <1>1, <2>1, <3>1, <3>2 DEF EffectsAccounted
    <3> QED
      BY <3>2, <3>3
  <2> QED
    BY <2>1, <2>2
<1>2. TypeOK /\ SagaInv /\ SummaryInv => CompletedRunBacked
  BY <1>1 DEF SagaInv, SummaryInv, CompletedRunBacked
<1> QED
  BY <1>2, SummaryInvariant, SagaInvariant, PTL

============================================================================
