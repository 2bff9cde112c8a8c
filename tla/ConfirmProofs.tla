--------------------------- MODULE ConfirmProofs ---------------------------
(***************************************************************************)
(* What is proved of module ConfirmTransactions, for any number of plans,  *)
(* actions and requests.                                                   *)
(***************************************************************************)
EXTENDS ConfirmInvariant, TLAPS

----------------------------------------------------------------------------
(* Rows keep their type *)

USE DEF PlanRow, PlanStatus, ExecutionStatus, FeedbackStatus, TerminalPlanStatus

LEMMA SelectedRowType ==
  ASSUME NEW row \in PlanRow, NEW isTarget \in BOOLEAN
  PROVE  SelectedRow(row, isTarget) \in PlanRow
<1>1. CASE isTarget
  BY <1>1 DEF SelectedRow
<1>2. CASE ~ isTarget
  BY <1>2 DEF SelectedRow
<1> QED
  BY <1>1, <1>2

LEMMA SelectionType ==
  ASSUME NEW row \in PlanRow, NEW loaded \in PlanRow, NEW isTarget \in BOOLEAN
  PROVE  FlushSelection(row, loaded, isTarget) \in PlanRow
<1>1. SelectedRow(loaded, isTarget) \in PlanRow
  BY SelectedRowType
<1> QED
  BY <1>1 DEF FlushSelection

LEMMA ReviewedType == ReviewedPlan \in PlanRow
BY DEF ReviewedPlan

LEMMA DecisionType ==
  ASSUME NEW row \in PlanRow, NEW loaded \in PlanRow
  PROVE  /\ ConfirmedRow(row, loaded) \in PlanRow
         /\ DeclinedRow(row, loaded) \in PlanRow
BY DEF ConfirmedRow, DeclinedRow, FlushDocument

LEMMA SummaryType ==
  ASSUME NEW list \in Seq(ActionStatus), NEW count \in Nat
  PROVE  Summary(list, count) \in Seq(ActionStatus)
BY DEF Summary, ActionStatus

LEMMA OutcomeType ==
  ASSUME NEW row \in PlanRow, NEW outcome \in Seq(ActionStatus)
  PROVE  /\ FeedbackRow(ExecutedRow(row, outcome)) \in PlanRow
         /\ FeedbackRow(ExecutedRow(row, outcome)).feedback \in FeedbackStatus
<1>1. ExecutionOf(outcome) \in ExecutionStatus
  BY DEF ExecutionOf
<1>2. /\ PlanStatusOf(ExecutionOf(outcome)) \in TerminalPlanStatus
      /\ FeedbackOf(ExecutionOf(outcome)) \in FeedbackStatus
  BY <1>1 DEF PlanStatusOf, FeedbackOf
<1> QED
  BY <1>1, <1>2 DEF FeedbackRow, ExecutedRow
HIDE DEF PlanRow, PlanStatus, ExecutionStatus, FeedbackStatus,
         TerminalPlanStatus

----------------------------------------------------------------------------
(* Type correctness *)

LEMMA KeyMember ==
  ASSUME NEW p \in Plan, NEW i \in 1 .. ActionCount[p]
  PROVE  <<p, i>> \in Key
BY DEF Key

LEMMA KeyParts ==
  ASSUME NEW k \in Key
  PROVE  /\ k[1] \in Plan
         /\ k[2] \in 1 .. ActionCount[k[1]]
         /\ k = <<k[1], k[2]>>
BY DEF Key

LEMMA InitType == Init => TypeOK /\ Targeted
<1> SUFFICES ASSUME Init PROVE TypeOK /\ Targeted
  OBVIOUS
<1>1. plan \in [Plan -> PlanRow]
  <2>1. AwaitingPlans(Plan) \subseteq [Plan -> PlanRow]
    BY ReviewedType, SelectedRowType DEF AwaitingPlans
  <2>2. UnselectedPlans(Plan) \in [Plan -> PlanRow]
    BY ReviewedType DEF UnselectedPlans
  <2> QED
    BY <2>1, <2>2 DEF Init
<1>2. NoSession \in [Plan -> PlanRow]
  BY ReviewedType DEF NoSession
<1>3. NoRows \in [Key -> LedgerStatus]
  BY DEF NoRows, LedgerStatus
<1>4. Targeted
  BY DEF Init, Targeted
<1> QED
  <2>1. runStatus \in RunStatus
    BY DEF Init, RunStatus, FeedbackStatus
  <2> QED
    BY <1>1, <1>2, <1>3, <1>4, <2>1 DEF Init, TypeOK, RunStatus, Label

LEMMA CommitType ==
  ASSUME TypeOK, Targeted,
         NEW r \in Request, NEW rows \in [Plan -> PlanRow],
         NEW status \in RunStatus,
         Commit(r, rows, status), UNCHANGED crashes
  PROVE  TypeOK' /\ Targeted'
<1>1. plan' \in [Plan -> PlanRow]
  BY DEF Commit, TypeOK
<1>2. ledger' \in [Key -> LedgerStatus]
  BY DEF Commit, TypeOK
<1>3. lock' \in [Plan -> Request \union {None}] /\ runLock' \in Request \union {None}
  BY DEF Commit, Unlock, TypeOK
<1>4. NoSession \in [Plan -> PlanRow]
  BY ReviewedType DEF NoSession
<1>5. NoRows \in [Key -> LedgerStatus]
  BY DEF NoRows, LedgerStatus
<1>6. Targeted'
  BY DEF Commit, CloseSession, Goto, Targeted, TypeOK
<1> QED
  BY <1>1, <1>2, <1>3, <1>4, <1>5, <1>6
     DEF Commit, CloseSession, Goto, TypeOK, RunStatus, Label

LEMMA RollbackType ==
  ASSUME TypeOK, Targeted,
         NEW r \in Request, Rollback(r), crashes' \in Nat
  PROVE  TypeOK' /\ Targeted'
<1>1. lost' \in [Key -> Nat]
  BY DEF Rollback, TypeOK
<1>2. lock' \in [Plan -> Request \union {None}] /\ runLock' \in Request \union {None}
  BY DEF Rollback, Unlock, TypeOK
<1>3. NoSession \in [Plan -> PlanRow]
  BY ReviewedType DEF NoSession
<1>4. NoRows \in [Key -> LedgerStatus]
  BY DEF NoRows, LedgerStatus
<1>5. Targeted'
  BY DEF Rollback, CloseSession, Goto, Targeted, TypeOK
<1> QED
  BY <1>1, <1>2, <1>3, <1>4, <1>5
     DEF Rollback, CloseSession, Goto, TypeOK, RunStatus, Label

\* A step of the selection, up to the flush.
LEMMA SelectionSteps ==
  ASSUME TypeOK, Targeted, NEW r \in Request
  PROVE  /\ \A k \in Kinds, p \in Plan :
              OpenRequest(r, k, p) => TypeOK' /\ Targeted'
         /\ ListPlans(r) => TypeOK' /\ Targeted'
         /\ \A p \in Plan : SelectRow(r, p) => TypeOK' /\ Targeted'
         /\ SelectionDone(r) => TypeOK' /\ Targeted'
<1>1. ASSUME NEW k \in Kinds, NEW p \in Plan, OpenRequest(r, k, p)
      PROVE  TypeOK' /\ Targeted'
  <2>1. Targeted'
    BY <1>1 DEF OpenRequest, Goto, Targeted, TypeOK
  <2>2. seen' \in [Request -> [Plan -> PlanRow]]
    BY <1>1 DEF OpenRequest, TypeOK
  <2> QED
    BY <1>1, <2>1, <2>2 DEF OpenRequest, Goto, TypeOK, Label, durable, locks
<1>2. ASSUME ListPlans(r)
      PROVE  TypeOK' /\ Targeted'
  <2>1. Targeted'
    BY <1>2 DEF ListPlans, Goto, Targeted, TypeOK
  <2>2. Listed(r) \in [Plan -> PlanRow]
    BY DEF Listed, TypeOK
  <2> QED
    BY <1>2, <2>1, <2>2 DEF ListPlans, Goto, TypeOK, Label, durable, locks
<1>3. ASSUME NEW p \in Plan, SelectRow(r, p)
      PROVE  TypeOK' /\ Targeted'
  <2>1. Targeted'
    BY <1>3 DEF SelectRow, Targeted
  <2>2. FlushSelection(plan[p], seen[r][p], p = target[r]) \in PlanRow
    <3>1. plan[p] \in PlanRow /\ seen[r][p] \in PlanRow
      BY DEF TypeOK
    <3>2. (p = target[r]) \in BOOLEAN
      OBVIOUS
    <3> QED
      BY <3>1, <3>2, SelectionType, Zenon
  <2>3. seen' \in [Request -> [Plan -> PlanRow]]
    BY <1>3, <2>2 DEF SelectRow, TypeOK
  <2> QED
    BY <1>3, <2>1, <2>3 DEF SelectRow, TypeOK, durable
<1>4. ASSUME SelectionDone(r)
      PROVE  TypeOK' /\ Targeted'
  <2>1. Targeted'
    BY <1>4 DEF SelectionDone, Goto, Targeted, TypeOK, session
  <2> QED
    BY <1>4, <2>1
       DEF SelectionDone, Goto, TypeOK, Label, durable, locks, session
<1> QED
  BY <1>1, <1>2, <1>3, <1>4

LEMMA DecisionSteps ==
  ASSUME TypeOK, Targeted, NEW r \in Request
  PROVE  DecidePlan(r) \/ LockRun(r) \/ LoadLedger(r) => TypeOK' /\ Targeted'
<1>1. ASSUME DecidePlan(r)
      PROVE  TypeOK' /\ Targeted'
  <2>1. target[r] \in Plan
    BY <1>1 DEF DecidePlan, Targeted
  <2>2. Stored(r, target[r]) \in PlanRow /\ Loaded(r) \in PlanRow
    BY <2>1 DEF Stored, Loaded, TypeOK
  <2> DEFINE p == target[r]
  <2>d. \/ UNCHANGED <<lock, seen>>
        \/ /\ lock' = [lock EXCEPT ![p] = r]
           /\ \/ seen' = [seen EXCEPT ![r][p] =
                            ConfirmedRow(Stored(r, p), Loaded(r))]
              \/ seen' = [seen EXCEPT ![r][p] =
                            DeclinedRow(Stored(r, p), Loaded(r))]
    BY <1>1 DEF DecidePlan
  <2>3. seen' \in [Request -> [Plan -> PlanRow]]
    <3>1. /\ ConfirmedRow(Stored(r, p), Loaded(r)) \in PlanRow
          /\ DeclinedRow(Stored(r, p), Loaded(r)) \in PlanRow
      BY <2>2, DecisionType
    <3>2. \/ UNCHANGED seen
          \/ \E row \in PlanRow : seen' = [seen EXCEPT ![r][p] = row]
      BY <2>d, <3>1
    <3>3. ASSUME NEW row \in PlanRow, seen' = [seen EXCEPT ![r][p] = row]
          PROVE  seen' \in [Request -> [Plan -> PlanRow]]
      BY <2>1, <3>3 DEF TypeOK
    <3> QED
      BY <3>2, <3>3 DEF TypeOK
  <2>4. lock' \in [Plan -> Request \union {None}]
    BY <2>d, <2>1 DEF TypeOK
  <2>5. Targeted'
    BY <1>1 DEF DecidePlan, Goto, Targeted, TypeOK
  <2> QED
    BY <1>1, <2>3, <2>4, <2>5 DEF DecidePlan, Goto, TypeOK, Label, durable
<1>2. ASSUME LockRun(r)
      PROVE  TypeOK' /\ Targeted'
  <2>1. Targeted'
    BY <1>2 DEF LockRun, Goto, Targeted, TypeOK
  <2> QED
    BY <1>2, <2>1 DEF LockRun, Goto, TypeOK, Label, durable
<1>3. ASSUME LoadLedger(r)
      PROVE  TypeOK' /\ Targeted'
  <2>1. Targeted'
    BY <1>3 DEF LoadLedger, Goto, Targeted, TypeOK
  <2> QED
    BY <1>3, <2>1 DEF LoadLedger, Goto, TypeOK, Label, durable, locks
<1> QED
  BY <1>1, <1>2, <1>3

\* The action a handler is about to execute has a key.
LEMMA CurrentKey ==
  ASSUME TypeOK, Targeted, NEW r \in Request, Continues(r)
  PROVE  Current(r) \in Key
<1>1. target[r] \in Plan
  BY DEF Continues, Targeted
<1>2. Len(results[r]) \in Nat /\ ActionCount[target[r]] \in Nat
  BY <1>1, ActionAssumption DEF TypeOK
<1>3. Len(results[r]) + 1 \in 1 .. ActionCount[target[r]]
  BY <1>2 DEF Continues
<1> QED
  BY <1>1, <1>3, KeyMember DEF Current

LEMMA ExecutionSteps ==
  ASSUME TypeOK, Targeted, NEW r \in Request
  PROVE  ReplayAction(r) \/ LimitAction(r) \/ InvokeAction(r)
           => TypeOK' /\ Targeted'
<1>1. ASSUME ReplayAction(r)
      PROVE  TypeOK' /\ Targeted'
  <2>1. Current(r) \in Key
    BY <1>1, CurrentKey DEF ReplayAction
  <2>2. results' \in [Request -> Seq(ActionStatus)]
    BY <1>1, <2>1 DEF ReplayAction, Record, TypeOK, LedgerStatus,
                      ActionStatus, SuccessStatus, FailureStatus
  <2>3. Targeted'
    BY <1>1 DEF ReplayAction, Targeted
  <2> QED
    BY <1>1, <2>2, <2>3 DEF ReplayAction, TypeOK, durable, locks
<1>2. ASSUME LimitAction(r)
      PROVE  TypeOK' /\ Targeted'
  <2>1. results' \in [Request -> Seq(ActionStatus)]
    BY <1>2 DEF LimitAction, Record, TypeOK, ActionStatus, FailureStatus
  <2>2. Targeted'
    BY <1>2 DEF LimitAction, Targeted
  <2> QED
    BY <1>2, <2>1, <2>2 DEF LimitAction, CountAttempt, TypeOK, locks
<1>3. ASSUME InvokeAction(r)
      PROVE  TypeOK' /\ Targeted'
  <2>1. Current(r) \in Key
    BY <1>3, CurrentKey DEF InvokeAction
  <2>2. results' \in [Request -> Seq(ActionStatus)]
    BY <1>3 DEF InvokeAction, Record, TypeOK, ActionStatus, SuccessStatus,
                FailureStatus
  <2>3. mine' \in [Request -> [Key -> LedgerStatus]]
    BY <1>3, <2>1 DEF InvokeAction, TypeOK, LedgerStatus
  <2>4. effects' \in [Key -> Nat]
    BY <1>3, <2>1 DEF InvokeAction, TypeOK
  <2>5. Targeted'
    BY <1>3 DEF InvokeAction, Targeted
  <2> QED
    BY <1>3, <2>2, <2>3, <2>4, <2>5 DEF InvokeAction, CountAttempt, TypeOK, locks
<1> QED
  BY <1>1, <1>2, <1>3

LEMMA EndingSteps ==
  ASSUME TypeOK, Targeted, NEW r \in Request
  PROVE  /\ RefuseSelection(r) \/ FailReplan(r) \/ EndWithoutDecision(r)
           \/ RefuseExecution(r) \/ RejectFeedback(r) \/ Crash(r)
             => TypeOK' /\ Targeted'
         /\ FinishReplan(r) \/ FinishDecline(r) \/ FinishConfirm(r)
             => TypeOK' /\ Targeted'
<1>1. ASSUME RefuseSelection(r) \/ FailReplan(r) \/ EndWithoutDecision(r)
             \/ RefuseExecution(r) \/ RejectFeedback(r) \/ Crash(r)
      PROVE  TypeOK' /\ Targeted'
  <2>1. Rollback(r)
    BY <1>1 DEF RefuseSelection, FailReplan, EndWithoutDecision,
                RefuseExecution, RejectFeedback, Crash
  <2>2. crashes' \in Nat
    BY <1>1 DEF RefuseSelection, FailReplan, EndWithoutDecision,
                RefuseExecution, RejectFeedback, Crash, TypeOK
  <2> QED
    BY <2>1, <2>2, RollbackType
<1>2. ASSUME FinishReplan(r) \/ FinishDecline(r)
      PROVE  TypeOK' /\ Targeted'
  <2>1. PICK status \in RunStatus : Commit(r, seen[r], status)
    BY <1>2 DEF FinishReplan, FinishDecline, TypeOK, RunStatus
  <2>2. seen[r] \in [Plan -> PlanRow] /\ UNCHANGED crashes
    BY <1>2 DEF FinishReplan, FinishDecline, TypeOK
  <2> QED
    BY <2>1, <2>2, CommitType
<1>3. ASSUME FinishConfirm(r)
      PROVE  TypeOK' /\ Targeted'
  <2> DEFINE row == FeedbackRow(ExecutedRow(Loaded(r), Outcome(r)))
  <2>1. target[r] \in Plan
    BY <1>3 DEF FinishConfirm, Ends, Targeted
  <2>2. Loaded(r) \in PlanRow /\ Outcome(r) \in Seq(ActionStatus)
    BY <2>1, ActionAssumption, SummaryType DEF Loaded, Outcome, TypeOK
  <2>3. row \in PlanRow /\ row.feedback \in RunStatus
    BY <2>2, OutcomeType DEF RunStatus
  <2>4. [seen[r] EXCEPT ![target[r]] = row] \in [Plan -> PlanRow]
    BY <2>1, <2>3 DEF TypeOK
  <2>5. /\ Commit(r, [seen[r] EXCEPT ![target[r]] = row], row.feedback)
        /\ UNCHANGED crashes
    BY <1>3 DEF FinishConfirm
  <2> HIDE DEF row
  <2> QED
    BY <2>3, <2>4, <2>5, CommitType
<1> QED
  BY <1>1, <1>2, <1>3

LEMMA TypeStep == TypeOK /\ Targeted /\ [Next]_vars => TypeOK' /\ Targeted'
<1> SUFFICES ASSUME TypeOK, Targeted, [Next]_vars PROVE TypeOK' /\ Targeted'
  OBVIOUS
<1>1. ASSUME NEW r \in Request, NEW k \in Kinds, NEW p \in Plan,
             OpenRequest(r, k, p)
      PROVE  TypeOK' /\ Targeted'
  BY <1>1, SelectionSteps
<1>2. ASSUME NEW r \in Request, Handle(r)
      PROVE  TypeOK' /\ Targeted'
  BY <1>2, SelectionSteps, DecisionSteps, ExecutionSteps, EndingSteps
     DEF Handle
<1>3. ASSUME NEW r \in Request, Crash(r)
      PROVE  TypeOK' /\ Targeted'
  BY <1>3, EndingSteps
<1>4. CASE WindowExpires
  BY <1>4 DEF WindowExpires, TypeOK, Targeted, session, locks
<1>5. CASE UNCHANGED vars
  BY <1>5 DEF vars, TypeOK, Targeted, session, locks, durable
<1> QED
  BY <1>1, <1>2, <1>3, <1>4, <1>5 DEF Next

\* Whatever the plans, the actions and the requests, every variable keeps
\* its type: in particular no summary has a status the workflow does not
\* know, and no run a status the feedback does not map to.
THEOREM TypeCorrect == Spec => []TypeOK
<1>1. Spec => [](TypeOK /\ Targeted)
  BY InitType, TypeStep, PTL DEF Spec
<1> QED
  BY <1>1, PTL

============================================================================
