--------------------------- MODULE PlanLifecycle ---------------------------
(***************************************************************************)
(* The rows of the `plans' table and what the services do to one row.      *)
(*                                                                         *)
(* A row has three columns the services write: `status', `selected' and    *)
(* the document `plan_json'.  Of the document only the parts a service     *)
(* decides on are kept: the human decision, the execution status with its  *)
(* action results, and the feedback status.  The list of confirmed         *)
(* actions is the plan's proposed actions when the decision is             *)
(* "confirmed" and empty otherwise, so it is not a field of its own.       *)
(*                                                                         *)
(* Everything here is a function of values: the handlers that read, lock   *)
(* and commit rows are in module ConfirmTransactions.                      *)
(***************************************************************************)
EXTENDS Naturals, Sequences

\* The status of an action_ledger row; "none" stands for no row at all.  The
\* gateway inserts "pending" and overwrites it before any other statement
\* reads the row, in the same transaction: no one ever sees it.
LedgerStatus == {"none", "succeeded", "failed"}

\* The statuses of one action in an execution summary.
SuccessStatus == {"succeeded", "idempotent_replay"}
FailureStatus == {"failed", "blocked", "rate_limited"}
ActionStatus  == SuccessStatus \union FailureStatus
                   \union {"skipped_due_to_prior_failure"}

\* The statuses the execution workflow gives a plan, and its own.
TerminalPlanStatus == {"executed", "partially_executed",
                       "execution_failed", "execution_skipped"}
PlanStatus      == {"reviewed", "selected", "confirmed", "declined"}
                     \union TerminalPlanStatus
ExecutionStatus == {"succeeded", "partially_succeeded", "failed", "skipped"}
FeedbackStatus  == {"completed", "partially_completed", "failed", "skipped"}
RunStatus       == {"awaiting_confirmation", "declined"} \union FeedbackStatus

PlanRow ==
  [ status    : PlanStatus,
    selected  : BOOLEAN,
    decision  : {"none", "confirmed", "declined"},
    execution : {"none"} \union ExecutionStatus,
    results   : Seq(ActionStatus),
    feedback  : {"none"} \union FeedbackStatus ]

\* A plan as persist_reviewed_drafts stores it.
ReviewedPlan ==
  [ status |-> "reviewed", selected |-> FALSE, decision |-> "none",
    execution |-> "none", results |-> <<>>, feedback |-> "none" ]

----------------------------------------------------------------------------
(* Selection *)

\* The row select_for_run wants for a plan whose loaded row is `row': the
\* target becomes selected whatever its status was.
SelectedRow(row, isTarget) ==
  IF isTarget
  THEN [row EXCEPT !.selected = TRUE, !.status = "selected"]
  ELSE [row EXCEPT !.selected = FALSE,
                   !.status = IF @ = "selected" THEN "reviewed" ELSE @]

\* The rows of the plans in S as the planning workflow leaves them: with one
\* selected, or with none when it could not select one.
AwaitingPlans(S) ==
  {[q \in S |-> SelectedRow(ReviewedPlan, q = p)] : p \in S}

UnselectedPlans(S) == [q \in S |-> ReviewedPlan]

\* The UPDATE of selection names only the columns that differ from what the
\* session loaded; the other columns keep what the table holds by then.
FlushSelection(stored, loaded, isTarget) ==
  LET wanted == SelectedRow(loaded, isTarget)
  IN  [stored EXCEPT
         !.selected = IF wanted.selected = loaded.selected
                      THEN @ ELSE wanted.selected,
         !.status   = IF wanted.status = loaded.status
                      THEN @ ELSE wanted.status]

----------------------------------------------------------------------------
(* Human decision *)

\* plan_json comes whole from the loaded row; `selected' is not written.
FlushDocument(stored, loaded) ==
  [loaded EXCEPT !.selected = stored.selected]

ConfirmedRow(stored, loaded) ==
  [FlushDocument(stored, loaded) EXCEPT !.status   = "confirmed",
                                        !.decision = "confirmed"]

DeclinedRow(stored, loaded) ==
  [FlushDocument(stored, loaded) EXCEPT !.status   = "declined",
                                        !.decision = "declined"]

----------------------------------------------------------------------------
(* Execution summary *)

HasFailure(results) ==
  \E i \in DOMAIN results : results[i] \in FailureStatus

HasSuccess(results) ==
  \E i \in DOMAIN results : results[i] \in SuccessStatus

\* Mutant of Summary: what was not executed is taken to have succeeded.
OptimisticSummary(results, count) ==
  [i \in 1 .. count |->
     IF i <= Len(results) THEN results[i] ELSE "succeeded"]

\* The summary lists every confirmed action: those after a failure are
\* listed as skipped.
Summary(results, count) ==
  [i \in 1 .. count |->
     IF i <= Len(results) THEN results[i]
                          ELSE "skipped_due_to_prior_failure"]

\* Mutant of ExecutionOf: one success makes a success.
SucceededIfAny(results) ==
  IF HasSuccess(results) THEN "succeeded" ELSE "failed"

ExecutionOf(results) ==
  IF results = <<>> THEN "skipped"
  ELSE IF ~ HasSuccess(results) THEN "failed"
  ELSE IF HasFailure(results) THEN "partially_succeeded" ELSE "succeeded"

PlanStatusOf(execution) ==
  CASE execution = "succeeded"           -> "executed"
    [] execution = "partially_succeeded" -> "partially_executed"
    [] execution = "failed"              -> "execution_failed"
    [] execution = "skipped"             -> "execution_skipped"

ExecutedRow(row, results) ==
  [row EXCEPT !.status    = PlanStatusOf(ExecutionOf(results)),
              !.execution = ExecutionOf(results),
              !.results   = results]

----------------------------------------------------------------------------
(* Feedback *)

\* The statuses the feedback writer can summarise; it raises on any other.
SummarisableStatus == SuccessStatus \union FailureStatus

FeedbackAccepts(results) ==
  \A i \in DOMAIN results : results[i] \in SummarisableStatus

\* Mutant of FeedbackOf: the status goes through unmapped.
UnmappedFeedback(execution) == execution

FeedbackOf(execution) ==
  CASE execution = "succeeded"           -> "completed"
    [] execution = "partially_succeeded" -> "partially_completed"
    [] execution = "failed"              -> "failed"
    [] execution = "skipped"             -> "skipped"

FeedbackRow(row) == [row EXCEPT !.feedback = FeedbackOf(row.execution)]

============================================================================
