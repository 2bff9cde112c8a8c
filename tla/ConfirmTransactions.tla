------------------------ MODULE ConfirmTransactions ------------------------
(***************************************************************************)
(* The confirm, decline and replan requests on one run, as the database    *)
(* sees them.                                                              *)
(*                                                                         *)
(* Each request is handled in one SQLAlchemy session on one PostgreSQL     *)
(* transaction at READ COMMITTED.  A handler loads rows once (the identity *)
(* map keeps what it loaded), flushes UPDATEs that wait for row locks,     *)
(* calls the provider of the write tools in the middle of the transaction  *)
(* and commits at the end; any error or crash rolls everything back except *)
(* what the provider and Redis have already done.                          *)
(*                                                                         *)
(* Variables without a request index are durable: the committed rows, the  *)
(* Redis counter, and the provider's effects.  Those indexed by a request  *)
(* are its session, gone when it ends.                                     *)
(***************************************************************************)
EXTENDS PlanLifecycle, FiniteSets

CONSTANTS
  Plan,          \* plan ids of the run, numbers: flushes go by primary key
  ActionCount,   \* number of proposed actions of each plan
  Limited,       \* positions whose tool is rate limited (reserve_restaurant)
  RateLimit,     \* writes of that tool a window allows
  Request,       \* the requests clients send
  Kinds,         \* the kinds of request they send
  MaxOpen,       \* bound: requests handled at the same time
  MaxCrashes,    \* bound: handlers lost in the middle of a transaction
  None           \* no request holds the lock; no plan is handled

ASSUME PlanAssumption    == Plan \subseteq Nat /\ None \notin Plan
ASSUME ActionAssumption  == ActionCount \in [Plan -> Nat]
ASSUME LimitAssumption   == RateLimit \in Nat
ASSUME RequestAssumption == None \notin Request
ASSUME KindAssumption    == Kinds \subseteq {"confirm", "decline", "replan"}
ASSUME BoundAssumption   == MaxOpen \in Nat /\ MaxCrashes \in Nat

VARIABLES
  plan,        \* committed rows of plans
  runStatus,   \* committed agent_runs.status
  ledger,      \* committed action_ledger: the status of each key's row
  lock,        \* the row lock of each plan
  runLock,     \* the row lock of the run
  rateCount,   \* the tool's fixed-window counter in Redis
  unavailable, \* keys whose write the provider refuses
  effects,     \* how many times each write has happened at the provider
  lost,        \* history: how many of these a rollback has forgotten
  crashes,     \* handlers lost so far
  pc,          \* where each handler is
  kind,        \* what it handles
  target,      \* the plan it is about
  seen,        \* plan rows as its session holds them
  runSeen,     \* the run status as its session holds it
  todo,        \* rows whose selection UPDATE is still to be sent
  known,       \* the ledger as read when execution starts
  mine,        \* ledger rows it has inserted and not committed
  results      \* action results so far

durable == <<plan, runStatus, ledger, rateCount, unavailable, effects, lost>>
locks   == <<lock, runLock>>
session == <<kind, target, seen, runSeen, todo, known, mine, results>>
vars    == <<durable, locks, crashes, pc, session>>

\* An idempotency key names a plan of the run and an action of the plan.
Key == UNION {{p} \X (1 .. ActionCount[p]) : p \in Plan}

\* The statuses of a source run that replan accepts.
ReplannableStatus == {"awaiting_confirmation", "declined", "completed", "failed"}

NoRows    == [k \in Key |-> "none"]
NoSession == [p \in Plan |-> ReviewedPlan]

Goto(r, label) == pc' = [pc EXCEPT ![r] = label]

\* The rows the planning workflow leaves (HandOver of PlanningWorkflow): it
\* waits for the user with one plan selected, or it has failed to select one.
Init ==
  /\ \/ plan \in AwaitingPlans(Plan) /\ runStatus = "awaiting_confirmation"
     \/ plan = UnselectedPlans(Plan) /\ runStatus = "failed"
  /\ ledger = NoRows
  /\ lock = [p \in Plan |-> None]
  /\ runLock = None
  /\ rateCount = 0
  /\ unavailable \in SUBSET Key
  /\ effects = [k \in Key |-> 0]
  /\ lost = [k \in Key |-> 0]
  /\ crashes = 0
  /\ pc = [r \in Request |-> "new"]
  /\ kind = [r \in Request |-> "none"]
  /\ target = [r \in Request |-> None]
  /\ seen = [r \in Request |-> NoSession]
  /\ runSeen = [r \in Request |-> "awaiting_confirmation"]
  /\ todo = [r \in Request |-> {}]
  /\ known = [r \in Request |-> NoRows]
  /\ mine = [r \in Request |-> NoRows]
  /\ results = [r \in Request |-> <<>>]

----------------------------------------------------------------------------
(* Ending a transaction *)

Unlock(r) ==
  /\ lock' = [p \in Plan |-> IF lock[p] = r THEN None ELSE lock[p]]
  /\ runLock' = IF runLock = r THEN None ELSE runLock

\* Everything the session holds is dropped with it.
CloseSession(r) ==
  /\ Goto(r, "done")
  /\ kind' = [kind EXCEPT ![r] = "none"]
  /\ target' = [target EXCEPT ![r] = None]
  /\ seen' = [seen EXCEPT ![r] = NoSession]
  /\ runSeen' = [runSeen EXCEPT ![r] = "awaiting_confirmation"]
  /\ todo' = [todo EXCEPT ![r] = {}]
  /\ known' = [known EXCEPT ![r] = NoRows]
  /\ mine' = [mine EXCEPT ![r] = NoRows]
  /\ results' = [results EXCEPT ![r] = <<>>]

\* The rows r has locked become `rows'; its ledger rows become durable.
Commit(r, rows, status) ==
  /\ plan' = [p \in Plan |-> IF lock[p] = r THEN rows[p] ELSE plan[p]]
  /\ runStatus' = status
  /\ ledger' = [k \in Key |->
                  IF mine[r][k] = "none" THEN ledger[k] ELSE mine[r][k]]
  /\ Unlock(r)
  /\ CloseSession(r)
  /\ UNCHANGED <<rateCount, unavailable, effects, lost>>

\* The provider and Redis do not roll back.
Rollback(r) ==
  /\ lost' = [k \in Key |->
                IF mine[r][k] = "succeeded" THEN lost[k] + 1 ELSE lost[k]]
  /\ Unlock(r)
  /\ CloseSession(r)
  /\ UNCHANGED <<plan, runStatus, ledger, rateCount, unavailable, effects>>

----------------------------------------------------------------------------
(* Resolving the plan a request is about *)

Open == {r \in Request : pc[r] \notin {"new", "done"}}

\* A handler starts: it loads the run and the plan the request names (the
\* selected plan when it names none).
OpenRequest(r, k, p) ==
  /\ pc[r] = "new"
  /\ Cardinality(Open) < MaxOpen
  /\ Goto(r, CASE k = "replan"       -> "list"
               [] plan[p].selected   -> "decide"
               [] OTHER              -> "list")
  /\ kind' = [kind EXCEPT ![r] = k]
  /\ target' = [target EXCEPT ![r] = p]
  /\ seen' = [seen EXCEPT ![r][p] = plan[p]]
  /\ runSeen' = [runSeen EXCEPT ![r] = runStatus]
  /\ UNCHANGED <<durable, locks, crashes, todo, known, mine, results>>

\* The request may not select this plan, or may not replan this run.
CannotSelect(r) ==
  IF kind[r] = "replan"
  THEN runSeen[r] \notin ReplannableStatus
  ELSE seen[r][target[r]].status # "reviewed"

RefuseSelection(r) ==
  /\ pc[r] = "list"
  /\ CannotSelect(r)
  /\ Rollback(r)
  /\ UNCHANGED crashes

\* The session's rows once list_for_run has loaded those it did not hold.
\* Replan has loaded none before; confirm and decline hold the target.
Listed(r) ==
  [p \in Plan |-> IF p = target[r] /\ kind[r] # "replan"
                  THEN seen[r][p] ELSE plan[p]]

\* select_for_run reads the run's plans; the flush will update those whose
\* wanted row differs from the loaded one.
ListPlans(r) ==
  /\ pc[r] = "list"
  /\ ~ CannotSelect(r)
  /\ seen' = [seen EXCEPT ![r] = Listed(r)]
  /\ todo' = [todo EXCEPT ![r] =
                {p \in Plan : SelectedRow(Listed(r)[p], p = target[r])
                                # Listed(r)[p]}]
  /\ Goto(r, "select")
  /\ UNCHANGED <<durable, locks, crashes, kind, target, runSeen, known, mine,
                 results>>

\* Mutant of ComesFirst: the UPDATEs go in any order.
AnyOrder(S, p) == p \in S

\* The mapper sends the UPDATEs of one flush in primary-key order.
ComesFirst(S, p) == \A q \in S : p <= q

\* One UPDATE of the flush; it waits for the row.
SelectRow(r, p) ==
  /\ pc[r] = "select"
  /\ p \in todo[r]
  /\ ComesFirst(todo[r], p)
  /\ lock[p] = None
  /\ lock' = [lock EXCEPT ![p] = r]
  /\ seen' = [seen EXCEPT ![r][p] =
                FlushSelection(plan[p], @, p = target[r])]
  /\ todo' = [todo EXCEPT ![r] = @ \ {p}]
  /\ UNCHANGED <<durable, runLock, crashes, pc, kind, target, runSeen, known,
                 mine, results>>

\* The flush is over: confirm and decline go on with the plan, replan with
\* the workflow that plans a new run.
SelectionDone(r) ==
  /\ pc[r] = "select"
  /\ todo[r] = {}
  /\ Goto(r, IF kind[r] = "replan" THEN "replan" ELSE "decide")
  /\ UNCHANGED <<durable, locks, crashes, session>>

\* The workflow ended with a run: replan commits the selection with it.
FinishReplan(r) ==
  /\ pc[r] = "replan"
  /\ Commit(r, seen[r], runStatus)
  /\ UNCHANGED crashes

\* The workflow ended without one.
FailReplan(r) ==
  /\ pc[r] = "replan"
  /\ Rollback(r)
  /\ UNCHANGED crashes

----------------------------------------------------------------------------
(* The human decision *)

Loaded(r) == seen[r][target[r]]

\* confirm_run answers from the stored summary, or refuses; decline_run and
\* the confirmation service refuse.
EndsBeforeDecision(r) ==
  \/ /\ kind[r] = "confirm"
     /\ \/ Loaded(r).execution # "none" /\ Loaded(r).feedback # "none"
        \/ Loaded(r).status \notin {"selected", "confirmed"}
  \/ /\ kind[r] = "decline"
     /\ Loaded(r).status \notin {"selected", "declined"}

EndWithoutDecision(r) ==
  /\ pc[r] = "decide"
  /\ EndsBeforeDecision(r)
  /\ Rollback(r)
  /\ UNCHANGED crashes

\* The row as this transaction finds it when its UPDATE gets the lock.
Stored(r, p) == IF lock[p] = r THEN seen[r][p] ELSE plan[p]

\* Mutant of DecidePlan: the confirmation is not stored.
DecisionNotStored(r) ==
  /\ pc[r] = "decide"
  /\ ~ EndsBeforeDecision(r)
  /\ lock[target[r]] \in {None, r}
  /\ lock' = [lock EXCEPT ![target[r]] = r]
  /\ Goto(r, "touch_run")
  /\ UNCHANGED <<durable, runLock, crashes, kind, target, seen, runSeen, todo,
                 known, mine, results>>

\* confirm_plan and decline_plan write the plan; one whose status already
\* is the answer is left alone.
DecidePlan(r) ==
  LET p        == target[r]
      answered == IF kind[r] = "confirm" THEN "confirmed" ELSE "declined"
      decided  == IF kind[r] = "confirm"
                  THEN ConfirmedRow(Stored(r, p), Loaded(r))
                  ELSE DeclinedRow(Stored(r, p), Loaded(r))
  IN  /\ pc[r] = "decide"
      /\ ~ EndsBeforeDecision(r)
      /\ IF Loaded(r).status = answered
         THEN UNCHANGED <<lock, seen>>
         ELSE /\ lock[p] \in {None, r}
              /\ lock' = [lock EXCEPT ![p] = r]
              /\ seen' = [seen EXCEPT ![r][p] = decided]
      /\ Goto(r, "touch_run")
      /\ UNCHANGED <<durable, runLock, crashes, kind, target, runSeen, todo,
                     known, mine, results>>

\* decline_run sets the run's status and history, and commits.  The status
\* column is in the UPDATE unless the session loaded it as "declined".
FinishDecline(r) ==
  /\ pc[r] = "touch_run"
  /\ kind[r] = "decline"
  /\ runLock = None
  /\ Commit(r, seen[r], IF runSeen[r] = "declined" THEN runStatus
                                                   ELSE "declined")
  /\ UNCHANGED crashes

\* Mutant of LockRun: the decision is committed before the execution.
CommitDecision(r) ==
  /\ pc[r] = "touch_run"
  /\ kind[r] = "confirm"
  /\ runLock = None
  /\ plan' = [p \in Plan |-> IF lock[p] = r THEN seen[r][p] ELSE plan[p]]
  /\ Unlock(r)
  /\ Goto(r, "load_ledger")
  /\ UNCHANGED <<runStatus, ledger, rateCount, unavailable, effects, lost,
                 crashes, session>>

\* confirm_run appends to the run's history: the run stays locked.
LockRun(r) ==
  /\ pc[r] = "touch_run"
  /\ kind[r] = "confirm"
  /\ runLock = None
  /\ runLock' = r
  /\ runSeen' = [runSeen EXCEPT ![r] = runStatus]
  /\ Goto(r, "load_ledger")
  /\ UNCHANGED <<durable, lock, crashes, kind, target, seen, todo, known,
                 mine, results>>

----------------------------------------------------------------------------
(* Execution of the confirmed actions *)

\* A concurrent selection has taken the plan away from this request.
RefuseExecution(r) ==
  /\ pc[r] = "load_ledger"
  /\ ~ Loaded(r).selected
  /\ Rollback(r)
  /\ UNCHANGED crashes

LoadLedger(r) ==
  /\ pc[r] = "load_ledger"
  /\ Loaded(r).selected
  /\ known' = [known EXCEPT ![r] = ledger]
  /\ Goto(r, "execute")
  /\ UNCHANGED <<durable, locks, crashes, kind, target, seen, runSeen, todo,
                 mine, results>>

Current(r) == <<target[r], Len(results[r]) + 1>>

\* Mutant of Continues: a failure does not stop the execution.
ContinuesAfterFailure(r) ==
  pc[r] = "execute" /\ Len(results[r]) < ActionCount[target[r]]

\* The next confirmed action is still to be executed.
Continues(r) ==
  /\ pc[r] = "execute"
  /\ Len(results[r]) < ActionCount[target[r]]
  /\ ~ HasFailure(results[r])

\* What the gateway finds under a key: its own rows and the committed ones.
Visible(r, k) == IF mine[r][k] # "none" THEN mine[r][k] ELSE ledger[k]

Record(r, status) ==
  results' = [results EXCEPT ![r] = Append(@, status)]

\* The action has a ledger row: its status is taken from the rows read at
\* the start, or the gateway answers with an idempotent replay.
ReplayAction(r) ==
  LET k == Current(r)
  IN  /\ Continues(r)
      /\ known[r][k] # "none" \/ Visible(r, k) # "none"
      /\ Record(r, IF known[r][k] # "none" THEN known[r][k]
                                           ELSE "idempotent_replay")
      /\ UNCHANGED <<durable, locks, crashes, pc, kind, target, seen, runSeen,
                     todo, known, mine>>

\* Mutant of NotRecorded: the idempotency key is not looked up.
AlwaysExecuted(r) == pc[r] = "execute"

NotRecorded(r) ==
  known[r][Current(r)] = "none" /\ Visible(r, Current(r)) = "none"

\* The counter is incremented on every attempt, allowed or not.
CountAttempt(k) == rateCount' = IF k[2] \in Limited THEN rateCount + 1
                                                    ELSE rateCount

OverLimit(k) == k[2] \in Limited /\ rateCount >= RateLimit

LimitAction(r) ==
  /\ Continues(r)
  /\ NotRecorded(r)
  /\ OverLimit(Current(r))
  /\ CountAttempt(Current(r))
  /\ Record(r, "rate_limited")
  /\ UNCHANGED <<plan, runStatus, ledger, unavailable, effects, lost, locks,
                 crashes, pc, kind, target, seen, runSeen, todo, known, mine>>

\* No other transaction holds an uncommitted row of this key: the unique
\* index would make the INSERT wait.
KeyFree(r, k) == \A o \in Request \ {r} : mine[o][k] = "none"

\* The gateway inserts the row, calls the provider and stores the outcome.
InvokeAction(r) ==
  LET k       == Current(r)
      outcome == IF k \in unavailable THEN "failed" ELSE "succeeded"
  IN  /\ Continues(r)
      /\ NotRecorded(r)
      /\ ~ OverLimit(k)
      /\ KeyFree(r, k)
      /\ CountAttempt(k)
      /\ mine' = [mine EXCEPT ![r][k] = outcome]
      /\ effects' = [effects EXCEPT ![k] = IF outcome = "succeeded"
                                           THEN @ + 1 ELSE @]
      /\ Record(r, outcome)
      /\ UNCHANGED <<plan, runStatus, ledger, unavailable, lost, locks,
                     crashes, pc, kind, target, seen, runSeen, todo, known>>

Ends(r) == pc[r] = "execute" /\ ~ Continues(r)

Outcome(r) == Summary(results[r], ActionCount[target[r]])

\* The summary and the feedback are stored, the run takes its status from
\* them, and the transaction commits.
FinishConfirm(r) ==
  LET row == FeedbackRow(ExecutedRow(Loaded(r), Outcome(r)))
  IN  /\ Ends(r)
      /\ FeedbackAccepts(Outcome(r))
      /\ Commit(r, [seen[r] EXCEPT ![target[r]] = row], row.feedback)
      /\ UNCHANGED crashes

\* The feedback writer raises, and confirm_run answers 409.
RejectFeedback(r) ==
  /\ Ends(r)
  /\ ~ FeedbackAccepts(Outcome(r))
  /\ Rollback(r)
  /\ UNCHANGED crashes

----------------------------------------------------------------------------
(* The environment *)

\* The process or its connection dies: PostgreSQL rolls back.
Crash(r) ==
  /\ r \in Open
  /\ crashes < MaxCrashes
  /\ crashes' = crashes + 1
  /\ Rollback(r)

\* The Redis key expires.
WindowExpires ==
  /\ rateCount > 0
  /\ rateCount' = 0
  /\ UNCHANGED <<plan, runStatus, ledger, unavailable, effects, lost, locks,
                 crashes, pc, session>>

Handle(r) ==
  \/ RefuseSelection(r) \/ ListPlans(r) \/ SelectionDone(r)
  \/ \E p \in Plan : SelectRow(r, p)
  \/ FinishReplan(r) \/ FailReplan(r)
  \/ EndWithoutDecision(r) \/ DecidePlan(r) \/ FinishDecline(r) \/ LockRun(r)
  \/ RefuseExecution(r) \/ LoadLedger(r)
  \/ ReplayAction(r) \/ LimitAction(r) \/ InvokeAction(r)
  \/ FinishConfirm(r) \/ RejectFeedback(r)

Next ==
  \/ \E r \in Request, k \in Kinds, p \in Plan : OpenRequest(r, k, p)
  \/ \E r \in Request : Handle(r)
  \/ \E r \in Request : Crash(r)
  \/ WindowExpires

Spec == Init /\ [][Next]_vars

\* A handler that has started runs on: its statements end, and PostgreSQL
\* wakes one that waits for a lock when the lock is free.  Clients need not
\* send anything, handlers need not crash, windows need not expire.
Fairness == \A r \in Request : WF_vars(Handle(r))

FairSpec == Spec /\ Fairness

----------------------------------------------------------------------------
(* Properties *)

Label == {"new", "list", "select", "replan", "decide", "touch_run",
          "load_ledger", "execute", "done"}

\* Every variable holds a value of its type.
TypeOK ==
  /\ plan \in [Plan -> PlanRow]
  /\ runStatus \in RunStatus
  /\ ledger \in [Key -> LedgerStatus]
  /\ lock \in [Plan -> Request \union {None}]
  /\ runLock \in Request \union {None}
  /\ rateCount \in Nat
  /\ unavailable \in SUBSET Key
  /\ effects \in [Key -> Nat]
  /\ lost \in [Key -> Nat]
  /\ crashes \in Nat
  /\ pc \in [Request -> Label]
  /\ kind \in [Request -> Kinds \union {"none"}]
  /\ target \in [Request -> Plan \union {None}]
  /\ seen \in [Request -> [Plan -> PlanRow]]
  /\ runSeen \in [Request -> RunStatus]
  /\ todo \in [Request -> SUBSET Plan]
  /\ known \in [Request -> [Key -> LedgerStatus]]
  /\ mine \in [Request -> [Key -> LedgerStatus]]
  /\ results \in [Request -> Seq(ActionStatus)]

\* While a handler executes actions, the ledger it read once at the start
\* (list_for_run_by_idempotency_key) is still the committed ledger: the row
\* locks of the plan and the run, which the code takes only by flushing,
\* keep every other execution of the run out.
SnapshotCurrent ==
  \A r \in Request : pc[r] = "execute" => known[r] = ledger

\* Every write that happened at the provider is in the committed ledger, in
\* one open transaction, or was forgotten by a rollback, and is counted
\* once: the idempotency keys allow no other repetition, whatever requests
\* are repeated or run at the same time.
EffectsAccounted ==
  \A k \in Key :
    effects[k] = lost[k]
                 + (IF ledger[k] = "succeeded" THEN 1 ELSE 0)
                 + (IF \E r \in Request : mine[r][k] = "succeeded"
                    THEN 1 ELSE 0)

\* The saga is executed in order and stops at the first failure, across
\* every request that took part in it: an action has a ledger row only if
\* all the actions before it have succeeded.
SagaPrefix ==
  \A p \in Plan : \A j \in 1 .. ActionCount[p] :
    ledger[<<p, j>>] # "none" =>
      \A i \in 1 .. j - 1 : ledger[<<p, i>>] = "succeeded"

\* A run is reported completed only if all the actions of one of its plans
\* are in the ledger and have really happened at the provider.
CompletedRunBacked ==
  runStatus = "completed" =>
    \E p \in Plan :
      \A i \in 1 .. ActionCount[p] : /\ ledger[<<p, i>>] = "succeeded"
                                     /\ effects[<<p, i>>] > 0

\* What a committed execution summary says of an action, the ledger says
\* too; a summary comes with its feedback; and a plan never rests between
\* the confirmation and the end of its execution.
SummaryBacked ==
  \A p \in Plan :
    /\ plan[p].status # "confirmed"
    /\ plan[p].execution # "none" <=> plan[p].feedback # "none"
    /\ plan[p].status \in TerminalPlanStatus =>
         plan[p].status = PlanStatusOf(plan[p].execution)
    /\ \A i \in DOMAIN plan[p].results :
         plan[p].results[i] \in {"succeeded", "failed"} =>
           ledger[<<p, i>>] = plan[p].results[i]

\* The provider writes only for a handler that holds the plan's row with
\* the user's confirmation in it, and after the run's row is locked too.
WritesAreConfirmed ==
  [][\A k \in Key : effects'[k] # effects[k] =>
       \E r \in Request :
         /\ lock[k[1]] = r
         /\ runLock = r
         /\ seen[r][k[1]].selected
         /\ seen[r][k[1]].status = "confirmed"
         /\ seen[r][k[1]].decision = "confirmed"]_vars

\* Every request that is taken up is answered: no handler waits for ever
\* for a row that another one holds.
RequestsEnd == \A r \in Request : (r \in Open) ~> (pc[r] = "done")

----------------------------------------------------------------------------
(* What this system promises: module WriteSaga *)

\* The outcome of a key's write in the transaction that is still open.
Attempted(k) ==
  IF \E r \in Request : mine[r][k] = "succeeded" THEN "succeeded"
  ELSE IF \E r \in Request : mine[r][k] = "failed" THEN "failed"
  ELSE "none"

Saga == INSTANCE WriteSaga
          WITH recorded <- ledger, attempt <- [k \in Key |-> Attempted(k)]

\* The handlers implement the saga: every write at the provider, every
\* commit and every rollback is a step the abstract specification allows.
ImplementsSaga == Saga!Spec

----------------------------------------------------------------------------
(* What the documents say and the code does not keep *)

\* A write happens at most once at the provider.
NoDuplicateWrite == \A k \in Key : effects[k] <= 1

\* A declined plan has executed nothing.
DeclinedPlanUntouched ==
  \A p \in Plan : plan[p].decision = "declined" =>
    \A i \in 1 .. ActionCount[p] : ledger[<<p, i>>] = "none"

\* At most one plan of the run is selected.
OneSelectedPlan ==
  \A p, q \in Plan : plan[p].selected /\ plan[q].selected => p = q

============================================================================
