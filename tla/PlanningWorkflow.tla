-------------------------- MODULE PlanningWorkflow --------------------------
(***************************************************************************)
(* One run of the planning workflow: the graph of nodes from the user's    *)
(* request to the plans that wait for a confirmation, with its recovery    *)
(* loop, and on to the execution when the run confirms by itself (as the   *)
(* benchmark harness has it do).                                           *)
(*                                                                         *)
(* Each node is one action: its handler, followed by the edge the graph    *)
(* takes.  All nodes work in one database transaction, the caller's: no    *)
(* one else sees its rows before the run has ended.                        *)
(*                                                                         *)
(* What a node finds outside (searches, availability, the planner model)   *)
(* is chosen from everything it could find; a node may always raise.       *)
(***************************************************************************)
EXTENDS PlanLifecycle, RecoveryPolicy, Lists

CONSTANTS
  Pair,         \* pairs of an activity and a restaurant
  MaxDrafts,    \* drafts the generator makes at most
  MaxAttempts,  \* max_recovery_attempts
  MaxIndex,     \* bound: selected_plan_index of a request
  ActionBound,  \* bound: proposed actions of a plan
  StepCap       \* bound: nodes counted

ASSUME PairAssumption    == IsFiniteSet(Pair)
ASSUME DraftAssumption   == MaxDrafts \in Nat
\* apply_recovery takes a budget of zero for one.
ASSUME AttemptAssumption == MaxAttempts \in Nat \ {0}
ASSUME IndexAssumption   == MaxIndex \in Nat /\ ActionBound \in Nat
ASSUME CapAssumption     == StepCap \in Nat

VARIABLES
  request,      \* what the caller asked for; `vague' if it must be clarified
  node,         \* the node that runs next
  steps,        \* nodes that have run: the length of node_history
  status,       \* the status in the workflow's state
  runRow,       \* agent_runs.status in the open transaction
  offered,      \* usable pairs of the last enrichment, best first
  routeFailed,  \* a route failure is among what the enrichment found
  drafts,       \* itinerary_drafts
  reviewed,     \* the drafts that final_review_result is about
  decision,     \* recovery_decision
  attempts,     \* recovery_attempts
  level,        \* search_expansion_level
  excluded,     \* excluded_candidate_pairs
  plans,        \* rows of plans, with the draft each is made of
  selected,     \* the plan that is selected, 0 for none
  outcome       \* of the run

recovery == <<attempts, level, excluded>>
found    == <<offered, routeFailed>>
vars     == <<request, node, steps, status, runRow, found, drafts, reviewed,
              decision, recovery, plans, selected, outcome>>

\* Action-ledger rows of the run before a plan is confirmed; no node up to
\* wait_confirmation calls a write tool.
ActionsBefore == 0

Init ==
  /\ request \in [ autoConfirm : BOOLEAN, index : 0 .. MaxIndex,
                   vague : BOOLEAN, llm : BOOLEAN ]
  /\ node = "initialize"
  /\ steps = 0
  /\ status = "unset"
  /\ runRow = "none"
  /\ offered = <<>>
  /\ routeFailed = FALSE
  /\ drafts = <<>>
  /\ reviewed = <<>>
  /\ decision = "missing"
  /\ attempts = <<>>
  /\ level = 0
  /\ excluded = {}
  /\ plans = <<>>
  /\ selected = 0
  /\ outcome = "open"

\* node_history grows, and the graph follows its edge.
GoTo(next) ==
  /\ node' = next
  /\ steps' = IF steps < StepCap THEN steps + 1 ELSE steps
  /\ UNCHANGED <<request, outcome>>

----------------------------------------------------------------------------
(* From the request to the candidates *)

Initialize ==
  /\ node = "initialize"
  /\ runRow' = "running"
  /\ GoTo("parse_intent")
  /\ UNCHANGED <<status, found, drafts, reviewed, decision, recovery, plans,
                 selected>>

\* Nodes that add to the state only data nothing here depends on.
StraightEdge ==
  [ parse_intent                 |-> "load_memory",
    load_memory                  |-> "generate_queries",
    execute_searches             |-> "populate_candidate_blackboard",
    populate_candidate_blackboard |-> "pre_flight_check_availability",
    route_and_time_engine        |-> "semantic_validator" ]

StraightNode ==
  /\ node \in DOMAIN StraightEdge
  /\ GoTo(StraightEdge[node])
  /\ UNCHANGED <<status, runRow, found, drafts, reviewed, decision, recovery,
                 plans, selected>>

\* A vague request ends here with a question to the user.  Intent and
\* memories are the same each time: it does so the first time or never.
GenerateQueries ==
  /\ node = "generate_queries"
  /\ IF request.vague
     THEN /\ runRow' = "awaiting_clarification"
          /\ status' = "awaiting_clarification"
          /\ GoTo("end")
     ELSE /\ UNCHANGED <<runRow, status>>
          /\ GoTo("execute_searches")
  /\ UNCHANGED <<found, drafts, reviewed, decision, recovery, plans, selected>>

\* The drafts a generator can make of pairs: usable ones, in some order.
PossibleVerdict == {GateVerdict(e) : e \in {e \in Evidence : PairIsUsable(e)}}

Orders(n) ==
  {order \in [1 .. n -> Pair] :
     \A i, j \in 1 .. n : order[i] = order[j] => i = j}

DraftsInOrder(n) ==
  {[i \in 1 .. n |-> [pair |-> order[i], verdict |-> verdicts[i]]] :
     order \in Orders(n), verdicts \in [1 .. n -> PossibleVerdict]}

DraftList == UNION {DraftsInOrder(n) : n \in 0 .. Cardinality(Pair)}

PreFlightCheckAvailability ==
  /\ node = "pre_flight_check_availability"
  /\ offered' \in DraftList
  /\ routeFailed' \in BOOLEAN
  /\ GoTo("logical_planner_agent")
  /\ UNCHANGED <<status, runRow, drafts, reviewed, decision, recovery, plans,
                 selected>>

----------------------------------------------------------------------------
(* Drafts and their review *)

\* The generator drafts the best pairs; the exclusion comes afterwards, so
\* no pair moves up to take the place of an excluded one.
Generated == SubSeq(offered, 1, IF Len(offered) < MaxDrafts THEN Len(offered)
                                                            ELSE MaxDrafts)

\* A planner model may keep some of the drafts in another order; an answer
\* that names none, an unknown one or one twice is dropped.
Arrangements(list) ==
  IF ~ request.llm \/ list = <<>> THEN {list}
  ELSE {[i \in DOMAIN pick |-> list[pick[i]]] :
          pick \in UNION {{p \in [1 .. n -> DOMAIN list] :
                             \A i, j \in 1 .. n : p[i] = p[j] => i = j} :
                          n \in 1 .. Len(list)}}

\* Mutant of WithoutExcluded: the excluded pairs are not filtered out.
WithExcluded(list) == list

WithoutExcluded(list) ==
  Kept(list, {i \in DOMAIN list : list[i].pair \notin excluded})

LogicalPlannerAgent ==
  /\ node = "logical_planner_agent"
  /\ \E list \in Arrangements(Generated) : drafts' = WithoutExcluded(list)
  /\ GoTo("route_and_time_engine")
  /\ UNCHANGED <<status, runRow, found, reviewed, decision, recovery, plans,
                 selected>>

AttemptedActions == {attempts[i].action : i \in DOMAIN attempts}

SemanticValidator ==
  /\ node = "semantic_validator"
  /\ reviewed' = drafts
  /\ decision' = Decide(drafts, ActionsBefore, routeFailed, AttemptedActions,
                        level, excluded)
  /\ GoTo(IF decision' = "none" THEN "final_review" ELSE "apply_recovery")
  /\ UNCHANGED <<status, runRow, found, drafts, recovery, plans, selected>>

----------------------------------------------------------------------------
(* Recovery *)

StatusAfter(route) ==
  IF route \in {"failed", "awaiting_clarification"} THEN route ELSE "unset"

\* Mutant of ApplyRecovery: its updates of the recovery state are lost.
ForgetfulRecovery ==
  LET route == RouteOf(decision, Len(attempts), MaxAttempts)
  IN  /\ node = "apply_recovery"
      /\ UNCHANGED recovery
      /\ status' = IF StatusAfter(route) = "unset" THEN status ELSE route
      /\ runRow' = IF StatusAfter(route) = "unset" THEN runRow ELSE route
      /\ GoTo(IF StatusAfter(route) = "unset" THEN route ELSE "end")
      /\ UNCHANGED <<found, drafts, reviewed, decision, plans, selected>>

\* A replacement excludes the pair of the first draft, an expansion raises
\* the level; every decision is recorded as an attempt.
ApplyRecovery ==
  LET asked == RouteOf(decision, Len(attempts), MaxAttempts)
      route == IF asked = "logical_planner_agent" /\ drafts = <<>>
               THEN "failed" ELSE asked
  IN  /\ node = "apply_recovery"
      /\ attempts' = Append(attempts, [ action |-> decision,
                                        status |-> AttemptStatus(asked) ])
      /\ level' = IF route = "generate_queries" THEN 1 ELSE level
      /\ excluded' = IF route = "logical_planner_agent"
                     THEN excluded \union {drafts[1].pair} ELSE excluded
      /\ status' = IF StatusAfter(route) = "unset" THEN status ELSE route
      /\ runRow' = IF StatusAfter(route) = "unset" THEN runRow ELSE route
      /\ GoTo(IF StatusAfter(route) = "unset" THEN route ELSE "end")
      /\ UNCHANGED <<found, drafts, reviewed, decision, plans, selected>>

----------------------------------------------------------------------------
(* Presentation *)

Failed == status \in {"failed", "error"}

FinalReview ==
  /\ node = "final_review"
  /\ IF SafeToPresent(reviewed, ActionsBefore)
     THEN UNCHANGED <<status, runRow>>
     ELSE status' = "failed" /\ runRow' = "failed"
  /\ GoTo("present_to_user")
  /\ UNCHANGED <<found, drafts, reviewed, decision, recovery, plans, selected>>

\* Mutant of PersistedDrafts: one safe draft lets all of them through.
AllReviewed == reviewed

\* persist_reviewed_drafts stores the safe drafts of a safe review, if they
\* are still among the drafts of the state.
PersistedDrafts ==
  LET stored == {i \in DOMAIN reviewed :
                   /\ IsSafe(reviewed[i])
                   /\ \E j \in DOMAIN drafts : drafts[j] = reviewed[i]}
  IN  IF SafeToPresent(reviewed, ActionsBefore) THEN Kept(reviewed, stored)
                                                ELSE <<>>

Rows(list) ==
  [i \in DOMAIN list |-> [ pair |-> list[i].pair, verdict |-> list[i].verdict,
                           row |-> ReviewedPlan ]]

\* Mutant of Chosen: the index is not checked against the stored plans.
ChosenUnchecked(rows) == request.index + 1

\* The plan the request selects, 0 when its index is out of range.
Chosen(rows) == IF request.index < Len(rows) THEN request.index + 1 ELSE 0

\* Mutant of PresentToUser: a plan out of range is left to the user.
PresentAnyway ==
  /\ node = "present_to_user"
  /\ selected' = IF Failed THEN 0 ELSE Chosen(Rows(PersistedDrafts))
  /\ plans' = IF Failed THEN <<>>
              ELSE [i \in DOMAIN Rows(PersistedDrafts) |->
                     [Rows(PersistedDrafts)[i] EXCEPT
                        !.row = SelectedRow(@, i = selected')]]
  /\ GoTo("wait_confirmation")
  /\ UNCHANGED <<found, drafts, reviewed, decision, recovery, status, runRow>>

\* The safe drafts become plans and the one of the request is selected; with
\* an index out of range the run fails, and its plans stay.
PresentToUser ==
  LET rows == Rows(PersistedDrafts)
  IN  /\ node = "present_to_user"
      /\ IF Failed
         THEN UNCHANGED <<plans, selected, status, runRow>>
         ELSE /\ selected' = Chosen(rows)
              /\ plans' = IF Chosen(rows) = 0 THEN rows
                          ELSE [i \in DOMAIN rows |->
                                 [rows[i] EXCEPT
                                    !.row = SelectedRow(@, i = Chosen(rows))]]
              /\ IF Chosen(rows) = 0
                 THEN status' = "failed" /\ runRow' = "failed"
                 ELSE UNCHANGED <<status, runRow>>
      /\ GoTo("wait_confirmation")
      /\ UNCHANGED <<found, drafts, reviewed, decision, recovery>>

WaitConfirmation ==
  /\ node = "wait_confirmation"
  /\ IF Failed THEN GoTo("end") /\ UNCHANGED <<status, runRow, plans>>
     ELSE IF ~ request.autoConfirm
     THEN /\ status' = "awaiting_confirmation"
          /\ runRow' = "awaiting_confirmation"
          /\ GoTo("end")
          /\ UNCHANGED plans
     ELSE /\ plans' = [plans EXCEPT ![selected].row = ConfirmedRow(@, @)]
          /\ GoTo("saga_execution_engine")
          /\ UNCHANGED <<status, runRow>>
  /\ UNCHANGED <<found, drafts, reviewed, decision, recovery, selected>>

----------------------------------------------------------------------------
(* Execution of a run that confirms by itself *)

\* How the execution of a plan of `count' actions can go: some succeed, and
\* if these are not all, the next one fails.  How it does is the subject of
\* module ConfirmTransactions.
Executions(count) ==
  {[i \in 1 .. count |-> "succeeded"]} \union
  {Append([i \in 1 .. n |-> "succeeded"], failure) :
     n \in {m \in 0 .. count : m < count}, failure \in FailureStatus}

SagaExecutionEngine ==
  /\ node = "saga_execution_engine"
  /\ \E count \in 0 .. ActionBound : \E results \in Executions(count) :
       plans' = [plans EXCEPT ![selected].row =
                   ExecutedRow(@, Summary(results, count))]
  /\ GoTo("generate_summary_message")
  /\ UNCHANGED <<status, runRow, found, drafts, reviewed, decision, recovery,
                 selected>>

Accepted == FeedbackAccepts(plans[selected].row.results)

\* Mutant of StatusFromFeedback: whatever was executed is a success.
StatusFromExecution(feedback) ==
  IF feedback \in {"completed", "partially_completed"} THEN "completed"
                                                       ELSE "failed"

StatusFromFeedback(feedback) ==
  IF feedback = "completed" THEN "completed" ELSE "failed"

GenerateSummaryMessage ==
  LET row == FeedbackRow(plans[selected].row)
  IN  /\ node = "generate_summary_message"
      /\ Accepted
      /\ plans' = [plans EXCEPT ![selected].row = row]
      /\ runRow' = row.feedback
      /\ status' = StatusFromFeedback(row.feedback)
      /\ GoTo("end")
      /\ UNCHANGED <<found, drafts, reviewed, decision, recovery, selected>>

----------------------------------------------------------------------------
(* The end of the run *)

\* The runner returns the result.  start_run stores its metadata beside the
\* run and commits; the benchmark harness, the only caller whose runs confirm
\* by themselves, goes on reading in the open transaction.
ReturnResult ==
  /\ node = "end"
  /\ outcome = "open"
  /\ outcome' = "returned"
  /\ UNCHANGED <<request, node, steps, status, runRow, found, drafts,
                 reviewed, decision, recovery, plans, selected>>

\* The runner answers with an error and without a run.  start_run raises and
\* its transaction is rolled back; the harness leaves the rows there.
AnswerError ==
  /\ outcome' = "raised"
  /\ node' = "end"
  /\ status' = "error"
  /\ IF request.autoConfirm
     THEN UNCHANGED <<runRow, plans, selected>>
     ELSE runRow' = "none" /\ plans' = <<>> /\ selected' = 0
  /\ UNCHANGED <<request, steps, found, drafts, reviewed, decision, recovery>>

\* Mutant of RejectSummary: the writer is asked again.
AskAgain ==
  /\ node = "generate_summary_message"
  /\ ~ Accepted
  /\ UNCHANGED vars

\* The feedback writer does not know the status of a skipped action.
RejectSummary ==
  /\ node = "generate_summary_message"
  /\ ~ Accepted
  /\ AnswerError

\* Any node may raise, and the caller may fail to store what it adds.
Raise == outcome = "open" /\ AnswerError

Node ==
  \/ Initialize \/ StraightNode \/ GenerateQueries
  \/ PreFlightCheckAvailability \/ LogicalPlannerAgent \/ SemanticValidator
  \/ ApplyRecovery \/ FinalReview \/ PresentToUser \/ WaitConfirmation
  \/ SagaExecutionEngine \/ GenerateSummaryMessage \/ RejectSummary
  \/ ReturnResult

Next == Node \/ Raise

Spec == Init /\ [][Next]_vars

\* The runner calls one node after the other until the graph ends.
FairSpec == Spec /\ WF_vars(Node)

----------------------------------------------------------------------------
(* Properties *)

NodeName ==
  DOMAIN StraightEdge \union
  { "initialize", "generate_queries", "pre_flight_check_availability",
    "logical_planner_agent", "semantic_validator", "apply_recovery",
    "final_review", "present_to_user", "wait_confirmation",
    "saga_execution_engine", "generate_summary_message", "end" }

Draft == [pair : Pair, verdict : Verdict]

Action == {"none", "stop_safely", "ask_user"} \union RoutedAction

\* Every variable holds a value of its type.
TypeOK ==
  /\ request \in [ autoConfirm : BOOLEAN, index : 0 .. MaxIndex,
                   vague : BOOLEAN, llm : BOOLEAN ]
  /\ node \in NodeName
  /\ steps \in 0 .. StepCap
  /\ status \in {"unset", "awaiting_clarification", "awaiting_confirmation",
                 "completed", "failed", "error"}
  /\ runRow \in RunStatus \union {"none", "running", "awaiting_clarification"}
  /\ offered \in Seq(Draft)
  /\ routeFailed \in BOOLEAN
  /\ drafts \in Seq(Draft)
  /\ reviewed \in Seq(Draft)
  /\ decision \in Action \union {"missing"}
  /\ attempts \in Seq([ action : Action,
                        status : {"routed", "stopped", "awaiting_user"} ])
  /\ level \in {0, 1}
  /\ excluded \in SUBSET Pair
  /\ plans \in Seq([pair : Pair, verdict : Verdict, row : PlanRow])
  /\ selected \in 0 .. Len(plans)
  /\ outcome \in {"open", "returned", "raised"}

\* How many attempts of an action were carried out.
Routed(action) ==
  Cardinality({i \in DOMAIN attempts : attempts[i].action = action
                                       /\ attempts[i].status = "routed"})

\* The recovery state accounts for the attempts: one exclusion for each
\* replacement (apply_recovery appends the first draft's pair), one level
\* for each expansion, never more than max_recovery_attempts of them, and
\* an attempt that is not carried out is the last.
RecoveryAccounted ==
  /\ Cardinality(excluded) = Routed("replace_candidate")
  /\ level = Routed("expand_search_radius")
  /\ Routed("replace_candidate") + Routed("expand_search_radius")
       <= MaxAttempts
  /\ \A i \in DOMAIN attempts : attempts[i].status # "routed" =>
       i = Len(attempts) /\ node = "end"

\* A pair that was excluded is not drafted again, before or after another
\* search, and is never presented.
ExcludedStaysOut ==
  /\ node \in {"route_and_time_engine", "semantic_validator", "final_review",
               "present_to_user"} =>
       \A i \in DOMAIN drafts : drafts[i].pair \notin excluded
  /\ \A i \in DOMAIN plans : plans[i].pair \notin excluded

\* What is stored for the user is what the last review has found safe, on
\* the evidence of the last enrichment: nothing from before a recovery.
PlansAreReviewed ==
  \A i \in DOMAIN plans :
    LET draft == [pair |-> plans[i].pair, verdict |-> plans[i].verdict]
    IN  /\ draft.verdict = "safe"
        /\ \E j \in DOMAIN reviewed : reviewed[j] = draft
        /\ \E j \in DOMAIN offered : j <= MaxDrafts /\ offered[j] = draft
        /\ \A j \in DOMAIN plans : plans[j].pair = plans[i].pair => j = i

\* A run gives up only when it has nothing to present: no draft is safe,
\* and without a planner model no pair the generator looks at is safe.  A
\* replacement is then of no use: it takes one draft away when all of them
\* are blocked, and what is left has been found blocked already.
SafeDraftIsPresented ==
  /\ node = "end" /\ outcome # "raised" /\ plans = <<>> =>
       /\ \A i \in DOMAIN drafts : ~ IsSafe(drafts[i])
       /\ ~ request.llm => \A i \in DOMAIN Generated : ~ IsSafe(Generated[i])
  /\ ~ request.llm /\ excluded # {} =>
       /\ plans = <<>>
       /\ outcome = "returned" => status = "failed"

\* The status the caller gets is the one in the run's row.
StatusAgrees ==
  /\ status \in {"awaiting_clarification", "awaiting_confirmation",
                 "completed", "failed"}
  /\ status # "failed" => runRow = status
  /\ status = "failed" => runRow \in {"failed", "partially_completed",
                                      "skipped"}

\* The answer of a run and the rows it leaves agree, and the rows are those
\* from which the confirm, decline and replan requests start (Init of
\* ConfirmTransactions): exactly one plan is selected when the run awaits a
\* confirmation, none when it failed without being executed.
HandOver ==
  LET rows == [i \in DOMAIN plans |-> plans[i].row]
  IN  outcome = "returned" =>
        /\ StatusAgrees
        /\ runRow = "awaiting_confirmation" =>
             rows \in AwaitingPlans(DOMAIN plans)
        /\ status = "failed" /\ selected = 0 =>
             rows = UnselectedPlans(DOMAIN plans)
        /\ runRow = "awaiting_clarification" => plans = <<>>

\* The graph runs at most 27 nodes: the three before the loop, the longest
\* loop (a replacement, then an expansion), and the five after it.
StepsBounded == steps <= 27

\* Every run ends: the recovery loop is left.
RunEnds == <>(outcome # "open")

============================================================================
