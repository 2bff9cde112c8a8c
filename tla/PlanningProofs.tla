---------------------------- MODULE PlanningProofs ----------------------------
(***************************************************************************)
(* What is proved of module PlanningWorkflow: for any pairs, any number of *)
(* drafts, any budget of recoveries and any outcome of the searches, of    *)
(* the planner model and of the execution.                                 *)
(***************************************************************************)
EXTENDS PlanningWorkflow, ListProofs

----------------------------------------------------------------------------
(* Types *)

\* Drafts are of different pairs, and of those the last enrichment offered.
Distinct(list) ==
  \A i, j \in DOMAIN list : list[i].pair = list[j].pair => i = j

Within(list, n) ==
  \A i \in DOMAIN list : \E j \in DOMAIN offered :
    j <= n /\ offered[j] = list[i]

LEMMA OfferedType ==
  ASSUME NEW list \in DraftList
  PROVE  list \in Seq(Draft) /\ Distinct(list)
<1>1. PICK n \in 0 .. Cardinality(Pair) : list \in DraftsInOrder(n)
  BY DEF DraftList
<1>0. PICK order \in Orders(n), verdicts \in [1 .. n -> PossibleVerdict] :
        list = [i \in 1 .. n |-> [pair |-> order[i], verdict |-> verdicts[i]]]
  BY <1>1 DEF DraftsInOrder
<1>2. n \in Nat
  BY <1>1
<1>3. PossibleVerdict \subseteq Verdict
  BY DEF PossibleVerdict, GateVerdict, Verdict, DiningVerdict, Evidence
<1>4. \A i \in 1 .. n : list[i] \in Draft /\ list[i].pair = order[i]
  BY <1>0, <1>3 DEF Draft, Orders
<1>5. list \in Seq(Draft) /\ DOMAIN list = 1 .. n
  BY <1>0, <1>2, <1>4
<1> QED
  BY <1>0, <1>4, <1>5 DEF Distinct, Orders

LEMMA GeneratedType ==
  ASSUME offered \in Seq(Draft), Distinct(offered)
  PROVE  /\ Generated \in Seq(Draft)
         /\ Distinct(Generated) /\ Within(Generated, MaxDrafts)
<1> DEFINE n == IF Len(offered) < MaxDrafts THEN Len(offered) ELSE MaxDrafts
<1>1. /\ Len(offered) \in Nat /\ DOMAIN offered = 1 .. Len(offered)
      /\ n \in Nat /\ n <= Len(offered) /\ n <= MaxDrafts
  BY DraftAssumption
<1>2. /\ Generated \in Seq(Draft) /\ DOMAIN Generated = 1 .. n
      /\ \A i \in 1 .. n : Generated[i] = offered[i]
  <2>1. Generated = SubSeq(offered, 1, n)
    BY DEF Generated
  <2> HIDE DEF n
  <2> QED
    BY <1>1, <2>1
<1> HIDE DEF n
<1>3. \A i \in 1 .. n : i \in DOMAIN offered /\ i <= MaxDrafts
  BY <1>1, DraftAssumption
<1>4. Distinct(Generated)
  BY <1>2, <1>3 DEF Distinct
<1>5. Within(Generated, MaxDrafts)
  BY <1>2, <1>3 DEF Within
<1> QED
  BY <1>2, <1>4, <1>5

LEMMA ArrangementType ==
  ASSUME NEW list \in Seq(Draft), Distinct(list), Within(list, MaxDrafts),
         NEW other \in Arrangements(list)
  PROVE  /\ other \in Seq(Draft)
         /\ Distinct(other) /\ Within(other, MaxDrafts)
<1>1. CASE other = list
  BY <1>1
<1>2. CASE other # list
  <2>0. PICK n \in 1 .. Len(list) :
          \E pick \in [1 .. n -> DOMAIN list] :
            /\ \A i, j \in 1 .. n : pick[i] = pick[j] => i = j
            /\ other = [i \in DOMAIN pick |-> list[pick[i]]]
    BY <1>2 DEF Arrangements
  <2>1. PICK pick \in [1 .. n -> DOMAIN list] :
          /\ \A i, j \in 1 .. n : pick[i] = pick[j] => i = j
          /\ other = [i \in 1 .. n |-> list[pick[i]]]
    BY <2>0
  <2>2. n \in Nat /\ DOMAIN list = 1 .. Len(list)
    BY <2>1
  <2>3. /\ \A i \in 1 .. n : other[i] = list[pick[i]] /\ other[i] \in Draft
        /\ DOMAIN other = 1 .. n
    BY <2>1, <2>2
  <2>4. other \in Seq(Draft)
    BY <2>1, <2>2, <2>3
  <2> QED
    BY <2>1, <2>3, <2>4 DEF Distinct, Within
<1> QED
  BY <1>1, <1>2

LEMMA KeptDrafts ==
  ASSUME NEW list \in Seq(Draft), Distinct(list),
         NEW positions \in SUBSET DOMAIN list
  PROVE  /\ Kept(list, positions) \in Seq(Draft)
         /\ Distinct(Kept(list, positions))
         /\ \A i \in DOMAIN Kept(list, positions) :
              \E p \in positions : Kept(list, positions)[i] = list[p]
         /\ \A p \in positions : \E i \in DOMAIN Kept(list, positions) :
              Kept(list, positions)[i] = list[p]
<1> DEFINE kept == Kept(list, positions)
<1>1. /\ kept \in Seq(Draft)
      /\ \A i \in DOMAIN kept : \E p \in positions : kept[i] = list[p]
      /\ \A p \in positions : \E i \in DOMAIN kept : kept[i] = list[p]
      /\ \A i, j \in DOMAIN kept : i # j =>
           \E p, q \in positions :
             p # q /\ kept[i] = list[p] /\ kept[j] = list[q]
  BY KeptMembers
<1> HIDE DEF kept
<1>2. ASSUME NEW i \in DOMAIN kept, NEW j \in DOMAIN kept, i # j
      PROVE  kept[i].pair # kept[j].pair
  <2>1. PICK p, q \in positions : p # q /\ kept[i] = list[p] /\ kept[j] = list[q]
    BY <1>1, <1>2
  <2> QED
    BY <2>1 DEF Distinct
<1>3. Distinct(kept)
  BY <1>2 DEF Distinct
<1> QED
  BY <1>1, <1>3 DEF kept

----------------------------------------------------------------------------
(* Rows *)

USE DEF PlanRow, PlanStatus, ExecutionStatus, FeedbackStatus,
        TerminalPlanStatus

LEMMA RowTypes ==
  /\ ReviewedPlan \in PlanRow
  /\ \A row \in PlanRow, b \in BOOLEAN : SelectedRow(row, b) \in PlanRow
  /\ \A row \in PlanRow : ConfirmedRow(row, row) \in PlanRow
<1>1. ReviewedPlan \in PlanRow
  BY DEF ReviewedPlan
<1>2. ASSUME NEW row \in PlanRow, NEW b \in BOOLEAN
      PROVE  SelectedRow(row, b) \in PlanRow
  <2>1. CASE b
    BY <2>1 DEF SelectedRow
  <2>2. CASE ~ b
    BY <2>2 DEF SelectedRow
  <2> QED
    BY <2>1, <2>2
<1>3. ASSUME NEW row \in PlanRow PROVE ConfirmedRow(row, row) \in PlanRow
  BY DEF ConfirmedRow, FlushDocument
<1> QED
  BY <1>1, <1>2, <1>3

LEMMA ExecutedType ==
  ASSUME NEW row \in PlanRow, NEW count \in Nat,
         NEW results \in Executions(count)
  PROVE  LET new == ExecutedRow(row, Summary(results, count))
         IN  new \in PlanRow /\ new.execution \in ExecutionStatus
<1>1. results \in Seq(ActionStatus)
  <2>1. CASE results = [i \in 1 .. count |-> "succeeded"]
    BY <2>1 DEF ActionStatus, SuccessStatus
  <2>2. CASE results # [i \in 1 .. count |-> "succeeded"]
    <3>1. PICK n \in {m \in 0 .. count : m < count}, failure \in FailureStatus :
            results = Append([i \in 1 .. n |-> "succeeded"], failure)
      BY <2>2 DEF Executions
    <3>2. [i \in 1 .. n |-> "succeeded"] \in Seq(ActionStatus)
      BY <3>1 DEF ActionStatus, SuccessStatus
    <3>3. failure \in ActionStatus
      BY <3>1 DEF ActionStatus
    <3> QED
      BY <3>1, <3>2, <3>3
  <2> QED
    BY <2>1, <2>2
<1>2. Summary(results, count) \in Seq(ActionStatus)
  BY <1>1 DEF Summary, ActionStatus
<1>3. \A list : ExecutionOf(list) \in ExecutionStatus
  BY DEF ExecutionOf
<1>4. \A came \in ExecutionStatus : PlanStatusOf(came) \in TerminalPlanStatus
  BY DEF PlanStatusOf
<1> QED
  BY <1>2, <1>3, <1>4 DEF ExecutedRow

LEMMA FeedbackType ==
  ASSUME NEW row \in PlanRow, row.execution \in ExecutionStatus
  PROVE  /\ FeedbackRow(row) \in PlanRow
         /\ FeedbackRow(row).feedback \in FeedbackStatus
         /\ FeedbackRow(row).execution = row.execution
<1>1. FeedbackOf(row.execution) \in FeedbackStatus
  BY DEF FeedbackOf
<1> QED
  BY <1>1 DEF FeedbackRow

HIDE DEF PlanRow, PlanStatus, ExecutionStatus, FeedbackStatus,
         TerminalPlanStatus

----------------------------------------------------------------------------
(* Types, and what stands at each node *)

StoredPlan == [pair : Pair, verdict : Verdict, row : PlanRow]

TheRows == [i \in DOMAIN plans |-> plans[i].row]

\* What the rows, the status and the selection are when a node starts: what
\* HandOver says of the end is what the nodes before it prepare.
Standing ==
  /\ node # "end" => outcome = "open"
  /\ node \notin {"wait_confirmation", "saga_execution_engine",
                  "generate_summary_message", "end"} =>
       plans = <<>> /\ selected = 0
  /\ node \notin {"present_to_user", "wait_confirmation", "end"} =>
       status = "unset"
  /\ node = "apply_recovery" => decision \in Action \ {"none"}
  /\ node = "present_to_user" =>
       status = "unset" \/ (status = "failed" /\ runRow = "failed")
  /\ node = "wait_confirmation" =>
       \/ /\ status = "failed" /\ runRow = "failed" /\ selected = 0
          /\ TheRows = UnselectedPlans(DOMAIN plans)
       \/ /\ status = "unset" /\ selected # 0
          /\ TheRows \in AwaitingPlans(DOMAIN plans)
  /\ node \in {"saga_execution_engine", "generate_summary_message"} =>
       selected # 0
  /\ node = "generate_summary_message" =>
       plans[selected].row.execution \in ExecutionStatus
  /\ node = "end" /\ outcome # "raised" =>
       /\ StatusAgrees
       /\ runRow = "awaiting_confirmation" =>
            TheRows \in AwaitingPlans(DOMAIN plans)
       /\ status = "failed" /\ selected = 0 =>
            TheRows = UnselectedPlans(DOMAIN plans)
       /\ runRow = "awaiting_clarification" => plans = <<>>

Sound == TypeOK /\ Standing

LEMMA NodeTypes ==
  /\ DOMAIN StraightEdge = {"parse_intent", "load_memory", "execute_searches",
       "populate_candidate_blackboard", "route_and_time_engine"}
  /\ \A n \in DOMAIN StraightEdge :
       StraightEdge[n] \in {"load_memory", "generate_queries",
         "populate_candidate_blackboard", "pre_flight_check_availability",
         "semantic_validator"}
  /\ NodeName = { "parse_intent", "load_memory", "execute_searches",
       "populate_candidate_blackboard", "route_and_time_engine",
       "initialize", "generate_queries", "pre_flight_check_availability",
       "logical_planner_agent", "semantic_validator", "apply_recovery",
       "final_review", "present_to_user", "wait_confirmation",
       "saga_execution_engine", "generate_summary_message", "end" }
BY DEF StraightEdge, NodeName

LEMMA GoToType ==
  ASSUME TypeOK, NEW next \in NodeName, GoTo(next)
  PROVE  /\ request' = request /\ outcome' = outcome /\ node' = next
         /\ steps' \in 0 .. StepCap
BY CapAssumption DEF TypeOK, GoTo

LEMMA NoRows ==
  ASSUME plans = <<>>
  PROVE  TheRows = UnselectedPlans(DOMAIN plans)
BY DEF TheRows, UnselectedPlans

LEMMA InitSound == Init => Sound
<1> SUFFICES ASSUME Init PROVE Sound
  OBVIOUS
<1>1. /\ <<>> \in Seq(Draft) /\ <<>> \in Seq(StoredPlan)
      /\ <<>> \in Seq([ action : Action,
                        status : {"routed", "stopped", "awaiting_user"} ])
      /\ Len(<<>>) = 0 /\ 0 \in 0 .. 0
  OBVIOUS
<1>2. TypeOK
  <2>1. /\ request \in [ autoConfirm : BOOLEAN, index : 0 .. MaxIndex,
                         vague : BOOLEAN, llm : BOOLEAN ]
        /\ node \in NodeName /\ steps \in 0 .. StepCap
        /\ level \in {0, 1} /\ excluded \in SUBSET Pair
        /\ routeFailed \in BOOLEAN
    <3>1. request \in [ autoConfirm : BOOLEAN, index : 0 .. MaxIndex,
                        vague : BOOLEAN, llm : BOOLEAN ]
      BY DEF Init
    <3>2. node \in NodeName
      BY NodeTypes DEF Init
    <3>3. steps \in 0 .. StepCap
      BY CapAssumption DEF Init
    <3> QED
      BY <3>1, <3>2, <3>3 DEF Init
  <2>2. /\ offered \in Seq(Draft) /\ drafts \in Seq(Draft)
        /\ reviewed \in Seq(Draft)
        /\ attempts \in Seq([ action : Action,
                        status : {"routed", "stopped", "awaiting_user"} ])
        /\ plans \in Seq([pair : Pair, verdict : Verdict, row : PlanRow])
        /\ selected \in 0 .. Len(plans)
    BY <1>1 DEF Init, StoredPlan
  <2> QED
    BY <2>1, <2>2 DEF Init, TypeOK
<1>3. Standing
  BY DEF Init, Standing
<1> QED
  BY <1>2, <1>3 DEF Sound

LEMMA StraightSteps ==
  ASSUME Sound, Initialize \/ StraightNode \/ GenerateQueries
  PROVE  Sound'
<1>1. CASE Initialize
  <2>1. "parse_intent" \in NodeName
    BY NodeTypes
  <2>2. TypeOK'
    BY <1>1, <2>1, GoToType DEF Sound, Initialize, TypeOK, found, recovery
  <2>3. Standing'
    BY <1>1 DEF Sound, Initialize, GoTo, Standing
  <2> QED
    BY <2>2, <2>3 DEF Sound
<1>2. CASE StraightNode
  <2>1. StraightEdge[node] \in NodeName
    BY <1>2, NodeTypes DEF StraightNode
  <2>2. TypeOK'
    BY <1>2, <2>1, GoToType DEF Sound, StraightNode, TypeOK, found, recovery
  <2>3. Standing'
    BY <1>2, NodeTypes DEF Sound, StraightNode, GoTo, Standing
  <2> QED
    BY <2>2, <2>3 DEF Sound
<1>3. CASE GenerateQueries
  <2>1. "end" \in NodeName /\ "execute_searches" \in NodeName
    BY NodeTypes
  <2>2. TypeOK'
    <3>1. CASE request.vague
      BY <1>3, <2>1, <3>1, GoToType
         DEF Sound, GenerateQueries, TypeOK, found, recovery
    <3>2. CASE ~ request.vague
      BY <1>3, <2>1, <3>2, GoToType
         DEF Sound, GenerateQueries, TypeOK, found, recovery
    <3> QED
      BY <3>1, <3>2
  <2>3. Standing'
    <3>1. CASE request.vague
      <4>1. /\ status' = "awaiting_clarification" /\ runRow' = status'
            /\ node' = "end" /\ outcome' = "open"
            /\ plans' = <<>> /\ selected' = 0
        BY <1>3, <3>1 DEF Sound, Standing, GenerateQueries, GoTo
      <4> QED
        BY <4>1 DEF Standing, StatusAgrees
    <3>2. CASE ~ request.vague
      BY <1>3, <3>2 DEF Sound, GenerateQueries, GoTo, Standing
    <3> QED
      BY <3>1, <3>2
  <2> QED
    BY <2>2, <2>3 DEF Sound
<1> QED
  BY <1>1, <1>2, <1>3

\* Facts about drafts that the types of the next nodes rest on.
LEMMA DraftingSteps ==
  ASSUME Sound, Distinct(offered),
         PreFlightCheckAvailability \/ LogicalPlannerAgent \/ SemanticValidator
  PROVE  Sound'
<1>1. CASE PreFlightCheckAvailability
  <2>1. "logical_planner_agent" \in NodeName
    BY NodeTypes
  <2>2. offered' \in Seq(Draft)
    BY <1>1, OfferedType DEF PreFlightCheckAvailability
  <2>3. TypeOK'
    BY <1>1, <2>1, <2>2, GoToType
       DEF Sound, PreFlightCheckAvailability, TypeOK, recovery
  <2>4. Standing'
    BY <1>1 DEF Sound, PreFlightCheckAvailability, GoTo, Standing
  <2> QED
    BY <2>3, <2>4 DEF Sound
<1>2. CASE LogicalPlannerAgent
  <2>1. "route_and_time_engine" \in NodeName
    BY NodeTypes
  <2>2. drafts' \in Seq(Draft)
    BY <1>2, GeneratedType, ArrangementType, KeptMembers
       DEF Sound, TypeOK, LogicalPlannerAgent, WithoutExcluded
  <2>3. TypeOK'
    BY <1>2, <2>1, <2>2, GoToType
       DEF Sound, LogicalPlannerAgent, TypeOK, recovery, found
  <2>4. Standing'
    BY <1>2 DEF Sound, LogicalPlannerAgent, GoTo, Standing
  <2> QED
    BY <2>3, <2>4 DEF Sound
<1>3. CASE SemanticValidator
  <2>1. "final_review" \in NodeName /\ "apply_recovery" \in NodeName
    BY NodeTypes
  <2>2. decision' \in Action
    BY <1>3 DEF SemanticValidator, Decide, Action, RoutedAction
  <2>3. TypeOK'
    BY <1>3, <2>1, <2>2, GoToType
       DEF Sound, SemanticValidator, TypeOK, recovery, found
  <2>4. Standing'
    BY <1>3, <2>2 DEF Sound, SemanticValidator, GoTo, Standing
  <2> QED
    BY <2>3, <2>4 DEF Sound
<1> QED
  BY <1>1, <1>2, <1>3

LEMMA RecoverySteps ==
  ASSUME Sound, ApplyRecovery PROVE Sound'
<1> DEFINE asked == RouteOf(decision, Len(attempts), MaxAttempts)
           route == IF asked = "logical_planner_agent" /\ drafts = <<>>
                    THEN "failed" ELSE asked
<1>1. decision \in Action \ {"none"} /\ plans = <<>> /\ selected = 0
      /\ status = "unset" /\ outcome = "open"
  BY DEF ApplyRecovery, Sound, Standing
<1>2. asked \in {"awaiting_clarification", "logical_planner_agent",
                 "generate_queries", "failed"}
  BY <1>1 DEF RouteOf, Action, RoutedAction
<1>3. route \in {"awaiting_clarification", "logical_planner_agent",
                 "generate_queries", "failed"}
      /\ (route = "logical_planner_agent" => drafts # <<>>)
  BY <1>2
<1>4. attempts' \in Seq([ action : Action,
                          status : {"routed", "stopped", "awaiting_user"} ])
  <2>1. AttemptStatus(asked) \in {"routed", "stopped", "awaiting_user"}
    BY DEF AttemptStatus
  <2> HIDE DEF asked
  <2> QED
    BY <2>1, <1>1 DEF ApplyRecovery, Sound, TypeOK, asked
<1> HIDE DEF asked
<1>5. /\ level' = IF route = "generate_queries" THEN 1 ELSE level
      /\ excluded' = IF route = "logical_planner_agent"
                     THEN excluded \union {drafts[1].pair} ELSE excluded
      /\ status' = IF StatusAfter(route) = "unset" THEN status ELSE route
      /\ runRow' = IF StatusAfter(route) = "unset" THEN runRow ELSE route
      /\ GoTo(IF StatusAfter(route) = "unset" THEN route ELSE "end")
      /\ UNCHANGED <<found, drafts, reviewed, decision, plans, selected>>
  BY DEF ApplyRecovery, asked
<1> HIDE DEF route
<1>6. StatusAfter(route) = IF route \in {"failed", "awaiting_clarification"}
                           THEN route ELSE "unset"
  BY DEF StatusAfter
<1>7. TypeOK'
  <2>1. excluded' \in SUBSET Pair
    <3>1. route = "logical_planner_agent" => drafts[1].pair \in Pair
      <4> SUFFICES ASSUME route = "logical_planner_agent"
                   PROVE  drafts[1].pair \in Pair
        OBVIOUS
      <4>1. drafts \in Seq(Draft) /\ drafts # <<>>
        BY <1>3 DEF Sound, TypeOK
      <4>2. drafts[1] \in Draft
        BY <4>1
      <4> QED
        BY <4>2 DEF Draft
    <3> QED
      BY <1>5, <3>1 DEF Sound, TypeOK
  <2>2. /\ node' \in NodeName /\ steps' \in 0 .. StepCap
        /\ request' = request /\ outcome' = outcome
    BY <1>3, <1>5, <1>6, NodeTypes, GoToType DEF Sound
  <2>3. runRow' \in RunStatus \union {"none", "running",
                                      "awaiting_clarification"}
    BY <1>3, <1>5, <1>6 DEF Sound, TypeOK, RunStatus, FeedbackStatus
  <2>4. level' \in {0, 1}
    BY <1>5 DEF Sound, TypeOK
  <2>5. status' \in {"unset", "awaiting_clarification",
                     "awaiting_confirmation", "completed", "failed", "error"}
    BY <1>3, <1>5, <1>6 DEF Sound, TypeOK
  <2> QED
    BY <1>4, <1>5, <2>1, <2>2, <2>3, <2>4, <2>5 DEF Sound, TypeOK, found
<1>8. Standing'
  <2>1. /\ outcome' = "open" /\ plans' = <<>> /\ selected' = 0
        /\ node' = IF StatusAfter(route) = "unset" THEN route ELSE "end"
    BY <1>1, <1>5 DEF GoTo
  <2>2. CASE route \in {"failed", "awaiting_clarification"}
    <3>1. node' = "end" /\ status' = route /\ runRow' = route
      BY <1>5, <1>6, <2>1, <2>2
    <3>2. TheRows' = UnselectedPlans(DOMAIN plans')
      BY <2>1 DEF TheRows, UnselectedPlans
    <3> QED
      BY <2>1, <2>2, <3>1, <3>2 DEF Standing, StatusAgrees
  <2>3. CASE route \notin {"failed", "awaiting_clarification"}
    <3>1. node' \in {"logical_planner_agent", "generate_queries"}
          /\ status' = "unset"
      BY <1>1, <1>3, <1>5, <1>6, <2>1, <2>3
    <3> QED
      BY <2>1, <3>1 DEF Standing
  <2> QED
    BY <2>2, <2>3
<1> QED
  BY <1>7, <1>8 DEF Sound

LEMMA FinalReviewStep ==
  ASSUME Sound, FinalReview PROVE Sound'
<1>1. /\ node' = "present_to_user" /\ steps' \in 0 .. StepCap
      /\ request' = request /\ outcome' = outcome
  BY NodeTypes, GoToType DEF Sound, FinalReview
<1>2. \/ status' = status /\ runRow' = runRow
      \/ status' = "failed" /\ runRow' = "failed"
  BY DEF FinalReview
<1>3. UNCHANGED <<found, drafts, reviewed, decision, recovery, plans, selected>>
  BY DEF FinalReview
<1>4. TypeOK'
  BY <1>1, <1>2, <1>3, NodeTypes
     DEF Sound, TypeOK, found, recovery, RunStatus, FeedbackStatus
<1>5. Standing'
  BY <1>1, <1>2, <1>3 DEF Sound, Standing, FinalReview
<1> QED
  BY <1>4, <1>5 DEF Sound

LEMMA PersistedType ==
  ASSUME reviewed \in Seq(Draft)
  PROVE  PersistedDrafts \in Seq(Draft)
BY KeptMembers DEF PersistedDrafts

LEMMA RowsType ==
  ASSUME NEW list \in Seq(Draft)
  PROVE  /\ Rows(list) \in Seq(StoredPlan)
         /\ DOMAIN Rows(list) = DOMAIN list /\ Len(Rows(list)) = Len(list)
         /\ \A i \in DOMAIN list :
              /\ Rows(list)[i].pair = list[i].pair
              /\ Rows(list)[i].verdict = list[i].verdict
              /\ Rows(list)[i].row = ReviewedPlan
<1>1. DOMAIN list = 1 .. Len(list) /\ Len(list) \in Nat
  OBVIOUS
<1>2. \A i \in DOMAIN list : list[i].pair \in Pair /\ list[i].verdict \in Verdict
  <2> SUFFICES ASSUME NEW i \in DOMAIN list
               PROVE  list[i].pair \in Pair /\ list[i].verdict \in Verdict
    OBVIOUS
  <2>1. list[i] \in Draft
    OBVIOUS
  <2> QED
    BY <2>1 DEF Draft
<1> QED
  BY <1>1, <1>2, RowTypes DEF Rows, StoredPlan

LEMMA PresentStep ==
  ASSUME Sound, PresentToUser PROVE Sound'
<1> DEFINE rows == Rows(PersistedDrafts)
<1>1. /\ node' = "wait_confirmation" /\ steps' \in 0 .. StepCap
      /\ request' = request /\ outcome' = outcome
      /\ plans = <<>> /\ selected = 0 /\ outcome = "open"
      /\ status = "unset" \/ (status = "failed" /\ runRow = "failed")
  BY NodeTypes, GoToType DEF Sound, Standing, PresentToUser
<1>2. UNCHANGED <<found, drafts, reviewed, decision, recovery>>
  BY DEF PresentToUser
<1>3. /\ rows \in Seq(StoredPlan)
      /\ \A i \in DOMAIN rows : rows[i].row = ReviewedPlan
  BY PersistedType, RowsType DEF Sound, TypeOK
<1>4. CASE Failed
  <2>1. UNCHANGED <<plans, selected, status, runRow>> /\ status = "failed"
        /\ runRow = "failed"
    BY <1>1, <1>4 DEF PresentToUser, Failed
  <2>2. TypeOK'
    BY <1>1, <1>2, <2>1, NodeTypes DEF Sound, TypeOK, found, recovery
  <2>3. TheRows' = UnselectedPlans(DOMAIN plans')
    BY <1>1, <2>1 DEF TheRows, UnselectedPlans
  <2> QED
    BY <1>1, <2>1, <2>2, <2>3 DEF Sound, Standing
<1>5. CASE ~ Failed /\ Chosen(rows) = 0
  <2>1. /\ plans' = rows /\ selected' = 0
        /\ status' = "failed" /\ runRow' = "failed"
    BY <1>5 DEF PresentToUser
  <2>2. selected' \in 0 .. Len(plans')
    BY <1>3, <2>1
  <2>3. TypeOK'
    BY <1>1, <1>2, <1>3, <2>1, <2>2, NodeTypes
       DEF Sound, TypeOK, found, recovery, RunStatus, FeedbackStatus, StoredPlan
  <2>4. TheRows' = UnselectedPlans(DOMAIN plans')
    <3> HIDE DEF rows
    <3> QED
      BY <1>3, <2>1 DEF TheRows, UnselectedPlans
  <2> QED
    BY <1>1, <2>1, <2>3, <2>4 DEF Sound, Standing
<1>6. CASE ~ Failed /\ Chosen(rows) # 0
  <2>1. /\ selected' = Chosen(rows)
        /\ plans' = [i \in DOMAIN rows |->
                       [rows[i] EXCEPT !.row = SelectedRow(@, i = Chosen(rows))]]
        /\ status' = status /\ runRow' = runRow
    BY <1>6 DEF PresentToUser
  <2>2. Chosen(rows) \in 1 .. Len(rows)
    BY <1>3, <1>6, IndexAssumption DEF Chosen, Sound, TypeOK
  <2>3. DOMAIN rows = 1 .. Len(rows) /\ Len(rows) \in Nat
    BY <1>3
  <2> HIDE DEF rows
  <2>4. \A i \in DOMAIN rows :
          /\ plans'[i].row = SelectedRow(ReviewedPlan, i = Chosen(rows))
          /\ plans'[i] \in StoredPlan
    <3> SUFFICES ASSUME NEW i \in DOMAIN rows
                 PROVE  /\ plans'[i].row = SelectedRow(ReviewedPlan,
                                                       i = Chosen(rows))
                        /\ plans'[i] \in StoredPlan
      OBVIOUS
    <3>1. rows[i] \in StoredPlan /\ rows[i].row = ReviewedPlan
      BY <1>3
    <3>2. SelectedRow(ReviewedPlan, i = Chosen(rows)) \in PlanRow
      BY RowTypes
    <3>3. plans'[i] = [rows[i] EXCEPT !.row = SelectedRow(@, i = Chosen(rows))]
      BY <2>1
    <3> QED
      BY <3>1, <3>2, <3>3 DEF StoredPlan
  <2>5. plans' \in Seq(StoredPlan) /\ DOMAIN plans' = DOMAIN rows
        /\ Len(plans') = Len(rows)
    <3>1. plans' = [i \in 1 .. Len(rows) |-> plans'[i]]
      BY <2>1, <2>3
    <3>2. \A i \in 1 .. Len(rows) : plans'[i] \in StoredPlan
      BY <2>3, <2>4
    <3> HIDE DEF StoredPlan
    <3>3. plans' \in Seq(StoredPlan)
      BY <2>3, <3>1, <3>2
    <3> QED
      BY <2>1, <2>3, <3>3
  <2>6. status = "unset"
    BY <1>1, <1>6 DEF Failed
  <2>7. TypeOK'
    BY <1>1, <1>2, <2>1, <2>2, <2>5, <2>6, NodeTypes
       DEF Sound, TypeOK, found, recovery, StoredPlan
  <2>8. TheRows' \in AwaitingPlans(DOMAIN plans')
    <3>1. TheRows' = [q \in DOMAIN plans' |->
                        SelectedRow(ReviewedPlan, q = Chosen(rows))]
      BY <2>4, <2>5 DEF TheRows
    <3>2. Chosen(rows) \in DOMAIN plans'
      BY <2>2, <2>3, <2>5
    <3> QED
      BY <3>1, <3>2 DEF AwaitingPlans
  <2> QED
    BY <1>1, <1>6, <2>1, <2>6, <2>7, <2>8 DEF Sound, Standing
<1> QED
  BY <1>4, <1>5, <1>6

\* A node that changes the row of the selected plan and nothing else of it.
LEMMA ChangedRow ==
  ASSUME plans \in Seq(StoredPlan), selected \in DOMAIN plans,
         NEW row \in PlanRow,
         NEW new, new = [plans EXCEPT ![selected].row = row]
  PROVE  /\ new \in Seq(StoredPlan) /\ Len(new) = Len(plans)
         /\ DOMAIN new = DOMAIN plans /\ new[selected].row = row
         /\ \A i \in DOMAIN plans : new[i].pair = plans[i].pair
                                    /\ new[i].verdict = plans[i].verdict
<1>1. DOMAIN plans = 1 .. Len(plans) /\ Len(plans) \in Nat
  OBVIOUS
<1>2. DOMAIN new = 1 .. Len(plans)
  BY <1>1
<1>3. \A i \in 1 .. Len(plans) :
        /\ new[i] \in StoredPlan
        /\ new[i].pair = plans[i].pair /\ new[i].verdict = plans[i].verdict
  <2> SUFFICES ASSUME NEW i \in 1 .. Len(plans)
               PROVE  /\ new[i] \in StoredPlan
                      /\ new[i].pair = plans[i].pair
                      /\ new[i].verdict = plans[i].verdict
    OBVIOUS
  <2>1. plans[i] \in StoredPlan
    BY <1>1
  <2>2. new[i] = IF i = selected THEN [plans[i] EXCEPT !.row = row]
                 ELSE plans[i]
    BY <1>1
  <2> QED
    BY <2>1, <2>2 DEF StoredPlan
<1>4. new[selected].row = row
  <2>1. plans[selected] \in StoredPlan
    BY <1>1
  <2>2. new[selected] = [plans[selected] EXCEPT !.row = row]
    BY <1>1
  <2> QED
    BY <2>1, <2>2 DEF StoredPlan
<1>5. new \in Seq(StoredPlan)
  <2>1. new = [i \in 1 .. Len(plans) |-> new[i]]
    BY <1>1
  <2> QED
    BY <1>1, <1>3, <2>1
<1> QED
  BY <1>1, <1>2, <1>3, <1>4, <1>5

LEMMA SelectedIsStored ==
  ASSUME Sound, selected # 0
  PROVE  /\ plans \in Seq(StoredPlan) /\ selected \in DOMAIN plans
         /\ plans[selected].row \in PlanRow
<1>1. plans \in Seq(StoredPlan) /\ selected \in DOMAIN plans
  BY DEF Sound, TypeOK, StoredPlan
<1>2. plans[selected] \in StoredPlan
  BY <1>1
<1> QED
  BY <1>1, <1>2 DEF StoredPlan

LEMMA WaitStep ==
  ASSUME Sound, WaitConfirmation PROVE Sound'
<1>1. /\ outcome = "open" /\ node = "wait_confirmation"
      /\ "end" \in NodeName /\ "saga_execution_engine" \in NodeName
      /\ UNCHANGED <<found, drafts, reviewed, decision, recovery, selected>>
  BY NodeTypes DEF Sound, Standing, WaitConfirmation
<1>2. CASE Failed
  <2>1. /\ GoTo("end") /\ UNCHANGED <<status, runRow, plans>>
        /\ status = "failed" /\ runRow = "failed" /\ selected = 0
        /\ TheRows = UnselectedPlans(DOMAIN plans)
    BY <1>2 DEF Sound, Standing, WaitConfirmation, Failed
  <2>2. TypeOK'
    BY <1>1, <2>1, GoToType DEF Sound, TypeOK, found, recovery
  <2>3. TheRows' = UnselectedPlans(DOMAIN plans')
    BY <2>1 DEF TheRows
  <2>4. node' = "end" /\ status' = "failed" /\ runRow' = "failed"
        /\ outcome' = "open"
    BY <1>1, <2>1 DEF GoTo
  <2> QED
    BY <2>2, <2>3, <2>4 DEF Sound, Standing, StatusAgrees
<1>3. CASE ~ Failed /\ ~ request.autoConfirm
  <2>1. /\ GoTo("end") /\ UNCHANGED plans
        /\ status' = "awaiting_confirmation"
        /\ runRow' = "awaiting_confirmation"
        /\ TheRows \in AwaitingPlans(DOMAIN plans)
    BY <1>3 DEF Sound, Standing, WaitConfirmation, Failed
  <2>2. TypeOK'
    BY <1>1, <2>1, GoToType DEF Sound, TypeOK, found, recovery, RunStatus
  <2>3. TheRows' \in AwaitingPlans(DOMAIN plans')
    BY <2>1 DEF TheRows
  <2>4. node' = "end" /\ outcome' = "open"
    BY <1>1, <2>1 DEF GoTo
  <2> QED
    BY <2>1, <2>2, <2>3, <2>4 DEF Sound, Standing, StatusAgrees
<1>4. CASE ~ Failed /\ request.autoConfirm
  <2>1. /\ plans' = [plans EXCEPT ![selected].row = ConfirmedRow(@, @)]
        /\ GoTo("saga_execution_engine")
        /\ UNCHANGED <<status, runRow>>
        /\ selected # 0 /\ status = "unset"
    BY <1>4 DEF Sound, Standing, WaitConfirmation, Failed
  <2>2. /\ plans \in Seq(StoredPlan) /\ selected \in DOMAIN plans
        /\ plans[selected].row \in PlanRow
    BY <2>1, SelectedIsStored
  <2>3. ConfirmedRow(plans[selected].row, plans[selected].row) \in PlanRow
    BY <2>2, RowTypes
  <2>4. plans' = [plans EXCEPT ![selected].row =
                    ConfirmedRow(plans[selected].row, plans[selected].row)]
    BY <2>1
  <2>5. plans' \in Seq(StoredPlan) /\ Len(plans') = Len(plans)
    BY <2>2, <2>3, <2>4, ChangedRow
  <2>6. TypeOK'
    BY <1>1, <2>1, <2>5, GoToType DEF Sound, TypeOK, found, recovery, StoredPlan
  <2>7. node' = "saga_execution_engine" /\ outcome' = "open" /\ selected' # 0
        /\ status' = "unset"
    BY <1>1, <2>1 DEF GoTo
  <2> QED
    BY <2>6, <2>7 DEF Sound, Standing
<1> QED
  BY <1>2, <1>3, <1>4

LEMMA ExecutionSteps ==
  ASSUME Sound, SagaExecutionEngine \/ GenerateSummaryMessage PROVE Sound'
<1>1. outcome = "open" /\ selected # 0 /\ status = "unset"
  BY DEF Sound, Standing, SagaExecutionEngine, GenerateSummaryMessage
<1>2. /\ plans \in Seq(StoredPlan) /\ selected \in DOMAIN plans
      /\ plans[selected].row \in PlanRow
  BY <1>1, SelectedIsStored
<1>3. CASE SagaExecutionEngine
  <2>1. PICK count \in 0 .. ActionBound : \E results \in Executions(count) :
          plans' = [plans EXCEPT ![selected].row =
                      ExecutedRow(plans[selected].row, Summary(results, count))]
    BY <1>3 DEF SagaExecutionEngine
  <2>2. PICK results \in Executions(count) :
          plans' = [plans EXCEPT ![selected].row =
                      ExecutedRow(plans[selected].row, Summary(results, count))]
    BY <2>1
  <2>3. PICK row \in PlanRow :
          /\ row.execution \in ExecutionStatus
          /\ plans' = [plans EXCEPT ![selected].row = row]
    <3>1. count \in Nat
      BY IndexAssumption
    <3> QED
      BY <1>2, <2>2, <3>1, ExecutedType
  <2>4. /\ plans' \in Seq(StoredPlan) /\ Len(plans') = Len(plans)
        /\ plans'[selected].row = row
    BY <1>2, <2>3, ChangedRow
  <2>5. /\ GoTo("generate_summary_message")
        /\ UNCHANGED <<status, runRow, found, drafts, reviewed, decision,
                       recovery, selected>>
    BY <1>3 DEF SagaExecutionEngine
  <2>6. TypeOK'
    BY <2>4, <2>5, NodeTypes, GoToType
       DEF Sound, TypeOK, found, recovery, StoredPlan
  <2>7. Standing'
    BY <1>1, <2>3, <2>4, <2>5 DEF Standing, GoTo
  <2> QED
    BY <2>6, <2>7 DEF Sound
<1>4. CASE GenerateSummaryMessage
  <2>1. PICK row : row = FeedbackRow(plans[selected].row)
    OBVIOUS
  <2>2. plans[selected].row.execution \in ExecutionStatus
    BY <1>4 DEF Sound, Standing, GenerateSummaryMessage
  <2>3. row \in PlanRow /\ row.feedback \in FeedbackStatus
    BY <1>2, <2>1, <2>2, FeedbackType
  <2>4. /\ plans' = [plans EXCEPT ![selected].row = row]
        /\ runRow' = row.feedback /\ status' = StatusFromFeedback(row.feedback)
        /\ GoTo("end")
        /\ UNCHANGED <<found, drafts, reviewed, decision, recovery, selected>>
    BY <1>4, <2>1 DEF GenerateSummaryMessage
  <2>5. plans' \in Seq(StoredPlan) /\ Len(plans') = Len(plans)
    BY <1>2, <2>3, <2>4, ChangedRow
  <2>6. /\ status' \in {"completed", "failed"}
        /\ status' = "completed" => runRow' = "completed"
        /\ status' = "failed" => runRow' \in {"failed", "partially_completed",
                                              "skipped"}
        /\ runRow' \in RunStatus
        /\ runRow' \notin {"awaiting_confirmation", "awaiting_clarification"}
    BY <2>3, <2>4 DEF StatusFromFeedback, FeedbackStatus, RunStatus
  <2>7. TypeOK'
    BY <2>4, <2>5, <2>6, NodeTypes, GoToType
       DEF Sound, TypeOK, found, recovery, StoredPlan
  <2>8. node' = "end" /\ outcome' = "open" /\ selected' # 0
    BY <1>1, <2>4 DEF GoTo
  <2>9. Standing'
    BY <2>6, <2>8 DEF Standing, StatusAgrees
  <2> QED
    BY <2>7, <2>9 DEF Sound
<1> QED
  BY <1>3, <1>4

LEMMA EndSteps ==
  ASSUME Sound, ReturnResult \/ (outcome = "open" /\ AnswerError)
  PROVE  Sound'
<1>1. CASE ReturnResult
  <2>1. TypeOK'
    BY <1>1 DEF Sound, ReturnResult, TypeOK, found, recovery
  <2>2. TheRows' = TheRows
    BY <1>1 DEF ReturnResult, TheRows
  <2>3. Standing'
    BY <1>1, <2>2 DEF Sound, ReturnResult, Standing, StatusAgrees
  <2> QED
    BY <2>1, <2>3 DEF Sound
<1>2. CASE AnswerError
  <2>1. /\ node' = "end" /\ outcome' = "raised" /\ status' = "error"
        /\ UNCHANGED <<request, steps, found, drafts, reviewed, decision,
                       recovery>>
    BY <1>2 DEF AnswerError
  <2>2. \/ UNCHANGED <<runRow, plans, selected>>
        \/ runRow' = "none" /\ plans' = <<>> /\ selected' = 0
    BY <1>2 DEF AnswerError
  <2>3. TypeOK'
    <3>1. CASE UNCHANGED <<runRow, plans, selected>>
      BY <2>1, <3>1, NodeTypes DEF Sound, TypeOK, found, recovery
    <3>2. CASE runRow' = "none" /\ plans' = <<>> /\ selected' = 0
      <4>1. plans' \in Seq([pair : Pair, verdict : Verdict, row : PlanRow])
            /\ selected' \in 0 .. Len(plans')
        BY <3>2
      <4> QED
        BY <2>1, <3>2, <4>1, NodeTypes DEF Sound, TypeOK, found, recovery
    <3> QED
      BY <2>2, <3>1, <3>2
  <2>4. Standing'
    BY <2>1 DEF Standing
  <2> QED
    BY <2>3, <2>4 DEF Sound
<1> QED
  BY <1>1, <1>2

LEMMA UnchangedSound ==
  ASSUME Sound, UNCHANGED vars PROVE Sound'
<1>1. TypeOK'
  BY DEF Sound, TypeOK, vars, found, recovery
<1>2. TheRows' = TheRows
  BY DEF TheRows, vars
<1>3. Standing'
  BY <1>2 DEF Sound, Standing, vars, StatusAgrees
<1> QED
  BY <1>1, <1>3 DEF Sound

----------------------------------------------------------------------------
(* Where drafts and plans come from *)

NoneExcluded(list) == \A i \in DOMAIN list : list[i].pair \notin excluded

PlansInv == NoneExcluded(plans) /\ PlansAreReviewed

\* From the planner to the presentation, the drafts are of different pairs,
\* all offered by the last enrichment and none excluded; after the validator
\* the review is about them.
DraftsInv ==
  /\ Distinct(offered)
  /\ node \in {"route_and_time_engine", "semantic_validator",
               "apply_recovery", "final_review", "present_to_user"} =>
       Distinct(drafts) /\ Within(drafts, MaxDrafts) /\ NoneExcluded(drafts)
  /\ node \in {"apply_recovery", "final_review", "present_to_user"} =>
       reviewed = drafts

LEMMA NoPlansYet == ASSUME plans = <<>> PROVE PlansInv
BY DEF PlansInv, NoneExcluded, PlansAreReviewed

LEMMA PlansStay ==
  ASSUME PlansInv, UNCHANGED <<offered, reviewed, excluded>>,
         DOMAIN plans' = DOMAIN plans,
         \A i \in DOMAIN plans : plans'[i].pair = plans[i].pair
                                 /\ plans'[i].verdict = plans[i].verdict
  PROVE  PlansInv'
<1>1. NoneExcluded(plans)'
  BY DEF PlansInv, NoneExcluded
<1>2. PlansAreReviewed'
  BY DEF PlansInv, PlansAreReviewed
<1> QED
  BY <1>1, <1>2 DEF PlansInv

LEMMA NewDrafts ==
  ASSUME Sound, DraftsInv, LogicalPlannerAgent
  PROVE  DraftsInv'
<1>1. /\ node' = "route_and_time_engine"
      /\ UNCHANGED <<offered, excluded>>
  BY DEF LogicalPlannerAgent, GoTo, found, recovery
<1>2. PICK list \in Arrangements(Generated) : drafts' = WithoutExcluded(list)
  BY DEF LogicalPlannerAgent
<1>3. list \in Seq(Draft) /\ Distinct(list) /\ Within(list, MaxDrafts)
  BY <1>2, GeneratedType, ArrangementType DEF Sound, TypeOK, DraftsInv
<1> DEFINE allowed == {i \in DOMAIN list : list[i].pair \notin excluded}
<1>4. /\ drafts' = Kept(list, allowed)
      /\ Distinct(drafts')
      /\ \A i \in DOMAIN drafts' : \E q \in allowed : drafts'[i] = list[q]
  <2>1. drafts' = Kept(list, allowed)
    BY <1>2 DEF WithoutExcluded
  <2>2. allowed \in SUBSET DOMAIN list
    OBVIOUS
  <2> HIDE DEF allowed
  <2> QED
    BY <1>3, <2>1, <2>2, KeptDrafts
<1>5. NoneExcluded(drafts)'
  BY <1>1, <1>4 DEF NoneExcluded
<1>6. Within(drafts, MaxDrafts)'
  BY <1>1, <1>3, <1>4 DEF Within
<1>7. Distinct(drafts)' /\ Distinct(offered)'
  BY <1>1, <1>4 DEF Distinct, DraftsInv
<1> QED
  BY <1>1, <1>5, <1>6, <1>7 DEF DraftsInv

LEMMA NewPlans ==
  ASSUME Sound, DraftsInv, PlansInv, PresentToUser
  PROVE  PlansInv'
<1> DEFINE rows == Rows(PersistedDrafts)
<1>1. UNCHANGED <<offered, reviewed, excluded>>
  BY DEF PresentToUser, found, recovery
<1>2. CASE Failed
  BY <1>1, <1>2, PlansStay DEF PresentToUser
<1>3. CASE ~ Failed
  <2>1. DOMAIN plans' = DOMAIN rows
        /\ \A i \in DOMAIN rows : plans'[i].pair = rows[i].pair
                                  /\ plans'[i].verdict = rows[i].verdict
    <3>1. rows \in Seq(StoredPlan)
      BY PersistedType, RowsType DEF Sound, TypeOK
    <3>2. CASE Chosen(rows) = 0
      BY <1>3, <3>2 DEF PresentToUser
    <3>3. CASE Chosen(rows) # 0
      <4>1. plans' = [i \in DOMAIN rows |->
                       [rows[i] EXCEPT !.row = SelectedRow(@, i = Chosen(rows))]]
        BY <1>3, <3>3 DEF PresentToUser
      <4>2. \A i \in DOMAIN rows : rows[i] \in StoredPlan
        BY <3>1
      <4> HIDE DEF rows
      <4> QED
        BY <4>1, <4>2 DEF StoredPlan
    <3> QED
      BY <3>2, <3>3
  <2>2. reviewed \in Seq(Draft) /\ reviewed = drafts /\ Distinct(reviewed)
        /\ Within(reviewed, MaxDrafts) /\ NoneExcluded(reviewed)
    BY DEF PresentToUser, DraftsInv, Sound, TypeOK
  <2>3. PICK list \in Seq(Draft) :
          /\ list = PersistedDrafts
          /\ Distinct(list)
          /\ \A i \in DOMAIN list : \E q \in DOMAIN reviewed :
               list[i] = reviewed[q] /\ IsSafe(list[i])
    <3>1. CASE SafeToPresent(reviewed, ActionsBefore)
      <4> DEFINE stored == {i \in DOMAIN reviewed :
                              /\ IsSafe(reviewed[i])
                              /\ \E j \in DOMAIN drafts : drafts[j] = reviewed[i]}
                 list == Kept(reviewed, stored)
      <4>1. PersistedDrafts = list
        BY <3>1 DEF PersistedDrafts
      <4>2. stored \in SUBSET DOMAIN reviewed
            /\ \A q \in stored : IsSafe(reviewed[q])
        OBVIOUS
      <4> HIDE DEF stored
      <4>3. /\ list \in Seq(Draft) /\ Distinct(list)
            /\ \A i \in DOMAIN list : \E q \in stored : list[i] = reviewed[q]
        BY <2>2, <4>2, KeptDrafts
      <4>4. ASSUME NEW i \in DOMAIN list
            PROVE  \E q \in DOMAIN reviewed :
                     list[i] = reviewed[q] /\ IsSafe(list[i])
        <5>1. PICK q \in stored : list[i] = reviewed[q]
          BY <4>3
        <5>2. IsSafe(list[i])
          BY <4>2, <5>1 DEF IsSafe
        <5> QED
          BY <4>2, <5>1, <5>2
      <4> HIDE DEF list
      <4> QED
        BY <4>1, <4>3, <4>4
    <3>2. CASE ~ SafeToPresent(reviewed, ActionsBefore)
      <4>1. <<>> \in Seq(Draft) /\ DOMAIN <<>> = {}
        OBVIOUS
      <4>2. PersistedDrafts = <<>>
        BY <3>2 DEF PersistedDrafts
      <4> QED
        BY <4>1, <4>2 DEF Distinct
    <3> QED
      BY <3>1, <3>2
  <2>4. /\ DOMAIN plans' = DOMAIN list
        /\ \A i \in DOMAIN list : /\ plans'[i].pair = list[i].pair
                                  /\ plans'[i].verdict = list[i].verdict
                                  /\ list[i] = [pair |-> list[i].pair,
                                                verdict |-> list[i].verdict]
    <3>1. \A i \in DOMAIN list :
            list[i] = [pair |-> list[i].pair, verdict |-> list[i].verdict]
      <4>1. \A i \in DOMAIN list : list[i] \in Draft
        OBVIOUS
      <4> QED
        BY <4>1 DEF Draft
    <3>2. rows = Rows(list)
      BY <2>3
    <3>3. /\ DOMAIN Rows(list) = DOMAIN list
          /\ \A i \in DOMAIN list : /\ Rows(list)[i].pair = list[i].pair
                                    /\ Rows(list)[i].verdict = list[i].verdict
      BY RowsType
    <3> HIDE DEF rows
    <3> QED
      BY <2>1, <3>1, <3>2, <3>3
  <2>5. NoneExcluded(plans)'
    BY <1>1, <2>2, <2>3, <2>4 DEF NoneExcluded
  <2>6. ASSUME NEW i \in DOMAIN plans'
        PROVE  LET draft == [pair |-> plans'[i].pair,
                             verdict |-> plans'[i].verdict]
               IN  /\ draft.verdict = "safe"
                   /\ \E j \in DOMAIN reviewed : reviewed[j] = draft
                   /\ \E j \in DOMAIN offered :
                        j <= MaxDrafts /\ offered[j] = draft
                   /\ \A j \in DOMAIN plans' :
                        plans'[j].pair = plans'[i].pair => j = i
    <3>1. [pair |-> plans'[i].pair, verdict |-> plans'[i].verdict] = list[i]
      BY <2>4
    <3>2. PICK q \in DOMAIN reviewed : list[i] = reviewed[q] /\ IsSafe(list[i])
      BY <2>3, <2>4
    <3>3. \E j \in DOMAIN offered : j <= MaxDrafts /\ offered[j] = list[i]
      BY <2>2, <3>2 DEF Within
    <3>4. \A j \in DOMAIN plans' : plans'[j].pair = plans'[i].pair => j = i
      BY <2>3, <2>4 DEF Distinct
    <3>5. list[i].verdict = "safe"
      BY <3>2 DEF IsSafe
    <3> QED
      BY <3>1, <3>2, <3>3, <3>4, <3>5
  <2>7. PlansAreReviewed'
    BY <1>1, <2>6 DEF PlansAreReviewed
  <2> QED
    BY <2>5, <2>7 DEF PlansInv
<1> QED
  BY <1>2, <1>3

LEMMA EarlySteps ==
  ASSUME Sound, DraftsInv,
         \/ Initialize \/ StraightNode \/ GenerateQueries
         \/ PreFlightCheckAvailability \/ LogicalPlannerAgent
         \/ SemanticValidator \/ ApplyRecovery \/ FinalReview
  PROVE  DraftsInv' /\ PlansInv'
<1>1. plans' = <<>>
  <2>1. /\ node \notin {"wait_confirmation", "saga_execution_engine",
                        "generate_summary_message", "end"}
        /\ plans' = plans
    BY NodeTypes DEF Initialize, StraightNode, GenerateQueries,
         PreFlightCheckAvailability, LogicalPlannerAgent, SemanticValidator,
         ApplyRecovery, FinalReview
  <2> QED
    BY <2>1 DEF Sound, Standing
<1>2. PlansInv'
  BY <1>1 DEF PlansInv, NoneExcluded, PlansAreReviewed
<1>3. CASE Initialize \/ GenerateQueries
  <2>1. /\ node' \in {"parse_intent", "execute_searches", "end"}
        /\ offered' = offered
    BY <1>3 DEF Initialize, GenerateQueries, GoTo, found
  <2> QED
    BY <1>2, <2>1 DEF DraftsInv
<1>4. CASE StraightNode
  <2>1. /\ UNCHANGED <<offered, drafts, reviewed, excluded>>
        /\ node' \in {"load_memory", "generate_queries",
             "populate_candidate_blackboard", "pre_flight_check_availability",
             "semantic_validator"}
        /\ node' = "semantic_validator" => node = "route_and_time_engine"
    BY <1>4 DEF StraightNode, StraightEdge, GoTo, found, recovery
  <2> QED
    BY <1>2, <2>1 DEF DraftsInv, NoneExcluded, Within
<1>5. CASE PreFlightCheckAvailability
  <2>1. node' = "logical_planner_agent" /\ Distinct(offered')
    BY <1>5, OfferedType DEF PreFlightCheckAvailability, GoTo
  <2>2. Distinct(offered)'
    BY <2>1 DEF Distinct
  <2> QED
    BY <1>2, <2>1, <2>2 DEF DraftsInv
<1>6. CASE LogicalPlannerAgent
  BY <1>2, <1>6, NewDrafts
<1>7. CASE SemanticValidator \/ FinalReview
  <2>1. /\ UNCHANGED <<offered, drafts, excluded>>
        /\ node' \in {"apply_recovery", "final_review", "present_to_user"}
        /\ node \in {"semantic_validator", "final_review"}
        /\ reviewed' = drafts
    BY <1>7 DEF SemanticValidator, FinalReview, GoTo, found, recovery, DraftsInv
  <2> QED
    BY <1>2, <2>1 DEF DraftsInv, NoneExcluded, Within
<1>8. CASE ApplyRecovery
  <2>1. /\ offered' = offered
        /\ node' \in {"logical_planner_agent", "generate_queries", "end"}
    <3>1. decision \in Action \ {"none"}
      BY <1>8 DEF Sound, Standing, ApplyRecovery
    <3>2. RouteOf(decision, Len(attempts), MaxAttempts) \in
            {"awaiting_clarification", "logical_planner_agent",
             "generate_queries", "failed"}
      BY <3>1 DEF RouteOf, Action, RoutedAction
    <3> QED
      BY <1>8, <3>2 DEF ApplyRecovery, StatusAfter, GoTo, found
  <2> QED
    BY <1>2, <2>1 DEF DraftsInv
<1> QED
  BY <1>3, <1>4, <1>5, <1>6, <1>7, <1>8

LEMMA LateSteps ==
  ASSUME Sound, DraftsInv, PlansInv,
         \/ PresentToUser \/ WaitConfirmation \/ SagaExecutionEngine
         \/ GenerateSummaryMessage \/ ReturnResult \/ AnswerError
         \/ UNCHANGED vars
  PROVE  DraftsInv' /\ PlansInv'
<1>1. CASE PresentToUser
  <2>1. node' = "wait_confirmation" /\ offered' = offered
    BY <1>1 DEF PresentToUser, GoTo, found
  <2> QED
    BY <1>1, <2>1, NewPlans DEF DraftsInv
<1>2. CASE WaitConfirmation \/ SagaExecutionEngine \/ GenerateSummaryMessage
  <2>1. /\ UNCHANGED <<offered, reviewed, excluded>>
        /\ node' \in {"saga_execution_engine", "generate_summary_message", "end"}
    BY <1>2 DEF WaitConfirmation, SagaExecutionEngine, GenerateSummaryMessage,
                GoTo, found, recovery
  <2>2. \/ plans' = plans
        \/ selected # 0 /\ \E row : plans' = [plans EXCEPT ![selected].row = row]
    BY <1>2 DEF WaitConfirmation, SagaExecutionEngine, GenerateSummaryMessage,
                Sound, Standing, Failed
  <2>3. /\ DOMAIN plans' = DOMAIN plans
        /\ \A i \in DOMAIN plans : plans'[i].pair = plans[i].pair
                                   /\ plans'[i].verdict = plans[i].verdict
    <3>1. CASE plans' = plans
      BY <3>1
    <3>2. CASE plans' # plans
      <4>1. PICK row : plans' = [plans EXCEPT ![selected].row = row]
        BY <2>2, <3>2
      <4>2. plans \in Seq(StoredPlan)
        BY DEF Sound, TypeOK, StoredPlan
      <4>3. \A i \in DOMAIN plans : plans[i] \in StoredPlan
        BY <4>2
      <4> QED
        BY <4>1, <4>3 DEF StoredPlan
    <3> QED
      BY <3>1, <3>2
  <2> QED
    BY <2>1, <2>3, PlansStay DEF DraftsInv
<1>3. CASE ReturnResult \/ UNCHANGED vars
  <2>1. /\ UNCHANGED <<offered, reviewed, excluded, drafts, plans>>
        /\ node' = node
    BY <1>3 DEF ReturnResult, vars, found, recovery
  <2> QED
    BY <2>1, PlansStay DEF DraftsInv, NoneExcluded, Within
<1>4. CASE AnswerError
  <2>1. /\ UNCHANGED <<offered, reviewed, excluded>> /\ node' = "end"
        /\ plans' = plans \/ plans' = <<>>
    BY <1>4 DEF AnswerError, found, recovery
  <2>2. CASE plans' = plans
    BY <2>1, <2>2, PlansStay DEF DraftsInv
  <2>3. CASE plans' = <<>>
    BY <2>1, <2>3 DEF PlansInv, NoneExcluded, PlansAreReviewed, DraftsInv
  <2> QED
    BY <2>1, <2>2, <2>3
<1> QED
  BY <1>1, <1>2, <1>3, <1>4

\* A run that raises has not ended; a rejected summary is one that raises.
LEMMA RaisingSteps ==
  ASSUME Sound, RejectSummary \/ Raise
  PROVE  outcome = "open" /\ AnswerError
BY DEF RejectSummary, Raise, Sound, Standing

PlanningInv == Sound /\ DraftsInv /\ PlansInv

LEMMA PlanningInitially == Init => PlanningInv
<1> SUFFICES ASSUME Init PROVE PlanningInv
  OBVIOUS
<1>1. Sound
  BY InitSound
<1>2. DraftsInv
  BY DEF Init, DraftsInv, Distinct
<1>3. PlansInv
  BY NoPlansYet DEF Init
<1> QED
  BY <1>1, <1>2, <1>3 DEF PlanningInv

LEMMA PlanningStep ==
  ASSUME PlanningInv, [Next]_vars PROVE PlanningInv'
<1> USE DEF PlanningInv
<1>1. CASE Initialize \/ StraightNode \/ GenerateQueries
  BY <1>1, StraightSteps, EarlySteps
<1>2. CASE PreFlightCheckAvailability \/ LogicalPlannerAgent
           \/ SemanticValidator
  BY <1>2, DraftingSteps, EarlySteps DEF DraftsInv
<1>3. CASE ApplyRecovery
  BY <1>3, RecoverySteps, EarlySteps
<1>4. CASE FinalReview
  BY <1>4, FinalReviewStep, EarlySteps
<1>5. CASE PresentToUser
  BY <1>5, PresentStep, LateSteps
<1>6. CASE WaitConfirmation
  BY <1>6, WaitStep, LateSteps
<1>7. CASE SagaExecutionEngine \/ GenerateSummaryMessage
  BY <1>7, ExecutionSteps, LateSteps
<1>8. CASE ReturnResult
  BY <1>8, EndSteps, LateSteps
<1>9. CASE RejectSummary \/ Raise
  BY <1>9, RaisingSteps, EndSteps, LateSteps
<1>10. CASE UNCHANGED vars
  BY <1>10, UnchangedSound, LateSteps
<1> QED
  BY <1>1, <1>2, <1>3, <1>4, <1>5, <1>6, <1>7, <1>8, <1>9, <1>10
     DEF Next, Node

LEMMA PlanningAlways == Spec => []PlanningInv
BY PlanningInitially, PlanningStep, PTL DEF Spec

\* Every variable keeps its type, for any pairs and any bounds: no node reads
\* a plan that is not stored or a status the feedback does not map to.
THEOREM TypesAreKept == Spec => []TypeOK
BY PlanningAlways, PTL DEF PlanningInv, Sound

\* A pair that a recovery has excluded (nodes.py:314) is neither drafted nor
\* presented again, whatever another search or the planner model answers.
THEOREM ExcludedPairsStayOut == Spec => []ExcludedStaysOut
<1>1. PlanningInv => ExcludedStaysOut
  BY DEF PlanningInv, DraftsInv, PlansInv, NoneExcluded, ExcludedStaysOut
<1> QED
  BY <1>1, PlanningAlways, PTL

\* What is stored for the user has been found safe by the last review, on
\* the evidence of the last enrichment, each pair once (persistence.py:26).
THEOREM StoredPlansAreReviewed == Spec => []PlansAreReviewed
BY PlanningAlways, PTL DEF PlanningInv, PlansInv

\* The answer of a run agrees with the rows it leaves, and these are rows
\* from which the confirm, decline and replan requests start.
THEOREM RunsAreHandedOver == Spec => []HandOver
<1>1. Sound => HandOver
  BY DEF Sound, Standing, HandOver, TheRows, TypeOK
<1> QED
  BY <1>1, PlanningAlways, PTL DEF PlanningInv

----------------------------------------------------------------------------
(* The recovery loop *)

AttemptRecord ==
  [action : Action, status : {"routed", "stopped", "awaiting_user"}]

RoutedAt(list, action) ==
  {i \in DOMAIN list : list[i].action = action /\ list[i].status = "routed"}

LEMMA RoutedCounts ==
  ASSUME NEW list \in Seq(AttemptRecord), NEW new \in AttemptRecord, NEW action
  PROVE  LET before == Cardinality(RoutedAt(list, action))
             after == Cardinality(RoutedAt(Append(list, new), action))
         IN  /\ before \in Nat
             /\ after = IF new.action = action /\ new.status = "routed"
                        THEN before + 1 ELSE before
<1>1. DOMAIN list = 1 .. Len(list) /\ Len(list) \in Nat
  OBVIOUS
<1>2. /\ DOMAIN Append(list, new) = 1 .. Len(list) + 1
      /\ \A i \in 1 .. Len(list) : Append(list, new)[i] = list[i]
      /\ Append(list, new)[Len(list) + 1] = new
  OBVIOUS
<1>3. RoutedAt(list, action) \in SUBSET (1 .. Len(list))
  BY <1>1 DEF RoutedAt
<1>4. IsFiniteSet(RoutedAt(list, action))
      /\ Cardinality(RoutedAt(list, action)) \in Nat
  BY <1>1, <1>3, SubsetOfInterval
<1>5. RoutedAt(Append(list, new), action) =
        IF new.action = action /\ new.status = "routed"
        THEN RoutedAt(list, action) \union {Len(list) + 1}
        ELSE RoutedAt(list, action)
  BY <1>1, <1>2 DEF RoutedAt
<1>6. Len(list) + 1 \notin RoutedAt(list, action)
  BY <1>1, <1>3
<1>7. Cardinality(RoutedAt(list, action) \union {Len(list) + 1})
        = Cardinality(RoutedAt(list, action)) + 1
  BY <1>4, <1>6, FS_AddElement
<1> QED
  BY <1>4, <1>5, <1>7

LEMMA NoneRouted ==
  ASSUME NEW action PROVE Cardinality(RoutedAt(<<>>, action)) = 0
<1>1. RoutedAt(<<>>, action) = {}
  BY DEF RoutedAt
<1> QED
  BY <1>1, FS_EmptySet

Replacements == Routed("replace_candidate")
Expansions   == Routed("expand_search_radius")

\* The nodes that have run when a node starts for the first time.
Position ==
  [ initialize |-> 0, parse_intent |-> 1, load_memory |-> 2,
    generate_queries |-> 3, execute_searches |-> 4,
    populate_candidate_blackboard |-> 5, pre_flight_check_availability |-> 6,
    logical_planner_agent |-> 7, route_and_time_engine |-> 8,
    semantic_validator |-> 9, apply_recovery |-> 10, final_review |-> 10,
    present_to_user |-> 11, wait_confirmation |-> 12,
    saga_execution_engine |-> 13, generate_summary_message |-> 14,
    end |-> 15 ]

\* A replacement runs four nodes again and an expansion eight, and either
\* happens once at most, whatever the budget.
RecoveryInv ==
  /\ IsFiniteSet(excluded)
  /\ RecoveryAccounted
  /\ Replacements <= 1
  /\ node # "end" => Len(attempts) = Replacements + Expansions
  /\ node = "apply_recovery" =>
       /\ decision = "replace_candidate" =>
            Replacements = 0 /\ drafts # <<>> /\ drafts[1].pair \notin excluded
       /\ decision = "expand_search_radius" => level = 0
  /\ node # "end" => steps <= Position[node] + 4 * Replacements + 8 * Expansions
  /\ StepsBounded

LEMMA CountsAreNatural ==
  ASSUME attempts \in Seq(AttemptRecord)
  PROVE  Replacements \in Nat /\ Expansions \in Nat
<1>1. \A action : Routed(action) = Cardinality(RoutedAt(attempts, action))
  BY DEF Routed, RoutedAt
<1>2. DOMAIN attempts = 1 .. Len(attempts) /\ Len(attempts) \in Nat
  OBVIOUS
<1>3. \A action : RoutedAt(attempts, action) \in SUBSET (1 .. Len(attempts))
  BY <1>2 DEF RoutedAt
<1> QED
  BY <1>1, <1>2, <1>3, SubsetOfInterval DEF Replacements, Expansions

LEMMA RecoveryInitially == Init => RecoveryInv
<1> SUFFICES ASSUME Init PROVE RecoveryInv
  OBVIOUS
<1>1. Replacements = 0 /\ Expansions = 0
  BY NoneRouted DEF Init, Replacements, Expansions, Routed, RoutedAt
<1>2. IsFiniteSet(excluded) /\ Cardinality(excluded) = 0
  BY FS_EmptySet DEF Init
<1>3. Len(attempts) = 0 /\ DOMAIN attempts = {}
  BY DEF Init
<1>4. RecoveryAccounted
  BY <1>1, <1>2, <1>3, AttemptAssumption
     DEF Init, RecoveryAccounted, Replacements, Expansions
<1> QED
  BY <1>1, <1>2, <1>3, <1>4 DEF Init, RecoveryInv, Position, StepsBounded

\* What follows for every node but apply_recovery and semantic_validator.
LEMMA RecoveryStands ==
  ASSUME Sound, RecoveryInv, recovery' = recovery,
         \/ /\ node # "end" /\ node' # "apply_recovery"
            /\ node' \in NodeName
            /\ Position[node'] > Position[node]
            /\ steps' = steps \/ steps' = steps + 1
         \/ node' = "end" /\ steps' = steps
  PROVE  RecoveryInv'
<1>1. attempts \in Seq(AttemptRecord) /\ steps \in Nat
  BY CapAssumption DEF Sound, TypeOK, AttemptRecord
<1>2. /\ Replacements \in Nat /\ Expansions \in Nat
      /\ Replacements' = Replacements /\ Expansions' = Expansions
  BY <1>1, CountsAreNatural DEF Replacements, Expansions, Routed, recovery
<1>3. \A n \in NodeName : Position[n] \in Nat /\ Position[n] <= 15
  BY NodeTypes DEF Position
<1>4. node \in NodeName /\ Expansions <= 1
  BY <1>2 DEF Sound, TypeOK, RecoveryInv, RecoveryAccounted, Expansions
<1>5. RecoveryAccounted'
  BY DEF RecoveryInv, RecoveryAccounted, recovery, Routed
<1>6. StepsBounded' /\ (node' # "end" =>
        steps' <= Position[node'] + 4 * Replacements + 8 * Expansions)
  <2>1. CASE node' = "end" /\ steps' = steps
    BY <2>1 DEF RecoveryInv, StepsBounded
  <2>2. CASE /\ node # "end" /\ node' # "apply_recovery"
             /\ node' \in NodeName
             /\ Position[node'] > Position[node]
             /\ steps' = steps \/ steps' = steps + 1
    BY <1>1, <1>2, <1>3, <1>4, <2>2 DEF RecoveryInv, StepsBounded
  <2> QED
    BY <2>1, <2>2
<1> QED
  BY <1>2, <1>5, <1>6 DEF RecoveryInv, recovery

\* When the dining check fails on the first draft, that is the failure the
\* policy looks at.
LEMMA FirstBlock ==
  ASSUME NEW list \in Seq(Draft), list # <<>>,
         list[1].verdict \in DiningVerdict
  PROVE  DiningBlock(list) = list[1].verdict
<1> DEFINE failing == {i \in DOMAIN list : list[i].verdict \in DiningVerdict}
           first == CHOOSE i \in failing : \A j \in failing : i <= j
<1>1. 1 \in failing /\ \A j \in failing : j \in Nat /\ 1 <= j
  OBVIOUS
<1>2. first = 1
  <2> HIDE DEF failing
  <2>1. first \in failing /\ \A j \in failing : first <= j
    BY <1>1
  <2>2. first <= 1 /\ 1 <= first /\ first \in Nat
    BY <1>1, <2>1
  <2> HIDE DEF first
  <2> QED
    BY <2>2
<1>3. DiningBlock(list) = list[first].verdict
  BY <1>1 DEF DiningBlock
<1> QED
  BY <1>2, <1>3

\* After a replacement, what the dining check blocks makes the policy stop.
LEMMA StopsWhenReplaced ==
  ASSUME NEW list \in Seq(Draft), list # <<>>, ~ IsSafe(list[1]),
         NEW attempted, "replace_candidate" \in attempted, NEW failed
  PROVE  MustStop(list, ActionsBefore, failed, attempted)
<1>1. list[1] \in Draft
  OBVIOUS
<1>2. list[1].verdict = "boundary" \/ list[1].verdict \in DiningVerdict
  BY <1>1 DEF IsSafe, Draft, Verdict
<1>3. CASE list[1].verdict = "boundary"
  BY <1>3 DEF MustStop, BoundaryFailure
<1>4. CASE list[1].verdict \in DiningVerdict
  BY <1>4, FirstBlock DEF MustStop, DiningVerdict
<1> QED
  BY <1>2, <1>3, <1>4

\* A replacement is decided on only before the first one.
LEMMA ReplacesOnce ==
  ASSUME NEW list \in Seq(Draft), NEW attempted, NEW n, NEW out, NEW failed,
         Decide(list, ActionsBefore, failed, attempted, n, out)
           = "replace_candidate"
  PROVE  /\ list # <<>> /\ list[1].pair \notin out
         /\ "replace_candidate" \notin attempted
<1>1. /\ ~ MustStop(list, ActionsBefore, failed, attempted)
      /\ CanReplace(list, out)
  BY DEF Decide
<1>2. list # <<>> /\ ~ IsSafe(list[1]) /\ list[1].pair \notin out
  BY <1>1 DEF CanReplace, FirstIsBlocked
<1> QED
  BY <1>1, <1>2, StopsWhenReplaced

LEMMA ValidatorDecides ==
  ASSUME Sound, RecoveryInv, SemanticValidator
  PROVE  RecoveryInv'
<1>1. /\ recovery' = recovery /\ drafts' = drafts
      /\ decision' = Decide(drafts, ActionsBefore, routeFailed,
                            AttemptedActions, level, excluded)
      /\ node = "semantic_validator"
      /\ node' \in {"final_review", "apply_recovery"}
      /\ steps' = steps \/ steps' = steps + 1
  BY DEF SemanticValidator, GoTo
<1>2. /\ attempts \in Seq(AttemptRecord) /\ drafts \in Seq(Draft)
      /\ steps \in Nat
  BY CapAssumption DEF Sound, TypeOK, AttemptRecord
<1>3. /\ Replacements \in Nat /\ Expansions \in Nat
      /\ Replacements' = Replacements /\ Expansions' = Expansions
  BY <1>1, <1>2, CountsAreNatural DEF Replacements, Expansions, Routed, recovery
<1>4. RecoveryAccounted'
  BY <1>1 DEF RecoveryInv, RecoveryAccounted, recovery, Routed
<1>5. ASSUME decision' = "replace_candidate"
      PROVE  Replacements = 0 /\ drafts # <<>> /\ drafts[1].pair \notin excluded
  <2>1. /\ drafts # <<>> /\ drafts[1].pair \notin excluded
        /\ "replace_candidate" \notin AttemptedActions
    BY <1>1, <1>2, <1>5, ReplacesOnce
  <2>2. RoutedAt(attempts, "replace_candidate") = {}
    BY <2>1 DEF RoutedAt, AttemptedActions
  <2>3. Replacements = 0
    BY <2>2, FS_EmptySet DEF Replacements, Routed, RoutedAt
  <2> QED
    BY <2>1, <2>3
<1>6. ASSUME decision' = "expand_search_radius" PROVE level = 0
  BY <1>1, <1>6 DEF Decide, CanExpand
<1>7. /\ steps' <= Position[node'] + 4 * Replacements + 8 * Expansions
      /\ steps' <= 27
  <2>1. Position[node'] = 10 /\ Position[node] = 9
    BY <1>1 DEF Position
  <2>2. steps <= 9 + 4 * Replacements + 8 * Expansions
    BY <1>1, <2>1 DEF RecoveryInv
  <2>3. Replacements <= 1 /\ Expansions <= 1
    BY DEF RecoveryInv, RecoveryAccounted, Expansions, Sound, TypeOK
  <2> QED
    BY <1>1, <1>2, <1>3, <2>1, <2>2, <2>3
<1> QED
  BY <1>1, <1>3, <1>4, <1>5, <1>6, <1>7
     DEF RecoveryInv, recovery, StepsBounded

LEMMA RecoveryApplied ==
  ASSUME Sound, RecoveryInv, ApplyRecovery
  PROVE  RecoveryInv'
<1> DEFINE asked == RouteOf(decision, Len(attempts), MaxAttempts)
           new == [action |-> decision, status |-> AttemptStatus(asked)]
<1>1. decision \in Action \ {"none"} /\ node = "apply_recovery"
  BY DEF ApplyRecovery, Sound, Standing
<1>2. /\ attempts \in Seq(AttemptRecord) /\ steps \in Nat /\ level \in {0, 1}
      /\ Len(attempts) \in Nat /\ MaxAttempts \in Nat
  BY CapAssumption, AttemptAssumption DEF Sound, TypeOK, AttemptRecord
<1>3. Replacements \in Nat /\ Expansions \in Nat
  BY <1>2, CountsAreNatural
<1>4. /\ Len(attempts) = Replacements + Expansions
      /\ Replacements <= 1 /\ Expansions = level
      /\ IsFiniteSet(excluded) /\ Cardinality(excluded) = Replacements
      /\ steps <= 10 + 4 * Replacements + 8 * Expansions
      /\ \A i \in DOMAIN attempts : attempts[i].status = "routed"
      /\ Len(attempts) <= MaxAttempts
      /\ decision = "replace_candidate" =>
           Replacements = 0 /\ drafts # <<>> /\ drafts[1].pair \notin excluded
      /\ decision = "expand_search_radius" => level = 0
  BY <1>1 DEF RecoveryInv, RecoveryAccounted, Replacements, Expansions, Position
<1>5. \/ /\ asked = "logical_planner_agent" /\ decision = "replace_candidate"
         /\ Len(attempts) < MaxAttempts
      \/ /\ asked = "generate_queries" /\ decision = "expand_search_radius"
         /\ Len(attempts) < MaxAttempts
      \/ asked \in {"failed", "awaiting_clarification"}
  BY <1>1 DEF RouteOf, Action, RoutedAction
<1>6. AttemptStatus(asked) =
        CASE asked = "failed"                 -> "stopped"
          [] asked = "awaiting_clarification" -> "awaiting_user"
          [] OTHER                            -> "routed"
  BY DEF AttemptStatus
<1>7. /\ attempts' = Append(attempts, new)
      /\ level' = IF asked = "generate_queries" THEN 1 ELSE level
      /\ excluded' = IF asked = "logical_planner_agent"
                     THEN excluded \union {drafts[1].pair} ELSE excluded
      /\ node' = IF asked \in {"failed", "awaiting_clarification"}
                 THEN "end" ELSE asked
      /\ steps' = steps \/ steps' = steps + 1
  BY <1>4, <1>5 DEF ApplyRecovery, GoTo, StatusAfter
<1> HIDE DEF asked
<1>8. new \in AttemptRecord
  BY <1>1, <1>6 DEF AttemptRecord
<1>9. /\ Replacements' = IF asked = "logical_planner_agent"
                         THEN Replacements + 1 ELSE Replacements
      /\ Expansions' = IF asked = "generate_queries"
                       THEN Expansions + 1 ELSE Expansions
  <2>1. \A action :
          Cardinality(RoutedAt(attempts', action)) =
            IF decision = action /\ AttemptStatus(asked) = "routed"
            THEN Cardinality(RoutedAt(attempts, action)) + 1
            ELSE Cardinality(RoutedAt(attempts, action))
    BY <1>2, <1>7, <1>8, RoutedCounts
  <2>2. /\ Replacements = Cardinality(RoutedAt(attempts, "replace_candidate"))
        /\ Expansions = Cardinality(RoutedAt(attempts, "expand_search_radius"))
        /\ Replacements' =
             Cardinality(RoutedAt(attempts', "replace_candidate"))
        /\ Expansions' =
             Cardinality(RoutedAt(attempts', "expand_search_radius"))
    BY DEF Replacements, Expansions, Routed, RoutedAt
  <2> QED
    BY <1>5, <1>6, <2>1, <2>2
<1>10. /\ Len(attempts') = Len(attempts) + 1
       /\ DOMAIN attempts' = 1 .. Len(attempts) + 1
       /\ \A i \in 1 .. Len(attempts) : attempts'[i] = attempts[i]
       /\ attempts'[Len(attempts) + 1] = new
       /\ DOMAIN attempts = 1 .. Len(attempts)
  <2> HIDE DEF new
  <2> QED
    BY <1>2, <1>7, <1>8
<1>11. /\ IsFiniteSet(excluded')
       /\ Cardinality(excluded') = Replacements'
  BY <1>4, <1>5, <1>7, <1>9, FS_AddElement
<1>12. /\ level' = Expansions' /\ Replacements' <= 1
       /\ Replacements' + Expansions' <= MaxAttempts
       /\ node' # "end" => Len(attempts') = Replacements' + Expansions'
  BY <1>2, <1>3, <1>4, <1>5, <1>7, <1>9, <1>10
<1>13. \A i \in DOMAIN attempts' : attempts'[i].status # "routed" =>
         i = Len(attempts') /\ node' = "end"
  BY <1>2, <1>4, <1>5, <1>6, <1>7, <1>10
<1>14. RecoveryAccounted'
  BY <1>11, <1>12, <1>13 DEF RecoveryAccounted, Replacements, Expansions
<1>15. /\ steps' <= 27
       /\ node' # "end" =>
            steps' <= Position[node'] + 4 * Replacements' + 8 * Expansions'
  <2>1. Position.logical_planner_agent = 7 /\ Position.generate_queries = 3
    BY DEF Position
  <2> QED
    BY <1>2, <1>3, <1>4, <1>5, <1>7, <1>9, <2>1
<1>16. node' # "apply_recovery"
  BY <1>5, <1>7
<1> QED
  BY <1>11, <1>12, <1>14, <1>15, <1>16 DEF RecoveryInv, StepsBounded

LEMMA RecoveryStep ==
  ASSUME Sound, RecoveryInv, [Next]_vars PROVE RecoveryInv'
<1>1. CASE SemanticValidator
  BY <1>1, ValidatorDecides
<1>2. CASE ApplyRecovery
  BY <1>2, RecoveryApplied
<1>3. CASE \/ Initialize \/ GenerateQueries \/ PreFlightCheckAvailability
           \/ LogicalPlannerAgent \/ FinalReview \/ PresentToUser
           \/ WaitConfirmation \/ SagaExecutionEngine
           \/ GenerateSummaryMessage
  <2>1. /\ recovery' = recovery /\ node # "end"
        /\ node' # "apply_recovery" /\ node' \in NodeName
        /\ Position[node'] > Position[node]
        /\ steps' = steps \/ steps' = steps + 1
    BY <1>3, NodeTypes
       DEF Initialize, GenerateQueries, PreFlightCheckAvailability,
           LogicalPlannerAgent, FinalReview, PresentToUser, WaitConfirmation,
           SagaExecutionEngine, GenerateSummaryMessage, GoTo, Position
  <2> QED
    BY <2>1, RecoveryStands
<1>4. CASE StraightNode
  <2>1. /\ recovery' = recovery /\ node # "end"
        /\ node' # "apply_recovery" /\ node' \in NodeName
        /\ Position[node'] > Position[node]
        /\ steps' = steps \/ steps' = steps + 1
    BY <1>4, NodeTypes DEF StraightNode, StraightEdge, GoTo, Position
  <2> QED
    BY <2>1, RecoveryStands
<1>5. CASE RejectSummary \/ Raise
  <2>1. recovery' = recovery /\ node' = "end" /\ steps' = steps
    BY <1>5 DEF RejectSummary, Raise, AnswerError
  <2> QED
    BY <2>1, RecoveryStands
<1>6. CASE ReturnResult
  <2>1. recovery' = recovery /\ node' = "end" /\ steps' = steps
    BY <1>6 DEF ReturnResult
  <2> QED
    BY <2>1, RecoveryStands
<1>7. CASE UNCHANGED vars
  BY <1>7 DEF vars, recovery, RecoveryInv, RecoveryAccounted, Routed,
              Replacements, Expansions, StepsBounded
<1> QED
  BY <1>1, <1>2, <1>3, <1>4, <1>5, <1>6, <1>7 DEF Next, Node

LEMMA RecoveryAlways == Spec => []RecoveryInv
<1>1. PlanningInv /\ RecoveryInv /\ [Next]_vars => RecoveryInv'
  BY RecoveryStep DEF PlanningInv
<1> QED
  BY <1>1, RecoveryInitially, PlanningAlways, PTL DEF Spec

\* The recovery state accounts for the attempts, whatever the budget: one
\* exclusion for each replacement, one level for each expansion, never more
\* than the budget, and nothing after an attempt that is not carried out.
THEOREM RecoveryIsAccounted == Spec => []RecoveryAccounted
BY RecoveryAlways, PTL DEF RecoveryInv

\* The graph runs 27 nodes at most (graph.py:54), whatever the budget: the
\* policy replaces once and expands once.
THEOREM GraphIsBounded == Spec => []StepsBounded
BY RecoveryAlways, PTL DEF RecoveryInv

----------------------------------------------------------------------------
(* Giving up *)

Blocked(list) == \A i \in DOMAIN list : ~ IsSafe(list[i])

\* Nodes before the enrichment and the drafts of a round.
BeforeSearch ==
  { "initialize", "parse_intent", "load_memory", "generate_queries",
    "execute_searches", "populate_candidate_blackboard",
    "pre_flight_check_availability" }

\* A round starts with nothing safe and recovers only from that; what gets
\* to the presentation has something safe in it, and then there are plans.
Presenting ==
  /\ node \in BeforeSearch \union {"logical_planner_agent", "apply_recovery"} =>
       Blocked(drafts)
  /\ node = "apply_recovery" /\ decision = "replace_candidate" =>
       Len(drafts) >= 2
  /\ node \in {"final_review", "present_to_user"} =>
       SafeToPresent(reviewed, ActionsBefore)
  /\ node = "present_to_user" => status = "unset"
  /\ node \in {"wait_confirmation", "saga_execution_engine",
               "generate_summary_message"} => plans # <<>>
  /\ node = "end" /\ outcome # "raised" /\ plans = <<>> => Blocked(drafts)

\* Without a planner model the drafts are all that was generated but for the
\* excluded pairs.
AllDrafted ==
  ~ request.llm =>
    /\ node \in BeforeSearch => Blocked(Generated)
    /\ node \in {"route_and_time_engine", "semantic_validator",
                 "apply_recovery"} =>
         \A i \in DOMAIN Generated : Generated[i].pair \notin excluded =>
           \E j \in DOMAIN drafts : drafts[j] = Generated[i]
    /\ node = "end" /\ outcome # "raised" /\ plans = <<>> => Blocked(Generated)

\* Without a planner model a replacement leaves drafts, all of them known to
\* be blocked, on which the policy then stops.
InVain ==
  ~ request.llm /\ excluded # {} =>
    /\ plans = <<>> /\ Blocked(Generated)
    /\ "replace_candidate" \in AttemptedActions
    /\ node \in {"logical_planner_agent", "route_and_time_engine",
                 "semantic_validator", "apply_recovery", "end"}
    /\ node = "logical_planner_agent" =>
         \E i \in DOMAIN Generated : Generated[i].pair \notin excluded
    /\ node \in {"route_and_time_engine", "semantic_validator"} =>
         drafts # <<>> /\ Blocked(drafts)
    /\ node = "apply_recovery" => decision = "stop_safely"
    /\ node = "end" /\ outcome # "raised" => status = "failed"

GivingUp == Presenting /\ AllDrafted /\ InVain

LEMMA SafeOrBlocked ==
  ASSUME NEW list
  PROVE  SafeToPresent(list, ActionsBefore) <=> ~ Blocked(list)
BY DEF SafeToPresent, Blocked, ActionsBefore

LEMMA GivingUpInitially == Init => GivingUp
<1> SUFFICES ASSUME Init PROVE GivingUp
  OBVIOUS
<1>1. Generated = <<>>
  <2>1. Len(<<>>) = 0 /\ SubSeq(<<>>, 1, 0) = <<>>
    OBVIOUS
  <2>2. MaxDrafts \in Nat
    BY DraftAssumption
  <2> QED
    BY <2>1, <2>2 DEF Init, Generated
<1>2. Blocked(<<>>)
  BY DEF Blocked
<1> QED
  BY <1>1, <1>2 DEF Init, GivingUp, Presenting, AllDrafted, InVain

LEMMA RoundsStart ==
  ASSUME Sound, GivingUp,
         \/ Initialize \/ StraightNode \/ GenerateQueries
         \/ PreFlightCheckAvailability
  PROVE  GivingUp'
<1>1. /\ UNCHANGED <<request, drafts, decision, attempts, excluded, plans,
                     reviewed, outcome>>
      /\ plans = <<>>
  <2>1. /\ UNCHANGED <<request, drafts, decision, attempts, excluded, plans,
                       outcome>>
        /\ UNCHANGED <<reviewed>>
        /\ node \notin {"wait_confirmation", "saga_execution_engine",
                        "generate_summary_message", "end"}
    BY NodeTypes DEF Initialize, StraightNode, GenerateQueries,
         PreFlightCheckAvailability, GoTo, recovery
  <2> QED
    BY <2>1 DEF Sound, Standing
<1>2. AttemptedActions' = AttemptedActions
  BY <1>1 DEF AttemptedActions
<1>3. Blocked(drafts)' <=> Blocked(drafts)
  BY <1>1 DEF Blocked
<1>4. CASE PreFlightCheckAvailability
  <2>1. node = "pre_flight_check_availability"
        /\ node' = "logical_planner_agent"
    BY <1>4 DEF PreFlightCheckAvailability, GoTo
  <2> QED
    BY <1>1, <1>3, <2>1
       DEF GivingUp, Presenting, AllDrafted, InVain, BeforeSearch
<1>5. CASE Initialize \/ StraightNode \/ GenerateQueries
  <2>1. offered' = offered
    BY <1>5 DEF Initialize, StraightNode, GenerateQueries, found
  <2>2. Generated' = Generated /\ (Blocked(Generated)' <=> Blocked(Generated))
    BY <2>1 DEF Generated, Blocked
  <2>3. CASE node = "route_and_time_engine"
    <3>1. node' = "semantic_validator"
      BY <1>5, <2>3 DEF Initialize, StraightNode, GenerateQueries, GoTo,
                        StraightEdge
    <3> QED
      BY <1>1, <1>2, <1>3, <2>2, <2>3, <3>1
         DEF GivingUp, Presenting, AllDrafted, InVain, BeforeSearch
  <2>4. CASE node # "route_and_time_engine"
    <3>1. /\ node \in BeforeSearch
          /\ node' \in BeforeSearch \union {"end"}
      BY <1>5, <2>4 DEF Initialize, StraightNode, GenerateQueries, GoTo,
                        StraightEdge, BeforeSearch
    <3>2. ~ request.llm => excluded = {}
      BY <3>1 DEF GivingUp, InVain, BeforeSearch
    <3> QED
      BY <1>1, <1>3, <2>2, <3>1, <3>2
         DEF GivingUp, Presenting, AllDrafted, InVain, BeforeSearch
  <2> QED
    BY <2>3, <2>4
<1> QED
  BY <1>4, <1>5

\* The planner drafts all that is not excluded, unless a model chooses.
LEMMA PlannerCovers ==
  ASSUME Sound, DraftsInv, GivingUp, LogicalPlannerAgent
  PROVE  GivingUp'
<1>1. /\ UNCHANGED <<request, offered, attempts, excluded, plans, outcome>>
      /\ node = "logical_planner_agent" /\ node' = "route_and_time_engine"
  BY DEF LogicalPlannerAgent, GoTo, found, recovery
<1>2. /\ Generated' = Generated /\ AttemptedActions' = AttemptedActions
      /\ Blocked(Generated)' <=> Blocked(Generated)
  BY <1>1 DEF Generated, AttemptedActions, Blocked
<1>3. Presenting'
  BY <1>1 DEF Presenting, BeforeSearch
<1> DEFINE allowed == {i \in DOMAIN Generated :
                         Generated[i].pair \notin excluded}
<1>4. ASSUME ~ request.llm
      PROVE  /\ \A i \in DOMAIN drafts' : \E p \in allowed :
                  drafts'[i] = Generated[p]
             /\ \A p \in allowed : \E i \in DOMAIN drafts' :
                  drafts'[i] = Generated[p]
  <2>1. Generated \in Seq(Draft) /\ Distinct(Generated)
    BY GeneratedType DEF Sound, TypeOK, DraftsInv
  <2>2. drafts' = Kept(Generated, allowed)
    BY <1>4 DEF LogicalPlannerAgent, Arrangements, WithoutExcluded
  <2>3. allowed \in SUBSET DOMAIN Generated
    OBVIOUS
  <2> HIDE DEF allowed
  <2> QED
    BY <2>1, <2>2, <2>3, KeptDrafts
<1>5. AllDrafted'
  BY <1>1, <1>2, <1>4 DEF AllDrafted, BeforeSearch
<1>6. ASSUME ~ request.llm, excluded # {}
      PROVE  drafts' # <<>> /\ Blocked(drafts)'
  <2>1. Blocked(Generated) /\ allowed # {}
    BY <1>1, <1>6 DEF GivingUp, InVain
  <2> QED
    BY <1>4, <1>6, <2>1 DEF Blocked
<1>7. InVain'
  BY <1>1, <1>2, <1>6 DEF GivingUp, InVain
<1> QED
  BY <1>3, <1>5, <1>7 DEF GivingUp

LEMMA ValidatorGivesUp ==
  ASSUME Sound, GivingUp, SemanticValidator
  PROVE  GivingUp'
<1>1. /\ UNCHANGED <<request, offered, drafts, attempts, excluded, plans,
                     status, outcome>>
      /\ node = "semantic_validator" /\ reviewed' = drafts
      /\ decision' = Decide(drafts, ActionsBefore, routeFailed,
                            AttemptedActions, level, excluded)
      /\ node' = IF decision' = "none" THEN "final_review" ELSE "apply_recovery"
  BY DEF SemanticValidator, GoTo, found, recovery
<1>2. /\ Generated' = Generated /\ AttemptedActions' = AttemptedActions
      /\ Blocked(Generated)' <=> Blocked(Generated)
      /\ Blocked(drafts)' <=> Blocked(drafts)
  BY <1>1 DEF Generated, AttemptedActions, Blocked
<1>3. decision' = "none" <=> ~ Blocked(drafts)
  BY <1>1, SafeOrBlocked DEF Decide
<1>4. decision' = "replace_candidate" => Len(drafts) >= 2
  BY <1>1 DEF Decide, CanReplace
<1>5. SafeToPresent(reviewed, ActionsBefore)' <=> ~ Blocked(drafts)
  BY <1>1 DEF SafeToPresent, Blocked, ActionsBefore
<1>6. Presenting'
  BY <1>1, <1>2, <1>3, <1>4, <1>5 DEF Presenting, BeforeSearch
<1>7. AllDrafted'
  BY <1>1, <1>2 DEF GivingUp, AllDrafted, BeforeSearch
<1>8. ASSUME ~ request.llm, excluded # {}
      PROVE  decision' = "stop_safely"
  <2>1. /\ "replace_candidate" \in AttemptedActions
        /\ drafts # <<>> /\ Blocked(drafts)
    BY <1>1, <1>8 DEF GivingUp, InVain
  <2>2. drafts \in Seq(Draft) /\ ~ IsSafe(drafts[1])
    BY <2>1 DEF Sound, TypeOK, Blocked
  <2>3. MustStop(drafts, ActionsBefore, routeFailed, AttemptedActions)
    BY <2>1, <2>2, StopsWhenReplaced
  <2> QED
    BY <1>1, <2>1, <2>3, SafeOrBlocked DEF Decide
<1>9. InVain'
  BY <1>1, <1>2, <1>3, <1>8 DEF GivingUp, InVain
<1> QED
  BY <1>6, <1>7, <1>9 DEF GivingUp

LEMMA RecoveryGivesUp ==
  ASSUME Sound, DraftsInv, RecoveryInv, GivingUp, ApplyRecovery
  PROVE  GivingUp'
<1> DEFINE asked == RouteOf(decision, Len(attempts), MaxAttempts)
           new == [action |-> decision, status |-> AttemptStatus(asked)]
<1>1. /\ decision \in Action \ {"none"} /\ node = "apply_recovery"
      /\ plans = <<>> /\ outcome = "open" /\ Blocked(drafts)
      /\ UNCHANGED <<request, offered, drafts, plans, outcome>>
      /\ decision = "replace_candidate" => drafts # <<>> /\ Len(drafts) >= 2
  BY DEF ApplyRecovery, GoTo, found, Sound, Standing, GivingUp, Presenting,
         RecoveryInv
<1>2. /\ Generated' = Generated
      /\ Blocked(Generated)' <=> Blocked(Generated)
      /\ Blocked(drafts)' <=> Blocked(drafts)
  BY <1>1 DEF Generated, Blocked
<1>3. \/ asked = "logical_planner_agent" /\ decision = "replace_candidate"
      \/ asked = "generate_queries" /\ decision = "expand_search_radius"
      \/ asked = "awaiting_clarification" /\ decision = "ask_user"
      \/ asked = "failed"
  BY <1>1 DEF RouteOf, Action, RoutedAction
<1>4. /\ attempts' = Append(attempts, new)
      /\ excluded' = IF asked = "logical_planner_agent"
                     THEN excluded \union {drafts[1].pair} ELSE excluded
      /\ node' = IF asked \in {"failed", "awaiting_clarification"}
                 THEN "end" ELSE asked
      /\ asked = "failed" => status' = "failed"
  BY <1>1, <1>3 DEF ApplyRecovery, GoTo, StatusAfter
<1> HIDE DEF asked
<1>5. AttemptedActions' = AttemptedActions \union {decision}
  <2>1. attempts \in Seq(AttemptRecord)
    BY DEF Sound, TypeOK, AttemptRecord
  <2>2. DOMAIN attempts = 1 .. Len(attempts) /\ Len(attempts) \in Nat
    BY <2>1
  <2>3. /\ DOMAIN attempts' = 1 .. Len(attempts) + 1
        /\ \A i \in 1 .. Len(attempts) : attempts'[i] = attempts[i]
        /\ attempts'[Len(attempts) + 1].action = decision
    BY <1>4, <2>1, <2>2
  <2> HIDE DEF new
  <2>4. Len(attempts) + 1 \in 1 .. Len(attempts) + 1
    BY <2>2
  <2> QED
    BY <2>2, <2>3, <2>4 DEF AttemptedActions
<1>6. Presenting'
  BY <1>1, <1>2, <1>3, <1>4 DEF Presenting, BeforeSearch
<1>7. ASSUME ~ request.llm, excluded = {} PROVE Blocked(Generated)
  BY <1>1, <1>7 DEF GivingUp, AllDrafted, Blocked
<1>8. ~ request.llm => Blocked(Generated)
  BY <1>7 DEF GivingUp, InVain
<1>9. AllDrafted'
  BY <1>1, <1>2, <1>3, <1>4, <1>8 DEF AllDrafted
<1>10. CASE excluded # {} /\ ~ request.llm
  <2>1. decision = "stop_safely" /\ "replace_candidate" \in AttemptedActions
    BY <1>1, <1>10 DEF GivingUp, InVain
  <2>2. asked = "failed"
    BY <1>3, <2>1
  <2> QED
    BY <1>1, <1>2, <1>4, <1>5, <1>6, <1>8, <1>9, <1>10, <2>1, <2>2
       DEF GivingUp, InVain
<1>11. CASE request.llm \/ (excluded = {} /\ asked # "logical_planner_agent")
  BY <1>1, <1>4, <1>6, <1>9, <1>11 DEF GivingUp, InVain
<1>12. CASE excluded = {} /\ asked = "logical_planner_agent"
  <2>1. decision = "replace_candidate" /\ Len(drafts) >= 2
    BY <1>1, <1>3, <1>12
  <2>2. excluded' = {drafts[1].pair} /\ node' = "logical_planner_agent"
    BY <1>4, <1>12
  <2>3. \E i \in DOMAIN Generated : Generated[i].pair # drafts[1].pair
    <3>1. drafts \in Seq(Draft) /\ offered \in Seq(Draft)
      BY DEF Sound, TypeOK
    <3>2. 1 \in DOMAIN drafts /\ 2 \in DOMAIN drafts
      BY <2>1, <3>1
    <3>3. drafts[2].pair # drafts[1].pair
      BY <1>1, <3>2 DEF DraftsInv, Distinct
    <3>4. PICK j \in DOMAIN offered : j <= MaxDrafts /\ offered[j] = drafts[2]
      BY <1>1, <3>2 DEF DraftsInv, Within
    <3>5. j \in DOMAIN Generated /\ Generated[j] = offered[j]
      <4> DEFINE n == IF Len(offered) < MaxDrafts THEN Len(offered)
                                                  ELSE MaxDrafts
      <4>1. n \in Nat /\ j \in 1 .. n /\ n <= Len(offered)
        BY <3>1, <3>4, DraftAssumption
      <4>2. Generated = SubSeq(offered, 1, n)
        BY DEF Generated
      <4> HIDE DEF n
      <4> QED
        BY <3>1, <4>1, <4>2
    <3> QED
      BY <3>3, <3>4, <3>5
  <2>4. \E i \in DOMAIN Generated' : Generated'[i].pair \notin excluded'
    BY <1>2, <2>2, <2>3
  <2>5. "replace_candidate" \in AttemptedActions'
    BY <1>5, <2>1
  <2> QED
    BY <1>1, <1>2, <1>6, <1>8, <1>9, <2>2, <2>4, <2>5 DEF GivingUp, InVain
<1> QED
  BY <1>10, <1>11, <1>12

\* Of a review with something safe in it, something is stored.
LEMMA SafeIsStored ==
  ASSUME Sound, DraftsInv, node = "present_to_user",
         SafeToPresent(reviewed, ActionsBefore)
  PROVE  PersistedDrafts \in Seq(Draft) /\ PersistedDrafts # <<>>
<1> DEFINE stored == {i \in DOMAIN reviewed :
                        /\ IsSafe(reviewed[i])
                        /\ \E j \in DOMAIN drafts : drafts[j] = reviewed[i]}
<1>1. reviewed \in Seq(Draft) /\ Distinct(reviewed) /\ reviewed = drafts
  BY DEF Sound, TypeOK, DraftsInv
<1>2. PersistedDrafts = Kept(reviewed, stored)
  BY DEF PersistedDrafts
<1>3. stored \in SUBSET DOMAIN reviewed /\ stored # {}
  BY <1>1 DEF SafeToPresent
<1> HIDE DEF stored
<1>4. /\ Kept(reviewed, stored) \in Seq(Draft)
      /\ \A p \in stored : \E i \in DOMAIN Kept(reviewed, stored) :
           Kept(reviewed, stored)[i] = reviewed[p]
  BY <1>1, <1>3, KeptDrafts
<1>5. DOMAIN <<>> = {}
  OBVIOUS
<1> QED
  BY <1>2, <1>3, <1>4, <1>5

LEMMA PresentationHasPlans ==
  ASSUME Sound, DraftsInv, GivingUp,
         \/ FinalReview \/ PresentToUser \/ WaitConfirmation
         \/ SagaExecutionEngine \/ GenerateSummaryMessage
  PROVE  GivingUp'
<1>1. /\ UNCHANGED <<request, offered, drafts, reviewed, attempts, excluded>>
      /\ node \in {"final_review", "present_to_user", "wait_confirmation",
                   "saga_execution_engine", "generate_summary_message"}
      /\ node' \in {"present_to_user", "wait_confirmation",
                    "saga_execution_engine", "generate_summary_message", "end"}
      /\ node' = "present_to_user" => FinalReview
  BY DEF FinalReview, PresentToUser, WaitConfirmation, SagaExecutionEngine,
         GenerateSummaryMessage, GoTo, found, recovery
<1>2. ~ request.llm => excluded = {}
  BY <1>1 DEF GivingUp, InVain
<1>3. InVain'
  BY <1>1, <1>2 DEF InVain
<1>4. CASE FinalReview
  <2>1. /\ node = "final_review" /\ SafeToPresent(reviewed, ActionsBefore)
        /\ node' = "present_to_user" /\ status' = status /\ status = "unset"
    BY <1>4 DEF FinalReview, GoTo, GivingUp, Presenting, Sound, Standing
  <2>2. Presenting'
    BY <1>1, <2>1 DEF Presenting, BeforeSearch, ActionsBefore
  <2>3. AllDrafted'
    BY <2>1 DEF AllDrafted, BeforeSearch
  <2> QED
    BY <1>3, <2>2, <2>3 DEF GivingUp
<1>5. CASE ~ FinalReview
  <2>1. plans' # <<>>
    <3>1. CASE PresentToUser
      <4>1. /\ node = "present_to_user" /\ ~ Failed
            /\ SafeToPresent(reviewed, ActionsBefore)
        BY <3>1 DEF PresentToUser, Failed, GivingUp, Presenting
      <4>2. PersistedDrafts \in Seq(Draft) /\ PersistedDrafts # <<>>
        BY <4>1, SafeIsStored
      <4>3. DOMAIN Rows(PersistedDrafts) # {}
        BY <4>2, RowsType
      <4>4. DOMAIN plans' = DOMAIN Rows(PersistedDrafts)
        BY <3>1, <4>1 DEF PresentToUser
      <4>5. DOMAIN <<>> = {}
        OBVIOUS
      <4> QED
        BY <4>3, <4>4, <4>5
    <3>2. CASE WaitConfirmation \/ SagaExecutionEngine \/ GenerateSummaryMessage
      <4>1. plans # <<>> /\ plans \in Seq(StoredPlan)
        BY <3>2 DEF WaitConfirmation, SagaExecutionEngine,
             GenerateSummaryMessage, GivingUp, Presenting, Sound, TypeOK,
             StoredPlan
      <4>2. DOMAIN plans' = DOMAIN plans
        BY <3>2 DEF WaitConfirmation, SagaExecutionEngine,
             GenerateSummaryMessage
      <4>3. DOMAIN plans # {} /\ DOMAIN <<>> = {}
        BY <4>1
      <4> QED
        BY <4>2, <4>3
    <3> QED
      BY <1>5, <3>1, <3>2
  <2>2. Presenting' /\ AllDrafted'
    BY <1>1, <1>5, <2>1 DEF Presenting, AllDrafted, BeforeSearch
  <2> QED
    BY <1>3, <2>2 DEF GivingUp
<1> QED
  BY <1>4, <1>5

LEMMA GivenUp ==
  ASSUME Sound, GivingUp, ReturnResult \/ AnswerError \/ UNCHANGED vars
  PROVE  GivingUp'
<1>1. /\ UNCHANGED <<request, offered, drafts, reviewed, attempts, excluded,
                     decision>>
      /\ plans' = plans \/ plans' = <<>>
      /\ \/ /\ UNCHANGED <<node, status, plans>>
            /\ \/ outcome' = outcome
               \/ /\ node = "end"
                  /\ outcome # "raised"
         \/ /\ node' = "end"
            /\ outcome' = "raised"
  <2>1. CASE ReturnResult
    BY <2>1 DEF ReturnResult, found, recovery
  <2>2. CASE AnswerError
    BY <2>2 DEF AnswerError, found, recovery
  <2>3. CASE UNCHANGED vars
    BY <2>3 DEF vars, found, recovery
  <2> QED
    BY <2>1, <2>2, <2>3
<1>2. /\ Generated' = Generated /\ AttemptedActions' = AttemptedActions
      /\ Blocked(Generated)' <=> Blocked(Generated)
      /\ Blocked(drafts)' <=> Blocked(drafts)
      /\ SafeToPresent(reviewed, ActionsBefore)'
           <=> SafeToPresent(reviewed, ActionsBefore)
  BY <1>1 DEF Generated, AttemptedActions, Blocked, SafeToPresent, ActionsBefore
<1>3. Presenting'
  BY <1>1, <1>2 DEF GivingUp, Presenting, BeforeSearch
<1>4. AllDrafted'
  BY <1>1, <1>2 DEF GivingUp, AllDrafted, BeforeSearch
<1>5. InVain'
  BY <1>1, <1>2 DEF GivingUp, InVain
<1> QED
  BY <1>3, <1>4, <1>5 DEF GivingUp

LEMMA GivingUpStep ==
  ASSUME PlanningInv, RecoveryInv, GivingUp, [Next]_vars PROVE GivingUp'
<1> USE DEF PlanningInv
<1>1. CASE \/ Initialize \/ StraightNode \/ GenerateQueries
           \/ PreFlightCheckAvailability
  BY <1>1, RoundsStart
<1>2. CASE LogicalPlannerAgent
  BY <1>2, PlannerCovers
<1>3. CASE SemanticValidator
  BY <1>3, ValidatorGivesUp
<1>4. CASE ApplyRecovery
  BY <1>4, RecoveryGivesUp
<1>5. CASE \/ FinalReview \/ PresentToUser \/ WaitConfirmation
           \/ SagaExecutionEngine \/ GenerateSummaryMessage
  BY <1>5, PresentationHasPlans
<1>6. CASE ReturnResult \/ UNCHANGED vars
  BY <1>6, GivenUp
<1>7. CASE RejectSummary \/ Raise
  BY <1>7, RaisingSteps, GivenUp
<1> QED
  BY <1>1, <1>2, <1>3, <1>4, <1>5, <1>6, <1>7 DEF Next, Node

\* A run gives up only when it has nothing safe to present, and without a
\* planner model a replacement (nodes.py:337) never leads to a plan,
\* whatever the searches find and whatever the budget.
THEOREM SafeDraftsArePresented == Spec => []SafeDraftIsPresented
<1>1. PlanningInv /\ GivingUp => SafeDraftIsPresented
  BY DEF PlanningInv, Sound, Standing, GivingUp, Presenting, AllDrafted, InVain,
         SafeDraftIsPresented, Blocked
<1>2. PlanningInv /\ RecoveryInv /\ GivingUp /\ [Next]_vars => GivingUp'
  BY GivingUpStep
<1> QED
  BY <1>1, <1>2, GivingUpInitially, PlanningAlways, RecoveryAlways, PTL DEF Spec

============================================================================
