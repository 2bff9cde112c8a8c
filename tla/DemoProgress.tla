---------------------------- MODULE DemoProgress ----------------------------
(***************************************************************************)
(* What a client is told of a run's progress: public stages computed from  *)
(* the names of the workflow nodes that have run, the search events of the *)
(* run, its status, and whether an execution has been recorded; and the    *)
(* stream of such snapshots while the workflow runs.                       *)
(*                                                                         *)
(* The wording of a step is left out, but for one thing: two snapshots     *)
(* with the same stages are told apart by their counts of plans.           *)
(***************************************************************************)
EXTENDS Naturals, Sequences, SequencesExt, FiniteSets

CONSTANT MaxRecoveries   \* max_recovery_attempts of the workflow

----------------------------------------------------------------------------
(* The workflow's graph, as a stream shows it *)

Follows ==
  [ initialize                    |-> "parse_intent",
    parse_intent                  |-> "load_memory",
    load_memory                   |-> "generate_queries",
    execute_searches              |-> "populate_candidate_blackboard",
    populate_candidate_blackboard |-> "pre_flight_check_availability",
    pre_flight_check_availability |-> "logical_planner_agent",
    logical_planner_agent         |-> "route_and_time_engine",
    route_and_time_engine         |-> "semantic_validator" ]

WorkflowNode ==
  DOMAIN Follows \cup
  {"generate_queries", "semantic_validator", "apply_recovery",
   "final_review", "present_to_user", "wait_confirmation"}

RecoveryRoute == {"generate_queries", "execute_searches",
                  "logical_planner_agent"}

Goes(status, next) == [status |-> status, next |-> next]

\* What a node can make of the run's status, and the node that comes next.
\* Only the first pass asks for what a request leaves out: later ones see
\* the same intent.  Review and presentation are passed even by a run that
\* one of them has failed.
Outcomes(node, status, recoveries) ==
  CASE node \in DOMAIN Follows -> {Goes(status, Follows[node])}
    [] node = "generate_queries" ->
         {Goes(status, "execute_searches")} \cup
         {Goes("awaiting_clarification", "end") : i \in 1 .. (1 - recoveries)}
    [] node = "semantic_validator" ->
         {Goes(status, "final_review"), Goes(status, "apply_recovery")}
    [] node = "apply_recovery" ->
         {Goes("awaiting_clarification", "end"), Goes("failed", "end")} \cup
         {Goes(status, route) :
            route \in {r \in RecoveryRoute : recoveries < MaxRecoveries}}
    [] node = "final_review" ->
         {Goes(status, "present_to_user"), Goes("failed", "present_to_user")}
    [] node = "present_to_user" ->
         {Goes(status, "wait_confirmation"),
          Goes("failed", "wait_confirmation")}
    [] node = "wait_confirmation" ->
         {Goes(IF status = "failed" THEN status ELSE "awaiting_confirmation",
               "end")}

----------------------------------------------------------------------------
(* From nodes to public stages *)

StageOf ==
  [ initialize                    |-> "understanding_request",
    parse_intent                  |-> "understanding_request",
    load_memory                   |-> "understanding_request",
    generate_queries              |-> "planning_queries",
    pre_flight_check_availability |-> "checking_availability",
    logical_planner_agent         |-> "building_itinerary",
    route_and_time_engine         |-> "checking_route_time",
    semantic_validator            |-> "reviewing_plan",
    apply_recovery                |-> "reviewing_plan",
    final_review                  |-> "reviewing_plan",
    present_to_user               |-> "reviewing_plan",
    wait_confirmation             |-> "ready_for_confirmation" ]

\* Both searches are among the calls of every query plan, in this order,
\* and a call is recorded whether it succeeds or not.
SearchStage == <<"searching_activities", "searching_dining">>

SearchStages(nodes) ==
  IF Contains(nodes, "execute_searches") THEN SearchStage ELSE <<>>

AppendUnique(list, item) == IF Contains(list, item) THEN list
                                                    ELSE Append(list, item)
ExtendUnique(list, items) == FoldLeft(AppendUnique, list, items)

\* One more node of the history.
StageHistory(nodes) ==
  LET Add(list, node) ==
        IF node \in DOMAIN StageOf THEN AppendUnique(list, StageOf[node])
                                   ELSE ExtendUnique(list, SearchStages(nodes))
  IN FoldLeft(Add, <<>>, nodes)

Executing == "executing_confirmed_actions"

\* The statuses that tell of an execution.
ExecutedStatus == {"completed", "partially_completed", "skipped"}

\* Mutant of CurrentStage: a declined run is asked first.
DeclinedFirst(status, nodes, executed) ==
  LET shown == executed \/ status \in ExecutedStatus
  IN IF \/ status \in {"declined", "awaiting_confirmation"}
        \/ ~shown /\ Contains(nodes, "wait_confirmation")
     THEN "ready_for_confirmation"
     ELSE IF shown THEN Executing ELSE Last(StageHistory(nodes))

CurrentStage(status, nodes, executed) ==
  IF executed \/ status \in ExecutedStatus THEN Executing
  ELSE IF \/ status \in {"declined", "awaiting_confirmation"}
          \/ Contains(nodes, "wait_confirmation")
       THEN "ready_for_confirmation"
       ELSE Last(StageHistory(nodes))

\* A snapshot: the stages in order, the last of them the current one.
Snapshot(status, nodes, executed, plans) ==
  [ stages |-> AppendUnique(StageHistory(nodes),
                            CurrentStage(status, nodes, executed)),
    plans  |-> plans ]

\* A snapshot that ends with one of its stages.
Truncated(snapshot, stage) ==
  LET end == CHOOSE i \in DOMAIN snapshot.stages : snapshot.stages[i] = stage
  IN [snapshot EXCEPT !.stages = SubSeq(snapshot.stages, 1, end)]

\* Mutant of Milestones: the snapshot is reported as it is.
OneSnapshot(snapshot, nodes) == <<snapshot>>

\* Right after the searches, two milestones stand for the one snapshot.
Milestones(snapshot, nodes) ==
  IF Last(nodes) = "execute_searches"
  THEN [i \in DOMAIN SearchStage |-> Truncated(snapshot, SearchStage[i])]
  ELSE <<snapshot>>

----------------------------------------------------------------------------
(* The stream of one request *)

\* Where the graph is, and the nodes it has visited, each with the number of
\* plans there was to tell of (only whether it changes matters).
NewStream == [at |-> "initialize", status |-> "running", recoveries |-> 0,
              visits |-> <<>>]

NextStreams(stream) ==
  LET plans == IF stream.at \in {"logical_planner_agent", "present_to_user"}
               THEN BOOLEAN ELSE {FALSE}
      After(o, m) ==
        [ at |-> o.next, status |-> o.status,
          recoveries |-> IF stream.at = "apply_recovery"
                         THEN stream.recoveries + 1 ELSE stream.recoveries,
          visits |-> Append(stream.visits, [node |-> stream.at, more |-> m]) ]
  IN UNION {{After(o, m) : m \in plans} :
              o \in Outcomes(stream.at, stream.status, stream.recoveries)}

Nodes(visits) == [i \in DOMAIN visits |-> visits[i].node]

PlansTold(visits) == Cardinality({i \in DOMAIN visits : visits[i].more})

\* The snapshots for the state after one more node.  Up to the workflow's
\* end the status does not matter to them.
Reported(visits) ==
  Milestones(Snapshot("running", Nodes(visits), FALSE, PlansTold(visits)),
             Nodes(visits))

\* Mutant of Send: a snapshot equal to any before it is not sent.
SendNew(sent, snapshot) ==
  IF Contains(sent, snapshot) THEN sent ELSE Append(sent, snapshot)

\* A snapshot equal to the one before is not sent again.
Send(sent, snapshot) ==
  IF sent # <<>> /\ Last(sent) = snapshot THEN sent ELSE Append(sent, snapshot)

\* All that a stream has sent.
Sent(visits) ==
  LET SendNext(sent, i) == FoldLeft(Send, sent, Reported(SubSeq(visits, 1, i)))
  IN FoldLeft(SendNext, <<>>, [i \in DOMAIN visits |-> i])

============================================================================
