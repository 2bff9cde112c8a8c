--------------------------- MODULE RecoveryPolicy ---------------------------
(***************************************************************************)
(* What the planning workflow decides about the drafts it has made: which  *)
(* pairs of an activity and a restaurant become drafts, which drafts the   *)
(* review gate lets through, and what is done when it lets none through.   *)
(*                                                                         *)
(* A draft is a record of the pair it is made of and the verdict of the    *)
(* gate on it.  All the evidence a verdict rests on is in the draft, so    *)
(* the gate's answer is known when the draft is made; the workflow reads   *)
(* it only after the gate has run.                                         *)
(***************************************************************************)
EXTENDS Naturals, Sequences, FiniteSets

\* What the enrichment found out about a pair: its table, its queue, its
\* ticket and its route, and whether anything the draft copies from the
\* provider has a key name the gate takes for sensitive.
Evidence ==
  [ ticket    : {"available", "unavailable", "unknown"},
    table     : {"available", "unavailable", "unknown"},
    queue     : {"open", "closed", "other", "unknown"},
    route     : {"usable", "failed"},
    sensitive : BOOLEAN ]

----------------------------------------------------------------------------
(* Which pairs become drafts: DeterministicItineraryGenerator *)

DiningIsUsable(e) ==
  \/ e.table = "available" \/ e.queue = "open"
  \/ e.table = "unknown" /\ e.queue = "unknown"

PairIsUsable(e) ==
  /\ e.route = "usable"
  /\ e.ticket # "unavailable"
  /\ DiningIsUsable(e)

----------------------------------------------------------------------------
(* Which drafts are safe: FinalReviewGate *)

DiningVerdict == {"table_unavailable", "queue_closed",
                  "table_and_queue_unavailable"}

\* "boundary" stands for the checks of the confirmation boundary and of
\* sensitive content.  The checks that a draft's parts exist and are backed
\* by evidence never fail on a draft of the generator.
Verdict == {"safe", "boundary"} \union DiningVerdict

\* The first check that fails; the dining check comes before the others
\* that a generated draft can fail.
GateVerdict(e) ==
  CASE e.queue = "closed" /\ e.table = "unavailable" ->
         "table_and_queue_unavailable"
    [] e.queue = "closed" /\ e.table # "unavailable" -> "queue_closed"
    [] e.queue # "closed" /\ e.table = "unavailable" -> "table_unavailable"
    [] e.queue # "closed" /\ e.table # "unavailable" ->
         IF e.sensitive THEN "boundary" ELSE "safe"

IsSafe(draft) == draft.verdict = "safe"

\* Mutant of SafeToPresent: only the draft presented first has to be safe.
FirstIsSafe(drafts, writes) ==
  writes = 0 /\ drafts # <<>> /\ IsSafe(drafts[1])

\* Nothing has been written yet, and there is something to present.
SafeToPresent(drafts, writes) ==
  writes = 0 /\ \E i \in DOMAIN drafts : IsSafe(drafts[i])

----------------------------------------------------------------------------
(* What to do when nothing is safe: decide_recovery_action *)

\* The first error of the review is one of the confirmation boundary.
BoundaryFailure(drafts, writes) ==
  writes > 0 \/ (drafts # <<>> /\ drafts[1].verdict = "boundary")

FirstIsBlocked(drafts) == drafts # <<>> /\ ~ IsSafe(drafts[1])

\* The verdict of the first draft that fails the dining check.
DiningBlock(drafts) ==
  LET failing == {i \in DOMAIN drafts : drafts[i].verdict \in DiningVerdict}
  IN  IF failing = {} THEN "none"
      ELSE drafts[CHOOSE i \in failing : \A j \in failing : i <= j].verdict

MustStop(drafts, writes, routeFailed, attempted) ==
  \/ BoundaryFailure(drafts, writes)
  \/ drafts = <<>> /\ routeFailed
  \/ DiningBlock(drafts) = "queue_closed"
  \/ /\ DiningBlock(drafts) \in {"table_unavailable",
                                 "table_and_queue_unavailable"}
     /\ "replace_candidate" \in attempted

CanReplace(drafts, excluded) ==
  /\ Len(drafts) >= 2
  /\ FirstIsBlocked(drafts)
  /\ drafts[1].pair \notin excluded

\* Mutant of CanExpand: the search is expanded again and again.
ExpandsAgain(drafts, level) == drafts = <<>> \/ FirstIsBlocked(drafts)

CanExpand(drafts, level) ==
  level = 0 /\ (drafts = <<>> \/ FirstIsBlocked(drafts))

UserMayHelp(drafts) == drafts = <<>> \/ FirstIsBlocked(drafts)

Decide(drafts, writes, routeFailed, attempted, level, excluded) ==
  IF SafeToPresent(drafts, writes) THEN "none"
  ELSE IF MustStop(drafts, writes, routeFailed, attempted) THEN "stop_safely"
  ELSE IF CanReplace(drafts, excluded) THEN "replace_candidate"
  ELSE IF CanExpand(drafts, level) THEN "expand_search_radius"
  ELSE IF UserMayHelp(drafts) THEN "ask_user"
  ELSE "stop_safely"

----------------------------------------------------------------------------
(* Where the workflow goes on: resolve_recovery_route *)

\* The only actions with a route; both come with a budget of one.
RoutedAction == {"replace_candidate", "expand_search_radius"}

RouteOf(action, attemptCount, maxAttempts) ==
  CASE action = "none"     -> "final_review"
    [] action = "ask_user" -> "awaiting_clarification"
    [] action \in RoutedAction /\ attemptCount < maxAttempts ->
         IF action = "replace_candidate" THEN "logical_planner_agent"
                                         ELSE "generate_queries"
    [] OTHER -> "failed"

AttemptStatus(route) ==
  CASE route = "failed"                 -> "stopped"
    [] route = "awaiting_clarification" -> "awaiting_user"
    [] OTHER                            -> "routed"

============================================================================
