------------------------------ MODULE ReviewGate ------------------------------
(***************************************************************************)
(* The final review of drafts, check by check: each draft is compared with *)
(* what the enrichment found, as if someone else had made it.  A check     *)
(* passes, warns or fails; a draft is blocked by one failed check.         *)
(***************************************************************************)
EXTENDS ItineraryDrafts

\* What the tags and the answers say of a place.
CONSTANT MarksOf

Found(list, place) == \E i \in DOMAIN list : list[i].place = place

\* The last candidate with this place, as an index by its id has it.
Entry(list, place) ==
  list[CHOOSE i \in DOMAIN list :
         list[i].place = place /\ \A j \in DOMAIN list :
                                    list[j].place = place => j <= i]

Verified(e, from, to) == FindRoute(e, from, to) > 0

Fails(condition) == IF condition THEN "failed" ELSE "passed"
Warns(condition) == IF condition THEN "warning" ELSE "passed"

----------------------------------------------------------------------------
(* The checks of one draft *)

CandidateIdsVerified(d, e) ==
  Fails(~ (Found(e.activity, d.activity) /\ Found(e.dining, d.dining)))

\* Why a restaurant cannot be had; "usable" when it can.
AvailabilityStatus(d, e) ==
  IF ~ Found(e.dining, d.dining) THEN "missing_evidence"
  ELSE LET x == Entry(e.dining, d.dining)
       IN  CASE x.queue = "closed" /\ x.table = "unavailable" ->
                  "table_and_queue_unavailable"
             [] x.queue = "closed" /\ x.table # "unavailable" -> "queue_closed"
             [] x.queue # "closed" /\ x.table = "unavailable" ->
                  "table_unavailable"
             [] OTHER -> "usable"

DiningAvailability(d, e) == Fails(AvailabilityStatus(d, e) # "usable")

RouteVerified(d, e) ==
  Fails(~ (/\ d.route.from = d.activity /\ d.route.to = d.dining
           /\ Verified(e, d.activity, d.dining)))

\* Only a block between two others may be empty.
TimelineDuration(d, request) ==
  IF d.timeline.activity <= 0 \/ d.timeline.transfer <= 0
     \/ d.timeline.dining <= 0 \/ d.timeline.buffer < 0 THEN "failed"
  ELSE Warns(TotalMinutes(d.timeline) \notin request.minutes)

ChildFriendlyConstraint(d, request) ==
  Warns(request.child /\ ~ (/\ "child_friendly" \in MarksOf[d.activity]
                            /\ "child_friendly" \in MarksOf[d.dining]))

DiningPreferenceConstraint(d, request) ==
  Warns(request.light /\ "lighter_options" \notin MarksOf[d.dining])

DistanceConstraint(d, request) ==
  Warns(/\ request.maxMeters # Unknown /\ RouteMeters(d.route) # Unknown
        /\ RouteMeters(d.route) > request.maxMeters)

\* Every action of the generator asks for a confirmation; a draft without
\* actions is let through with a warning.
ActionsRequireConfirmation(d) == Warns(d.actions = <<>>)

OrderAddonIsValid(d, e, a) ==
  /\ a.target # NoPlace /\ a.target = d.addon
  /\ Found(e.addon, a.target) /\ Entry(e.addon, a.target).category = "addon"
  /\ Verified(e, d.dining, a.target)

ActionRefersToDraft(d, e, a) ==
  CASE a.type = "book_ticket"        -> a.target = d.activity
    [] a.type = "reserve_restaurant" -> a.target = d.dining
    [] a.type = "join_queue"         -> a.target = d.dining
    [] a.type = "order_addon"        -> OrderAddonIsValid(d, e, a)
    [] a.type = "send_message"       -> a.target = "wife"

ActionsReferenceDraftObjects(d, e) ==
  Fails(\E i \in DOMAIN d.actions : ~ ActionRefersToDraft(d, e, d.actions[i]))

\* What the draft copies of the answers is searched for key names that are
\* secret or internal.
SensitivePayloadScan(d) == Fails("sensitive" \in d.copied)

Checks(d, e, request) ==
  [ candidate_ids_verified          |-> CandidateIdsVerified(d, e),
    dining_availability             |-> DiningAvailability(d, e),
    route_verified                  |-> RouteVerified(d, e),
    timeline_duration               |-> TimelineDuration(d, request),
    child_friendly_constraint       |-> ChildFriendlyConstraint(d, request),
    dining_preference_constraint    |-> DiningPreferenceConstraint(d, request),
    distance_constraint             |-> DistanceConstraint(d, request),
    actions_require_confirmation    |-> ActionsRequireConfirmation(d),
    actions_reference_draft_objects |-> ActionsReferenceDraftObjects(d, e),
    sensitive_payload_scan          |-> SensitivePayloadScan(d) ]

----------------------------------------------------------------------------
(* The review *)

Decision(results) ==
  IF "failed" \in results THEN "blocked"
  ELSE IF "warning" \in results THEN "approved_with_warnings" ELSE "approved"

ReviewedDraft(d, e, request) ==
  LET checks  == Checks(d, e, request)
      results == {checks[name] : name \in DOMAIN checks}
  IN  [ decision     |-> Decision(results),
        failed       |-> {n \in DOMAIN checks : checks[n] = "failed"},
        availability |-> AvailabilityStatus(d, e) ]

\* A draft fails, the review fails only when all of them do or there is none.
ReviewDecision(reviewed) ==
  LET decisions == {reviewed[i].decision : i \in DOMAIN reviewed}
  IN  CASE decisions \subseteq {"blocked"} -> "blocked"
        [] decisions = {"approved"}        -> "approved"
        [] OTHER                           -> "approved_with_warnings"

============================================================================
